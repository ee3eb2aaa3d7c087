SPECIFICATION Spec
CONSTANTS
    Blooms = 2
    Locs = 2
    Zones = 2
    Width = 8
    GallopRatio = 2
    Radix = 2
    MaxCells = 5
    SkipMin = 3
    SkipBlock = 2
    KeyRange = 9
    NewKeyCost = 2
    PostingCost = 1
    Budget = 5
    OffsetRange = 64
    Fold <- MCFold
    MaxLen = 4
    None = None
    MaxWeights = 6
    WeightRange = 3
    Maxima <- MCMaxima
    MaxId = 4
    MaxDocs = 3
    MaxKey = 3
    MaskBits = {1, 2}
    MaxText = 4
    Bytes <- MCBytes
    ByteWeight <- MCWeight
    Alphabets <- MCAlphabets
    MaxChars <- MCMaxChars
    MaxWords = 5
    MaxLines = 5
    MaxTests = 4
    MaxTotal = 8
    MaxRules = 3
    Letters <- MCLetters
    LongOptions <- MCLongOptions
    Globs = {"*"}
    Largest = {}
    PathLike = {"./..."}
    Vocabulary <- MCVocabulary
    Tools = {"cargo", "go", "pytest", "ruff"}
    Builtin <- MCBuiltin
    Familiar = {"git", "cat"}
    AllCommands <- MCCommandsGiven
    Texts = {"a", "b", "A", ""}
    Filters <- MCFilters
    Plain <- MCPlain
    EndBound = {}
    MaxSymbols = 3
    LongString = 5
    Around = 1
    MaxContent = 6
    MaxLong = 9
    MaxFiles = 4
    MaxItems = 3
    MaxPieces = 4
    MaxScored = 4
    MaxNames = 3
    MaxTexts = 6
    Regexes <- MCRegexes
    Contexts <- MCContexts
    Caps <- MCCaps
    LineMaxima = {5, 6, 7}
    Items <- MCItems
    LinePieces <- MCLinePieces
    ScoredLines <- MCScoredLines
    Budgets = {2, 5, 8, 12}
    NameLetters <- MCNameLetters
    Small = {"a", "b"}
    Capital = {"A", "B"}
    Digits = {"1"}
    Lower <- MCLower
    MinLen = 2
    StopWords <- MCStopWords
    Lookback = 1
    MaxLineTokens = 3
    MaxTokens = 2
    MaxPairs = 2
    MaxDepth = 5
    MaxProjectFiles = 2
    MaxEvents = 5
    MaxBody = 6
    DirNames = {"src", "vendor"}
    NoiseDirs = {"vendor"}
    StackOf <- MCStackOf
    StackDepth = 3
    BodyTokens = {"t", "rule", "<!--", "-->", "backticks"}
    Parts = {"weights", "lists", "docs", "keys", "entries", "query", "quote", "compound", "redirects",
             "prefix", "args", "rules", "lines", "delta", "suites", "lints", "events",
             "content", "long", "files", "source", "pieces", "scored", "names", "texts",
             "chain", "project", "session", "body"}
INVARIANTS
    NgramsAgree StoredListsAreExact ResolveMissesNothing
    CommandsKeepTheirMeaning FilesOnlyTighten OutputsAreAccounted
    PrintedAreTheMatches ReadingKeepsTheShape CondensingIsAccounted
    SurroundingsAreRead
CHECK_DEADLOCK FALSE
