------------------------------- MODULE Sources -------------------------------
(***************************************************************************)
(* What ig shows and learns of source files, on growing inputs: a          *)
(* behaviour writes one more character, piece, line, definition or word,   *)
(* and the invariants compare what ig makes of the file with the file.     *)
(***************************************************************************)
EXTENDS Inputs, Matching, Blocks, Compressing, Cooccurrence

CONSTANTS
    MaxContent, MaxLong, MaxFiles, MaxItems, MaxPieces, MaxScored, MaxNames, MaxTexts,
    Regexes,            \* patterns, each with its alternatives
    Contexts,           \* [before, after]
    Caps,               \* [file, total]
    LineMaxima,         \* bytes of a printed line
    Items,              \* parts of a source file, each a sequence of lines
    LinePieces,         \* parts of a line: code, strings and comments
    ScoredLines, Budgets,
    NameLetters         \* letters of a word, small

SourceStart == [content |-> <<>>, long |-> <<>>, files |-> <<>>, source |-> <<>>, pieces |-> <<>>,
                scored |-> <<>>, names |-> <<>>, texts |-> <<<<>>>>]

SourceInit == part \in Parts \cap DOMAIN SourceStart /\ input = SourceStart[part]

Grow(name, max, more) ==
    /\ part = name /\ Len(input) < max
    /\ \E x \in more : input' = Append(input, x)
    /\ UNCHANGED part

MoreContent == Grow("content", MaxContent, {"a", "b", LineEnd})
MoreFiles == Grow("files", MaxFiles, 1 .. 4)
MoreSource == Grow("source", MaxItems, Items)
MoreScored == Grow("scored", MaxScored, ScoredLines)

\* A line of blanks and then characters of one byte or two.
MoreLong ==
    /\ part = "long" /\ Len(input) < MaxLong
    /\ \E piece \in {<<" ">>, <<"x">>, <<"lead", "rest">>} :
          /\ piece = <<" ">> => Len(input) < 3 /\ \A i \in DOMAIN input : input[i] = " "
          /\ input' = input \o piece
    /\ UNCHANGED part

\* After a comment the line is over.
MorePieces ==
    /\ part = "pieces" /\ Len(input) < MaxPieces
    /\ input /= <<>> => Last(input).kind /= "comment"
    /\ \E piece \in LinePieces : input' = Append(input, piece)
    /\ UNCHANGED part

\* The words of a name, each written small, with a capital, or in capitals.  Two
\* acronyms in a row, and an acronym after a digit, cannot be told apart.
MoreNames ==
    /\ part = "names" /\ Len(input) < MaxNames
    /\ \E w \in NameLetters, style \in {"small", "title", "capitals"} :
          /\ style = "small" => input = <<>>
          /\ input /= <<>> /\ style = "capitals" =>
                Last(input).style /= "capitals" /\ Last(Last(input).word) \notin Digits
          /\ input' = Append(input, [word |-> w, style |-> style])
    /\ UNCHANGED part

\* Texts of a file or two: a word more, a line more, or a file more.
MoreTexts ==
    /\ part = "texts" /\ Len(FlattenSeq(FlattenSeq(input))) + Len(FlattenSeq(input)) < MaxTexts
    /\ LET file == Last(input)
           put(f) == input' = Append(Front(input), f) IN
       \/ file /= <<>> /\ \E w \in {"t", "u", "v"} : put(Append(Front(file), Append(Last(file), w)))
       \/ put(Append(file, <<>>))
       \/ file /= <<>> /\ Len(input) < 2 /\ input' = Append(input, <<>>)
    /\ UNCHANGED part

SourceNext ==
    \/ MoreContent \/ MoreLong \/ MoreFiles \/ MoreSource \/ MorePieces \/ MoreScored \/ MoreNames \/ MoreTexts

-----------------------------------------------------------------------------
(* Matches *)

\* The lines of a text, read one character after the other.
SplitLines(content) ==
    FoldLeft(LAMBDA ls, c : IF c = LineEnd THEN Append(ls, <<>>)
                            ELSE Append(Front(ls), Append(Last(ls), c)),
             <<<<>>>>, content)

Configs(mode) == {c @@ [mode |-> mode] : c \in Contexts}

\* A line with several matches counts once, as many lines are counted as are
\* shown as matches, and a file is named when it has one (match_file; "identical
\* numbers" with rg -c).
LinesAreCountedOnce ==
    part = "content" => \A regex \in Regexes :
        LET lines == SplitLines(input)
            hits == {k \in DOMAIN lines : FindAt(regex, lines[k], 1) /= None}
            seen(mode) == {MatchFile(regex, input, c) : c \in Configs(mode)} IN
        IF hits = {} THEN \A mode \in {"files", "count", "lines"} : seen(mode) = {None}
        ELSE /\ \A r \in seen("count") : r.count = Cardinality(hits)
             /\ \A r \in seen("lines") : {k \in DOMAIN r.lines : ~r.lines[k].context} = hits

\* The lines shown are those at most so far from a match, each as it stands in
\* the file, once, and in each the places marked are the matches.
ShownLinesAreTheMatches ==
    part = "content" => \A regex \in Regexes, c \in Configs("lines") :
        LET lines == SplitLines(input)
            hits == {k \in DOMAIN lines : FindAt(regex, lines[k], 1) /= None}
            shown == IF hits = {} THEN <<>> ELSE MatchFile(regex, input, c).lines IN
        /\ DOMAIN shown = {k \in DOMAIN lines : \E h \in hits : k - c.after <= h /\ h <= k + c.before}
        /\ \A k \in DOMAIN shown :
              /\ shown[k].text = lines[k]
              /\ shown[k].ranges = FindAll(regex, lines[k])

\* A line that is cut is no longer than allowed, cuts no character in two, and
\* marks exactly those matches that are whole in what is left, where they are now
\* (truncate_match_line). It is not said that a match is left: see the next one.
CutLinesKeepTheirMatches ==
    part = "long" => \A max \in LineMaxima :
        LET line == [i \in DOMAIN input |-> <<input[i], i>>]
            between(i) == i = Len(input) + 1 \/ input[i] /= "rest"
            ranges == [k \in 1 .. (Len(input) + 1) * (Len(input) + 1) |->
                          [from |-> k \div (Len(input) + 1) + 1, to |-> (k % (Len(input) + 1)) + 1]]
            all == SelectSeq(ranges, LAMBDA r : /\ Blanks(line) < r.from /\ r.from < r.to
                                                /\ between(r.from) /\ between(r.to))
            cut == TruncateLine(line, all, max)
            texts(text, rs) == {SubSeq(text, r.from, r.to - 1) : r \in ToSet(rs)}
            whole(t) == \E i \in 0 .. Len(cut.text) - Len(t) : SubSeq(cut.text, i + 1, i + Len(t)) = t IN
        /\ Len(cut.text) <= max
        /\ texts(cut.text, cut.ranges) = {t \in texts(line, all) : whole(t)}
        /\ \A i \in DOMAIN cut.text :
              cut.text[i][1] = "rest" => i > 1 /\ cut.text[i - 1][1] \in {"lead", "rest"}
        /\ \A i \in DOMAIN cut.text :
              cut.text[i][1] = "lead" => i < Len(cut.text) /\ cut.text[i + 1][1] = "rest"

\* "If a match fits within the window, keep the window around the first match"
\* (src/src/output/printer.rs:864). It does not hold: the window is always the two
\* ends, and of a match in the middle of a long line nothing is printed.
WindowShowsTheFirstMatch ==
    part = "long" => \A max \in LineMaxima, from, to \in 1 .. Len(input) + 1 :
        LET line == [i \in DOMAIN input |-> <<input[i], i>>]
            between(i) == i = Len(input) + 1 \/ input[i] /= "rest" IN
        (/\ Blanks(line) < from /\ from < to /\ to - from + 2 * Len(Ellipsis) <= max
         /\ between(from) /\ between(to))
            => TruncateLine(line, <<[from |-> from, to |-> to]>>, max).ranges /= <<>>

\* No line is left out without a word: the lines printed of a file and those said
\* to follow are its lines, up to the notice that ends all, after which nothing
\* comes and before which the limit is used up (print_file_matches).
LimitsAreTold ==
    part = "files" => \A caps \in Caps :
        LET out == PrintFiles(caps, input).out
            of(kind, seq) == Sum([i \in DOMAIN seq |-> IF seq[i].kind = kind THEN seq[i].n ELSE 0])
            caught == SelectInSeq(out, LAMBDA e : e.kind = "cap") IN
        /\ caps.total > 0 => of("lines", out) <= caps.total
        /\ \A i \in DOMAIN out : out[i].kind = "lines" => caps.file = 0 \/ out[i].n <= caps.file
        /\ IF caught = 0 THEN of("path", out) = Sum(input) /\ of("lines", out) + of("more", out) = Sum(input)
           ELSE caught = Len(out) /\ of("lines", out) = caps.total

\* In the compact output, too: the matches of the files shown and those told to be
\* in further files are all there are, no file left out has more matches than one
\* shown, and no match is left unsaid, a file with one match in each line being
\* told exactly (print_compact).
CompactIsTold ==
    part = "files" => \A caps \in Caps, each \in 1 .. 2 : caps.total > 0 /\ caps.file > 0 =>
        LET files == [i \in DOMAIN input |-> [place |-> i, lines |-> input[i], count |-> each * input[i]]]
            p == PrintCompact([files |-> caps.total, file |-> caps.file], files)
            left == {f \in ToSet(files) : \A i \in DOMAIN p.out : p.out[i].place /= f.place} IN
        /\ p.matches = each * Sum(input)
        /\ MatchesIn(p.out) + p.moreMatches = p.matches
        /\ Len(p.out) + p.moreFiles = p.files /\ Cardinality(left) = p.moreFiles
        /\ \A i \in DOMAIN p.out :
              LET e == p.out[i] IN
              /\ e.shown <= caps.file /\ (e.more = 0 <=> e.shown = input[e.place])
              /\ each * e.shown + e.more >= e.count
              /\ each = 1 => e.shown + e.more = e.count
              /\ \A f \in left : f.count <= e.count
              /\ i > 1 => e.count <= p.out[i - 1].count

\* What a search prints are the matching lines, once, with their matches marked,
\* and the limits are told (matcher.rs, printer.rs).
PrintedAreTheMatches ==
    /\ LinesAreCountedOnce /\ ShownLinesAreTheMatches
    /\ CutLinesKeepTheirMatches /\ LimitsAreTold /\ CompactIsTold

-----------------------------------------------------------------------------
(* Reading.  Of each line of an item it is said what is to be left of it: the *)
(* line ("line"), a mark in its place ("mark"), or nothing ("none"); and, when *)
(* it begins a definition, how many lines on that ends (span).                *)

File == FlattenSeq(input)
Shown(entries) == SelectSeq(entries, LAMBDA e : e.what /= "blank")

\* Comments and bodies go, one mark for each body; every other line stays, in
\* its place, with fields and signatures however deep; blank lines are at most
\* one in a row (read_aggressive).
AggressiveElidesBodies ==
    part = "source" =>
        LET out == ReadAggressive(File)
            kept == SelectSeq([i \in DOMAIN File |-> [n |-> i, what |-> File[i].left]],
                              LAMBDA e : e.what /= "none" /\ ~File[e.n].blank) IN
        /\ Shown(out) = kept
        /\ \A i \in 1 .. Len(out) - 1 : out[i].what = "blank" => out[i + 1].what /= "blank"

\* The index and the file give the same signatures as long as the index keeps all
\* of the file's definitions; beyond that it misses those after the last it keeps.
SignaturesAgree ==
    part = "source" =>
        LET symbols == Symbols(File)
            all == {i \in DOMAIN File : File[i].def} IN
        ReadSignaturesCached(File, symbols)
            = SelectSeq(ReadSignatures(File), LAMBDA e : e.n \notin all \ ToSet(symbols) \/ File[e.n].import)

Definitions == {i \in DOMAIN File : File[i].def /\ File[i].span /= None}
Holding(i) == {d \in Definitions : d <= i /\ i <= d + File[d].span}

\* The block around a line is, by the index, the innermost definition that holds
\* it, and without the index the outermost, when the braces are on the lines that
\* open them; a block ends where the definition does (find_block_end,
\* extract_block, extract_block_cached).
BlockIsTheDefinition ==
    part = "source" /\ (\A i \in DOMAIN File : ~File[i].lone /\ (File[i].def => File[i].span /= None)) =>
        /\ \A d \in Definitions : FindBlockEnd(File, d) = d + File[d].span
        /\ \A i \in DOMAIN File : Holding(i) /= {} =>
              LET inner == Max(Holding(i))
                  outer == Min(Holding(i)) IN
              /\ Cardinality(Definitions) <= MaxSymbols =>
                    ExtractBlockCached(File, i, BlocksOf(File)) = [first |-> inner, last |-> inner + File[inner].span]
              /\ ExtractBlock(File, i) = [first |-> outer, last |-> outer + File[outer].span]

LineOf(pieces) == FlattenSeq([i \in DOMAIN pieces |-> pieces[i].text])

\* A comment begins where a reader of the language sees one, not in a string,
\* whatever its quotes and escapes, and a string is shortened as a whole
\* (strip_inline_comment, strip_long_strings).
CommentsEndTheCode ==
    part = "pieces" =>
        LET code == SelectSeq(input, LAMBDA p : p.kind /= "comment")
            short(p) == IF p.kind = "string" /\ Len(p.text) > LongString
                        THEN [p EXCEPT !.text = <<@[1]>> \o Dots \o <<@[1]>>] ELSE p
            left == LineOf([i \in DOMAIN code |-> short(code[i])]) IN
        StripLongStrings(StripInlineComment(LineOf(input), <<"/", "/">>))
            = IF Len(code) < Len(input) THEN TrimEnd(left) ELSE left

\* A reader sees what a source is made of: bodies and comments end where they do,
\* signatures and blocks are the definitions (read.rs, context.rs, filedata.rs).
ReadingKeepsTheShape ==
    /\ AggressiveElidesBodies /\ SignaturesAgree
    /\ BlockIsTheDefinition /\ CommentsEndTheCode

-----------------------------------------------------------------------------
(* Compressing *)

\* What is left out is said where it was; it fits, or nothing is left; the lines
\* that go have the lowest scores, none goes without need, and a signature only
\* after all that is none (fit_to_budget).  Merging loses no line: the lines that
\* stand for others and the others make up the file (deduplicate_lines).
BudgetDropsTheLeast ==
    part = "scored" =>
        LET lines == [i \in DOMAIN input |-> input[i] @@ [n |-> i, x |-> 1]]
            all == DeduplicateLines([i \in DOMAIN lines |-> lines[i] @@ [score |-> Score(lines[i])]]) IN
        /\ Sum([i \in DOMAIN all |-> all[i].x]) = Len(input)
        /\ \A budget \in Budgets :
              LET out == CompressLsc(lines, budget)
                  kept == SelectSeq(out, LAMBDA l : l.kind /= "omitted")
                  gone == SelectSeq(all, LAMBDA l : l \notin ToSet(kept))
                  width(ls) == Sum([i \in DOMAIN ls |-> PrintedWidth(ls[i])])
                  gaps == SelectSeq([i \in DOMAIN out |-> i], LAMBDA i : out[i].kind = "omitted") IN
              /\ kept = SelectSeq(all, LAMBDA l : l \in ToSet(kept))
              /\ Len(kept) + Sum([i \in DOMAIN gaps |-> out[gaps[i]].n]) = Len(all)
              /\ width(kept) <= 4 * budget
              /\ gone /= <<>> => width(kept) + Max({PrintedWidth(l) : l \in ToSet(gone)}) > 4 * budget
              /\ \A g \in ToSet(gone), k \in ToSet(kept) :
                    g.score <= k.score \/ (g.score < SignatureScore /\ k.score >= SignatureScore)

\* Two lines are repetitions when they differ in their strings only: a line has
\* the pattern of the line with other strings in their place, in whatever quotes
\* and with whatever escapes, and its code is still in it (pattern_key).
PatternsForgetStrings ==
    part = "pieces" =>
        LET other == [i \in DOMAIN input |->
                         IF input[i].kind = "string" THEN [input[i] EXCEPT !.text = <<"'", "y", "'">>] ELSE input[i]]
            starred == [i \in DOMAIN input |->
                         CASE input[i].kind = "string" -> Star
                           [] input[i].kind = "member" -> Front(input[i].text) \o Star
                           [] OTHER -> input[i].text]
            plain == \A i \in DOMAIN input : input[i].kind /= "comment"
            apart == \A i \in 1 .. Len(input) - 1 : input[i].kind = "member" => input[i + 1].text[1] \notin Letter IN
        /\ PatternKey(LineOf(input)) = PatternKey(LineOf(other))
        /\ plain /\ apart => PatternKey(LineOf(input)) = FlattenSeq(starred)

-----------------------------------------------------------------------------
(* Words *)

ToUpper(word) == [i \in DOMAIN word |->
    IF \E c \in Capital : Lower[c] = word[i] THEN CHOOSE c \in Capital : Lower[c] = word[i] ELSE word[i]]

Written(piece) ==
    CASE piece.style = "small" -> piece.word
      [] piece.style = "title" -> ToUpper(SubSeq(piece.word, 1, 1)) \o Tail(piece.word)
      [] piece.style = "capitals" -> ToUpper(piece.word)

\* A name gives the same words however it is written: with capitals, with
\* underscores, with hyphens, or in capitals with underscores (tokenize).
NamesSplitAlike ==
    part = "names" =>
        LET words == [i \in DOMAIN input |-> input[i].word]
            joined(sep) == FlattenSeq([i \in DOMAIN words |-> IF i = 1 THEN words[i] ELSE <<sep>> \o words[i]])
            kept == SelectSeq(words, LAMBDA w : w \notin StopWords) IN
        /\ Tokenize(FlattenSeq([i \in DOMAIN input |-> Written(input[i])])) = kept
        /\ Tokenize(joined("_")) = kept /\ Tokenize(joined("-")) = kept
        /\ Tokenize(ToUpper(joined("_"))) = kept

\* Every word with its number of line among those that are looked at, file by file.
Places(text) ==
    LET lines == SelectSeq(text, LAMBDA l : l /= <<>> /\ Len(l) <= MaxLineTokens) IN
    {<<k, i, lines[k][i]>> : <<k, i>> \in {p \in (DOMAIN lines) \X (1 .. MaxLineTokens) : p[2] <= Len(lines[p[1]])}}

Near(text, a, b) ==
    Cardinality({pq \in Places(text) \X Places(text) :
        /\ pq[1][3] = a /\ pq[2][3] = b
        /\ -Lookback <= pq[1][1] - pq[2][1] /\ pq[1][1] - pq[2][1] <= Lookback})

\* Two words are counted together as often as they stand in one file at most
\* Lookback lines apart, in whatever order; and never more often, nor more words or
\* pairs than the tables hold, once one of these is full (feed_text).
PairsCountNeighbours ==
    part = "texts" =>
        LET built == FoldLeft(FeedText, Nothing, input)
            words == ToSet(FlattenSeq(FlattenSeq(input)))
            apart(a, b) == Sum([i \in DOMAIN input |-> Near(input[i], a, b)]) IN
        /\ Cardinality(built.tokens) <= MaxTokens /\ Cardinality(DOMAIN built.pairs) <= MaxPairs
        /\ \A a \in words : \A b \in words \ {a} :
              LET counted == IF {a, b} \in DOMAIN built.pairs THEN built.pairs[{a, b}] ELSE 0 IN
              /\ counted <= apart(a, b)
              /\ Cardinality(built.tokens) < MaxTokens /\ Cardinality(DOMAIN built.pairs) < MaxPairs =>
                    counted = apart(a, b)

\* What condenses a source goes by what is in it: lines by score and pattern,
\* words by how they are written and where they stand (scoring.rs, semantic/).
CondensingIsAccounted ==
    /\ BudgetDropsTheLeast /\ PatternsForgetStrings
    /\ NamesSplitAlike /\ PairsCountNeighbours
=============================================================================
