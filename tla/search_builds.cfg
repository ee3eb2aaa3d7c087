SPECIFICATION SearchSpec
CONSTANTS
    f1 = f1  f2 = f2  f3 = f3  u = u  v = v  bin = bin
    Absent = Absent  None = None
    Order <- TwoFiles  Word = {u, v}  Binary = {}  Misnamed = {}
    Size <- SameLength
    OverlayThreshold = 1  CompactAbove = 9  CompactShare = 0  Env <- Crashing
    MaxEdits = 2  MaxBuilds = 3  MaxCommits = 0  MaxSearches = 1
SYMMETRY Symmetry
INVARIANTS NeverOlderThanMetadata SearchIsComplete
CHECK_DEADLOCK FALSE
