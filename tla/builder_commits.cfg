SPECIFICATION Spec
CONSTANTS
    f1 = f1  f2 = f2  f3 = f3  u = u  v = v  bin = bin
    Absent = Absent  None = None
    Order <- TwoFiles  Word = {u, v}  Binary = {}  Misnamed = {}
    Size <- SameLength
    OverlayThreshold = 2  CompactAbove = 2  CompactShare = 0  Env <- UnrulyGit
    MaxEdits = 2  MaxBuilds = 3  MaxCommits = 2
SYMMETRY Symmetry
INVARIANT CleanCommitIsComplete
CHECK_DEADLOCK FALSE
