SPECIFICATION Spec
CONSTANTS
    f1 = f1  f2 = f2  f3 = f3  u = u  v = v  bin = bin
    Absent = Absent  None = None
    Order <- TwoFiles  Word = {u, v, bin}  Binary = {bin}  Misnamed = {}
    Size <- OwnLength
    OverlayThreshold = 1  CompactAbove = 1  CompactShare = 2  Env <- CrashesAndRaces
    MaxEdits = 3  MaxBuilds = 3  MaxCommits = 0
INVARIANTS TypeOK FreshIsComplete OverlayFitsBase
CHECK_DEADLOCK FALSE
