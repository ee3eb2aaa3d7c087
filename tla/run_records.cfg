SPECIFICATION Spec
CONSTANTS
    p1 = p1  p2 = p2  f1 = f1  test = test  old = old  None = None
    Proc = {p1, p2}  Filter = {f1}  Slug = {test}  Old = {old}
    MaxFiles = 1  Ttl = 0
    MaxNow = 1  MaxRuns = 2  MaxOps = 1  MaxEdits = 1  MaxFaults = 1
SYMMETRY Symmetry
INVARIANTS RTypeOK OnlyTrustedFilters NewestIsKept EndedRunsHaveRows OldHistoryIsInTheTable
PROPERTIES LogOfRuns
CHECK_DEADLOCK FALSE
