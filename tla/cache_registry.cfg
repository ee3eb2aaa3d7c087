SPECIFICATION Spec
CONSTANTS
    p1 = p1  p2 = p2  e1 = e1  e2 = e2  e3 = e3  web = web  None = None
    Proc = {p1, p2}  Project = {e1, e2}  Name = {web}
    NameOf <- TwoWebs  Size <- Ones
    MaxAge = 1  Cap = 1  Interval = 1
    MaxNow = 2  MaxOps = 3  MaxFaults = 1
SYMMETRY Symmetry
INVARIANTS TypeOK PrunesTheOldest SoloRegistryIsExact
PROPERTIES CollectionsSpaced
CHECK_DEADLOCK FALSE
