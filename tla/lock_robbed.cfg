\* Three builders to which nothing happens: what is claimed of the lock does not hold.
SPECIFICATION Spec
CONSTANTS
    p1 = p1  p2 = p2  p3 = p3  None = None
    Proc <- ThreeProcs
    AcquireTimeout = 2  StaleAge = 3  PidWriteGrace = 1
    Faults = {}
SYMMETRY Symmetry
INVARIANT MutualExclusion
