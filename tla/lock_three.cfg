\* Three builders whose builds and pid writes are prompt.
SPECIFICATION Spec
CONSTANTS
    p1 = p1  p2 = p2  p3 = p3  None = None
    Proc <- ThreeProcs
    AcquireTimeout = 2  StaleAge = 3  PidWriteGrace = 1
    Faults <- CrashFaults
SYMMETRY Symmetry
INVARIANTS TypeOK OneUnrobbedHolder VerdictsAreSound
