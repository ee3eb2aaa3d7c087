\* Two builders that may die and whose pids may run again.
SPECIFICATION FairSpec
CONSTANTS
    p1 = p1  p2 = p2  p3 = p3  None = None
    Proc <- TwoProcs
    AcquireTimeout = 2  StaleAge = 3  PidWriteGrace = 1
    Faults <- CrashFaults
PROPERTIES WaitEnds
