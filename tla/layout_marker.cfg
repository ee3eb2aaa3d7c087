SPECIFICATION LSpec
CONSTANTS
    Nothing = Nothing
    Caller = {c1, c2} Entry = {x} File = {f}
    Patience = 1 MaxVersion = 2 MaxDeaths = 0 MaxErrors = 0
INVARIANTS MarkedIsMigrated
CHECK_DEADLOCK FALSE
