SPECIFICATION LSpec
CONSTANTS
    Nothing = Nothing
    Caller = {c1, c2} Entry = {x} File = {f, g}
    Patience = 1 MaxVersion = 2 MaxDeaths = 1 MaxErrors = 1
INVARIANTS LTypeOK NothingIsLost MarkedIsTried
PROPERTIES CallsEnd
CHECK_DEADLOCK FALSE
