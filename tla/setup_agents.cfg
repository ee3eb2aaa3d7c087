SPECIFICATION Spec
CONSTANTS
    Words <- UsersWords  Body <- Bodies  Profiles <- SomeProfiles
    Targets = {"claude", "codex", "opencode", "antigravity"}
    MaxVersion = 2  MaxCommands = 3  MaxUpsets = 1
INVARIANTS STypeOK SetupSettles SetupIsCurrent UninstalledIsGone
 
CHECK_DEADLOCK FALSE
