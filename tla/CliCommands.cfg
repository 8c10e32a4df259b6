CONSTANTS
    Contents = {a, b}
    Options = {0, 2}
    Modes = {FALSE}
    DefaultPort = 1
    LegacyHub = TRUE
    Devices = FALSE
    Rotating = TRUE
    Faults = FALSE
    MaxKeys = 2
SPECIFICATION Spec
INVARIANTS TypeOK AnsweredTruly
PROPERTY NoNeedlessRestart
CHECK_DEADLOCK FALSE
