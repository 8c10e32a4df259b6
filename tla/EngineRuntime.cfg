CONSTANTS
    MaxLaunch = 2
    MaxLost = 1
    MaxCrash = 1
SPECIFICATION RuntimeSpec
INVARIANTS OneEngine ReadyRunsItsConfiguration
PROPERTY StoppedIsStopped
CHECK_DEADLOCK FALSE
