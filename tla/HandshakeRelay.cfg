CONSTANTS
    Secure = FALSE
    MaxDials = 3
    ReplayLimit = 2
    Chunks = 4
SPECIFICATION Spec
INVARIANTS TypeOK RelayAssumption OneTargetAnswers AnsweringTargetHasThePrefix PlainRequestsNotRepeated NoConnectionLeft
CHECK_DEADLOCK FALSE
