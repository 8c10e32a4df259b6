CONSTANTS
    Writer = {w1, w2}
    Setter = {d1, d2}
    Revoker = {v1, v2}
    Closer = Closer
    NoOne = NoOne
SPECIFICATION FenceFairSpec
INVARIANTS CompletedIsJoined RevokedDeadlineStays
PROPERTIES RevokedWriteEnds CloseCompletes
CHECK_DEADLOCK FALSE
