CONSTANTS
    Lanes = 2
    ChanCap = 1
    WireCap = 2
    Window = 3
    Sizes = {1, 2}
    MaxChunks = 5
SPECIFICATION FairSpec
INVARIANTS DeliveredInOrder NoSilentTruncation
PROPERTY RelayReturns
CHECK_DEADLOCK FALSE
