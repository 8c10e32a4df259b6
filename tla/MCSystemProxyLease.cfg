CONSTANTS
    a1 = a1
    a2 = a2
    b1 = b1
    Engine <- MCEngine
    HomeOf <- MCHomeOf
    N = 2
    MaxExt = 1
    MaxFail = 1
    MaxStart = 4
SPECIFICATION FairSpec
INVARIANTS OriginalsKept JournalCoversWrites GracefulStopLeavesNoLease
PROPERTY DeadLeasesRecovered
CHECK_DEADLOCK FALSE
