CONSTANTS
    Conn = {k1, k2}
    NoOwner = NoOwner
    Work = {w1}
    MinLease = 1
    MaxLease = 2
    MaxTime = 2
    MaxSequence = 3
SPECIFICATION FairSpec
INVARIANTS LeaseIsControllers LeaseAgreement NoOwnerBetweenSessions
PROPERTIES DeadControllerLosesGate AbandonedWorkDrains
CHECK_DEADLOCK FALSE
