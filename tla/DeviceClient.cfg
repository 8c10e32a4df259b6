CONSTANTS
    Key = {k1, k2}
    Rid = {r1, r2}
    Slot = {s1}
    NoKey = NoKey
    Activation = Activation
    MaxChallenges = 1
    MaxReserve = 1
    MaxCancellations = 2
    MaxPerPrincipal = 1
    MaxGen = 2
SPECIFICATION LiveSpec
INVARIANTS OneOutcome HoldsItsKeys DiscardedNeverCommits ClientFollowsHub
PROPERTY PendingResolves
CHECK_DEADLOCK FALSE
