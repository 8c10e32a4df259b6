CONSTANTS
    Sources = {s1, s2, s3}
    Proxy = proxy
    Requests = {r1, r2}
    MaxForged = 1
    MaxHops = 3
    Every = 2
    Burst = 1
    GlobalEvery = 1
    GlobalBurst = 2
    MaxConcurrent = 2
    MaxPerSource = 1
    MaxSources = 2
    IdleTTL = 2
    SweepEvery = 2
    MaxTime = 5
SPECIFICATION Spec
INVARIANTS TypeOK ValidConfig RetryIsEnough ChargedToPeer
PROPERTY KeepsPromise
CHECK_DEADLOCK FALSE
