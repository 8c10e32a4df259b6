CONSTANTS
    Requests = {r1, r2, r3}
    Sources = {a, b}
    TTL = 2
    Deadline = 1
    ExpiresAt = 2
    MaxTime = 3
    MaxSinks = 0
SPECIFICATION FairSpec
INVARIANTS TypeOK LeaseOutlivesRequests LeaseIsYoungestSurvivor OneSourcePerLease StartedClaimsStay RouteFollowsLease ObservedOnce
PROPERTY SwapHappens
CHECK_DEADLOCK FALSE
