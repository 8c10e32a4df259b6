CONSTANTS
    Device = {d1, d2}
    Lease = 3
    Interval = 1
    TickMax = 3
    ProofMax = 1
    MaxLife = 2
SPECIFICATION Spec
INVARIANT StaleSourceIsCutOff
PROPERTIES LeaseWithinValidity ReadyOnlyWhenProven
