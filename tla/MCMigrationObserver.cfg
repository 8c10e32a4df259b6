CONSTANTS
    t1 = t1
    t2 = t2
    a1 = a1
    a2 = a2
    Tokens <- TwoTokens
    Attempts <- TwoAttempts
    Shapes <- TwoShapes
    Inventories <- OneInventory
    Capacity = 1
    MaxRuns = 2
    MaxFaults = 1
    MaxDark = 1
    Orderly = FALSE
SPECIFICATION Spec
SYMMETRY SameAttempts
INVARIANTS HealthyMeansComplete FactsAreTheHistory
CHECK_DEADLOCK FALSE
