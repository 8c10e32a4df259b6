CONSTANTS
    MaxGui = 2
    MaxEngine = 2
    MaxLease = 2
    Faults = {"lost", "fail", "die", "crash"}
SPECIFICATION GuiFairSpec
PROPERTIES TakesOnlyItsOwn StopLeavesNothing StartupSettles
