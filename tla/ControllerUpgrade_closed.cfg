CONSTANTS
    c1 = c1
    c2 = c2
    c3 = c3
    Containers = {c1, c2, c3}
    Versions = {1, 2}
    Updates <- Upgrades
    None = None
    Missing = Missing
    Faults = {}
    Interrupted = TRUE
    MaxUpdates = 1
    MaxWrites = 1
    MaxCrashes = 1
SPECIFICATION Spec
CHECK_DEADLOCK FALSE
INVARIANTS
    FailedUpgradeRestores
