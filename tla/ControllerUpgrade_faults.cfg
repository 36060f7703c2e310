CONSTANTS
    c1 = c1
    c2 = c2
    c3 = c3
    Containers = {c1, c2, c3}
    Versions = {1, 2}
    Updates <- AnyUpdate
    None = None
    Missing = Missing
    Faults = {"docker", "files"}
    Interrupted = FALSE
    MaxUpdates = 2
    MaxWrites = 2
    MaxCrashes = 1
SPECIFICATION FairSpec
CHECK_DEADLOCK FALSE
INVARIANTS
    TypeOK
    OneController
    StateIsQuiet
    UserDataSurvives
    FailedUpgradeRestores
PROPERTIES
    BootstrapReturns
