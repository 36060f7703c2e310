CONSTANTS
    r1 = r1
    r2 = r2
    Requests = {r1, r2}
    NoOne = NoOne
    MaxRequests = 3
    MaxLosses = 2
    MaxFaults = 1
SPECIFICATION FairSpec
CHECK_DEADLOCK FALSE
INVARIANTS
    TypeOK
    RecoveredIsTested
    OneReplacement
    PendingMeansStopped
PROPERTIES
    RequestsReturn
