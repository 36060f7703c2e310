CONSTANTS
    e1 = e1
    e2 = e2
    r1 = r1
    r2 = r2
    Envs = {e1, e2}
    Requests = {r1, r2}
    Ports = {1, 2, 3}
    NoOne = NoOne
    NoRow = NoRow
    Tables <- SomeTables
    Modes <- SomeModes
    MaxForeign = 1
SPECIFICATION Spec
CHECK_DEADLOCK FALSE
INVARIANTS
    TypeOK
    RefreshIsCurrent
    PortsDistinct
    InSync
    RowsHaveContainers
PROPERTIES
    ConflictsAreNews
