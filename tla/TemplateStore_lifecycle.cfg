CONSTANTS
    c1 = c1
    c2 = c2
    i1 = i1
    x1 = x1
    r1 = r1
    r2 = r2
    d1 = d1
    e1 = e1
    Images = images
    Nothing = nothing
    Creates = {c1, c2}
    Imports = {i1}
    Exports = {x1}
    Restores = {r1}
    Deletes = {d1}
    BaseEnvs = {e1}
    Modes <- OneCreate
SPECIFICATION Spec
CHECK_DEADLOCK FALSE
INVARIANTS
    SnapshotIsOfStopped
