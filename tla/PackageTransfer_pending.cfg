\* No file operation fails and nothing restarts; the page is left or reloaded once.
CONSTANTS
    x1 = x1
    t1 = t1
    t2 = t2
    t3 = t3
    Exports = {x1}
    Transfers = {t1, t2, t3}
    None = None
    MaxReloads = 1
    MaxExits = 0
    Faulty = FALSE
SPECIFICATION Spec
SYMMETRY TransferSymmetry
CHECK_DEADLOCK FALSE
INVARIANT PendingIsStaged
