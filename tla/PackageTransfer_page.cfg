\* One export, three transfers, the page left or reloaded once, one end of the desktop.
CONSTANTS
    x1 = x1
    t1 = t1
    t2 = t2
    t3 = t3
    Exports = {x1}
    Transfers = {t1, t2, t3}
    None = None
    MaxReloads = 1
    MaxExits = 1
    Faulty = TRUE
SPECIFICATION Spec
SYMMETRY TransferSymmetry
CHECK_DEADLOCK FALSE
INVARIANTS
    TypeOK
    ExportIsSafe
    PartialsAreRemoved
    StopIsHonoured
