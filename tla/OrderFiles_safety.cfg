SPECIFICATION Spec
CONSTANTS
    f1 = f1
    f2 = f2
    d1 = d1
    d2 = d2
    o1 = o1
    s1 = s1
    s2 = s2
    None = None
    Files = {f1, f2}
    InVault = {f1}
    Documents = {d1, d2}
    Orders = {o1}
    OrderOf <- OneOrder
    Clerks = {1}
    Syncers = {s1, s2}
    MaxTroubles = 2
SYMMETRY Symmetry
CHECK_DEADLOCK FALSE
INVARIANTS
    Recoverable
    PurgeLeavesNothing
    CopiedOnce
PROPERTY
    OnlyLiveIntoDrive
