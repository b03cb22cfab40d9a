SPECIFICATION FairSpec
CONSTANTS
    f1 = f1
    f2 = f2
    d1 = d1
    d2 = d2
    o1 = o1
    s1 = s1
    s2 = s2
    None = None
    Files = {f1}
    InVault = {f1}
    Documents = {d1, d2}
    Orders = {o1}
    OrderOf <- OneOrder
    Clerks = {1}
    Syncers = {s1, s2}
    MaxTroubles = 3
CHECK_DEADLOCK FALSE
PROPERTIES
    Reclaimed
    CopiesAreCapped
