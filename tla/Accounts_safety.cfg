SPECIFICATION Spec
CONSTANTS
    None = None
    nino = nino
    dato = dato
    gio = gio
    bureau = bureau
    platform = platform
    People = {nino, dato, gio}
    atelier = atelier
    Orgs = {bureau, platform, atelier}
    Start <- MCStart
    SignedIn <- MCSignedIn
    Enrolled <- MCEnrolled
    Offered = {"admin", "owner"}
    Connected = TRUE
    RequireEnrolment = FALSE
    Desks = {k1, k2}
    MaxSessions = 3
    MaxLinks = 2
    MaxSteps = 2
    Budget <- MCBudget
SYMMETRY Symmetry
INVARIANTS
    OldPasswordOpensNothing
    LinkSpentOnce
    CodeUsedOnce
PROPERTY SomeoneRunsIt
CHECK_DEADLOCK FALSE
