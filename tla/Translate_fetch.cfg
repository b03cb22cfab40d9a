SPECIFICATION Spec
CONSTANTS
    None = None
    tina = tina
    keti = keti
    gio = gio
    Sources = {s}
    People = {tina, keti, gio}
    PortalUsers = {tina}
    MaxPages = 1
    MaxJobs = 2
    MaxFiles = 3
    MaxSaves = 2
SYMMETRY Symmetry
INVARIANT CompletedHasResult
CHECK_DEADLOCK FALSE
