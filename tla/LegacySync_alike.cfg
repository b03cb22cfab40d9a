SPECIFICATION SyncSpec
CONSTANTS
    NoOrder = NoOrder
    Old = {1, 2}
    Clients = {"keti", "gio"}
    ClientOf <- MCClientOf
    Contact = {"gio"}
    Translators = {"tina"}
    By <- MCBy
    Recorded = {2}
    Statuses = {"new", "ready"}
    Initial = "new"
    Amounts = {1, 2}
    Entries <- MCEntries
    MaxTime = 1
    MaxDumps = 3
    MaxRows = 2
    MaxStaff = 1
    MaxOld = 3
    MaxRuns = 3
INVARIANT EveryRowComesOver
CHECK_DEADLOCK FALSE
