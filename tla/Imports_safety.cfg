SPECIFICATION ImportSpec
CONSTANTS
    Absent = Absent
    Heading = Heading
    Workbooks = {"people", "jobs", "staff", "book"}
    Workbook <- MCFile
    First <- MCFirst
    Importers = {a, b}
    MaxPeople = 6
    MaxOrders = 4
    MaxBatches = 2
    MaxStaff = 1
SYMMETRY MCSymmetry
INVARIANT NothingTwice
PROPERTY UndoSparesOthers
CHECK_DEADLOCK FALSE
