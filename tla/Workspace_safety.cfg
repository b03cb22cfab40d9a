SPECIFICATION Spec
CONSTANTS
    None = None
    nino = nino
    dato = dato
    luka = luka
    bureau = bureau
    studio = studio
    Home = bureau
    Accounts = {bureau, studio}
    Personal = {}
    People = {nino, dato, luka}
    Roster <- MCRoster
    Withheld <- MCWithheld
    Offered = {"staff", "admin"}
    Forms <- MCForms
    Desks = {k1, k2}
    Budget <- MCBudget
    MaxMonth = 2
    Listed <- MCListed
    Edits <- MCEdits
    MaxComments = 2
SYMMETRY Symmetry
INVARIANTS
    BillsWhatIsDue
    ToldOnce
PROPERTY NobodyGivesBeyondTheirOwn
CHECK_DEADLOCK FALSE
