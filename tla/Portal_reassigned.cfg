SPECIFICATION Spec
CONSTANTS
    None = None
    tina = tina
    levan = levan
    mail = mail
    phone = phone
    metro = metro
    will = will
    deed = deed
    Persons = {tina, levan}
    SignIn <- MCSignIn
    Contacts = {mail, phone}
    Emails = {mail}
    Listed = {{mail}, {mail, phone}}
    Bureaus = {metro}
    Documents = {deed, will}
    BureauOf <- MCBureauOf
    Desks = {k1, k2}
    MaxRows = 2
    MaxPersonal = 1
    Budget <- MCBudget
    Hired <- MCHired
SYMMETRY Symmetry
PROPERTY AssignedWhenFiled
CHECK_DEADLOCK FALSE
