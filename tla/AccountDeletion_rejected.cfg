SPECIFICATION Spec
CONSTANTS
    ann = ann
    ben = ben
    cat = cat
    office = office
    studio = studio
    None = None
    People = {ann, ben}
    Organisations = {office, studio}
    Members <- TwoPlaces
    FirstRole <- AllOwners
    FirstInvited <- Nobody
    Translators = {ann}
    Tabs = {1}
    Reviewers = {1}
    MaxRequests = 1
    MaxMoves = 0
    Budget <- RejectChoices
CHECK_DEADLOCK FALSE
PROPERTY
    RejectedIsKept
