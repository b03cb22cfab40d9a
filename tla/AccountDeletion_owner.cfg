SPECIFICATION Spec
CONSTANTS
    ann = ann
    ben = ben
    cat = cat
    office = office
    studio = studio
    None = None
    People = {ann, ben, cat}
    Organisations = {office}
    Members <- OneOffice
    FirstRole <- OwnersAndStaff
    FirstInvited <- Nobody
    Translators = {}
    Tabs = {1}
    Reviewers = {1}
    MaxRequests = 2
    MaxMoves = 0
    Budget <- TwoDeletions
CHECK_DEADLOCK FALSE
PROPERTY
    DeletionLeavesAnOwner
