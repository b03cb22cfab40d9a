SPECIFICATION FairSpec
CONSTANTS
    ann = ann
    ben = ben
    cat = cat
    office = office
    studio = studio
    None = None
    People = {ann, ben}
    Organisations = {office, studio}
    Members <- TwoPlaces
    FirstRole <- AllOwners
    FirstInvited <- BenInvited
    Translators = {ann}
    Tabs = {1, 2}
    Reviewers = {1, 2}
    MaxRequests = 2
    MaxMoves = 1
    Budget <- FewChoices
CHECK_DEADLOCK FALSE
INVARIANTS
    OneOpenRequest
    FilingEndsSessions
    PortalComesBack
    ErasedWithConsent
PROPERTY
    ApprovedIsCarriedOut
