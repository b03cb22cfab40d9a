SPECIFICATION Spec
CONSTANTS
    Clerks = {a, b}
    Clients = {"keti", "gio"}
    Translators = {"tina"}
    None = None
    Keep = Keep
    Expenses = {e1}
    Forms = {pay1, pay2, payout, notary}
    pay1 = pay1
    pay2 = pay2
    payout = payout
    notary = notary
    TypedPrice = 1000
    DeliveryFee = 700
    Included = 2
    DocumentLimit = 2
    MaxOrders = 2
    MaxDocs = 3
    Lines <- MCLines
    Settings <- MCSettings
    OwnRate <- MCOwnRates
    Items <- MCItems
    NewOrders <- MCNewOrders
    Changes <- MCChanges
    Headers <- MCHeaders
    Form <- MCForm
    Budget <- MCBudget
INVARIANTS DrawnNumberIsFree OneRowPerForm MoneyStaysWithItsClient PriceFollowsUrgency CardsAgree
PROPERTIES PaymentNeverOverpays NothingIsLostOnTheSide
SYMMETRY MCSymmetry
CHECK_DEADLOCK FALSE
