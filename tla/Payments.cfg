SPECIFICATION MCSpec
CONSTANTS
    p1 = p1
    p2 = p2
    h1 = h1
    c1 = c1
    c2 = c2
    PaymentIds = {p1, p2}
    TxHashes = {h1}
    Addresses = {"shop", "other"}
    Shops = {"shop"}
    Micros <- MCMicros
    LossyMicros <- MCLossy
    TwoDecimals <- MCTwoDecimals
    RequestForms <- MCRequestForms
    Permissions <- MCPermissions
    AgePermissions = {"age_over_21"}
    RegionPermissions = {}
    DefaultExpiry = 0
    MaxTime = 1
    MaxClients = 2
    Callers = {c1, c2}
    Networks = {"xrpl", "midnight", "cardano"}
SYMMETRY Symmetry
INVARIANTS
    TypeOK
    ConfirmedMeansPaid
    ReportedIsFinal
    SuccessMeansApplied
    SerialConnection
    AcceptedAnswersItsRequest
PROPERTIES
    ConfirmationKept
CHECK_DEADLOCK FALSE
