SPECIFICATION MCSpec
CONSTANTS
    k1 = k1
    k2 = k2
    r1 = r1
    r2 = r2
    p1 = p1
    p2 = p2
    s1 = s1
    s2 = s2
    Consents = {k1, k2}
    Requests = {r1, r2}
    Provers = {p1, p2}
    Sessions = {s1, s2}
    MaxStops = 2
INVARIANTS
    TypeOK
    AnswerMatchesWallet
    RequestAcceptedOnce
    ReaderInStep
PROPERTIES
    SigningAnswered
CHECK_DEADLOCK FALSE
