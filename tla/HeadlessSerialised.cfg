CONSTANTS
    g1 = g1
    g2 = g2
    r1 = r1
    r2 = r2
    None = None
    Grant = {g1, g2}
    Deck = {d1}
    App = {a1}
    Perm = {p1}
    Call = {c1, c2}
    Ref = {r1, r2}
    RefOf <- OwnRef
    Expiring = {g1}
    Edits <- SomeEdits
    Wanted <- NonEmpty
    Serialised = TRUE
SYMMETRY CallSymmetry
SPECIFICATION Spec
INVARIANTS TypeOK LedgerNotAhead UnbackedProofExplained
PROPERTIES ImplementsRegistry
