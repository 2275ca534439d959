SPECIFICATION MCSpec
CONSTANTS
    p1 = p1
    p2 = p2
    None = None
    Wallet = Wallet
    Legacy = Legacy
    Procs = {p1, p2}
    Permissions = {"age_over_21", "order_paid"}
    Audiences = {"shop"}
    DeckDefinitions <- MCDefinitions
    SourceRefs <- MCRefs
    Sessions <- MCSessions
    Claimed <- MCClaimed
SYMMETRY Symmetry
INVARIANTS
    TypeOK
    KeysAgree
    
    ProofsConsented
    
    VerdictsAgree
PROPERTIES
    LossExplained
CHECK_DEADLOCK FALSE
