CONSTANTS
    None = None
    Update = {u1, u2, u3}
    Call = {c1, c2, c3}
    Faults <- AllFaults
SPECIFICATION Spec
SYMMETRY Symmetry
INVARIANTS TypeOK NoSilentLoss ResetForgets
PROPERTIES TornNeedsOverlap
