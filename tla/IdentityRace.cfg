CONSTANTS
    None = None
    Id = {i1, i2}
    Hash = {h1, h2, h3}
    Call = {c1, c2}
SPECIFICATION Spec
PROPERTIES CreatedOnce
