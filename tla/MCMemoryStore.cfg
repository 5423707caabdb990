SPECIFICATION Spec
CONSTANTS
    i1 = i1
    i2 = i2
    x = x
    y = y
    c1 = c1
    c2 = c2
    None = None
    Ids <- TwoIds
    Texts <- TwoTexts
    Inputs <- TwoInputs
    Callers <- TwoCallers
    Ttl = 2
    MaxClock = 4
SYMMETRY StoreSymmetry
INVARIANTS
    PurgeIsComplete
PROPERTIES
    KeepsContract
