SPECIFICATION BackendsSpec
CONSTANTS
    i1 = i1
    i2 = i2
    x = x
    y = y
    None = None
    Ids <- TwoIds
    Texts <- TwoTexts
    Inputs <- TwoInputs
    Ttl = 2
    MaxClock = 4
INVARIANTS
    RecordRepliesAgree
