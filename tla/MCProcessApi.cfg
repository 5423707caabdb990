SPECIFICATION Spec
CONSTANTS
    r1 = r1
    r2 = r2
    r3 = r3
    p1 = p1
    p2 = p2
    i1 = i1
    plain = plain
    starsA = starsA
    starsB = starsB
    None = None
    Requests <- ThreeRequests
    Processes <- TwoProcesses
    Ids <- OneId
    Texts <- ThreeTexts
    Masks <- TwoMasks
    MaxForgets = 1
    MaxCrashes = 1
CONSTRAINT OneFault
SYMMETRY ProcessSymmetry
INVARIANTS
    AnswersReproducible
    OriginalOnlyForItsMask
    MetricsCountAnswers
PROPERTIES
    KeepsContract
