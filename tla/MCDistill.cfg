SPECIFICATION Spec
CONSTANTS
    t1 = t1
    t2 = t2
    k1 = k1
    k2 = k2
    Everything = Everything
    NaN = NaN
    Absent = Absent
    Torn = Torn
    Tokenizers <- TwoTokenizers
    KeepSorted <- TwoKeepSorted
    Settings <- SomeSettings
    Losses <- TwoLosses
    Patience = 2
    MaxRuns = 3
INVARIANTS
    BestWeightsKept
    ArtefactsOfOneRun
    MisfitOnlyInherited
    RaisesOnlyWithoutWeights
