SPECIFICATION SpecRestricted
CONSTANTS
    Length = 3
    Email = "EMAIL"
    Rules <- ThreeRules
    Labels <- FiveLabels
    Auxiliary <- PublicOnes
    Matchings <- SomeMatchings
    ModelPredictions <- SomePredictions
    a = a
    b = b
    c = c
    star = star
    half = half
    MaskChar = star
    Texts <- TwoTexts
    Predictions <- UpToThree
    PublicLabels <- PublicOnes
    Strays <- OtherSpans
INVARIANTS
    CoverageIsUnion
    MaskIsExact
    MaskHidesWhatWasFound
    RestoresOriginal
    RestorationStands
