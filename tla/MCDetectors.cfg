SPECIFICATION DetectorSpec
CONSTANTS
    MaxLen = 8
    FlushAt = 2
    Overlap = 128
    Batches <- SomeBatches
    Findings <- SomeFindings
    a = a
    b = b
    NoLabel = NoLabel
    Labels <- TwoLabels
    Types <- TwoTypes
    PublicLabels <- OnlyB
    Tokenizations <- UpToFour
    Encodings <- SomeEncodings
    Confidences <- TwoConfidences
    BirthPlace = b
    Address = Address
    NumTags = 2
    Rows <- SomeRows
    Crfs <- SomeCrfs
    Emissions <- SomeEmissions
INVARIANTS
    ShortSpansWhole
    MergeIsExact
    DecodesExactly
    BestVoteWins
    GoldKeepsEntities
    BestPath
