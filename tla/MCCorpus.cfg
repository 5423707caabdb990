SPECIFICATION CorpusSpec
CONSTANTS
    MaxRuns = 3
    Texts <- SomeTexts
    Values <- SomeValues
    Length <- SomeLength
    Width <- SomeWidth
    Occurs <- SomeOccurs
    Digits <- SomeDigits
    Marks <- SomeMarks
    MaxSpan <- SomeMaxSpan
    PartWidth <- SomePartWidth
    Key <- SomeKey
    Russian <- AllButForeign
    Home <- SomeHome
    Famous <- SomeFamous
    Feeds <- SomeFeeds
    Generated <- SomeGenerated
    OldSources <- SomeSources
    Corpora <- SomeCorpora
INVARIANTS
    RowsSound
    CleanSinceDedup
    TextsSurvive
PROPERTIES
    RerunChangesNothing
