SPECIFICATION FairSpec
INVARIANTS
    GoneWhenDone
PROPERTIES
    StopEnds
    Reconnects
