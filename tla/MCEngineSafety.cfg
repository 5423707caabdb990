SPECIFICATION Spec
CONSTANTS
    j1 = j1
    j2 = j2
    j3 = j3
    long = long
    w1 = w1
    w2 = w2
    NoJob = NoJob
    Jobs <- FourJobs
    Workers <- TwoWorkers
    Length <- Lengths
    QueueSize = 2
    QueueChars = 4
    BatchSize = 2
    LegacyWaitFor = TRUE
    RedisStore = TRUE
    Cancellable <- OnlyLong
    MaxStarts = 1
SYMMETRY EngineSymmetry
CHECK_DEADLOCK FALSE
INVARIANTS
    PendingCharsExact
    JobNeverLost
    JobInOnePlace
    AnswerIsRecorded
    StopWaitsForInference
    StopLeavesNothing
PROPERTIES
    ExpiredJobNotRevived
    KeepsContract
