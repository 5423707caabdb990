SPECIFICATION FairSpec
CONSTANTS
    j1 = j1
    j2 = j2
    j3 = j3
    long = long
    w1 = w1
    w2 = w2
    NoJob = NoJob
    Jobs <- ThreeJobs
    Workers <- TwoWorkers
    Length <- Lengths
    QueueSize = 2
    QueueChars = 3
    BatchSize = 2
    LegacyWaitFor = FALSE
    RedisStore = FALSE
    Cancellable = {}
    MaxStarts = 2
INVARIANTS
    RunningWhileStarted
PROPERTIES
    StopTerminates
    SubmitsComplete
