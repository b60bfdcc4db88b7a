CONSTANTS
    JobIds = {j1, j2}
    Workers = {w1, w2}
    Requesters = {r1, r2}
    BufferSize = 1
    MaxRetries = 2
    DeadRecentCap = 1
    NoJob = NoJob
SPECIFICATION FairSpec
CHECK_DEADLOCK FALSE
INVARIANTS
    AtMostOnce
    NothingVanishes
    AttemptsBounded
    DeadListSound
    HistoryTruthful
    StopJoinsWorkers
PROPERTIES
    JobsSettle
    StopReturns
    ImplementsLifecycle
