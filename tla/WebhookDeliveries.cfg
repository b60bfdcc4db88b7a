CONSTANTS
    JobIds = {e1, p1}
    Replays = {p1}
    Workers = {w1}
    Requesters = {r1}
    BufferSize = 1
    MaxRetries = 3
    DeadRecentCap = 2
    NoJob = NoJob
SPECIFICATION DeliveryFairSpec
CHECK_DEADLOCK FALSE
INVARIANTS
    RowAgreesWithPool
    AckedAtMostOnce
PROPERTIES
    DeliveredIsFinal
    DeliverySettles
