CONSTANTS
    Clients = {c1, c2}
    EventCap = 2
    SendCap = 2
SPECIFICATION HubFairSpec
CHECK_DEADLOCK FALSE
INVARIANTS
    TableSendable
    CrashOnlyByCleanup
PROPERTIES
    NothingLeaks
