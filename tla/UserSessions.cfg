CONSTANTS
    Requests = {a1, a2}
    Sessions = {s1, s2}
    MaxGen = 3
SPECIFICATION SessionSpec
CHECK_DEADLOCK FALSE
PROPERTIES
    GoesForReason
    GoneStays
