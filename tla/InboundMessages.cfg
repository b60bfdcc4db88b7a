CONSTANTS
    Actors = {a1, a2}
    Instances = {i1, i2}
    InIds = {m1, m2}
    OutIds = {o1}
    MaxEvents = 5
    None = None
SPECIFICATION Spec
SYMMETRY Symmetric
CHECK_DEADLOCK FALSE
INVARIANTS
    ReceivedOnce
    StoredAnnounced
    UnreadExact
PROPERTIES
    ReadStays
    StateStays
