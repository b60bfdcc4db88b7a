CONSTANTS
    Actors = {a1, a2}
    Clients = {c1, c2}
    None = None
SPECIFICATION Spec
SYMMETRY Symmetric
CHECK_DEADLOCK FALSE
INVARIANTS
    OneClient
    RowFollows
