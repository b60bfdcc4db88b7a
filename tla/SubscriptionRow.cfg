CONSTANTS
    Actors = {a1, a2}
    Plans = {starter, pro}
    Trial = trial
    Other = other
    Subs = {s1, s2}
    MaxMoves = 4
    None = None
SPECIFICATION Spec
SYMMETRY Symmetric
CHECK_DEADLOCK FALSE
INVARIANTS
    RowMirrors
