CONSTANTS
    Actors = {a1, a2}
    Emails = {e1, e2}
    Managed = {e1}
    MaxInstances = 1
SPECIFICATION Spec
SYMMETRY Symmetric
CHECK_DEADLOCK FALSE
INVARIANTS
    OwnerKept
    OneDefault
