CONSTANTS
    TenantSubs = {t1, t2, t3}
    AllSubs = {a1, a2}
    Events = {e1, e2}
    TenantCap = 1
    AllCap = 1
    NoSub = NoSub
SPECIFICATION Spec
SYMMETRY Symmetric
VIEW Observed
CHECK_DEADLOCK FALSE
INVARIANTS
    Registry
    AllSubsServed
