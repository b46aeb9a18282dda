SPECIFICATION Spec
CONSTANTS
    Threads = {t1, t2}
    Sids = {s1, s2}
    Addresses = {a1, a2, a3}
    None = None
    Serialized = FALSE
INVARIANTS
    NoFault
CHECK_DEADLOCK FALSE
