SPECIFICATION Spec
CONSTANTS
    Threads = {t1, t2}
    Sids = {s1, s2}
    Addresses = {a1, a2, a3}
    None = None
    Serialized = TRUE
INVARIANTS
    TypeOK
    TableSound
    NoFault
    NoOrphan
PROPERTIES
    FinalDeleted
\* a behaviour ends when the bounded ids and addresses are used up
CHECK_DEADLOCK FALSE
