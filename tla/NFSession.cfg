SPECIFICATION NfSpec
CONSTANTS
    LIMIT = 2
    Objects = {o1, o2}
    MaxLifetime = 2
    NfMaxLifetime = 1
    RequestSmes = {"all"}
    RequestObjs = {{o1, o2}}
    QueueBound = 1
INVARIANTS
    NfTypeOK
    NfRulesAccounted
    NfSoftState
    NfTimeoutHasRefresh
PROPERTIES
    NfMsnForward
    NfImplementsContract
\* a failed assertion ends the daemon
CHECK_DEADLOCK FALSE
