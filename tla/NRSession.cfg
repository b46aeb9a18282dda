SPECIFICATION NrSpec
CONSTANTS
    LIMIT = 3
    Objects = {o1, o2}
    MaxLifetime = 3
    NrMaxLifetime = 2
    RequestSmes = {"all", "any", "first", "last", "first_last", "other"}
    RequestObjs = {{}, {o1}, {o1, o2}}
    QueueBound = 2
INVARIANTS
    NrTypeOK
    NrRulesAccounted
PROPERTIES
    NrMsnForward
    NrImplementsContract
