SPECIFICATION Spec
CONSTANTS
    LIMIT = 3
    o1 = o1
    o2 = o2
    Objects <- MCObjects
    Requests <- MCRequests
    Placements <- MCPlacements
    MaxLifetime = 3
    MaxRetries = 2
    QueueBound = 2
    NfMaxLifetime = 1
    NrMaxLifetime = 2
    RequestSmes = {"all", "first_last"}
    RequestObjs = {{o1, o2}}
    InitialMsn = 4
    RefreshBound = 2
    LossBound = 1
INVARIANTS
    NothingUnmetered
    MsnAgreement
    ResponderOutlasts
PROPERTIES
    EventuallyReleased
\* a failed assertion ends a daemon, and a session that is over stays over
CHECK_DEADLOCK FALSE
