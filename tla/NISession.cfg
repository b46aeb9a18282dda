SPECIFICATION NiSpec
CONSTANTS
    LIMIT = 3
    Objects = {o1, o2}
    MaxLifetime = 3
    MaxRetries = 1
    QueueBound = 1
INVARIANTS
    NiTypeOK
    NiRulesAccounted
    NiOneTimerRuns
    NiRetryHasMessage
    NiRefreshBeforeExpiry
PROPERTIES
    NiSetupResolved
    NiRefreshResolved
\* a failed assertion ends the daemon
CHECK_DEADLOCK FALSE
