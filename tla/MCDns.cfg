CONSTANTS
    c1 = c1
    c2 = c2
    c3 = c3
    Callers <- MCCallers
    Names <- MCNames
    Ports <- MCPorts
    Statuses <- MCAllStatuses
    MaxReq = 1
    MaxSrv = 1
    MaxTime = 2
    CacheTime = 2
    ErrKeepMax = 1
    CacheMax = 3
    MaxPerRequest = 5
SPECIFICATION Spec
CHECK_DEADLOCK FALSE
INVARIANT TypeOK
INVARIANT AnsweredOnce
INVARIANT CacheIndexConsistent
PROPERTY ServiceSafe
PROPERTY ServiceLive
INVARIANT SortCorrect
