CONSTANTS
    c1 = c1
    c2 = c2
    NoItem = NoItem
    Clients <- MCClients
    Versions <- MCVersions
    Size <- MCSize
    InitDisk <- EmptyDisk
    Volatile = FALSE
    NotFound = FALSE
    Garbage = FALSE
    ChunkedReplies = FALSE
    MaxRetry = 1
SPECIFICATION Spec
PROPERTY AllServed
CHECK_DEADLOCK FALSE
