CONSTANTS
    c1 = c1
    c2 = c2
    NoItem = NoItem
    Clients <- MCClients
    Versions <- MCVersions
    Size <- MCSize
    InitDisk <- SolidDisks
    Volatile = FALSE
    NotFound = FALSE
    Garbage = TRUE
    ChunkedReplies = TRUE
    MaxRetry = 1
SPECIFICATION Spec
INVARIANT TypeOK
INVARIANT SingleProducer
INVARIANT CachedFileIntact
INVARIANT ClientGotWhole
SYMMETRY Sym
CHECK_DEADLOCK FALSE
