CONSTANTS
    c1 = c1
    c2 = c2
    NoItem = NoItem
    Clients <- MCClients
    Versions <- MCVersions
    Size <- MCSize
    InitDisk <- PartialDisk
    Volatile = FALSE
    NotFound = TRUE
    Garbage = FALSE
    ChunkedReplies = FALSE
    MaxRetry = 1
SPECIFICATION Spec
INVARIANT CachedFileIntact
SYMMETRY Sym
CHECK_DEADLOCK FALSE
