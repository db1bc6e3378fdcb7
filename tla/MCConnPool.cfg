CONSTANTS
    a1 = a1  a2 = a2  c1 = c1  c2 = c2  c3 = c3
    Agents = {a1, a2}
    Conns = {c1, c2}
    Keys = {1}
    PoolCap = 1
    Expire = 2
    MaxTime = 4
    PersistOutgoing = TRUE
    NoConn = NoConn
SPECIFICATION Spec
INVARIANT TypeOK
INVARIANT OneOwner
PROPERTY IdleExpires
CHECK_DEADLOCK FALSE
