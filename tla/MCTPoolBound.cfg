CONSTANTS
    t1 = t1  t2 = t2  t3 = t3  t4 = t4  w1 = w1  w2 = w2  w3 = w3  w4 = w4
    Threads <- MCThreads
    Work <- MCWork
    MaxCount = 2
    MaxSpare = 1
    Stopper = Stopper
    NoJob = NoJob
SYMMETRY Sym
SPECIFICATION Spec
INVARIANT ThreadBound
CHECK_DEADLOCK FALSE
