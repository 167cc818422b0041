SPECIFICATION ProfilerSpec
CONSTANTS
    t1 = t1
    t2 = t2
    t3 = t3
    sendQueue = sendQueue
    rioRQ = rioRQ
    service = service
    manager = manager
    NoLock = NoLock
    Callers <- MCThreads
    Locks <- MCLocks
    Name <- MCName
    MaxNesting = 3
INVARIANT DeadlockForeseen
SYMMETRY Symmetry
\* A report stops the process, and locks of one name may deadlock.
CHECK_DEADLOCK FALSE
