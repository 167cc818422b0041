CONSTANTS
    t1 = t1
    t2 = t2
    t3 = t3
    Threads <- MCThreads
    NoThread = NoThread
    MaxDepth <- MCMaxDepth
SPECIFICATION FairSpec
INVARIANTS
    TypeOK
    WordIsExact
    UnlocksAreValid
PROPERTIES
    LockNeverStuck
    ImplementsRWLock
\* A LOCK_TIMEOUT ends the process.
CHECK_DEADLOCK FALSE
