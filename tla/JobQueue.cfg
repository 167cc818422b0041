CONSTANTS
    t1 = t1
    t2 = t2
    t3 = t3
    q1 = q1
    q2 = q2
    j1 = j1
    j2 = j2
    j3 = j3
    Threads <- MCThreads
    Queues <- MCQueues
    Jobs <- MCJobs
    NoQueue = NoQueue
    NoJob = NoJob
SPECIFICATION FairSpec
INVARIANTS
    TypeOK
    OneKeeper
    CountIsExact
PROPERTIES
    
    EveryJobRuns
    ImplementsSerialExecutor
