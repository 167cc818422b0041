CONSTANTS
    t1 = t1
    t2 = t2
    o1 = o1
    o2 = o2
    j1 = j1
    j2 = j2
    Threads <- MCThreads
    Owners <- MCOwners
    Jobs <- MCJobs
    Delays <- MCDelays
    MaxTick <- MCMaxTick
SPECIFICATION FairSpec
INVARIANTS
    TypeOK
    EachJobOnce
    NeverEarly
PROPERTIES
    EveryReservationFires
