SPECIFICATION Spec
CONSTANTS
    w1 = w1
    w2 = w2
    e1 = e1
    Workers <- MCWorkers
    AcceptEvents <- MCAcceptEvents
    Sessions <- MCSessions
    RIO_DISPATCH_RESULT_COUNT = 1
    MaxLeaks = 1
INVARIANT TypeOK
INVARIANT CompletionsKeepSession
PROPERTY KeepsAccepting
 
