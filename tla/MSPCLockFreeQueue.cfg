CONSTANTS
    p1 = p1
    p2 = p2
    i1 = i1
    i2 = i2
    i3 = i3
    n1 = n1
    n2 = n2
    n3 = n3
    n4 = n4
    Producers <- TwoProducers
    Items <- MCItems
    Nodes <- MCNodes
    Null = Null
    NoItem = NoItem
SPECIFICATION FairSpec
INVARIANTS
    TypeOK
    LiveNodesNotFreed
PROPERTIES
    PushReturns
    ImplementsFifoQueue
\* A Push that was handed the node _tail still points to links it to itself
\* and its loop does not end.
CHECK_DEADLOCK FALSE
