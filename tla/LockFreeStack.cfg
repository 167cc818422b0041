CONSTANTS
    t1 = t1
    t2 = t2
    t3 = t3
    b1 = b1
    b2 = b2
    b3 = b3
    n1 = n1
    n2 = n2
    n3 = n3
    Threads <- MCThreads
    Blocks <- MCBlocks
    Nodes <- MCNodes
    Null = Null
SPECIFICATION Spec
SYMMETRY Symmetry
INVARIANTS
    TypeOK
    NoUseAfterFree
    NodesAccounted
PROPERTIES
    ImplementsPool
