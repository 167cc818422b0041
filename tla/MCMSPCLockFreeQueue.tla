------------------------ MODULE MCMSPCLockFreeQueue ------------------------
(* Model checking of MSPCLockFreeQueue with two producers that race for the *)
(* tail.  There are fewer items than nodes: malloc can serve every Push,   *)
(* so a node is reused only because the pool prefers it.                    *)
EXTENDS MSPCLockFreeQueue

CONSTANTS p1, p2, i1, i2, i3, n1, n2, n3, n4

TwoProducers == {p1, p2}
MCItems == {i1, i2, i3}
MCNodes == {n1, n2, n3, n4}
=============================================================================
