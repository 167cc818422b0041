-------------------------- MODULE MCLockFreeStack --------------------------
(* Model checking of LockFreeStack: threads that allocate and free blocks   *)
(* of one pool.  An address is reused as soon as its node is deleted.       *)
EXTENDS LockFreeStack, TLC

CONSTANTS t1, t2, t3, b1, b2, b3, n1, n2, n3

MCThreads == {t1, t2, t3}
MCBlocks == {b1, b2, b3}
MCNodes == {n1, n2, n3}
Symmetry == Permutations(MCThreads) \cup Permutations(MCBlocks)
                \cup Permutations(MCNodes)
=============================================================================
