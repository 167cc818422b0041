------------------------- MODULE MCDeadLockProfiler -------------------------
(* The instance of DeadLockProfiler that TLC checks. *)
EXTENDS DeadLockProfiler

CONSTANTS t1, t2, t3, sendQueue, rioRQ, service, manager

MCThreads == {t1, t2, t3}
MCLocks == {sendQueue, rioRQ, service, manager}
\* The two locks of a Session have one name.
MCName == [l \in MCLocks |-> IF l = rioRQ THEN sendQueue ELSE l]
Symmetry == Permutations(MCThreads)
=============================================================================
