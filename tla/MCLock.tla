------------------------------- MODULE MCLock -------------------------------
(* Model checking of Lock: three threads, so that a writer, a reader and a *)
(* third thread race, and two nested guards each.                          *)
EXTENDS Lock

CONSTANTS t1, t2, t3

MCThreads == {t1, t2, t3}
MCMaxDepth == 2
=============================================================================
