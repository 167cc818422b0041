----------------------------- MODULE MCJobTimer -----------------------------
(* Model checking of JobTimer: two worker loops, so that distributions      *)
(* overlap; two owners, one of which may die; delays that put the ticks of   *)
(* two jobs in either order.                                                 *)
EXTENDS JobTimer

CONSTANTS t1, t2, o1, o2, j1, j2

MCThreads == {t1, t2}
MCOwners == {o1, o2}
MCJobs == {j1, j2}
MCDelays == {0, 2}
MCMaxTick == 3
=============================================================================
