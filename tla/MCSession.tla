----------------------------- MODULE MCSession -----------------------------
(* Model checking of Session: a worker with a completion races a sender and  *)
(* a third thread; of the buffers, two waiting are enough to be kicked.      *)
EXTENDS Session

CONSTANTS t1, t2, t3

MCThreads == {t1, t2, t3}
MCTwoThreads == {t1, t2}
MCMaxSends == 3
MCWarn == 2
MCKick == 3
MCRioRoom == 1
=============================================================================
