----------------------------- MODULE MCJobQueue -----------------------------
(* Model checking of JobQueue: three threads, so that a queue's executor,   *)
(* a pusher and a worker at the GlobalQueue race; two queues, so that a job  *)
(* of one posts to the other; three jobs.                                    *)
EXTENDS JobQueue

CONSTANTS t1, t2, t3, q1, q2, j1, j2, j3

MCThreads == {t1, t2, t3}
MCQueues == {q1, q2}
MCJobs == {j1, j2, j3}
=============================================================================
