------------------------------ MODULE JobQueue ------------------------------
(***************************************************************************)
(* ServerCore/JobQueue.cpp, GlobalQueue.cpp and the worker loop of         *)
(* ThreadManager.cpp: how jobs posted by many threads to many job queues   *)
(* come to be run, one thread per queue at a time.  _jobCount is raised    *)
(* before the job is linked into _jobs and lowered after a round of jobs   *)
(* has run; the thread that raises it from 0 becomes answerable for the    *)
(* queue and runs it, or leaves it to the workers on the GlobalQueue.      *)
(*                                                                         *)
(* _jobs (MSPCLockFreeQueue) is a FIFO here; MSPCLockFreeQueue.tla is      *)
(* about whether it is one.                                                *)
(***************************************************************************)
EXTENDS Integers, Sequences, FiniteSets

CONSTANTS
    Threads,    \* worker threads, and any other thread that posts jobs
    Queues,     \* JobQueue objects
    Jobs,       \* jobs; each is posted at most once
    NoQueue,    \* the null JobQueue*
    NoJob       \* no Job

ASSUME JobQueueAssumption ==
    /\ IsFiniteSet(Threads)
    /\ NoQueue \notin Queues
    /\ NoJob \notin Jobs

VARIABLES
    jobCount,   \* jobCount[q]: _jobCount
    jobs,       \* jobs[q]: _jobs
    globalQueue,\* the GlobalQueue's _jobQueues
    current,    \* current[t]: LCurrentJobQueue
    push,       \* push[t]: the call of JobQueue::Push t is in
    exec,       \* exec[t]: where t is in JobQueue::Execute
    batch,      \* batch[t]: the jobs Execute popped and has not run yet
    size,       \* size[t]: how many jobs Execute popped in this round
    fresh,      \* jobs nobody has posted yet
    linked,     \* history: linked[q], the jobs in the order _jobs took them
    done        \* history: done[q], the jobs in the order they ran

vars == <<jobCount, jobs, globalQueue, current, push, exec, batch, size,
          fresh, linked, done>>

NoPush == [stage |-> "none", queue |-> NoQueue, job |-> NoJob,
           prevCount |-> 0, mode |-> "async"]

Init ==
    /\ jobCount = [q \in Queues |-> 0]
    /\ jobs = [q \in Queues |-> <<>>]
    /\ globalQueue = <<>>
    /\ current = [t \in Threads |-> NoQueue]
    /\ push = [t \in Threads |-> NoPush]
    /\ exec = [t \in Threads |-> "none"]
    /\ batch = [t \in Threads |-> <<>>]
    /\ size = [t \in Threads |-> 0]
    /\ fresh = Jobs
    /\ linked = [q \in Queues |-> <<>>]
    /\ done = [q \in Queues |-> <<>>]

\* t is not inside a Push.
Free(t) == push[t].stage = "none"

-----------------------------------------------------------------------------
(* JobQueue::Push *)

\* fetch_add(1).  A thread posts from its own loop or from the job it runs;
\* DoAsync posts with pushOnly false, DoAsyncToss with pushOnly true.
PushCount(t, q, j, mode) ==
    /\ Free(t) /\ j \in fresh
    /\ \/ exec[t] = "none"
       \/ exec[t] = "run" /\ batch[t] # <<>>
    /\ jobCount' = [jobCount EXCEPT ![q] = @ + 1]
    /\ push' = [push EXCEPT ![t] =
           [stage |-> "link", queue |-> q, job |-> j,
            prevCount |-> jobCount[q], mode |-> mode]]
    /\ fresh' = fresh \ {j}
    /\ UNCHANGED <<jobs, globalQueue, current, exec, batch, size, linked, done>>

\* _jobs.Push; the call is over unless the count was 0.
PushLink(t) ==
    LET call == push[t] IN
    /\ call.stage = "link"
    /\ jobs' = [jobs EXCEPT ![call.queue] = Append(@, call.job)]
    /\ linked' = [linked EXCEPT ![call.queue] = Append(@, call.job)]
    /\ push' = [push EXCEPT ![t] =
           IF call.prevCount = 0 THEN [call EXCEPT !.stage = "dispatch"]
                                 ELSE NoPush]
    /\ UNCHANGED <<jobCount, globalQueue, current, exec, batch, size, fresh, done>>

\* Execute, from its caller's position to its loop.
StartExecute(t, q) ==
    /\ current' = [current EXCEPT ![t] = q]
    /\ exec' = [exec EXCEPT ![t] = "popAll"]

\* Mutant of PushExecute: LCurrentJobQueue is not asked.
PushExecuteNested(t) ==
    /\ push[t].stage = "dispatch"
    /\ push[t].mode = "async"
    /\ push' = [push EXCEPT ![t] = NoPush]
    /\ StartExecute(t, push[t].queue)
    /\ UNCHANGED <<jobCount, jobs, globalQueue, batch, size, fresh, linked, done>>

\* The first job's thread runs the queue itself when it runs no other.
PushExecute(t) ==
    /\ push[t].stage = "dispatch"
    /\ current[t] = NoQueue /\ push[t].mode = "async"
    /\ push' = [push EXCEPT ![t] = NoPush]
    /\ StartExecute(t, push[t].queue)
    /\ UNCHANGED <<jobCount, jobs, globalQueue, batch, size, fresh, linked, done>>

\* Otherwise it leaves the queue to a worker.
PushGlobal(t) ==
    /\ push[t].stage = "dispatch"
    /\ ~(current[t] = NoQueue /\ push[t].mode = "async")
    /\ push' = [push EXCEPT ![t] = NoPush]
    /\ globalQueue' = Append(globalQueue, push[t].queue)
    /\ UNCHANGED <<jobCount, jobs, current, exec, batch, size, fresh, linked, done>>

-----------------------------------------------------------------------------
(* JobQueue::Execute *)

\* PopAll takes one job after the other, jobs linked meanwhile included ...
PopOne(t) ==
    LET q == current[t] IN
    /\ exec[t] = "popAll" /\ jobs[q] # <<>>
    /\ batch' = [batch EXCEPT ![t] = Append(@, Head(jobs[q]))]
    /\ size' = [size EXCEPT ![t] = @ + 1]
    /\ jobs' = [jobs EXCEPT ![q] = Tail(@)]
    /\ UNCHANGED <<jobCount, globalQueue, current, push, exec, fresh, linked, done>>

\* ... until it finds none.
PopEnd(t) ==
    /\ exec[t] = "popAll" /\ jobs[current[t]] = <<>>
    /\ exec' = [exec EXCEPT ![t] = "run"]
    /\ UNCHANGED <<jobCount, jobs, globalQueue, current, push, batch, size,
                   fresh, linked, done>>

\* The job at the head of the batch, which may have posted others, returns.
RunJob(t) ==
    LET q == current[t] IN
    /\ exec[t] = "run" /\ Free(t) /\ batch[t] # <<>>
    /\ batch' = [batch EXCEPT ![t] = Tail(@)]
    /\ done' = [done EXCEPT ![q] = Append(@, Head(batch[t]))]
    /\ UNCHANGED <<jobCount, jobs, globalQueue, current, push, exec, size,
                   fresh, linked>>

\* Mutant of Subtract: the local vector outlives its round, and is counted
\* again in the next one.
SubtractAgain(t) ==
    LET q == current[t] IN
    /\ exec[t] = "run" /\ Free(t) /\ batch[t] = <<>>
    /\ jobCount' = [jobCount EXCEPT ![q] = @ - size[t]]
    /\ IF jobCount[q] = size[t]
         THEN /\ exec' = [exec EXCEPT ![t] = "none"]
              /\ current' = [current EXCEPT ![t] = NoQueue]
         ELSE /\ exec' = [exec EXCEPT ![t] = "tick"]
              /\ UNCHANGED current
    /\ UNCHANGED <<jobs, globalQueue, push, batch, size, fresh, linked, done>>

\* Mutant of Subtract: it asks _jobs, not the count, whether all is done.
SubtractThenAskJobs(t) ==
    LET q == current[t] IN
    /\ exec[t] = "run" /\ Free(t) /\ batch[t] = <<>>
    /\ jobCount' = [jobCount EXCEPT ![q] = @ - size[t]]
    /\ size' = [size EXCEPT ![t] = 0]
    /\ IF jobs[q] = <<>>
         THEN /\ exec' = [exec EXCEPT ![t] = "none"]
              /\ current' = [current EXCEPT ![t] = NoQueue]
         ELSE /\ exec' = [exec EXCEPT ![t] = "tick"]
              /\ UNCHANGED current
    /\ UNCHANGED <<jobs, globalQueue, push, batch, fresh, linked, done>>

\* Mutant of Subtract: the count is reset, whoever raised it meanwhile.
SubtractToZero(t) ==
    LET q == current[t] IN
    /\ exec[t] = "run" /\ Free(t) /\ batch[t] = <<>>
    /\ jobCount' = [jobCount EXCEPT ![q] = 0]
    /\ size' = [size EXCEPT ![t] = 0]
    /\ exec' = [exec EXCEPT ![t] = "none"]
    /\ current' = [current EXCEPT ![t] = NoQueue]
    /\ UNCHANGED <<jobs, globalQueue, push, batch, fresh, linked, done>>

\* fetch_sub(jobCount): nothing left ends the execution.
Subtract(t) ==
    LET q == current[t] IN
    /\ exec[t] = "run" /\ Free(t) /\ batch[t] = <<>>
    /\ jobCount' = [jobCount EXCEPT ![q] = @ - size[t]]
    /\ size' = [size EXCEPT ![t] = 0]
    /\ IF jobCount[q] = size[t]
         THEN /\ exec' = [exec EXCEPT ![t] = "none"]
              /\ current' = [current EXCEPT ![t] = NoQueue]
         ELSE /\ exec' = [exec EXCEPT ![t] = "tick"]
              /\ UNCHANGED current
    /\ UNCHANGED <<jobs, globalQueue, push, batch, fresh, linked, done>>

\* The clock is short of LEndTickCount: another round.
NextRound(t) ==
    /\ exec[t] = "tick"
    /\ exec' = [exec EXCEPT ![t] = "popAll"]
    /\ UNCHANGED <<jobCount, jobs, globalQueue, current, push, batch, size,
                   fresh, linked, done>>

\* Mutant of HandOff: the queue is left without being handed over.
HandOffForgotten(t) ==
    /\ exec[t] = "tick"
    /\ exec' = [exec EXCEPT ![t] = "none"]
    /\ current' = [current EXCEPT ![t] = NoQueue]
    /\ UNCHANGED <<jobCount, jobs, globalQueue, push, batch, size, fresh, linked,
                   done>>

\* The clock reached LEndTickCount: the queue is handed to the workers.
HandOff(t) ==
    /\ exec[t] = "tick"
    /\ exec' = [exec EXCEPT ![t] = "none"]
    /\ current' = [current EXCEPT ![t] = NoQueue]
    /\ globalQueue' = Append(globalQueue, current[t])
    /\ UNCHANGED <<jobCount, jobs, push, batch, size, fresh, linked, done>>

\* Mutant of DoGlobalQueueWork: the queue is read and not popped.
DoGlobalQueueWorkPeeks(t) ==
    /\ Free(t) /\ exec[t] = "none"
    /\ globalQueue # <<>>
    /\ StartExecute(t, Head(globalQueue))
    /\ UNCHANGED <<jobCount, jobs, globalQueue, push, batch, size, fresh, linked,
                   done>>

\* ThreadManager::DoGlobalQueueWork: a worker takes the oldest queue.
DoGlobalQueueWork(t) ==
    /\ Free(t) /\ exec[t] = "none"
    /\ globalQueue # <<>>
    /\ globalQueue' = Tail(globalQueue)
    /\ StartExecute(t, Head(globalQueue))
    /\ UNCHANGED <<jobCount, jobs, push, batch, size, fresh, linked, done>>

-----------------------------------------------------------------------------
\* What a thread does once it is in Push or Execute.
Progress(t) ==
    \/ PushLink(t) \/ PushExecute(t) \/ PushGlobal(t)
    \/ PopOne(t) \/ PopEnd(t) \/ RunJob(t) \/ Subtract(t)
    \/ NextRound(t) \/ HandOff(t)

\* Every job was posted and has run: the modelled load is over.
Quiescent ==
    /\ fresh = {} /\ globalQueue = <<>>
    /\ \A t \in Threads : Free(t) /\ exec[t] = "none"
    /\ UNCHANGED vars

Next ==
    \/ \E t \in Threads :
           \/ Progress(t) \/ DoGlobalQueueWork(t)
           \/ \E q \in Queues, j \in Jobs, mode \in {"async", "toss"} :
                  PushCount(t, q, j, mode)
    \/ Quiescent

Spec == Init /\ [][Next]_vars

\* Threads are scheduled, and the worker loop comes back to the GlobalQueue
\* with time left for ever.
FairSpec ==
    /\ Spec
    /\ \A t \in Threads : WF_vars(Progress(t)) /\ WF_vars(DoGlobalQueueWork(t))

-----------------------------------------------------------------------------
(* Properties *)

PushFrames ==
    [stage : {"none", "link", "dispatch"}, queue : Queues \cup {NoQueue},
     job : Jobs \cup {NoJob}, prevCount : Nat, mode : {"async", "toss"}]

\* The type invariant; it also says that _jobCount never goes below 0.
TypeOK ==
    /\ jobCount \in [Queues -> Nat]
    /\ jobs \in [Queues -> Seq(Jobs)]
    /\ globalQueue \in Seq(Queues)
    /\ current \in [Threads -> Queues \cup {NoQueue}]
    /\ push \in [Threads -> PushFrames]
    /\ exec \in [Threads -> {"none", "popAll", "run", "tick"}]
    /\ batch \in [Threads -> Seq(Jobs)]
    /\ size \in [Threads -> Nat]
    /\ fresh \in SUBSET Jobs
    /\ linked \in [Queues -> Seq(Jobs)]
    /\ done \in [Queues -> Seq(Jobs)]

\* JobQueue.h:61: only one thread at a time processes the jobs of a queue.
SingleExecutor ==
    \A t, u \in Threads :
        t # u /\ current[t] = current[u] => current[t] = NoQueue

\* t raised the count of q from 0 and has not yet run or handed over q.
FirstPusher(t, q) == /\ push[t].stage # "none"
                     /\ push[t].queue = q
                     /\ push[t].prevCount = 0

\* Everything that is answerable for running q: the thread whose Push found
\* the queue empty, the thread inside its Execute, its places in GlobalQueue.
Keepers(q) ==
    {<<"push", t>> : t \in {u \in Threads : FirstPusher(u, q)}}
        \cup {<<"exec", t>> : t \in {u \in Threads : current[u] = q}}
        \cup {<<"global", i>> : i \in {k \in 1..Len(globalQueue) :
                                          globalQueue[k] = q}}

\* A queue with a job counted has exactly one keeper and a queue with none
\* has none, through every race between Push, the last fetch_sub of Execute
\* and the hand-over: no keeper is a lost wakeup, two are two executors.
OneKeeper ==
    \A q \in Queues :
        Cardinality(Keepers(q)) = IF jobCount[q] = 0 THEN 0 ELSE 1

\* Threads between the fetch_add of q's count and the link of their job.
Linkers(q) == {t \in Threads : push[t].stage = "link" /\ push[t].queue = q}

\* The jobs Execute popped from q and has not yet subtracted.
Popped(q) == IF \E t \in Threads : current[t] = q
               THEN size[CHOOSE t \in Threads : current[t] = q]
               ELSE 0

\* _jobCount counts each job from before it is linked until the round that
\* ran it is subtracted: Execute ends (JobQueue.cpp:45) on no job left.
CountIsExact ==
    \A q \in Queues :
        jobCount[q] = Len(jobs[q]) + Cardinality(Linkers(q)) + Popped(q)

\* The jobs of q that its executor popped and has not run.
BatchOf(q) == IF \E t \in Threads : current[t] = q
                THEN batch[CHOOSE t \in Threads : current[t] = q]
                ELSE <<>>

\* Jobs run in the order _jobs took them, none lost, none twice, whichever
\* threads ran the rounds.
RunInOrder ==
    \A q \in Queues : linked[q] = done[q] \o BatchOf(q) \o jobs[q]

\* A thread that runs a job never enters the Execute of another queue: it
\* would come back with LCurrentJobQueue null in the middle of its own.
NoNestedExecute ==
    [][\A t \in Threads :
           current'[t] # current[t] => NoQueue \in {current[t], current'[t]}]_vars

\* Every job that was posted runs in the end, whichever way the queue
\* travels between its pushers, its executor and the GlobalQueue.
EveryJobRuns ==
    \A j \in Jobs :
        j \notin fresh ~>
            \E q \in Queues : \E i \in 1..Len(done[q]) : done[q][i] = j

\* The job queues implement the abstract serial executor.
Executor == INSTANCE SerialExecutor WITH
    pending <- [q \in Queues |-> BatchOf(q) \o jobs[q]],
    ran     <- done,
    at      <- current
ImplementsSerialExecutor == Executor!Spec
=============================================================================
