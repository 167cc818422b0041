--------------------------- MODULE SerialExecutor ---------------------------
(***************************************************************************)
(* What a JobQueue promises (ServerCore/JobQueue.h:59-63): the jobs posted *)
(* to one queue run one at a time, in the order they were posted, each     *)
(* exactly once, and at most one thread is running jobs of the queue.      *)
(* Which thread that is, and when it changes, is left open.                *)
(***************************************************************************)
EXTENDS Sequences

CONSTANTS Threads, Queues, Jobs, NoQueue

VARIABLES
    pending,    \* pending[q]: jobs posted to q that have not run
    ran,        \* ran[q]: jobs of q that have run
    at          \* at[t]: the queue thread t is running jobs of

vars == <<pending, ran, at>>

Init ==
    /\ pending = [q \in Queues |-> <<>>]
    /\ ran = [q \in Queues |-> <<>>]
    /\ at = [t \in Threads |-> NoQueue]

Post(q, j) ==
    /\ pending' = [pending EXCEPT ![q] = Append(@, j)]
    /\ UNCHANGED <<ran, at>>

Enter(t, q) ==
    /\ at[t] = NoQueue
    /\ \A u \in Threads : at[u] # q
    /\ at' = [at EXCEPT ![t] = q]
    /\ UNCHANGED <<pending, ran>>

Run(t, q) ==
    /\ at[t] = q
    /\ pending[q] # <<>>
    /\ pending' = [pending EXCEPT ![q] = Tail(@)]
    /\ ran' = [ran EXCEPT ![q] = Append(@, Head(pending[q]))]
    /\ UNCHANGED at

Leave(t) ==
    /\ at' = [at EXCEPT ![t] = NoQueue]
    /\ UNCHANGED <<pending, ran>>

Next ==
    \/ \E q \in Queues, j \in Jobs : Post(q, j)
    \/ \E t \in Threads, q \in Queues : Enter(t, q) \/ Run(t, q)
    \/ \E t \in Threads : Leave(t)

Spec == Init /\ [][Next]_vars
=============================================================================
