------------------------------- MODULE RWLock -------------------------------
(***************************************************************************)
(* What ServerCore's Lock promises its callers (the contract commented at  *)
(* ServerCore/Lock.h:4-12), independently of the word it is built from: a  *)
(* reader-writer lock that a thread may nest.  A guard is taken in one     *)
(* step and dropped in one step.                                           *)
(***************************************************************************)
EXTENDS Integers

CONSTANTS
    Threads,    \* the threads that use the lock
    MaxDepth    \* bound: guards one thread nests on the lock

VARIABLES
    wr,         \* wr[t]: write guards thread t holds
    rd          \* rd[t]: read guards thread t holds

vars == <<wr, rd>>

Init == /\ wr = [t \in Threads |-> 0]
        /\ rd = [t \in Threads |-> 0]

Room(t) == wr[t] + rd[t] < MaxDepth

\* RL -> WL is forbidden (Lock.h:11), WL -> WL is allowed (Lock.h:9).
AcquireWrite(t) ==
    /\ Room(t) /\ rd[t] = 0
    /\ \A u \in Threads \ {t} : wr[u] = 0 /\ rd[u] = 0
    /\ wr' = [wr EXCEPT ![t] = @ + 1]
    /\ UNCHANGED rd

\* RL -> RL and WL -> RL are allowed (Lock.h:8,10).
AcquireRead(t) ==
    /\ Room(t)
    /\ \A u \in Threads \ {t} : wr[u] = 0
    /\ rd' = [rd EXCEPT ![t] = @ + 1]
    /\ UNCHANGED wr

ReleaseWrite(t) ==
    /\ wr[t] > 0 /\ rd[t] = 0
    /\ wr' = [wr EXCEPT ![t] = @ - 1]
    /\ UNCHANGED rd

ReleaseRead(t) ==
    /\ rd[t] > 0
    /\ rd' = [rd EXCEPT ![t] = @ - 1]
    /\ UNCHANGED wr

Next == \E t \in Threads : \/ AcquireWrite(t) \/ AcquireRead(t)
                           \/ ReleaseWrite(t) \/ ReleaseRead(t)

Spec == Init /\ [][Next]_vars
=============================================================================
