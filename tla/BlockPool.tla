----------------------------- MODULE BlockPool -----------------------------
(***************************************************************************)
(* What a MemoryPool promises: a block has one user at a time, the block   *)
(* that came back last is handed out first, and malloc is asked only when  *)
(* no block was there.                                                     *)
(***************************************************************************)
EXTENDS Sequences, SequencesExt

CONSTANTS Threads, Blocks

VARIABLES
    free,   \* the blocks in the pool, the last one returned first
    inUse,  \* the blocks New has handed out
    asking  \* per thread: "no", "yes" inside New, "empty" when New found none

Init ==
    /\ free = <<>>
    /\ inUse = {}
    /\ asking = [t \in Threads |-> "no"]

Ask(t) ==
    /\ asking[t] = "no"
    /\ asking' = [asking EXCEPT ![t] = "yes"]
    /\ UNCHANGED <<free, inUse>>

Take(t) ==
    /\ asking[t] = "yes" /\ free # <<>>
    /\ asking' = [asking EXCEPT ![t] = "no"]
    /\ free' = Tail(free)
    /\ inUse' = inUse \cup {Head(free)}

FindNone(t) ==
    /\ asking[t] = "yes" /\ free = <<>>
    /\ asking' = [asking EXCEPT ![t] = "empty"]
    /\ UNCHANGED <<free, inUse>>

\* A block nobody had before; or one that is not among Blocks.
Malloc(t) ==
    /\ asking[t] = "empty"
    /\ asking' = [asking EXCEPT ![t] = "no"]
    /\ \/ UNCHANGED inUse
       \/ \E b \in Blocks \ (inUse \cup Range(free)) : inUse' = inUse \cup {b}
    /\ UNCHANGED free

Return(b) ==
    /\ b \in inUse
    /\ free' = <<b>> \o free
    /\ inUse' = inUse \ {b}
    /\ UNCHANGED asking

Next ==
    \/ \E t \in Threads : Ask(t) \/ Take(t) \/ FindNone(t) \/ Malloc(t)
    \/ \E b \in Blocks : Return(b)

Spec == Init /\ [][Next]_<<free, inUse, asking>>
=============================================================================
