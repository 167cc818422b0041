----------------------------- MODULE FifoQueue -----------------------------
(***************************************************************************)
(* What a JobQueue expects of its _jobs: items are put at one end and come *)
(* out at the other, each once, and whatever was put comes out if the      *)
(* consumer keeps asking.  Nothing is promised any more once broken.       *)
(***************************************************************************)
EXTENDS Sequences, SequencesExt

CONSTANT Items

VARIABLES
    queue,  \* the items inside, the oldest first
    out,    \* the items that came out, the oldest first
    broken  \* the promise is void

fifoVars == <<queue, out, broken>>

Init == queue = <<>> /\ out = <<>> /\ broken = FALSE

Put(i) ==
    /\ ~broken
    /\ i \notin Range(queue) \cup Range(out)
    /\ queue' = Append(queue, i)
    /\ UNCHANGED <<out, broken>>

Take ==
    /\ ~broken
    /\ queue # <<>>
    /\ queue' = Tail(queue)
    /\ out' = Append(out, Head(queue))
    /\ UNCHANGED broken

\* From here on any behaviour is allowed.
Broken == broken' = TRUE

Next == Take \/ Broken \/ \E i \in Items : Put(i)

Safety == Init /\ [][Next]_fifoVars

Spec == Safety /\ WF_fifoVars(Take)
=============================================================================
