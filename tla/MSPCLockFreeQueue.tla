-------------------------- MODULE MSPCLockFreeQueue --------------------------
(***************************************************************************)
(* ServerCore/MSPCLockFreeQueue.h, the _jobs of a JobQueue: a linked list  *)
(* with a dummy node that many threads append to by compare-exchange and   *)
(* one thread, the executor of the JobQueue, takes from.  Its nodes come   *)
(* from MemoryPool (MemoryPool.h), which hands out the node that was freed *)
(* last before it asks malloc for a new one, and which never returns       *)
(* memory: a freed node can still be read.                                 *)
(*                                                                         *)
(* The pool is an atomic stack here: BlockPool, which LockFreeStack         *)
(* implements.                                                             *)
(***************************************************************************)
EXTENDS Integers, Sequences, SequencesExt, FiniteSets

CONSTANTS
    Producers,  \* threads inside JobQueue::Push
    Items,      \* jobs; each is pushed at most once
    Nodes,      \* bound: the nodes malloc can hand out
    Null,       \* the null Node*
    NoItem      \* T(), the null job

ASSUME MSPCAssumption ==
    /\ IsFiniteSet(Nodes) /\ Nodes # {}
    /\ Null \notin Nodes
    /\ NoItem \notin Items

VARIABLES
    head, tail, \* _head, _tail
    next,       \* Node::next of every node
    data,       \* Node::data of every node
    pool,       \* MemoryPool<Node>: the freed nodes, the last one first
    unused,     \* nodes malloc has not handed out yet
    pc,         \* where each producer is in Push
    node,       \* its newNode
    item,       \* the item it pushes
    oldTail,    \* its oldTail
    seenNext,   \* its local variable next
    freeing,    \* oldHead of the Pop that has not freed it yet, or Null
    fresh,      \* items nobody has pushed yet
    linked,     \* history: the items in the order their nodes were linked
    popped,     \* history: the items in the order Pop returned them
    reused      \* history: xnew handed out a node some Push still relied on

vars == <<head, tail, next, data, pool, unused, pc, node, item, oldTail,
          seenNext, freeing, fresh, linked, popped, reused>>

\* The constructor: one dummy node.
Init ==
    \E dummy \in Nodes :
        /\ head = dummy
        /\ tail = dummy
        /\ next = [n \in Nodes |-> Null]
        /\ data = [n \in Nodes |-> NoItem]
        /\ pool = <<>>
        /\ unused = Nodes \ {dummy}
        /\ pc = [p \in Producers |-> "idle"]
        /\ node = [p \in Producers |-> Null]
        /\ item = [p \in Producers |-> NoItem]
        /\ oldTail = [p \in Producers |-> Null]
        /\ seenNext = [p \in Producers |-> Null]
        /\ freeing = Null
        /\ fresh = Items
        /\ linked = <<>>
        /\ popped = <<>>
        /\ reused = FALSE

Goto(p, a, b) ==
    /\ pc[p] = a
    /\ pc' = [pc EXCEPT ![p] = b]

-----------------------------------------------------------------------------
(* Push *)

\* A node that a Push may still compare with or write to: _tail, and the
\* oldTail of a producer inside the loop.
ReliedOn(n) ==
    \/ n = tail
    \/ \E p \in Producers : pc[p] \in {"next", "link", "help", "swing"}
                            /\ oldTail[p] = n

\* MemoryPool::New
New(n) ==
    IF pool # <<>>
      THEN n = Head(pool) /\ pool' = Tail(pool) /\ UNCHANGED unused
      ELSE n \in unused /\ unused' = unused \ {n} /\ UNCHANGED pool

\* xnew, up to the constructor of Node.
PushAlloc(p, i) ==
    /\ i \in fresh
    /\ Goto(p, "idle", "construct")
    /\ \E n \in Nodes :
           /\ New(n)
           /\ node' = [node EXCEPT ![p] = n]
           /\ reused' = (reused \/ ReliedOn(n))
    /\ item' = [item EXCEPT ![p] = i]
    /\ fresh' = fresh \ {i}
    /\ UNCHANGED <<head, tail, next, data, oldTail, seenNext, freeing, linked,
                   popped>>

\* Node(value): next is null.
PushConstruct(p) ==
    /\ Goto(p, "construct", "tail")
    /\ next' = [next EXCEPT ![node[p]] = Null]
    /\ data' = [data EXCEPT ![node[p]] = item[p]]
    /\ UNCHANGED <<head, tail, pool, unused, node, item, oldTail, seenNext,
                   freeing, fresh, linked, popped, reused>>

LoadTail(p) ==
    /\ Goto(p, "tail", "next")
    /\ oldTail' = [oldTail EXCEPT ![p] = tail]
    /\ UNCHANGED <<head, tail, next, data, pool, unused, node, item, seenNext,
                   freeing, fresh, linked, popped, reused>>

\* Mutant of LoadNext: the branches are swapped.
LoadNextSwapped(p) ==
    /\ Goto(p, "next", IF next[oldTail[p]] = Null THEN "help" ELSE "link")
    /\ seenNext' = [seenNext EXCEPT ![p] = next[oldTail[p]]]
    /\ UNCHANGED <<head, tail, next, data, pool, unused, node, item, oldTail,
                   freeing, fresh, linked, popped, reused>>

LoadNext(p) ==
    /\ Goto(p, "next", IF next[oldTail[p]] = Null THEN "link" ELSE "help")
    /\ seenNext' = [seenNext EXCEPT ![p] = next[oldTail[p]]]
    /\ UNCHANGED <<head, tail, next, data, pool, unused, node, item, oldTail,
                   freeing, fresh, linked, popped, reused>>

\* Mutant of Link: a store where the compare-exchange is.
LinkStores(p) ==
    /\ Goto(p, "link", "swing")
    /\ next' = [next EXCEPT ![oldTail[p]] = node[p]]
    /\ linked' = Append(linked, item[p])
    /\ UNCHANGED <<head, tail, data, pool, unused, node, item, oldTail,
                   seenNext, freeing, fresh, popped, reused>>

\* oldTail->next from null to newNode
Link(p) ==
    /\ Goto(p, "link", "swing")
    /\ next[oldTail[p]] = Null
    /\ next' = [next EXCEPT ![oldTail[p]] = node[p]]
    /\ linked' = Append(linked, item[p])
    /\ UNCHANGED <<head, tail, data, pool, unused, node, item, oldTail,
                   seenNext, freeing, fresh, popped, reused>>

\* Mutant of LinkFails: the exchange is tried again on the same node.
LinkFailsKeepsTail(p) ==
    /\ Goto(p, "link", "link")
    /\ next[oldTail[p]] # Null
    /\ UNCHANGED <<head, tail, next, data, pool, unused, node, item, oldTail,
                   seenNext, freeing, fresh, linked, popped, reused>>

LinkFails(p) ==
    /\ Goto(p, "link", "tail")
    /\ next[oldTail[p]] # Null
    /\ UNCHANGED <<head, tail, next, data, pool, unused, node, item, oldTail,
                   seenNext, freeing, fresh, linked, popped, reused>>

\* _tail from oldTail to newTail, if it is still oldTail.
SwingTail(p, newTail) ==
    /\ tail' = IF tail = oldTail[p] THEN newTail ELSE tail
    /\ UNCHANGED <<head, next, data, pool, unused, node, item, oldTail,
                   seenNext, freeing, fresh, linked, popped, reused>>

Help(p) == Goto(p, "help", "tail") /\ SwingTail(p, seenNext[p])

Swing(p) == Goto(p, "swing", "idle") /\ SwingTail(p, node[p])

-----------------------------------------------------------------------------
(* Pop, by the one consumer.  Only it touches _head.  When the dummy has no  *)
(* successor, Pop returns T() and changes nothing.                           *)

Pop ==
    /\ freeing = Null /\ next[head] # Null
    /\ popped' = Append(popped, data[next[head]])
    /\ head' = next[head]
    /\ freeing' = head
    /\ UNCHANGED <<tail, next, data, pool, unused, pc, node, item, oldTail,
                   seenNext, fresh, linked, reused>>

\* Mutant of PopFree: the node that became the dummy is freed.
PopFreeHead ==
    /\ freeing # Null
    /\ pool' = <<head>> \o pool
    /\ freeing' = Null
    /\ UNCHANGED <<head, tail, next, data, unused, pc, node, item, oldTail,
                   seenNext, fresh, linked, popped, reused>>

\* xdelete(oldHead); the pool writes nothing into the node.
PopFree ==
    /\ freeing # Null
    /\ pool' = <<freeing>> \o pool
    /\ freeing' = Null
    /\ UNCHANGED <<head, tail, next, data, unused, pc, node, item, oldTail,
                   seenNext, fresh, linked, popped, reused>>

-----------------------------------------------------------------------------
PushStep(p) ==
    \/ PushConstruct(p) \/ LoadTail(p) \/ LoadNext(p)
    \/ Link(p) \/ LinkFails(p) \/ Help(p) \/ Swing(p)

\* The modelled load is over.
Quiescent ==
    /\ fresh = {} /\ freeing = Null /\ next[head] = Null
    /\ \A p \in Producers : pc[p] = "idle"
    /\ UNCHANGED vars

Next ==
    \/ \E p \in Producers : PushStep(p) \/ \E i \in Items : PushAlloc(p, i)
    \/ Pop \/ PopFree
    \/ Quiescent

Spec == Init /\ [][Next]_vars

\* A producer inside Push is scheduled, and the executor keeps popping.
FairSpec ==
    /\ Spec
    /\ \A p \in Producers : WF_vars(PushStep(p))
    /\ WF_vars(Pop \/ PopFree)

-----------------------------------------------------------------------------
(* Properties *)

Labels == {"idle", "construct", "tail", "next", "link", "help", "swing"}

\* The type invariant; it also says that neither end is ever null.
TypeOK ==
    /\ head \in Nodes /\ tail \in Nodes
    /\ next \in [Nodes -> Nodes \cup {Null}]
    /\ data \in [Nodes -> Items \cup {NoItem}]
    /\ pool \in Seq(Nodes)
    /\ unused \in SUBSET Nodes
    /\ pc \in [Producers -> Labels]
    /\ node \in [Producers -> Nodes \cup {Null}]
    /\ item \in [Producers -> Items \cup {NoItem}]
    /\ oldTail \in [Producers -> Nodes \cup {Null}]
    /\ seenNext \in [Producers -> Nodes \cup {Null}]
    /\ freeing \in Nodes \cup {Null}
    /\ fresh \in SUBSET Items
    /\ linked \in Seq(Items)
    /\ popped \in Seq(Items \cup {NoItem})
    /\ reused \in BOOLEAN

\* The nodes from _head along next.
Chain ==
    LET succ == [n \in Nodes \cup {Null} |-> IF n = Null THEN Null ELSE next[n]]
        at[k \in 1..Cardinality(Nodes)] == IF k = 1 THEN head ELSE succ[at[k - 1]]
        live == {k \in 1..Cardinality(Nodes) : at[k] # Null}
    IN [k \in live |-> at[k]]

\* The items Pop has still to return.
Contents == LET nodes == Tail(Chain)
            IN [k \in 1..Len(nodes) |-> data[nodes[k]]]

\* No node the consumer can still reach has been given to the pool, nor
\* handed out again: the pool would construct a new node over a job.
LiveNodesNotFreed ==
    reused \/ Range(Chain) \cap (Range(pool) \cup unused \cup {freeing}) = {}

\* Every Push returns: its loop ends, however often other producers and the
\* consumer get in between.
PushReturns ==
    \A p \in Producers : pc[p] # "idle" ~> pc[p] = "idle" \/ reused

\* JobQueue.cpp:13-15 and README.md:19: jobs pushed by many threads are all
\* there for the thread that executes, in the order they were pushed.
NothingLost == Range(linked) \subseteq Range(popped) \cup Range(Contents)

\* The queue is the abstract FIFO, however producers and the consumer race: an
\* item enters at the exchange on next and leaves at the store to _head.  It
\* is one as long as no node came back from the pool while a Push still
\* relied on it.
Queue == INSTANCE FifoQueue
             WITH queue <- Contents, out <- popped, broken <- reused
ImplementsFifoQueue == Queue!Spec
=============================================================================
