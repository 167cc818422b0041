---------------------------- MODULE LockFreeStack ----------------------------
(***************************************************************************)
(* ServerCore/LockFreeStack.h as MemoryPool.h uses it: the stack of the    *)
(* freed blocks of one type.  MemoryPool::Delete pushes a block,           *)
(* MemoryPool::New pops one and asks malloc when there is none.            *)
(*                                                                         *)
(* A node of the stack comes from the heap.  It may not be deleted while   *)
(* another thread inside TryPop can still read it, so a thread that is not *)
(* alone in TryPop leaves its node in _pendingList.                        *)
(***************************************************************************)
EXTENDS Integers, Sequences, SequencesExt, FiniteSets

CONSTANTS
    Threads,
    Blocks,     \* bound: the blocks that are followed
    Nodes,      \* bound: the addresses the heap has for a Node
    Null        \* the null Node*

ASSUME StackAssumption ==
    /\ IsFiniteSet(Threads) /\ IsFiniteSet(Nodes)
    /\ Null \notin Nodes

VARIABLES
    head, pendingList, popCount,    \* _head, _pendingList, _popCount
    next, data,     \* the fields of every node
    allocated,      \* the nodes the heap has handed out
    inUse,          \* the blocks MemoryPool has handed out
    unused,         \* the blocks malloc has not handed out yet
    pc,             \* where each thread is
    node,           \* node of Push, prevHead of TryPop
    seen,           \* prevHead->next, as evaluated for the exchange
    first, last,    \* the parameters of ChainPendingNodeList, DeleteNodes
    chain           \* history: the nodes linked in the stack, from the top

locals == <<node, seen, first, last>>
blockVars == <<inUse, unused>>
vars == <<head, pendingList, popCount, next, data, allocated, blockVars, pc,
          locals, chain>>

Init ==
    /\ head = Null /\ pendingList = Null /\ popCount = 0
    /\ next = [n \in Nodes |-> Null]
    /\ data = [n \in Nodes |-> Null]
    /\ allocated = {}
    /\ inUse = {} /\ unused = Blocks
    /\ pc = [t \in Threads |-> "idle"]
    /\ node = [t \in Threads |-> Null] /\ seen = [t \in Threads |-> Null]
    /\ first = [t \in Threads |-> Null] /\ last = [t \in Threads |-> Null]
    /\ chain = <<>>

Goto(t, a, b) ==
    /\ pc[t] = a
    /\ pc' = [pc EXCEPT ![t] = b]

\* The locals of t go out of scope.
Return(t, a) ==
    /\ Goto(t, a, "idle")
    /\ node' = [node EXCEPT ![t] = Null] /\ seen' = [seen EXCEPT ![t] = Null]
    /\ first' = [first EXCEPT ![t] = Null] /\ last' = [last EXCEPT ![t] = Null]

-----------------------------------------------------------------------------
(* Push *)

\* MemoryPool::Delete of a block; the Node is made, and its next is null.
Push(t, b) ==
    /\ b \in inUse
    /\ Goto(t, "idle", "pushCas")
    /\ inUse' = inUse \ {b}
    /\ \E n \in Nodes \ allocated :
           /\ allocated' = allocated \cup {n}
           /\ node' = [node EXCEPT ![t] = n]
           /\ next' = [next EXCEPT ![n] = Null]
           /\ data' = [data EXCEPT ![n] = b]
    /\ UNCHANGED <<head, pendingList, popCount, unused, seen, first, last,
                   chain>>

\* The compare-exchange finds node->next, ...
PushCas(t) ==
    /\ Return(t, "pushCas")
    /\ head = next[node[t]]
    /\ head' = node[t]
    /\ chain' = <<node[t]>> \o chain
    /\ UNCHANGED <<pendingList, popCount, next, data, allocated, blockVars>>

\* ... or puts what it found there.
PushCasFails(t) ==
    /\ pc[t] = "pushCas"
    /\ head # next[node[t]]
    /\ next' = [next EXCEPT ![node[t]] = head]
    /\ UNCHANGED <<head, pendingList, popCount, data, allocated, blockVars, pc,
                   locals, chain>>

-----------------------------------------------------------------------------
(* TryPop *)

\* MemoryPool::New
TryPop(t) ==
    /\ Goto(t, "idle", "loadHead")
    /\ popCount' = popCount + 1
    /\ UNCHANGED <<head, pendingList, next, data, allocated, blockVars, locals,
                   chain>>

\* prevHead = _head, and the first half of the loop's condition.
SeeHead(t, here) ==
    /\ Goto(t, here, IF head = Null THEN "leaveEmpty" ELSE "readNext")
    /\ node' = [node EXCEPT ![t] = head]
    /\ UNCHANGED <<head, pendingList, popCount, next, data, allocated,
                   blockVars, seen, first, last, chain>>

LoadHead(t) == SeeHead(t, "loadHead")

ReadNext(t) ==
    /\ Goto(t, "readNext", "popCas")
    /\ seen' = [seen EXCEPT ![t] = next[node[t]]]
    /\ UNCHANGED <<head, pendingList, popCount, next, data, allocated,
                   blockVars, node, first, last, chain>>

\* Mutant: a store where the compare-exchange is.
PopStores(t) ==
    /\ Goto(t, "popCas", "count")
    /\ head' = seen[t]
    /\ chain' = IF chain = <<>> THEN <<>> ELSE Tail(chain)
    /\ UNCHANGED <<pendingList, popCount, next, data, allocated, blockVars,
                   locals>>

PopCas(t) ==
    /\ head = node[t]
    /\ Goto(t, "popCas", "count")
    /\ head' = seen[t]
    /\ chain' = IF chain = <<>> THEN <<>> ELSE Tail(chain)
    /\ UNCHANGED <<pendingList, popCount, next, data, allocated, blockVars,
                   locals>>

PopCasFails(t) ==
    /\ head # node[t]
    /\ SeeHead(t, "popCas")

\* malloc gives New a block that nobody had, among Blocks or not.
Malloc ==
    \/ UNCHANGED blockVars
    \/ \E b \in unused : unused' = unused \ {b} /\ inUse' = inUse \cup {b}

\* Mutant: the count is not taken back.
LeaveEmptyCounted(t) ==
    /\ Return(t, "leaveEmpty")
    /\ Malloc
    /\ UNCHANGED <<head, pendingList, popCount, next, data, allocated, chain>>

LeaveEmpty(t) ==
    /\ Return(t, "leaveEmpty")
    /\ popCount' = popCount - 1
    /\ Malloc
    /\ UNCHANGED <<head, pendingList, next, data, allocated, chain>>

-----------------------------------------------------------------------------
(* TryDelete *)

\* The block is read from the node, and the load of _popCount decides.  A
\* single pending node is a list that ends with itself.
TryDelete(t) ==
    /\ Goto(t, "count", IF popCount = 1 THEN "exchange" ELSE "chainLoad")
    /\ inUse' = inUse \cup {data[node[t]]}
    /\ first' = IF popCount = 1 THEN first ELSE [first EXCEPT ![t] = node[t]]
    /\ last' = IF popCount = 1 THEN last ELSE [last EXCEPT ![t] = node[t]]
    /\ UNCHANGED <<head, pendingList, popCount, next, data, allocated, unused,
                   node, seen, chain>>

Exchange(t) ==
    /\ Goto(t, "exchange", "decrement")
    /\ first' = [first EXCEPT ![t] = pendingList]
    /\ last' = [last EXCEPT ![t] = pendingList]
    /\ pendingList' = Null
    /\ UNCHANGED <<head, popCount, next, data, allocated, blockVars, node,
                   seen, chain>>

\* Mutant: the pending nodes are deleted whoever has come in since the load.
DecrementDeletes(t) ==
    /\ Goto(t, "decrement", "deleteNodes")
    /\ popCount' = popCount - 1
    /\ UNCHANGED <<head, pendingList, next, data, allocated, blockVars, locals,
                   chain>>

\* Mutant: the pending nodes are not chained again.
DecrementForgets(t) ==
    /\ Goto(t, "decrement", IF popCount = 1 THEN "deleteNodes" ELSE "delete")
    /\ popCount' = popCount - 1
    /\ UNCHANGED <<head, pendingList, next, data, allocated, blockVars, locals,
                   chain>>

Decrement(t) ==
    /\ Goto(t, "decrement", IF popCount = 1 THEN "deleteNodes"
                            ELSE IF first[t] # Null THEN "findLast"
                            ELSE "delete")
    /\ popCount' = popCount - 1
    /\ UNCHANGED <<head, pendingList, next, data, allocated, blockVars, locals,
                   chain>>

\* The loop of DeleteNodes.
DeleteNodes(t) ==
    /\ Goto(t, "deleteNodes",
            IF first[t] = Null THEN "delete" ELSE "deleteNodes")
    /\ IF first[t] = Null
         THEN UNCHANGED <<allocated, first>>
         ELSE /\ allocated' = allocated \ {first[t]}
              /\ first' = [first EXCEPT ![t] = next[first[t]]]
    /\ UNCHANGED <<head, pendingList, popCount, next, data, blockVars, node,
                   seen, last, chain>>

\* The loop of ChainPendingNodeList that looks for the last node.
FindLast(t) ==
    LET following == next[last[t]]
    IN /\ pc[t] = "findLast"
       /\ Goto(t, "findLast", IF following = Null THEN "chainLoad"
                                                  ELSE "findLast")
       /\ last' = IF following = Null THEN last
                                      ELSE [last EXCEPT ![t] = following]
       /\ UNCHANGED <<head, pendingList, popCount, next, data, allocated,
                      blockVars, node, seen, first, chain>>

\* last->next = _pendingList
ChainLoad(t) ==
    /\ Goto(t, "chainLoad", "chainCas")
    /\ next' = [next EXCEPT ![last[t]] = pendingList]
    /\ UNCHANGED <<head, pendingList, popCount, data, allocated, blockVars,
                   locals, chain>>

\* The node of t was chained alone, or the list t had taken.
ChainCas(t) ==
    /\ Goto(t, "chainCas", IF first[t] = node[t] THEN "leave" ELSE "delete")
    /\ pendingList = next[last[t]]
    /\ pendingList' = first[t]
    /\ UNCHANGED <<head, popCount, next, data, allocated, blockVars, locals,
                   chain>>

ChainCasFails(t) ==
    /\ pc[t] = "chainCas"
    /\ pendingList # next[last[t]]
    /\ next' = [next EXCEPT ![last[t]] = pendingList]
    /\ UNCHANGED <<head, pendingList, popCount, data, allocated, blockVars, pc,
                   locals, chain>>

Leave(t) ==
    /\ Return(t, "leave")
    /\ popCount' = popCount - 1
    /\ UNCHANGED <<head, pendingList, next, data, allocated, blockVars, chain>>

\* delete prevHead
Delete(t) ==
    /\ Return(t, "delete")
    /\ allocated' = allocated \ {node[t]}
    /\ UNCHANGED <<head, pendingList, popCount, next, data, blockVars, chain>>

-----------------------------------------------------------------------------
Step(t) ==
    \/ PushCas(t) \/ PushCasFails(t)
    \/ LoadHead(t) \/ ReadNext(t) \/ PopCas(t) \/ PopCasFails(t)
    \/ LeaveEmpty(t)
    \/ TryDelete(t) \/ Exchange(t) \/ Decrement(t) \/ DeleteNodes(t)
    \/ FindLast(t) \/ ChainLoad(t) \/ ChainCas(t) \/ ChainCasFails(t)
    \/ Leave(t) \/ Delete(t)

Next ==
    \E t \in Threads : Step(t) \/ TryPop(t) \/ \E b \in Blocks : Push(t, b)

Spec == Init /\ [][Next]_vars

-----------------------------------------------------------------------------
(* Properties *)

Labels == {"idle", "pushCas", "loadHead", "readNext", "popCas", "leaveEmpty",
           "count", "exchange", "decrement", "deleteNodes", "findLast",
           "chainLoad", "chainCas", "leave", "delete"}
NodePtr == Nodes \cup {Null}

\* The type invariant.  _popCount counts threads.
TypeOK ==
    /\ head \in NodePtr /\ pendingList \in NodePtr
    /\ popCount \in 0..Cardinality(Threads)
    /\ next \in [Nodes -> NodePtr]
    /\ data \in [Nodes -> Blocks \cup {Null}]
    /\ allocated \in SUBSET Nodes
    /\ inUse \in SUBSET Blocks /\ unused \in SUBSET Blocks
    /\ pc \in [Threads -> Labels]
    /\ {node, seen, first, last} \subseteq [Threads -> NodePtr]
    /\ chain \in Seq(Nodes)

\* The node a thread is about to read, to write or to delete has not been
\* deleted, and what the exchange of TryPop compares _head with has not been
\* deleted either: it cannot be another node at the same address (ABA).
NoUseAfterFree ==
    \A t \in Threads :
        /\ pc[t] \in {"pushCas", "readNext", "popCas", "count", "delete"} =>
               node[t] \in allocated
        /\ pc[t] = "deleteNodes" => first[t] \in allocated \cup {Null}
        /\ pc[t] \in {"findLast", "chainLoad", "chainCas"} =>
               last[t] \in allocated

\* The nodes of the list that starts with n, up to end: the least set that
\* has n and, of all its nodes but end, the next.
NodesFrom(n, end) ==
    {m \in Nodes :
        \A S \in SUBSET Nodes :
            /\ n \in S \cup {Null}
            /\ \A x \in S \ {end} : next[x] \in S \cup {Null}
            => m \in S}

\* The nodes that t alone has to link or to delete.
Owned(t) ==
    CASE pc[t] \in {"pushCas", "count", "exchange", "delete"} -> {node[t]}
      [] pc[t] \in {"decrement", "deleteNodes", "findLast"} ->
             {node[t]} \cup NodesFrom(first[t], Null)
      [] pc[t] \in {"chainLoad", "chainCas"} ->
             {node[t]} \cup NodesFrom(first[t], last[t])
      [] OTHER -> {}

\* Every node the heap has handed out is in one place: in the stack, in
\* _pendingList, or with one thread.  None is leaked and none is deleted
\* twice.
NodesAccounted ==
    LET stacked == NodesFrom(head, Null)
        pending == NodesFrom(pendingList, Null)
    IN /\ allocated = stacked \cup pending \cup UNION {Owned(t) : t \in Threads}
       /\ stacked \cap pending = {}
       /\ \A t \in Threads :
              /\ Owned(t) \cap (stacked \cup pending) = {}
              /\ \A u \in Threads \ {t} : Owned(t) \cap Owned(u) = {}

\* The block of a node that t has made and not linked, or taken and not read.
Carried(t) == IF pc[t] \in {"pushCas", "count"} THEN {data[node[t]]} ELSE {}

\* The pool as its users see it: its blocks from the top, those that New has
\* handed out and Delete has not put back, and who is inside New.
Pooled == [i \in DOMAIN chain |-> data[chain[i]]]

TakenOut == inUse \cup UNION {Carried(t) : t \in Threads}

Asking ==
    [t \in Threads |->
        CASE pc[t] \in {"loadHead", "readNext", "popCas"} -> "yes"
          [] pc[t] = "leaveEmpty" -> "empty"
          [] OTHER -> "no"]

Pool == INSTANCE BlockPool WITH
    free <- Pooled, inUse <- TakenOut, asking <- Asking

\* MemoryPool with this stack implements the abstract pool: whatever the
\* threads do at the same time, no block has two users, none is lost, and
\* TryPop returns false only if the stack was empty.
ImplementsPool == Pool!Spec
=============================================================================
