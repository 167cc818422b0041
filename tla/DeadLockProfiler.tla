------------------------- MODULE DeadLockProfiler -------------------------
(***************************************************************************)
(* ServerCore/DeadLockProfiler.cpp, which a DEV_TEST build asks before it   *)
(* takes a Lock: the order in which threads nest locks is a graph over the *)
(* names of the locks, and a cycle in it crashes the server before the     *)
(* threads can wait for each other.  Locks are taken with WriteLock here:  *)
(* they exclude and are recursive (Lock.tla).                              *)
(***************************************************************************)
EXTENDS Integers, Sequences, SequencesExt, FiniteSets

CONSTANTS
    Callers,    \* the threads that take locks
    Locks, NoLock,
    Name,       \* of every lock: that of its class, so locks may share it
    MaxNesting  \* bound: guards a thread holds at a time

ASSUME DeadLockProfilerAssumption ==
    /\ IsFiniteSet(Callers) /\ IsFiniteSet(Locks)
    /\ NoLock \notin Locks
    /\ Name \in [Locks -> Range(Name)]

VARIABLES
    holding,    \* per thread: the locks of its guards, the last one on top
    wanted,     \* per thread: the lock it is inside WriteLock of
    names,      \* _nameToId: the names in the order of their ids
    history,    \* _lockHistory
    LLockStack, \* per thread: ids
    report      \* the cycle of DEADLOCK_DETECTED; the process has crashed

profilerVars == <<holding, wanted, names, history, LLockStack, report>>

MaxId == Cardinality(Range(Name))
Ids == 1..MaxId

ProfilerInit ==
    /\ holding = [t \in Callers |-> <<>>]
    /\ wanted = [t \in Callers |-> NoLock]
    /\ names = <<>>
    /\ history = [i \in Ids |-> {}]
    /\ LLockStack = [t \in Callers |-> <<>>]
    /\ report = <<>>

-----------------------------------------------------------------------------
(* CheckCycle *)

\* _discoveredOrder (0: not yet), _discoveredCount (from 1), _finished, _parent, and the
\* two ends of the edge that closes a cycle: the CRASH, which ends the search.
Searches ==
    [order : [Ids -> Nat], count : Nat \ {0}, finished : [Ids -> BOOLEAN],
     parent : [Ids -> Ids \cup {0}], closing : {<<>>} \cup (Ids \X Ids)]

NewSearch ==
    [order |-> [i \in Ids |-> 0], count |-> 1,
     finished |-> [i \in Ids |-> FALSE], parent |-> [i \in Ids |-> 0],
     closing |-> <<>>]

Discover(s, here) == [s EXCEPT !.order[here] = s.count, !.count = @ + 1]
Descend(s, here, there) == [s EXCEPT !.parent[there] = here]
Close(s, here, there) == [s EXCEPT !.closing = <<here, there>>]
Finish(s, here) ==
    IF s.closing # <<>> THEN s ELSE [s EXCEPT !.finished[here] = TRUE]

\* The search s goes on at here: every lock that was taken under here and that
\* is discovered, but not finished, closes a cycle.
Dfs(graph) ==
    LET dfs[s \in Searches] ==
            [here \in Ids |->
                LET Edge(f, there) ==
                        IF f.closing # <<>> THEN f
                        ELSE IF f.order[there] = 0
                          THEN dfs[Descend(f, here, there)][there]
                        ELSE IF \/ f.order[here] < f.order[there]
                                \/ f.finished[there]
                          THEN f
                        ELSE Close(f, here, there)
                    edges[k \in 0..MaxId] ==
                        IF k = 0 THEN Discover(s, here)
                        ELSE IF k \in graph[here] THEN Edge(edges[k - 1], k)
                        ELSE edges[k - 1]
                IN IF s.order[here] # 0 \/ s.closing # <<>> THEN s
                   ELSE Finish(edges[MaxId], here)]
    IN dfs

\* From here along _parent to there.
Path(parent, here, there) ==
    CHOOSE path \in SeqOf(Ids, MaxId) :
        /\ path # <<>> /\ path[1] = here /\ Last(path) = there
        /\ \A k \in 1..(Len(path) - 1) :
               path[k] # there /\ path[k + 1] = parent[path[k]]

Reported(s) == IF s.closing = <<>> THEN <<>>
               ELSE Path(s.parent, s.closing[1], s.closing[2])

\* Mutant: the search starts at the first lock only.
CheckCycleFromFirst(graph) == Reported(Dfs(graph)[NewSearch][1])

\* The path that is reported; empty if the graph has no cycle.
CheckCycle(graph) ==
    LET from[i \in 0..MaxId] ==
            IF i = 0 THEN NewSearch ELSE Dfs(graph)[from[i - 1]][i]
    IN Reported(from[MaxId])

-----------------------------------------------------------------------------
(* The calls of WriteLock and WriteUnlock *)

\* PushLock, under the profiler's mutex.
PushLock(t, l) ==
    LET known == IF Name[l] \in Range(names) THEN names
                                             ELSE Append(names, Name[l])
        lockId == CHOOSE i \in DOMAIN known : known[i] = Name[l]
        nested == LLockStack[t] # <<>> /\ Last(LLockStack[t]) # lockId
    IN /\ report = <<>>
       /\ wanted[t] = NoLock /\ Len(holding[t]) < MaxNesting
       /\ wanted' = [wanted EXCEPT ![t] = l]
       /\ names' = known
       /\ IF nested /\ lockId \notin history[Last(LLockStack[t])]
            THEN /\ history' = [history EXCEPT
                                   ![Last(LLockStack[t])] = @ \cup {lockId}]
                 /\ report' = CheckCycle(history')
            ELSE UNCHANGED <<history, report>>
       /\ LLockStack' = [LLockStack EXCEPT ![t] = Append(@, lockId)]
       /\ UNCHANGED holding

Holder(l) == {t \in Callers : l \in Range(holding[t])}

\* The rest of WriteLock.
Acquire(t) ==
    /\ report = <<>>
    /\ wanted[t] # NoLock /\ Holder(wanted[t]) \subseteq {t}
    /\ holding' = [holding EXCEPT ![t] = Append(@, wanted[t])]
    /\ wanted' = [wanted EXCEPT ![t] = NoLock]
    /\ UNCHANGED <<names, history, LLockStack, report>>

\* A guard is destroyed: PopLock, which finds its lock on top, and the rest of
\* WriteUnlock.
PopLock(t) ==
    /\ report = <<>>
    /\ wanted[t] = NoLock /\ holding[t] # <<>>
    /\ LLockStack' = [LLockStack EXCEPT ![t] = Front(@)]
    /\ holding' = [holding EXCEPT ![t] = Front(@)]
    /\ UNCHANGED <<wanted, names, history, report>>

ProfilerNext ==
    \E t \in Callers :
        \/ \E l \in Locks : PushLock(t, l)
        \/ Acquire(t) \/ PopLock(t)

ProfilerSpec == ProfilerInit /\ [][ProfilerNext]_profilerVars

-----------------------------------------------------------------------------
(* Properties *)

WaitsFor(t, u) == t # u /\ wanted[t] # NoLock /\ u \in Holder(wanted[t])

\* Callers never wait for each other in a circle, whichever locks they nest in
\* whichever order: the process has crashed with a report before they can.
\* Only a circle over locks of one name, such as the two of a Session, goes
\* unseen (DeadLockProfiler.cpp:25).  And what is reported is a cycle of the
\* graph.
DeadlockForeseen ==
    /\ \A n \in 2..Cardinality(Callers) : \A c \in [1..n -> Callers] :
           (report = <<>> /\ \A i \in 1..n : WaitsFor(c[i], c[(i % n) + 1]))
               => Cardinality({Name[wanted[c[i]]] : i \in 1..n}) = 1
    /\ \A i \in DOMAIN report :
           report[i] \in history[report[(i % Len(report)) + 1]]
=============================================================================
