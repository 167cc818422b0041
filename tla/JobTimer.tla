------------------------------ MODULE JobTimer ------------------------------
(***************************************************************************)
(* ServerCore/JobTimer.cpp: jobs that are to be pushed to their owner, a   *)
(* JobQueue, after some ticks.  Any thread reserves; every worker loop     *)
(* calls Distribute with the tick it just read, and the exchange on        *)
(* _distributing lets one of them through at a time.                       *)
(*                                                                         *)
(* _items is a std::priority_queue ordered by TimerItem::operator<, which  *)
(* compares executeTick: its top is the item with the LATEST tick.         *)
(***************************************************************************)
EXTENDS Integers, Sequences, FiniteSets

CONSTANTS
    Threads,    \* threads that reserve and distribute
    Owners,     \* the JobQueues that own timer jobs
    Jobs,       \* jobs; each is reserved at most once
    Delays,     \* the values of tickAfter
    MaxTick     \* bound: the last tick of the clock that is modelled

ASSUME JobTimerAssumption ==
    /\ Delays \subseteq Nat
    /\ MaxTick \in Nat

VARIABLES
    now,          \* TimeUtils::GetTick64
    items,        \* _items
    distributing, \* _distributing
    pc,           \* where each thread is in Distribute
    seen,         \* the parameter now of Distribute
    due,          \* the local vector items of Distribute
    reserving,    \* the items a thread made in Reserve and has not pushed
    alive,        \* owners that still exist
    fresh,        \* jobs nobody has reserved yet
    fired,        \* history: the jobs given to their owner, in order
    dropped       \* history: the jobs deleted without that

vars == <<now, items, distributing, pc, seen, due, reserving, alive, fresh,
          fired, dropped>>

Items == [job : Jobs, owner : Owners, executeTick : Nat]

Init ==
    /\ now = 0
    /\ items = {}
    /\ distributing = FALSE
    /\ pc = [t \in Threads |-> "idle"]
    /\ seen = [t \in Threads |-> 0]
    /\ due = [t \in Threads |-> <<>>]
    /\ reserving = [t \in Threads |-> {}]
    /\ alive = Owners
    /\ fresh = Jobs
    /\ fired = <<>>
    /\ dropped = {}

Tick ==
    /\ now < MaxTick
    /\ now' = now + 1
    /\ UNCHANGED <<items, distributing, pc, seen, due, reserving, alive, fresh,
                   fired, dropped>>

\* The last shared_ptr to an owner is gone (external: its holders).
OwnerExpires(o) ==
    /\ o \in alive
    /\ alive' = alive \ {o}
    /\ UNCHANGED <<now, items, distributing, pc, seen, due, reserving, fresh,
                   fired, dropped>>

-----------------------------------------------------------------------------
(* Reserve: the tick is computed before the lock is asked for.  A thread    *)
(* reserves from its own loop, or from a job that its delivery runs.        *)

\* Mutant of Reserve: the delay is taken off the clock.
ReserveBackwards(t, j, o, tickAfter) ==
    /\ pc[t] \in {"idle", "deliver"} /\ reserving[t] = {}
    /\ j \in fresh /\ o \in alive
    /\ fresh' = fresh \ {j}
    /\ reserving' = [reserving EXCEPT ![t] =
           {[job |-> j, owner |-> o, executeTick |-> now - tickAfter]}]
    /\ UNCHANGED <<now, items, distributing, pc, seen, due, alive, fired, dropped>>

Reserve(t, j, o, tickAfter) ==
    /\ pc[t] \in {"idle", "deliver"} /\ reserving[t] = {}
    /\ j \in fresh /\ o \in alive
    /\ now + tickAfter <= MaxTick
    /\ fresh' = fresh \ {j}
    /\ reserving' = [reserving EXCEPT ![t] =
           {[job |-> j, owner |-> o, executeTick |-> now + tickAfter]}]
    /\ UNCHANGED <<now, items, distributing, pc, seen, due, alive, fired, dropped>>

ReservePush(t) ==
    /\ reserving[t] # {}
    /\ items' = items \cup reserving[t]
    /\ reserving' = [reserving EXCEPT ![t] = {}]
    /\ UNCHANGED <<now, distributing, pc, seen, due, alive, fresh, fired, dropped>>

-----------------------------------------------------------------------------
(* Distribute *)

\* ThreadManager::DistributeReservedJobs reads the clock, then calls.
DistributeReservedJobs(t) ==
    /\ pc[t] = "idle" /\ reserving[t] = {}
    /\ seen' = [seen EXCEPT ![t] = now]
    /\ pc' = [pc EXCEPT ![t] = "called"]
    /\ UNCHANGED <<now, items, distributing, due, reserving, alive, fresh,
                   fired, dropped>>

\* exchange(true): only the thread that found it false goes on.
Exchange(t) ==
    /\ pc[t] = "called"
    /\ distributing' = TRUE
    /\ pc' = [pc EXCEPT ![t] = IF distributing THEN "idle" ELSE "collect"]
    /\ UNCHANGED <<now, items, seen, due, reserving, alive, fresh, fired, dropped>>

\* TimerItem::operator<; the top of the priority_queue is an item that is
\* less than no other.
Less(a, b) == a.executeTick < b.executeTick

\* Mutant of Popped: an item due at the next tick is due.
PoppedEarly(tick) ==
    {item \in items :
        \A other \in items :
            ~Less(other, item) => other.executeTick <= tick + 1}

\* The loop pops the top for as long as it is due: an item goes when every
\* item that comes off the heap before it is due, and so is it.
Popped(tick) ==
    {item \in items :
        \A other \in items :
            ~Less(other, item) => other.executeTick <= tick}

\* The orders in which the heap may give up the items of S.
Orders(S) ==
    {s \in [1..Cardinality(S) -> S] :
        \A i, k \in DOMAIN s : i < k => s[i] # s[k] /\ ~Less(s[i], s[k])}

\* Mutant of Collect: the items are copied and not popped.
CollectCopies(t) ==
    /\ pc[t] = "collect"
    /\ \E s \in Orders(Popped(seen[t])) : due' = [due EXCEPT ![t] = s]
    /\ pc' = [pc EXCEPT ![t] = "deliver"]
    /\ UNCHANGED <<now, items, distributing, seen, reserving, alive, fresh,
                   fired, dropped>>

\* The block under WRITE_LOCK.
Collect(t) ==
    /\ pc[t] = "collect"
    /\ \E s \in Orders(Popped(seen[t])) : due' = [due EXCEPT ![t] = s]
    /\ items' = items \ Popped(seen[t])
    /\ pc' = [pc EXCEPT ![t] = "deliver"]
    /\ UNCHANGED <<now, distributing, seen, reserving, alive, fresh, fired, dropped>>

\* owner.lock() and, if the owner still exists, its Push, which may run the
\* job before it returns; the JobData is deleted either way.
Deliver(t) ==
    /\ pc[t] = "deliver" /\ due[t] # <<>> /\ reserving[t] = {}
    /\ LET item == Head(due[t]) IN
         IF item.owner \in alive
           THEN /\ fired' = Append(fired, item.job)
                /\ UNCHANGED dropped
           ELSE /\ dropped' = dropped \cup {item.job}
                /\ UNCHANGED fired
    /\ due' = [due EXCEPT ![t] = Tail(@)]
    /\ UNCHANGED <<now, items, distributing, pc, seen, reserving, alive, fresh>>

\* Mutant of Release: the store is forgotten.
ReleaseForgotten(t) ==
    /\ pc[t] = "deliver" /\ due[t] = <<>> /\ reserving[t] = {}
    /\ pc' = [pc EXCEPT ![t] = "idle"]
    /\ UNCHANGED <<now, items, distributing, seen, due, reserving, alive, fresh,
                   fired, dropped>>

\* _distributing.store(false)
Release(t) ==
    /\ pc[t] = "deliver" /\ due[t] = <<>> /\ reserving[t] = {}
    /\ distributing' = FALSE
    /\ pc' = [pc EXCEPT ![t] = "idle"]
    /\ UNCHANGED <<now, items, seen, due, reserving, alive, fresh, fired, dropped>>

\* Clear deletes every item under WRITE_LOCK (no code of src/ calls it yet).
Clear ==
    /\ items # {}
    /\ items' = {}
    /\ dropped' = dropped \cup {item.job : item \in items}
    /\ UNCHANGED <<now, distributing, pc, seen, due, reserving, alive, fresh, fired>>

-----------------------------------------------------------------------------
\* What a thread does once it is in Reserve or Distribute.
Progress(t) ==
    ReservePush(t) \/ Exchange(t) \/ Collect(t) \/ Deliver(t) \/ Release(t)

Next ==
    \/ Tick \/ Clear
    \/ \E o \in Owners : OwnerExpires(o)
    \/ \E t \in Threads :
           \/ Progress(t) \/ DistributeReservedJobs(t)
           \/ \E j \in Jobs, o \in Owners, tickAfter \in Delays :
                  Reserve(t, j, o, tickAfter)

Spec == Init /\ [][Next]_vars

\* Time passes, threads are scheduled, and every worker loop comes back to
\* DistributeReservedJobs.
FairSpec ==
    /\ Spec
    /\ WF_vars(Tick)
    /\ \A t \in Threads :
           WF_vars(Progress(t)) /\ WF_vars(DistributeReservedJobs(t))

-----------------------------------------------------------------------------
(* Properties *)

\* The type invariant; it also says that no tick underflows.
TypeOK ==
    /\ now \in 0..MaxTick
    /\ items \in SUBSET Items
    /\ distributing \in BOOLEAN
    /\ pc \in [Threads -> {"idle", "called", "collect", "deliver"}]
    /\ seen \in [Threads -> 0..MaxTick]
    /\ due \in [Threads -> Seq(Items)]
    /\ reserving \in [Threads -> SUBSET Items]
    /\ alive \in SUBSET Owners
    /\ fresh \in SUBSET Jobs
    /\ fired \in Seq(Jobs)
    /\ dropped \in SUBSET Jobs

\* JobTimer.cpp:17: one thread at a time is between the exchange and the
\* store, and _distributing is up exactly as long: two threads would deliver
\* at once, a flag left up would end all delivery.
OneDistributor ==
    /\ \A t, u \in Threads :
           {pc[t], pc[u]} \subseteq {"collect", "deliver"} => t = u
    /\ distributing <=> \E t \in Threads : pc[t] \in {"collect", "deliver"}

\* The places job j is in: each is a tag and where in that place it is.
Of(j, S) == {item \in S : item.job = j}

Reserved(j) ==
    UNION {{<<"reserving", t, item>> : item \in Of(j, reserving[t])} : t \in Threads}

Collected(j) ==
    UNION {{<<"due", t, i>> : i \in {k \in DOMAIN due[t] : due[t][k].job = j}} :
             t \in Threads}

Places(j) ==
    {<<"unreserved", k>> : k \in fresh \cap {j}}
    \cup {<<"heap", item>> : item \in Of(j, items)}
    \cup Reserved(j) \cup Collected(j)
    \cup {<<"fired", i>> : i \in {k \in DOMAIN fired : fired[k] = j}}
    \cup {<<"dropped", k>> : k \in dropped \cap {j}}

\* A job is in one place at any time, and once: it is never lost between the
\* heap, the local vector and its owner, and never given to its owner twice,
\* however reservations, distributions, Clear and dying owners interleave.
EachJobOnce == \A j \in Jobs : \E place \in Places(j) : Places(j) = {place}

\* No job reaches its owner before the tick it was reserved for: what a
\* distribution took was due at the tick it was given, which has passed.
NeverEarly ==
    \A t \in Threads :
        /\ seen[t] <= now
        /\ \A i \in 1..Len(due[t]) : due[t][i].executeTick <= seen[t]

\* A job that was reserved fires in the end, unless its owner dies or Clear
\* deletes it.  This is for a load that ends: it says nothing of a server
\* that keeps reserving, see DueIsDistributed.
EveryReservationFires ==
    \A j \in Jobs :
        j \notin fresh ~>
            j \in dropped \/ \E i \in 1..Len(fired) : fired[i] = j

\* JobTimer.h:40 calls tickAfter the time the job is to be processed at, and
\* JobTimer.h:45-47 has it late only when the server is slow: when Distribute
\* has taken what it takes, nothing that is due is left.
DueIsDistributed ==
    [][\A t \in Threads :
           pc[t] = "collect" /\ pc'[t] = "deliver" =>
               \A item \in items' : item.executeTick > seen[t]]_vars
=============================================================================
