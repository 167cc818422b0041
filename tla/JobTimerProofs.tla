--------------------------- MODULE JobTimerProofs ---------------------------
(***************************************************************************)
(* Theorems about JobTimer, for any threads, owners, jobs and delays.      *)
(***************************************************************************)
EXTENDS JobTimer, TLAPS, FiniteSetTheorems, FunctionTheorems,
        SequenceTheorems

\* The heap and what is about to be pushed on it are finite, and a thread
\* has items in hand only while it delivers.
LocalInv ==
    /\ IsFiniteSet(items)
    /\ \A t \in Threads :
           /\ IsFiniteSet(reserving[t])
           /\ pc[t] # "deliver" => due[t] = <<>>

\* OneDistributor, its second half split in two.
DistributorInv ==
    /\ \A t, u \in Threads :
           {pc[t], pc[u]} \subseteq {"collect", "deliver"} => t = u
    /\ \A t \in Threads : pc[t] \in {"collect", "deliver"} => distributing
    /\ distributing => \E t \in Threads : pc[t] \in {"collect", "deliver"}

IInv == TypeOK /\ LocalInv /\ DistributorInv /\ NeverEarly

-----------------------------------------------------------------------------
\* What comes off the heap was on it and is due: the loop tests the item it
\* pops, whichever way the heap is ordered.
LEMMA PoppedIsDue ==
    ASSUME items \in SUBSET Items, NEW tick, NEW i \in Popped(tick)
    PROVE  i \in items /\ i.executeTick <= tick
  <1>1. i \in items /\ i.executeTick \in Nat
    BY DEF Popped, Items
  <1>2. ~Less(i, i)
    BY <1>1 DEF Less
  <1>. QED
    BY <1>1, <1>2 DEF Popped

\* Whatever order the heap gives its items up in, the local vector holds
\* items that were popped.
LEMMA OrdersAreSequences ==
    ASSUME NEW S \in SUBSET Items, IsFiniteSet(S), NEW s \in Orders(S)
    PROVE  s \in Seq(Items) /\ \A i \in 1..Len(s) : s[i] \in S
  <1>1. Cardinality(S) \in Nat
    BY FS_CardinalityType
  <1>2. s \in [1..Cardinality(S) -> S]
    BY DEF Orders
  <1>3. s \in Seq(Items)
    BY <1>1, <1>2, IsASeq
  <1>4. DOMAIN s = 1..Len(s)
    BY <1>3, LenProperties
  <1>. QED
    BY <1>2, <1>3, <1>4

LEMMA InitInv == Init => IInv
  <1> SUFFICES ASSUME Init PROVE IInv
    OBVIOUS
  <1> USE JobTimerAssumption DEF Init
  <1>1. <<>> \in Seq(Items) /\ <<>> \in Seq(Jobs) /\ Len(<<>>) = 0
    BY EmptySeq
  <1>2. TypeOK
    <2>1. now \in 0..MaxTick /\ seen \in [Threads -> 0..MaxTick]
      OBVIOUS
    <2>2. due \in [Threads -> Seq(Items)] /\ fired \in Seq(Jobs)
      BY <1>1
    <2>. QED
      BY <2>1, <2>2 DEF TypeOK
  <1>3. LocalInv
    BY FS_EmptySet DEF LocalInv
  <1>4. DistributorInv
    BY DEF DistributorInv
  <1>5. NeverEarly
    BY <1>1 DEF NeverEarly
  <1>. QED
    BY <1>2, <1>3, <1>4, <1>5 DEF IInv

-----------------------------------------------------------------------------
(* Each action keeps the invariant.                                        *)

LEMMA TickInv == ASSUME IInv, Tick PROVE IInv'
  <1> USE DEF IInv, Tick
  <1>1. TypeOK'
    BY JobTimerAssumption DEF TypeOK
  <1>2. LocalInv' /\ DistributorInv'
    BY DEF LocalInv, DistributorInv
  <1>3. NeverEarly'
    BY DEF NeverEarly, TypeOK
  <1>. QED
    BY <1>1, <1>2, <1>3

LEMMA OwnerExpiresInv ==
    ASSUME IInv, NEW o \in Owners, OwnerExpires(o) PROVE IInv'
  BY DEF IInv, OwnerExpires, TypeOK, LocalInv, DistributorInv, NeverEarly

LEMMA ReserveInv ==
    ASSUME IInv, NEW t \in Threads, NEW j \in Jobs, NEW o \in Owners,
           NEW tickAfter \in Delays, Reserve(t, j, o, tickAfter)
    PROVE  IInv'
  <1> USE DEF IInv, Reserve
  <1> DEFINE reserved == [job |-> j, owner |-> o, executeTick |-> now + tickAfter]
  <1>1. reserved \in Items /\ IsFiniteSet({reserved})
    <2>1. now + tickAfter \in Nat
      BY JobTimerAssumption DEF TypeOK
    <2>. QED
      BY <2>1, FS_Singleton DEF Items
  <1>2. reserving' = [reserving EXCEPT ![t] = {reserved}]
    OBVIOUS
  <1> HIDE DEF reserved
  <1>3. TypeOK'
    BY <1>1, <1>2 DEF TypeOK
  <1>4. LocalInv'
    BY <1>1, <1>2 DEF LocalInv, TypeOK
  <1>5. DistributorInv' /\ NeverEarly'
    BY DEF DistributorInv, NeverEarly
  <1>. QED
    BY <1>3, <1>4, <1>5

LEMMA ReservePushInv ==
    ASSUME IInv, NEW t \in Threads, ReservePush(t) PROVE IInv'
  <1> USE DEF IInv, ReservePush
  <1>1. TypeOK'
    BY DEF TypeOK
  <1>2. IsFiniteSet(items') /\ IsFiniteSet({})
    BY FS_Union, FS_EmptySet DEF LocalInv
  <1>3. LocalInv'
    BY <1>2 DEF LocalInv, TypeOK
  <1>4. DistributorInv' /\ NeverEarly'
    BY DEF DistributorInv, NeverEarly
  <1>. QED
    BY <1>1, <1>3, <1>4

LEMMA DistributeReservedJobsInv ==
    ASSUME IInv, NEW t \in Threads, DistributeReservedJobs(t) PROVE IInv'
  <1> USE DEF IInv, DistributeReservedJobs
  <1>1. TypeOK' /\ LocalInv' /\ DistributorInv'
    BY DEF TypeOK, LocalInv, DistributorInv
  <1>2. due[t] = <<>> /\ Len(<<>>) = 0
    BY EmptySeq DEF LocalInv
  <1>3. NeverEarly'
    BY <1>2 DEF NeverEarly, TypeOK
  <1>. QED
    BY <1>1, <1>3

LEMMA ExchangeInv ==
    ASSUME IInv, NEW t \in Threads, Exchange(t) PROVE IInv'
  <1> USE DEF IInv, Exchange
  <1>1. TypeOK' /\ LocalInv' /\ NeverEarly'
    BY DEF TypeOK, LocalInv, NeverEarly
  <1>2. DistributorInv'
    <2>1. CASE distributing
      BY <2>1 DEF DistributorInv, TypeOK
    <2>2. CASE ~distributing
      BY <2>2 DEF DistributorInv, TypeOK
    <2>. QED
      BY <2>1, <2>2
  <1>. QED
    BY <1>1, <1>2

LEMMA CollectInv ==
    ASSUME IInv, NEW t \in Threads, Collect(t) PROVE IInv'
  <1> USE DEF IInv
  <1>1. PICK s \in Orders(Popped(seen[t])) : due' = [due EXCEPT ![t] = s]
    BY DEF Collect
  <1>2. /\ Popped(seen[t]) \subseteq items /\ items \in SUBSET Items
        /\ \A i \in Popped(seen[t]) : i.executeTick <= seen[t]
    BY PoppedIsDue DEF TypeOK
  <1>3. IsFiniteSet(Popped(seen[t])) /\ IsFiniteSet(items \ Popped(seen[t]))
    BY <1>2, FS_Subset, FS_Difference DEF LocalInv
  <1>4. s \in Seq(Items) /\ \A i \in 1..Len(s) : s[i] \in Popped(seen[t])
    BY <1>2, <1>3, OrdersAreSequences
  <1>5. TypeOK'
    BY <1>1, <1>4 DEF Collect, TypeOK
  <1>6. LocalInv'
    BY <1>1, <1>3 DEF Collect, LocalInv, TypeOK
  <1>7. DistributorInv'
    BY DEF Collect, DistributorInv, TypeOK
  <1>8. NeverEarly'
    <2> SUFFICES ASSUME NEW u \in Threads
                 PROVE  /\ seen[u] <= now
                        /\ \A i \in 1..Len(due'[u]) : due'[u][i].executeTick <= seen[u]
      BY DEF Collect, NeverEarly
    <2>1. CASE u = t
      BY <1>1, <1>2, <1>4, <2>1 DEF NeverEarly, TypeOK
    <2>2. CASE u # t
      BY <1>1, <2>2 DEF NeverEarly, TypeOK
    <2>. QED
      BY <2>1, <2>2
  <1>. QED
    BY <1>5, <1>6, <1>7, <1>8

LEMMA DeliverInv ==
    ASSUME IInv, NEW t \in Threads, Deliver(t) PROVE IInv'
  <1> USE DEF IInv
  <1>1. /\ pc[t] = "deliver" /\ due[t] \in Seq(Items) /\ due[t] # <<>>
        /\ due' = [due EXCEPT ![t] = Tail(@)]
    BY DEF Deliver, TypeOK
  <1>2. /\ Head(due[t]) \in Items /\ Tail(due[t]) \in Seq(Items)
        /\ Len(Tail(due[t])) = Len(due[t]) - 1 /\ Len(due[t]) \in Nat
        /\ \A i \in 1..Len(Tail(due[t])) : Tail(due[t])[i] = due[t][i + 1]
    BY <1>1, HeadTailProperties, LenProperties
  <1>3. Head(due[t]).job \in Jobs
    BY <1>2 DEF Items
  <1>4. Append(fired, Head(due[t]).job) \in Seq(Jobs)
    BY <1>3, AppendProperties DEF TypeOK
  <1>5. TypeOK'
    <2>1. due' \in [Threads -> Seq(Items)]
      BY <1>1, <1>2 DEF TypeOK
    <2>2. fired' \in Seq(Jobs) /\ dropped' \in SUBSET Jobs
      BY <1>3, <1>4 DEF Deliver, TypeOK
    <2>3. UNCHANGED <<now, items, distributing, pc, seen, reserving, alive, fresh>>
      BY DEF Deliver
    <2>. QED
      BY <2>1, <2>2, <2>3 DEF TypeOK
  <1>6. LocalInv' /\ DistributorInv'
    BY <1>1 DEF Deliver, LocalInv, DistributorInv, TypeOK
  <1>7. NeverEarly'
    <2>1. \A i \in 1..Len(Tail(due[t])) : i + 1 \in 1..Len(due[t])
      BY <1>2
    <2>2. \A i \in 1..Len(Tail(due[t])) : Tail(due[t])[i].executeTick <= seen[t]
      BY <1>2, <2>1 DEF NeverEarly
    <2> SUFFICES ASSUME NEW u \in Threads
                 PROVE  \A i \in 1..Len(due'[u]) : due'[u][i].executeTick <= seen[u]
      BY DEF Deliver, NeverEarly
    <2>3. CASE u = t
      BY <1>1, <2>2, <2>3 DEF TypeOK
    <2>4. CASE u # t
      BY <1>1, <2>4 DEF NeverEarly, TypeOK
    <2>. QED
      BY <2>3, <2>4
  <1>. QED
    BY <1>5, <1>6, <1>7

LEMMA ReleaseInv ==
    ASSUME IInv, NEW t \in Threads, Release(t) PROVE IInv'
  <1> USE DEF IInv, Release
  <1>1. TypeOK' /\ LocalInv' /\ NeverEarly'
    BY DEF TypeOK, LocalInv, NeverEarly
  <1>2. DistributorInv'
    BY DEF DistributorInv, TypeOK
  <1>. QED
    BY <1>1, <1>2

LEMMA ClearInv == ASSUME IInv, Clear PROVE IInv'
  <1> USE DEF IInv, Clear
  <1>1. TypeOK'
    BY DEF TypeOK, Items
  <1>2. LocalInv'
    BY FS_EmptySet DEF LocalInv
  <1>3. DistributorInv' /\ NeverEarly'
    BY DEF DistributorInv, NeverEarly
  <1>. QED
    BY <1>1, <1>2, <1>3

LEMMA NextInv == IInv /\ [Next]_vars => IInv'
  <1> SUFFICES ASSUME IInv, [Next]_vars PROVE IInv'
    OBVIOUS
  <1>1. CASE UNCHANGED vars
    BY <1>1 DEF vars, IInv, TypeOK, LocalInv, DistributorInv, NeverEarly
  <1>2. CASE Next
    BY <1>2, TickInv, ClearInv, OwnerExpiresInv, ReserveInv, ReservePushInv,
       DistributeReservedJobsInv, ExchangeInv, CollectInv, DeliverInv, ReleaseInv
       DEF Next, Progress
  <1>. QED
    BY <1>1, <1>2

LEMMA Invariance == Spec => []IInv
  BY InitInv, NextInv, PTL DEF Spec

-----------------------------------------------------------------------------
(* Each job is in one place.  A step moves places to places: if what a job *)
(* has afterwards is the image of what it had, one place stays one place.  *)

\* x is a place of job j: the members of Places(j), case by case.
Unreserved(x, j) == x = <<"unreserved", j>> /\ j \in fresh
OnHeap(x, j) == \E item \in items : item.job = j /\ x = <<"heap", item>>
InHand(x, j) ==
    \E t \in Threads : \E item \in reserving[t] :
        item.job = j /\ x = <<"reserving", t, item>>
ToGive(x, j) ==
    \E t \in Threads : \E i \in DOMAIN due[t] :
        due[t][i].job = j /\ x = <<"due", t, i>>
Given(x, j) == \E i \in DOMAIN fired : fired[i] = j /\ x = <<"fired", i>>
Deleted(x, j) == x = <<"dropped", j>> /\ j \in dropped

At(x, j) ==
    \/ Unreserved(x, j) \/ OnHeap(x, j) \/ InHand(x, j)
    \/ ToGive(x, j) \/ Given(x, j) \/ Deleted(x, j)

Once(j) ==
    /\ \E x : At(x, j)
    /\ \A x, y : At(x, j) /\ At(y, j) => x = y

LEMMA PlacesAt == \A j : \A x : x \in Places(j) <=> At(x, j)
  <1> SUFFICES ASSUME NEW j, NEW x PROVE x \in Places(j) <=> At(x, j)
    OBVIOUS
  <1> DEFINE A == {<<"unreserved", k>> : k \in fresh \cap {j}}
             B == {<<"heap", item>> : item \in Of(j, items)}
             C(t) == {<<"reserving", t, item>> : item \in Of(j, reserving[t])}
             D(t) == {<<"due", t, i>> : i \in {k \in DOMAIN due[t] : due[t][k].job = j}}
             E == {<<"fired", i>> : i \in {k \in DOMAIN fired : fired[k] = j}}
             F == {<<"dropped", k>> : k \in dropped \cap {j}}
  <1>1. /\ x \in A <=> Unreserved(x, j)
        /\ x \in B <=> OnHeap(x, j)
        /\ x \in E <=> Given(x, j)
        /\ x \in F <=> Deleted(x, j)
    BY DEF Of, Unreserved, OnHeap, Given, Deleted
  <1>2. x \in Reserved(j) <=> InHand(x, j)
    <2>1. \A t : x \in C(t) <=> \E item \in reserving[t] :
                      item.job = j /\ x = <<"reserving", t, item>>
      BY DEF Of
    <2>2. Reserved(j) = UNION {C(t) : t \in Threads}
      BY DEF Reserved
    <2> HIDE DEF C
    <2>. QED
      BY <2>1, <2>2 DEF InHand
  <1>3. x \in Collected(j) <=> ToGive(x, j)
    <2>1. \A t : x \in D(t) <=> \E i \in DOMAIN due[t] :
                      due[t][i].job = j /\ x = <<"due", t, i>>
      OBVIOUS
    <2>2. Collected(j) = UNION {D(t) : t \in Threads}
      BY DEF Collected
    <2> HIDE DEF D
    <2>. QED
      BY <2>1, <2>2 DEF ToGive
  <1>4. Places(j) = A \cup B \cup Reserved(j) \cup Collected(j) \cup E \cup F
    BY DEF Places
  <1> HIDE DEF A, B, E, F
  <1>. QED
    BY <1>1, <1>2, <1>3, <1>4 DEF At

LEMMA AtOnce == EachJobOnce <=> \A j \in Jobs : Once(j)
  <1>1. ASSUME NEW j \in Jobs
        PROVE  (\E y \in Places(j) : Places(j) = {y}) <=> Once(j)
    <2>1. \A x : x \in Places(j) <=> At(x, j)
      BY PlacesAt
    <2>2. ASSUME NEW y \in Places(j), Places(j) = {y} PROVE Once(j)
      BY <2>1, <2>2 DEF Once
    <2>3. ASSUME Once(j) PROVE \E y \in Places(j) : Places(j) = {y}
      BY <2>1, <2>3 DEF Once
    <2>. QED
      BY <2>2, <2>3
  <1>. QED
    BY <1>1, Zenon DEF EachJobOnce

LEMMA AtOncePrime == EachJobOnce' <=> (\A j \in Jobs : Once(j))'
  BY AtOnce, PTL

LEMMA InitOnce == Init => EachJobOnce
  <1> SUFFICES ASSUME Init, NEW j \in Jobs PROVE Once(j)
    BY AtOnce, Zenon
  <1>1. \A t \in Threads : reserving[t] = {} /\ DOMAIN due[t] = {}
    BY DEF Init
  <1>2. items = {} /\ DOMAIN fired = {} /\ dropped = {} /\ j \in fresh
    BY DEF Init
  <1>3. \A x : At(x, j) <=> x = <<"unreserved", j>>
    BY <1>1, <1>2 DEF At, Unreserved, OnHeap, InHand, ToGive, Given, Deleted
  <1>4. At(<<"unreserved", j>>, j)
    BY <1>3
  <1>. QED
    BY <1>3, <1>4 DEF Once

\* A step that leaves every job where it is.
LEMMA StillOnce ==
    ASSUME EachJobOnce, UNCHANGED <<items, due, reserving, fresh, fired, dropped>>
    PROVE  EachJobOnce'
  <1>1. \A j \in Jobs : Once(j)
    BY AtOnce, Zenon
  <1>2. \A j : \A x : At(x, j)' <=> At(x, j)
    BY DEF At, Unreserved, OnHeap, InHand, ToGive, Given, Deleted
  <1>3. \A j \in Jobs : Once(j)'
    BY <1>1, <1>2 DEF Once
  <1>. QED
    BY <1>3, AtOncePrime, Zenon

\* A step that moves a job along M, from the place i to the place To[i] for
\* the i of From, and touches none of its other places.
LEMMA Moved ==
    ASSUME NEW j, Once(j), NEW I, NEW From, NEW To,
           \A i \in I : At(From[i], j),
           \A i, k \in I : From[i] = From[k] => To[i] = To[k],
           \A x : At(x, j)' <=> \/ At(x, j) /\ \A i \in I : x # From[i]
                                \/ \E i \in I : x = To[i]
    PROVE  Once(j)'
  <1>1. PICK x : At(x, j) /\ \A y : At(y, j) => y = x
    BY DEF Once
  <1>2. \E y : At(y, j)'
    BY <1>1
  <1>3. ASSUME NEW y, NEW z, At(y, j)', At(z, j)' PROVE y = z
    BY <1>1, <1>3
  <1>. QED
    BY <1>2, <1>3 DEF Once

LEMMA ReserveOnce ==
    ASSUME IInv, EachJobOnce, NEW t \in Threads, NEW k \in Jobs, NEW o \in Owners,
           NEW tickAfter \in Delays, Reserve(t, k, o, tickAfter)
    PROVE  EachJobOnce'
  <1> DEFINE item == [job |-> k, owner |-> o, executeTick |-> now + tickAfter]
             old == <<"unreserved", k>>
             new == <<"reserving", t, item>>
  <1>1. /\ k \in fresh /\ fresh' = fresh \ {k} /\ reserving[t] = {}
        /\ reserving' = [reserving EXCEPT ![t] = {item}] /\ item.job = k
        /\ UNCHANGED <<items, due, fired, dropped>>
        /\ reserving \in [Threads -> SUBSET Items]
    BY DEF Reserve, IInv, TypeOK
  <1> HIDE DEF item
  <1>2. \A j : \A x : /\ OnHeap(x, j)' <=> OnHeap(x, j)
                      /\ ToGive(x, j)' <=> ToGive(x, j)
                      /\ Given(x, j)' <=> Given(x, j)
                      /\ Deleted(x, j)' <=> Deleted(x, j)
                      /\ Unreserved(x, j)' <=> Unreserved(x, j) /\ x # old
    BY <1>1 DEF OnHeap, ToGive, Given, Deleted, Unreserved
  <1>3. \A j : \A x : InHand(x, j)' <=> InHand(x, j) \/ (j = k /\ x = new)
    <2>1. /\ t \in Threads /\ reserving'[t] = {item}
          /\ \A u \in Threads : u # t => reserving'[u] = reserving[u]
      BY <1>1
    <2>. QED
      BY <1>1, <2>1 DEF InHand
  <1>4. At(old, k) /\ \A j : \A x : Unreserved(x, j) /\ x = old => j = k
    BY <1>1 DEF Unreserved, At
  <1>5. \A x : OnHeap(x, k) \/ ToGive(x, k) \/ Given(x, k) \/ Deleted(x, k) => x # old
    BY DEF OnHeap, ToGive, Given, Deleted
  <1>6. \A x : InHand(x, k) => x # old
    BY DEF InHand
  <1> HIDE DEF old, new
  <1>7. \A j : \A x : At(x, j)' <=> (At(x, j) /\ ~(j = k /\ x = old)) \/ (j = k /\ x = new)
    BY <1>2, <1>3, <1>4, <1>5, <1>6 DEF At
  <1>8. ASSUME NEW j \in Jobs, Once(j) PROVE Once(j)'
    BY <1>4, <1>7, <1>8 DEF Once
  <1>. QED
    BY <1>8, AtOnce, AtOncePrime, Zenon

LEMMA ReservePushOnce ==
    ASSUME IInv, EachJobOnce, NEW t \in Threads, ReservePush(t)
    PROVE  EachJobOnce'
  <1>1. /\ items' = items \cup reserving[t]
        /\ reserving'[t] = {}
        /\ \A u \in Threads : u # t => reserving'[u] = reserving[u]
        /\ UNCHANGED <<due, fresh, fired, dropped>>
    BY DEF ReservePush, IInv, TypeOK
  <1> SUFFICES ASSUME NEW j \in Jobs, Once(j) PROVE Once(j)'
    BY AtOnce, AtOncePrime, Zenon
  <1> DEFINE I == {item \in reserving[t] : item.job = j}
             From == [item \in I |-> <<"reserving", t, item>>]
             To == [item \in I |-> <<"heap", item>>]
  <1>2. \A x : /\ ToGive(x, j)' <=> ToGive(x, j)
               /\ Given(x, j)' <=> Given(x, j)
               /\ Deleted(x, j)' <=> Deleted(x, j)
               /\ Unreserved(x, j)' <=> Unreserved(x, j)
               /\ OnHeap(x, j)' <=> OnHeap(x, j) \/ \E i \in I : x = To[i]
    BY <1>1 DEF OnHeap, ToGive, Given, Deleted, Unreserved
  <1>3. \A i \in I : InHand(From[i], j)
    BY DEF InHand
  <1>8. \A x : InHand(x, j)' <=> InHand(x, j) /\ \A i \in I : x # From[i]
    <2>1. ASSUME NEW x, InHand(x, j)' PROVE InHand(x, j) /\ \A i \in I : x # From[i]
      BY <1>1, <2>1 DEF InHand
    <2>2. ASSUME NEW x, InHand(x, j), \A i \in I : x # From[i] PROVE InHand(x, j)'
      BY <1>1, <2>2 DEF InHand
    <2>. QED
      BY <2>1, <2>2
  <1>4. \A x : OnHeap(x, j) \/ ToGive(x, j) \/ Given(x, j) \/ Deleted(x, j)
                   \/ Unreserved(x, j) => \A i \in I : x # From[i]
    BY DEF OnHeap, ToGive, Given, Deleted, Unreserved
  <1>5. \A i, k \in I : From[i] = From[k] => To[i] = To[k]
    OBVIOUS
  <1> HIDE DEF I, From, To
  <1>6. \A i \in I : At(From[i], j)
    BY <1>3 DEF At
  <1>7. \A x : At(x, j)' <=> \/ At(x, j) /\ \A i \in I : x # From[i]
                             \/ \E i \in I : x = To[i]
    BY <1>2, <1>8, <1>4 DEF At
  <1>. QED
    BY <1>5, <1>6, <1>7, Moved

\* Whatever order the heap gives its items up in, it gives each up, and once.
LEMMA OrdersAreExact ==
    ASSUME NEW S, IsFiniteSet(S), NEW s \in Orders(S)
    PROVE  /\ DOMAIN s = 1..Cardinality(S)
           /\ \A i \in DOMAIN s : s[i] \in S
           /\ \A i, k \in DOMAIN s : s[i] = s[k] => i = k
           /\ \A item \in S : \E i \in DOMAIN s : s[i] = item
  <1> DEFINE n == Cardinality(S)
  <1>1. n \in Nat
    BY FS_CardinalityType
  <1>2. s \in [1..n -> S] /\ DOMAIN s = 1..n
        /\ \A i, k \in 1..n : i < k => s[i] # s[k]
    BY DEF Orders
  <1>3. Cardinality(1..n) = n /\ IsFiniteSet(1..n)
    BY <1>1, FS_Interval
  <1> HIDE DEF n
  <1>4. \A i, k \in 1..n : s[i] = s[k] => i = k
    <2>1. \A i, k \in 1..n : i = k \/ i < k \/ k < i
      OBVIOUS
    <2>. QED
      BY <1>2, <2>1
  <1>5. s \in Injection(1..n, S)
    BY <1>2, <1>4, Fun_IsInj
  <1>6. s \in Surjection(1..n, S)
    BY <1>3, <1>5, FS_Injection DEF n
  <1>7. \A item \in S : \E i \in 1..n : s[i] = item
    BY <1>6 DEF Surjection
  <1>. QED
    BY <1>2, <1>4, <1>7 DEF n

LEMMA CollectOnce ==
    ASSUME IInv, EachJobOnce, NEW t \in Threads, Collect(t)
    PROVE  EachJobOnce'
  <1> DEFINE P == Popped(seen[t])
  <1>1. PICK s \in Orders(P) : due' = [due EXCEPT ![t] = s]
    BY DEF Collect
  <1>2. P \subseteq items /\ IsFiniteSet(P)
    BY FS_Subset DEF Popped, IInv, LocalInv
  <1>3. /\ items' = items \ P
        /\ due[t] = <<>> /\ due'[t] = s
        /\ \A u \in Threads : u # t => due'[u] = due[u]
        /\ UNCHANGED <<reserving, fresh, fired, dropped>>
    BY <1>1 DEF Collect, IInv, TypeOK, LocalInv
  <1> HIDE DEF P
  <1>4. /\ \A i \in DOMAIN s : s[i] \in P
        /\ \A i, k \in DOMAIN s : s[i] = s[k] => i = k
        /\ \A item \in P : \E i \in DOMAIN s : s[i] = item
    BY <1>2, OrdersAreExact
  <1>5. DOMAIN due[t] = {}
    BY <1>3
  <1> SUFFICES ASSUME NEW j \in Jobs, Once(j) PROVE Once(j)'
    BY AtOnce, AtOncePrime, Zenon
  <1> DEFINE I == {i \in DOMAIN s : s[i].job = j}
             From == [i \in I |-> <<"heap", s[i]>>]
             To == [i \in I |-> <<"due", t, i>>]
  <1>6. \A x : /\ InHand(x, j)' <=> InHand(x, j)
               /\ Given(x, j)' <=> Given(x, j)
               /\ Deleted(x, j)' <=> Deleted(x, j)
               /\ Unreserved(x, j)' <=> Unreserved(x, j)
    BY <1>3 DEF InHand, Given, Deleted, Unreserved
  <1>7. \A i \in I : OnHeap(From[i], j)
    BY <1>2, <1>4 DEF OnHeap
  <1>8. \A x : OnHeap(x, j)' <=> OnHeap(x, j) /\ \A i \in I : x # From[i]
    <2>1. ASSUME NEW x, OnHeap(x, j)' PROVE OnHeap(x, j) /\ \A i \in I : x # From[i]
      BY <1>3, <1>4, <2>1 DEF OnHeap
    <2>2. ASSUME NEW x, OnHeap(x, j), \A i \in I : x # From[i] PROVE OnHeap(x, j)'
      <3>1. PICK item \in items : item.job = j /\ x = <<"heap", item>>
        BY <2>2 DEF OnHeap
      <3>2. item \notin P
        BY <1>4, <2>2, <3>1
      <3>. QED
        BY <1>3, <3>1, <3>2 DEF OnHeap
    <2>. QED
      BY <2>1, <2>2
  <1>9. \A x : ToGive(x, j)' <=> ToGive(x, j) \/ \E i \in I : x = To[i]
    <2>1. ASSUME NEW x, ToGive(x, j)' PROVE ToGive(x, j) \/ \E i \in I : x = To[i]
      BY <1>3, <2>1 DEF ToGive
    <2>2. ASSUME NEW x, ToGive(x, j) PROVE ToGive(x, j)'
      BY <1>3, <1>5, <2>2 DEF ToGive
    <2>3. ASSUME NEW i \in I PROVE ToGive(To[i], j)'
      BY <1>3 DEF ToGive
    <2>. QED
      BY <2>1, <2>2, <2>3
  <1>10. \A x : InHand(x, j) \/ ToGive(x, j) \/ Given(x, j) \/ Deleted(x, j)
                   \/ Unreserved(x, j) => \A i \in I : x # From[i]
    BY DEF InHand, ToGive, Given, Deleted, Unreserved
  <1>11. \A i, k \in I : From[i] = From[k] => To[i] = To[k]
    BY <1>4
  <1> HIDE DEF I, From, To
  <1>12. \A i \in I : At(From[i], j)
    BY <1>7 DEF At
  <1>13. \A x : At(x, j)' <=> \/ At(x, j) /\ \A i \in I : x # From[i]
                              \/ \E i \in I : x = To[i]
    BY <1>6, <1>8, <1>9, <1>10 DEF At
  <1>. QED
    BY <1>11, <1>12, <1>13, Moved

LEMMA DeliverOnce ==
    ASSUME IInv, EachJobOnce, NEW t \in Threads, Deliver(t)
    PROVE  EachJobOnce'
  <1> DEFINE q == due[t]
             n == Len(fired) + 1
             ok == Head(q).owner \in alive
  <1>1. /\ q \in Seq(Items) /\ q # <<>> /\ fired \in Seq(Jobs)
        /\ due'[t] = Tail(q)
        /\ \A u \in Threads : u # t => due'[u] = due[u]
        /\ UNCHANGED <<items, reserving, fresh>>
        /\ ok => fired' = Append(fired, Head(q).job) /\ dropped' = dropped
        /\ ~ok => dropped' = dropped \cup {Head(q).job} /\ fired' = fired
    BY DEF Deliver, IInv, TypeOK
  <1>2. /\ Head(q) = q[1] /\ DOMAIN q = 1..Len(q) /\ Len(q) \in Nat /\ Len(q) >= 1
        /\ DOMAIN Tail(q) = 1..(Len(q) - 1)
        /\ \A i \in DOMAIN Tail(q) : Tail(q)[i] = q[i + 1]
    BY <1>1, HeadTailProperties, LenProperties
  <1>3. /\ DOMAIN fired = 1..Len(fired) /\ Len(fired) \in Nat
        /\ ok => /\ DOMAIN fired' = 1..n
                 /\ fired'[n] = q[1].job
                 /\ \A i \in DOMAIN fired : fired'[i] = fired[i]
    <2> HIDE DEF q
    <2>1. Head(q).job \in Jobs
      <3>1. Head(q) \in Items
        BY <1>1, HeadTailProperties
      <3>. QED
        BY <3>1 DEF Items
    <2> DEFINE f == Append(fired, Head(q).job)
    <2>2. /\ f \in Seq(Jobs) /\ Len(f) = Len(fired) + 1 /\ f[n] = Head(q).job
          /\ \A i \in 1..Len(fired) : f[i] = fired[i]
      BY <1>1, <2>1, AppendProperties
    <2>3. DOMAIN fired = 1..Len(fired) /\ Len(fired) \in Nat /\ DOMAIN f = 1..n
      BY <1>1, <2>2, LenProperties
    <2> HIDE DEF f, n
    <2>4. ok => fired' = f
      BY <1>1 DEF f
    <2>. QED
      BY <1>2, <2>2, <2>3, <2>4
  <1> HIDE DEF q, n, ok
  <1> SUFFICES ASSUME NEW j \in Jobs, Once(j) PROVE Once(j)'
    BY AtOnce, AtOncePrime, Zenon
  <1> DEFINE I == {i \in 1..Len(q) : q[i].job = j}
             last == IF ok THEN <<"fired", n>> ELSE <<"dropped", j>>
             From == [i \in I |-> <<"due", t, i>>]
             To == [i \in I |-> IF i = 1 THEN last ELSE <<"due", t, i - 1>>]
  <1>4. \A x : /\ InHand(x, j)' <=> InHand(x, j)
               /\ OnHeap(x, j)' <=> OnHeap(x, j)
               /\ Unreserved(x, j)' <=> Unreserved(x, j)
    BY <1>1 DEF InHand, OnHeap, Unreserved
  <1>5. \A x : Given(x, j)' <=> Given(x, j) \/ (ok /\ 1 \in I /\ x = <<"fired", n>>)
    <2>1. CASE ok
      <3>1. ASSUME NEW x, Given(x, j)' PROVE Given(x, j) \/ (1 \in I /\ x = <<"fired", n>>)
        BY <1>2, <1>3, <2>1, <3>1 DEF Given, n
      <3>2. ASSUME NEW x, Given(x, j) PROVE Given(x, j)'
        BY <1>3, <2>1, <3>2 DEF Given, n
      <3>3. ASSUME NEW x, 1 \in I, x = <<"fired", n>> PROVE Given(x, j)'
        <4>1. n \in DOMAIN fired' /\ fired'[n] = j
          BY <1>3, <2>1, <3>3 DEF n
        <4>. QED
          BY <3>3, <4>1 DEF Given
      <3>. QED
        BY <2>1, <3>1, <3>2, <3>3
    <2>2. CASE ~ok
      BY <1>1, <2>2 DEF Given
    <2>. QED
      BY <2>1, <2>2
  <1>6. \A x : Deleted(x, j)' <=> Deleted(x, j) \/ (~ok /\ 1 \in I /\ x = <<"dropped", j>>)
    BY <1>1, <1>2 DEF Deleted
  <1>7. \A x : ToGive(x, j)' <=> \/ ToGive(x, j) /\ \A i \in I : x # From[i]
                                 \/ \E i \in I : i # 1 /\ x = <<"due", t, i - 1>>
    <2>1. ASSUME NEW x, ToGive(x, j)'
          PROVE  \/ ToGive(x, j) /\ \A i \in I : x # From[i]
                 \/ \E i \in I : i # 1 /\ x = <<"due", t, i - 1>>
      <3>1. PICK u \in Threads : \E i \in DOMAIN due'[u] :
                 due'[u][i].job = j /\ x = <<"due", u, i>>
        BY <2>1 DEF ToGive
      <3>2. CASE u = t
        <4>1. PICK i \in 1..(Len(q) - 1) : q[i + 1].job = j /\ x = <<"due", t, i>>
          BY <1>1, <1>2, <3>1, <3>2
        <4>2. i + 1 \in I /\ i + 1 # 1 /\ (i + 1) - 1 = i
          BY <1>2, <4>1
        <4>. QED
          BY <4>1, <4>2
      <3>3. CASE u # t
        BY <1>1, <3>1, <3>3 DEF ToGive
      <3>. QED
        BY <3>2, <3>3
    <2>2. ASSUME NEW x, ToGive(x, j), \A i \in I : x # From[i] PROVE ToGive(x, j)'
      <3>1. PICK u \in Threads : \E i \in DOMAIN due[u] :
                 due[u][i].job = j /\ x = <<"due", u, i>>
        BY <2>2 DEF ToGive
      <3>2. u # t
        BY <1>2, <2>2, <3>1 DEF q
      <3>. QED
        BY <1>1, <3>1, <3>2 DEF ToGive
    <2>3. ASSUME NEW i \in I, i # 1 PROVE ToGive(<<"due", t, i - 1>>, j)'
      <3>1. i - 1 \in DOMAIN Tail(q) /\ Tail(q)[i - 1] = q[i]
        BY <1>2, <2>3
      <3>. QED
        BY <1>1, <2>3, <3>1 DEF ToGive
    <2>. QED
      BY <2>1, <2>2, <2>3
  <1>8. \A i \in I : ToGive(From[i], j)
    BY <1>2 DEF ToGive, q
  <1>9. \A x : InHand(x, j) \/ OnHeap(x, j) \/ Given(x, j) \/ Deleted(x, j)
                   \/ Unreserved(x, j) => \A i \in I : x # From[i]
    BY DEF InHand, OnHeap, Given, Deleted, Unreserved
  <1>10. \A i, k \in I : From[i] = From[k] => To[i] = To[k]
    OBVIOUS
  <1>11. \A x : (\E i \in I : x = To[i]) <=>
              \/ \E i \in I : i # 1 /\ x = <<"due", t, i - 1>>
              \/ 1 \in I /\ ok /\ x = <<"fired", n>>
              \/ 1 \in I /\ ~ok /\ x = <<"dropped", j>>
    OBVIOUS
  <1> HIDE DEF I, From, To
  <1>12. \A i \in I : At(From[i], j)
    BY <1>8 DEF At
  <1>13. \A x : At(x, j)' <=> \/ At(x, j) /\ \A i \in I : x # From[i]
                              \/ \E i \in I : x = To[i]
    BY <1>4, <1>5, <1>6, <1>7, <1>9, <1>11 DEF At
  <1>. QED
    BY <1>10, <1>12, <1>13, Moved

LEMMA ClearOnce == ASSUME EachJobOnce, Clear PROVE EachJobOnce'
  <1>1. /\ items' = {} /\ dropped' = dropped \cup {item.job : item \in items}
        /\ UNCHANGED <<due, reserving, fresh, fired>>
    BY DEF Clear
  <1> SUFFICES ASSUME NEW j \in Jobs, Once(j) PROVE Once(j)'
    BY AtOnce, AtOncePrime, Zenon
  <1> DEFINE I == {item \in items : item.job = j}
             From == [item \in I |-> <<"heap", item>>]
             To == [item \in I |-> <<"dropped", j>>]
  <1>2. \A x : /\ InHand(x, j)' <=> InHand(x, j)
               /\ ToGive(x, j)' <=> ToGive(x, j)
               /\ Given(x, j)' <=> Given(x, j)
               /\ Unreserved(x, j)' <=> Unreserved(x, j)
               /\ ~ OnHeap(x, j)'
               /\ Deleted(x, j)' <=> Deleted(x, j) \/ \E i \in I : x = To[i]
    BY <1>1 DEF InHand, ToGive, Given, Unreserved, OnHeap, Deleted
  <1>3. \A x : OnHeap(x, j) <=> \E i \in I : x = From[i]
    BY DEF OnHeap
  <1>4. \A x : InHand(x, j) \/ ToGive(x, j) \/ Given(x, j) \/ Deleted(x, j)
                   \/ Unreserved(x, j) => \A i \in I : x # From[i]
    BY DEF InHand, ToGive, Given, Deleted, Unreserved
  <1>5. \A i, k \in I : From[i] = From[k] => To[i] = To[k]
    OBVIOUS
  <1> HIDE DEF I, From, To
  <1>6. \A i \in I : At(From[i], j)
    BY <1>3 DEF At
  <1>7. \A x : At(x, j)' <=> \/ At(x, j) /\ \A i \in I : x # From[i]
                             \/ \E i \in I : x = To[i]
    BY <1>2, <1>3, <1>4 DEF At
  <1>. QED
    BY <1>5, <1>6, <1>7, Moved

\* The other steps move no job.
LEMMA NextOnce == IInv /\ EachJobOnce /\ [Next]_vars => EachJobOnce'
  <1> SUFFICES ASSUME IInv, EachJobOnce, [Next]_vars PROVE EachJobOnce'
    OBVIOUS
  <1>1. CASE UNCHANGED vars
    BY <1>1, StillOnce DEF vars
  <1>2. CASE Tick \/ \E o \in Owners : OwnerExpires(o)
    BY <1>2, StillOnce DEF Tick, OwnerExpires
  <1>3. CASE \E t \in Threads :
                 DistributeReservedJobs(t) \/ Exchange(t) \/ Release(t)
    BY <1>3, StillOnce DEF DistributeReservedJobs, Exchange, Release
  <1>4. CASE Clear \/ \E t \in Threads : Collect(t) \/ Deliver(t) \/ ReservePush(t)
    BY <1>4, ClearOnce, CollectOnce, DeliverOnce, ReservePushOnce
  <1>5. CASE \E t \in Threads : \E j \in Jobs, o \in Owners, tickAfter \in Delays :
                 Reserve(t, j, o, tickAfter)
    BY <1>5, ReserveOnce
  <1>. QED
    BY <1>1, <1>2, <1>3, <1>4, <1>5 DEF Next, Progress

-----------------------------------------------------------------------------
(* The properties the runs check, for every value of the constants.        *)

\* Every variable stays in range.
THEOREM TypeCorrect == Spec => []TypeOK
  <1>1. IInv => TypeOK
    BY DEF IInv
  <1>. QED
    BY <1>1, Invariance, PTL

\* JobTimer.cpp:17: one thread at a time distributes, and _distributing is
\* up exactly as long.
THEOREM OneThreadDistributes == Spec => []OneDistributor
  <1>1. IInv => OneDistributor
    BY DEF IInv, DistributorInv, OneDistributor
  <1>. QED
    BY <1>1, Invariance, PTL

\* No job is delivered before its tick, whatever the order of the heap.
THEOREM NoJobEarly == Spec => []NeverEarly
  <1>1. IInv => NeverEarly
    BY DEF IInv
  <1>. QED
    BY <1>1, Invariance, PTL

\* A reserved job is never lost and never given to its owner twice, however
\* reservations, distributions, Clear and dying owners interleave.
THEOREM JobsAreConserved == Spec => []EachJobOnce
  <1>1. Init => IInv /\ EachJobOnce
    BY InitInv, InitOnce
  <1>2. IInv /\ EachJobOnce /\ [Next]_vars => IInv' /\ EachJobOnce'
    BY NextInv, NextOnce
  <1>. QED
    BY <1>1, <1>2, PTL DEF Spec
=============================================================================
