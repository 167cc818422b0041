----------------------------- MODULE LockProofs -----------------------------
(***************************************************************************)
(* Theorems about Lock, for any finite set of threads and any nesting      *)
(* depth, and about the DeadLockProfiler it calls, for any finite sets of   *)
(* threads and locks, any names and any nesting depth.                     *)
(***************************************************************************)
EXTENDS Lock, DeadLockProfiler, TLAPS, FiniteSetTheorems, WellFoundedInduction

\* What the label of a thread says of the guards it holds.
LocalInv ==
    \A t \in Threads :
        /\ wr[t] + rd[t] <= MaxDepth
        /\ pc[t] \in {"wSpin", "wInc", "rSpin", "rCas", "rNest"} => Room(t)
        /\ pc[t] \in {"wSpin", "rSpin", "rCas"} => wr[t] = 0
        /\ pc[t] \in {"wSpin", "wInc", "wDec", "wStore"} => rd[t] = 0
        /\ pc[t] = "wDec" => wr[t] > 0
        /\ pc[t] = "wStore" => wr[t] = 1

\* The upper half of the word names the one thread that writes, and then no
\* other thread holds a read guard.
OwnerInv ==
    \A t \in Threads :
        /\ flag.writer = t <=> Writing(t)
        /\ pc[t] \in {"wDec", "wStore", "rNest"} => flag.writer = t
        /\ rd[t] > 0 => flag.writer \in {t, NoThread}

\* _writeCount is the number of guards the writer has still to drop.
CountInv ==
    /\ flag.writer = NoThread => writeCount = 0
    /\ \A t \in Threads :
           flag.writer = t =>
               writeCount = IF pc[t] = "wStore" THEN 0 ELSE wr[t]

IInv == /\ TypeOK
        /\ LocalInv
        /\ OwnerInv
        /\ CountInv
        /\ ReadersCounted
        /\ UnlocksAreValid

-----------------------------------------------------------------------------
(* The tokens of ReadGuards, of which the lower half of the word is the     *)
(* number.                                                                 *)

LEMMA ReadGuardsFinite == IsFiniteSet(ReadGuards)
  <1>1. MaxDepth \in Nat
    BY LockAssumption
  <1>2. IsFiniteSet(1..MaxDepth)
    BY <1>1, FS_Interval
  <1>3. IsFiniteSet(Threads \X (1..MaxDepth))
    BY <1>2, LockAssumption, FS_Product
  <1>. QED
    BY <1>3, FS_Subset DEF ReadGuards

\* Nobody reads exactly when there is no token.
LEMMA NoReadGuard ==
    ASSUME rd \in [Threads -> 0..MaxDepth]
    PROVE  Cardinality(ReadGuards) = 0 <=> \A t \in Threads : rd[t] = 0
  <1>1. MaxDepth \in Nat /\ 1 \in Nat
    BY LockAssumption
  <1>2. Cardinality(ReadGuards) = 0 <=> ReadGuards = {}
    BY ReadGuardsFinite, FS_EmptySet
  <1>3. ASSUME NEW t \in Threads, rd[t] # 0
        PROVE  <<t, 1>> \in ReadGuards
    BY <1>1, <1>3 DEF ReadGuards
  <1>4. ASSUME \A t \in Threads : rd[t] = 0
        PROVE  ReadGuards = {}
    BY <1>1, <1>4 DEF ReadGuards
  <1>. QED
    BY <1>2, <1>3, <1>4

\* Taking a read guard adds one token.
LEMMA AddReadGuard ==
    ASSUME NEW t \in Threads,
           rd \in [Threads -> 0..MaxDepth],
           rd[t] < MaxDepth,
           rd' = [rd EXCEPT ![t] = @ + 1]
    PROVE  Cardinality(ReadGuards') = Cardinality(ReadGuards) + 1
  <1>1. MaxDepth \in Nat
    BY LockAssumption
  <1>2. ReadGuards' = ReadGuards \cup {<<t, rd[t] + 1>>}
    BY <1>1 DEF ReadGuards
  <1>3. <<t, rd[t] + 1>> \notin ReadGuards
    BY <1>1 DEF ReadGuards
  <1>. QED
    BY <1>2, <1>3, ReadGuardsFinite, FS_AddElement

\* Dropping a read guard removes one token.
LEMMA RemoveReadGuard ==
    ASSUME NEW t \in Threads,
           rd \in [Threads -> 0..MaxDepth],
           rd[t] > 0,
           rd' = [rd EXCEPT ![t] = @ - 1]
    PROVE  Cardinality(ReadGuards') = Cardinality(ReadGuards) - 1
  <1>1. MaxDepth \in Nat
    BY LockAssumption
  <1>2. ReadGuards' = ReadGuards \ {<<t, rd[t]>>}
    BY <1>1 DEF ReadGuards
  <1>3. <<t, rd[t]>> \in ReadGuards
    BY <1>1 DEF ReadGuards
  <1>. QED
    BY <1>2, <1>3, ReadGuardsFinite, FS_RemoveElement
-----------------------------------------------------------------------------
LEMMA InitInv == Init => IInv
  <1> SUFFICES ASSUME Init PROVE IInv
    OBVIOUS
  <1>1. MaxDepth \in Nat /\ NoThread \notin Threads
    BY LockAssumption
  <1>2. TypeOK
    BY <1>1 DEF Init, TypeOK, Empty, Labels, Crashes
  <1>3. LocalInv /\ OwnerInv /\ CountInv /\ UnlocksAreValid
    BY <1>1 DEF Init, LocalInv, OwnerInv, CountInv, UnlocksAreValid,
                Writing, Empty
  <1>4. ReadersCounted
    BY <1>2, NoReadGuard DEF Init, ReadersCounted, Empty, TypeOK
  <1>. QED
    BY <1>2, <1>3, <1>4 DEF IInv

\* A step that leaves rd and the lower half of the word alone leaves the
\* count right.
LEMMA SameReaders ==
    ASSUME ReadersCounted, rd' = rd, flag'.readers = flag.readers
    PROVE  ReadersCounted'
  BY DEF ReadersCounted, ReadGuards

LEMMA NextInv == IInv /\ [Next]_vars => IInv'
  <1> SUFFICES ASSUME IInv, [Next]_vars PROVE IInv'
    OBVIOUS
  <1> USE LockAssumption DEF Goto, Room, Empty
  <1>0. /\ TypeOK /\ LocalInv /\ OwnerInv /\ CountInv
        /\ ReadersCounted /\ UnlocksAreValid
    BY DEF IInv
  <1>1. ASSUME NEW t \in Threads, WriteLock(t) PROVE IInv'
    <2>1. TypeOK'
      BY <1>0, <1>1 DEF WriteLock, TypeOK, Labels
    <2>2. LocalInv' /\ OwnerInv' /\ CountInv' /\ UnlocksAreValid'
      BY <1>0, <1>1 DEF WriteLock, TypeOK, LocalInv, OwnerInv, CountInv,
                        UnlocksAreValid, Writing
    <2>3. ReadersCounted'
      BY <1>0, <1>1, SameReaders DEF WriteLock
    <2>. QED
      BY <2>1, <2>2, <2>3 DEF IInv
  <1>2. ASSUME NEW t \in Threads, WriteCas(t) PROVE IInv'
    \* The word was empty, so nobody held a guard.
    <2>0. \A u \in Threads : rd[u] = 0
      BY <1>0, <1>2, NoReadGuard DEF WriteCas, ReadersCounted, TypeOK
    <2>1. TypeOK'
      BY <1>0, <1>2 DEF WriteCas, TypeOK, Labels
    <2>2. LocalInv' /\ OwnerInv' /\ CountInv' /\ UnlocksAreValid'
      BY <1>0, <1>2, <2>0 DEF WriteCas, TypeOK, LocalInv, OwnerInv, CountInv,
                              UnlocksAreValid, Writing
    <2>3. ReadersCounted'
      BY <1>0, <1>2, SameReaders DEF WriteCas, TypeOK
    <2>. QED
      BY <2>1, <2>2, <2>3 DEF IInv
  <1>3. ASSUME NEW t \in Threads, WriteInc(t) PROVE IInv'
    <2>1. TypeOK'
      BY <1>0, <1>3 DEF WriteInc, TypeOK, Labels, LocalInv
    <2>2. LocalInv' /\ OwnerInv' /\ CountInv' /\ UnlocksAreValid'
      BY <1>0, <1>3 DEF WriteInc, TypeOK, LocalInv, OwnerInv, CountInv,
                        UnlocksAreValid, Writing
    <2>3. ReadersCounted'
      BY <1>0, <1>3, SameReaders DEF WriteInc
    <2>. QED
      BY <2>1, <2>2, <2>3 DEF IInv
  <1>4. ASSUME NEW t \in Threads, WriteUnlock(t) PROVE IInv'
    \* t writes, so nobody else reads, and t has dropped its own read guards.
    <2>0. \A u \in Threads : rd[u] = 0
      BY <1>0, <1>4 DEF WriteUnlock, OwnerInv, Writing, TypeOK
    <2>1. flag.readers = 0
      BY <1>0, <2>0, NoReadGuard DEF ReadersCounted, TypeOK
    <2>2. TypeOK'
      BY <1>0, <1>4, <2>1 DEF WriteUnlock, TypeOK, Labels
    <2>3. LocalInv' /\ OwnerInv' /\ CountInv' /\ UnlocksAreValid'
      BY <1>0, <1>4, <2>1 DEF WriteUnlock, TypeOK, LocalInv, OwnerInv,
                              CountInv, UnlocksAreValid, Writing
    <2>4. ReadersCounted'
      BY <1>0, <1>4, SameReaders DEF WriteUnlock
    <2>. QED
      BY <2>2, <2>3, <2>4 DEF IInv
  <1>5. ASSUME NEW t \in Threads, WriteDec(t) PROVE IInv'
    <2>0. writeCount = wr[t] /\ wr[t] > 0 /\ rd[t] = 0
      BY <1>0, <1>5 DEF WriteDec, OwnerInv, CountInv, LocalInv
    <2>1. TypeOK'
      BY <1>0, <1>5, <2>0 DEF WriteDec, TypeOK, Labels
    <2>2. LocalInv' /\ OwnerInv' /\ CountInv' /\ UnlocksAreValid'
      BY <1>0, <1>5, <2>0 DEF WriteDec, TypeOK, LocalInv, OwnerInv, CountInv,
                              UnlocksAreValid, Writing
    <2>3. ReadersCounted'
      BY <1>0, <1>5, SameReaders DEF WriteDec
    <2>. QED
      BY <2>1, <2>2, <2>3 DEF IInv
  <1>6. ASSUME NEW t \in Threads, WriteStore(t) PROVE IInv'
    <2>0. /\ wr[t] = 1 /\ flag.writer = t
          /\ \A u \in Threads : rd[u] = 0
      BY <1>0, <1>6 DEF WriteStore, LocalInv, OwnerInv, TypeOK
    <2>1. flag.readers = 0
      BY <1>0, <2>0, NoReadGuard DEF ReadersCounted, TypeOK
    <2>2. TypeOK'
      BY <1>0, <1>6, <2>0 DEF WriteStore, TypeOK, Labels
    <2>3. LocalInv' /\ OwnerInv' /\ CountInv' /\ UnlocksAreValid'
      BY <1>0, <1>6, <2>0 DEF WriteStore, TypeOK, LocalInv, OwnerInv,
                              CountInv, UnlocksAreValid, Writing
    <2>4. ReadersCounted'
      BY <1>0, <1>6, <2>1, SameReaders DEF WriteStore
    <2>. QED
      BY <2>2, <2>3, <2>4 DEF IInv
  <1>7. ASSUME NEW t \in Threads, ReadLock(t) PROVE IInv'
    <2>1. TypeOK'
      BY <1>0, <1>7 DEF ReadLock, TypeOK, Labels
    <2>2. LocalInv' /\ OwnerInv' /\ CountInv' /\ UnlocksAreValid'
      BY <1>0, <1>7 DEF ReadLock, TypeOK, LocalInv, OwnerInv, CountInv,
                        UnlocksAreValid, Writing
    <2>3. ReadersCounted'
      BY <1>0, <1>7, SameReaders DEF ReadLock
    <2>. QED
      BY <2>1, <2>2, <2>3 DEF IInv
  <1>8. ASSUME NEW t \in Threads, ReadNest(t) PROVE IInv'
    <2>0. rd[t] < MaxDepth /\ flag.writer = t
      BY <1>0, <1>8 DEF ReadNest, TypeOK, LocalInv, OwnerInv
    <2>1. TypeOK'
      BY <1>0, <1>8, <2>0 DEF ReadNest, TypeOK, Labels
    <2>2. LocalInv' /\ OwnerInv' /\ CountInv' /\ UnlocksAreValid'
      BY <1>0, <1>8, <2>0 DEF ReadNest, TypeOK, LocalInv, OwnerInv, CountInv,
                              UnlocksAreValid, Writing
    <2>3. ReadersCounted'
      BY <1>0, <1>8, <2>0, AddReadGuard
         DEF ReadNest, ReadersCounted, TypeOK
    <2>. QED
      BY <2>1, <2>2, <2>3 DEF IInv
  <1>9. ASSUME NEW t \in Threads, ReadLoad(t) PROVE IInv'
    <2>1. TypeOK'
      BY <1>0, <1>9 DEF ReadLoad, TypeOK, Labels
    <2>2. LocalInv' /\ OwnerInv' /\ CountInv' /\ UnlocksAreValid'
      BY <1>0, <1>9 DEF ReadLoad, TypeOK, LocalInv, OwnerInv, CountInv,
                        UnlocksAreValid, Writing
    <2>3. ReadersCounted'
      BY <1>0, <1>9, SameReaders DEF ReadLoad
    <2>. QED
      BY <2>1, <2>2, <2>3 DEF IInv
  <1>10. ASSUME NEW t \in Threads, ReadCas(t) PROVE IInv'
    <2>0. rd[t] < MaxDepth /\ flag.writer = NoThread
      BY <1>0, <1>10 DEF ReadCas, TypeOK, LocalInv
    <2>1. TypeOK'
      BY <1>0, <1>10, <2>0 DEF ReadCas, TypeOK, Labels
    <2>2. LocalInv' /\ OwnerInv' /\ CountInv' /\ UnlocksAreValid'
      BY <1>0, <1>10, <2>0 DEF ReadCas, TypeOK, LocalInv, OwnerInv, CountInv,
                               UnlocksAreValid, Writing
    <2>3. ReadersCounted'
      BY <1>0, <1>10, <2>0, AddReadGuard
         DEF ReadCas, ReadersCounted, TypeOK
    <2>. QED
      BY <2>1, <2>2, <2>3 DEF IInv
  <1>11. ASSUME NEW t \in Threads, ReadCasFails(t) PROVE IInv'
    <2>1. TypeOK'
      BY <1>0, <1>11 DEF ReadCasFails, TypeOK, Labels
    <2>2. LocalInv' /\ OwnerInv' /\ CountInv' /\ UnlocksAreValid'
      BY <1>0, <1>11 DEF ReadCasFails, TypeOK, LocalInv, OwnerInv, CountInv,
                         UnlocksAreValid, Writing
    <2>3. ReadersCounted'
      BY <1>0, <1>11, SameReaders DEF ReadCasFails
    <2>. QED
      BY <2>1, <2>2, <2>3 DEF IInv
  <1>12. ASSUME NEW t \in Threads, ReadUnlock(t) PROVE IInv'
    \* The guard t drops is counted in the word.
    <2>0. flag.readers # 0
      BY <1>0, <1>12, NoReadGuard DEF ReadUnlock, ReadersCounted, TypeOK
    <2>1. TypeOK'
      BY <1>0, <1>12, <2>0 DEF ReadUnlock, TypeOK, Labels
    <2>2. LocalInv' /\ OwnerInv' /\ CountInv' /\ UnlocksAreValid'
      BY <1>0, <1>12, <2>0 DEF ReadUnlock, TypeOK, LocalInv, OwnerInv,
                               CountInv, UnlocksAreValid, Writing
    <2>3. ReadersCounted'
      BY <1>0, <1>12, RemoveReadGuard DEF ReadUnlock, ReadersCounted, TypeOK
    <2>. QED
      BY <2>1, <2>2, <2>3 DEF IInv
  <1>13. ASSUME NEW t \in Threads, TimeOut(t) PROVE IInv'
    <2>1. TypeOK'
      BY <1>0, <1>13 DEF TimeOut, TypeOK, Labels, Crashes
    <2>2. LocalInv' /\ OwnerInv' /\ CountInv' /\ UnlocksAreValid'
      BY <1>0, <1>13 DEF TimeOut, TypeOK, LocalInv, OwnerInv, CountInv,
                         UnlocksAreValid, Writing
    <2>3. ReadersCounted'
      BY <1>0, <1>13, SameReaders DEF TimeOut
    <2>. QED
      BY <2>1, <2>2, <2>3 DEF IInv
  <1>14. CASE UNCHANGED vars
    BY <1>0, <1>14 DEF vars, IInv, TypeOK, LocalInv, OwnerInv, CountInv,
                       ReadersCounted, ReadGuards, UnlocksAreValid, Writing
  <1>. QED
    BY <1>1, <1>2, <1>3, <1>4, <1>5, <1>6, <1>7, <1>8, <1>9, <1>10, <1>11,
       <1>12, <1>13, <1>14 DEF Next, Progress
-----------------------------------------------------------------------------
LEMMA Invariance == Spec => []IInv
  BY InitInv, NextInv, PTL DEF Spec

\* The two halves of the word, the writer's count and every thread's guards
\* stay in range: nothing underflows.
THEOREM TypeCorrect == Spec => []TypeOK
  <1>1. IInv => TypeOK
    BY DEF IInv
  <1>. QED
    BY <1>1, Invariance, PTL

\* A thread that writes under the lock of Lock.cpp is alone.
THEOREM MutualExclusion == Spec => []WriterExcludesAll
  <1>1. IInv => WriterExcludesAll
    <2> SUFFICES ASSUME IInv, NEW t \in Threads, NEW u \in Threads,
                        t # u, Writing(t)
                 PROVE  ~Writing(u) /\ rd[u] = 0
      BY DEF WriterExcludesAll
    <2>1. flag.writer = t /\ ~Writing(u)
      BY DEF IInv, OwnerInv
    <2>2. rd[u] = 0
      BY <2>1, LockAssumption DEF IInv, OwnerInv, TypeOK
    <2>. QED
      BY <2>1, <2>2
  <1>. QED
    BY <1>1, Invariance, PTL

\* The plain _writeCount is only ever changed by the thread named in the word,
\* and the lower half of the word is the number of read guards.
THEOREM WordExact == Spec => []WordIsExact
  <1>1. IInv => WriteCountIsOwners
    BY DEF IInv, OwnerInv, CountInv, WriteCountIsOwners, Writing
  <1>2. IInv => ReadersCounted
    BY DEF IInv
  <1>3. IInv => WordIsExact
    BY <1>1, <1>2 DEF WordIsExact
  <1>. QED
    BY <1>3, Invariance, PTL

\* The two unlock CRASHes of Lock.cpp are never met.
THEOREM NoUnlockCrash == Spec => []UnlocksAreValid
  <1>1. IInv => UnlocksAreValid
    BY DEF IInv
  <1>. QED
    BY <1>1, Invariance, PTL

\* The lock of Lock.cpp implements the abstract reader-writer lock.
THEOREM Refinement == Spec => ImplementsRWLock
  <1>1. Init => RW!Init
    BY DEF Init, RW!Init
  <1>2. IInv /\ [Next]_vars => [RW!Next]_RW!vars
    <2> SUFFICES ASSUME IInv, [Next]_vars
                 PROVE  [RW!Next]_RW!vars
      OBVIOUS
    <2> USE DEF Goto, RW!vars
    <2>0. TypeOK /\ LocalInv /\ OwnerInv /\ CountInv
      BY DEF IInv
    <2>1. ASSUME NEW t \in Threads, WriteInc(t)
          PROVE  RW!AcquireWrite(t)
      <3>1. \A u \in Threads \ {t} : wr[u] = 0 /\ rd[u] = 0
        BY <2>0, <2>1, LockAssumption
           DEF WriteInc, OwnerInv, Writing, TypeOK
      <3>. QED
        BY <2>0, <2>1, <3>1
           DEF WriteInc, RW!AcquireWrite, RW!Room, LocalInv, Room
    <2>2. ASSUME NEW t \in Threads, WriteDec(t), writeCount # 1
          PROVE  RW!ReleaseWrite(t)
      BY <2>0, <2>2 DEF WriteDec, RW!ReleaseWrite, LocalInv
    <2>3. ASSUME NEW t \in Threads, WriteStore(t)
          PROVE  RW!ReleaseWrite(t)
      BY <2>0, <2>3 DEF WriteStore, RW!ReleaseWrite, LocalInv
    <2>4. ASSUME NEW t \in Threads, ReadNest(t) \/ ReadCas(t)
          PROVE  RW!AcquireRead(t)
      <3>1. \A u \in Threads \ {t} : wr[u] = 0
        BY <2>0, <2>4, LockAssumption
           DEF ReadNest, ReadCas, OwnerInv, Writing, TypeOK
      <3>. QED
        BY <2>0, <2>4, <3>1
           DEF ReadNest, ReadCas, RW!AcquireRead, RW!Room, LocalInv, Room
    <2>5. ASSUME NEW t \in Threads, ReadUnlock(t)
          PROVE  RW!ReleaseRead(t)
      BY <2>5 DEF ReadUnlock, RW!ReleaseRead
    <2>6. ASSUME NEW t \in Threads,
                 \/ WriteLock(t) \/ WriteCas(t) \/ WriteUnlock(t)
                 \/ WriteDec(t) /\ writeCount = 1
                 \/ ReadLock(t) \/ ReadLoad(t) \/ ReadCasFails(t)
                 \/ TimeOut(t)
          PROVE  UNCHANGED <<wr, rd>>
      BY <2>6 DEF WriteLock, WriteCas, WriteUnlock, WriteDec, ReadLock,
                  ReadLoad, ReadCasFails, TimeOut
    <2>7. CASE UNCHANGED vars
      BY <2>7 DEF vars
    <2>. QED
      BY <2>1, <2>2, <2>3, <2>4, <2>5, <2>6, <2>7 DEF Next, Progress, RW!Next
  <1>. QED
    BY <1>1, <1>2, Invariance, PTL DEF Spec, ImplementsRWLock, RW!Spec

-----------------------------------------------------------------------------
(* DeadLockProfiler: numbers *)

\* A set of naturals that has any has a smallest one.
LEMMA Smallest ==
    ASSUME NEW S \in SUBSET Nat, S # {}
    PROVE  \E m \in S : \A k \in S : m <= k
  <1> DEFINE R == OpToRel(<, Nat)
  <1>1. IsWellFoundedOn(R, Nat)
    BY NatLessThanWellFounded, Zenon
  <1>2. \A k, m \in Nat : <<k, m>> \in R <=> k < m
    BY DEF OpToRel
  <1> HIDE DEF R
  <1>3. PICK m \in S : \A k \in S : ~(<<k, m>> \in R)
    BY <1>1, WFMin
  <1>4. \A k \in S : ~(k < m) /\ k \in Nat /\ m \in Nat
    BY <1>2, <1>3
  <1>. QED
    BY <1>4

\* A set that has 0, and the successor of each of its numbers, has them all.
LEMMA NatSetInduction ==
    ASSUME NEW S, 0 \in S, \A n \in Nat : n \in S => n + 1 \in S
    PROVE  Nat \subseteq S
  <1> SUFFICES ASSUME Nat \ S # {}
               PROVE  FALSE
    OBVIOUS
  <1>1. PICK m \in Nat \ S : \A k \in Nat \ S : m <= k
    BY Smallest
  <1>2. m - 1 \in Nat /\ m - 1 \notin Nat \ S
    BY <1>1
  <1>. QED
    BY <1>1, <1>2

LEMMA SmallModulo ==
    ASSUME NEW n \in Nat, NEW i \in Nat, i < n
    PROVE  i % n = i
  OBVIOUS

LEMMA MaxIdType == IsFiniteSet(Range(Name)) /\ MaxId \in Nat
  <1>1. Range(Name) = {Name[l] : l \in Locks}
    BY DeadLockProfilerAssumption DEF Range
  <1>2. IsFiniteSet({Name[l] : l \in Locks})
    <2> DEFINE f == [l \in Locks |-> Name[l]]
               S == {Name[l] : l \in Locks}
    <2>1. f \in Surjection(Locks, S)
      BY DEF Surjection
    <2>. QED
      BY <2>1, FS_Surjection, DeadLockProfilerAssumption
  <1>. QED
    BY <1>1, <1>2, FS_CardinalityType DEF MaxId

-----------------------------------------------------------------------------
(* The steps of the search, and what it has left to discover *)

\* A search is what its five fields are.
LEMMA SearchFields ==
    ASSUME NEW s \in Searches
    PROVE  /\ s.order \in [Ids -> Nat] /\ s.count \in Nat \ {0}
           /\ s.finished \in [Ids -> BOOLEAN]
           /\ s.parent \in [Ids -> Ids \cup {0}]
           /\ s.closing \in {<<>>} \cup (Ids \X Ids)
  BY DEF Searches

\* A search is still one when fields of it are replaced.
LEMMA FieldsReplaced ==
    ASSUME NEW s \in Searches
    PROVE  /\ \A o \in [Ids -> Nat] : [s EXCEPT !.order = o] \in Searches
           /\ \A c \in Nat \ {0} : [s EXCEPT !.count = c] \in Searches
           /\ \A f \in [Ids -> BOOLEAN] :
                  [s EXCEPT !.finished = f] \in Searches
           /\ \A p \in [Ids -> Ids \cup {0}] :
                  [s EXCEPT !.parent = p] \in Searches
           /\ \A l \in {<<>>} \cup (Ids \X Ids) :
                  [s EXCEPT !.closing = l] \in Searches
  <1> DEFINE O == [Ids -> Nat]
             C == Nat \ {0}
             F == [Ids -> BOOLEAN]
             P == [Ids -> Ids \cup {0}]
             L == {<<>>} \cup (Ids \X Ids)
             S == [order : O, count : C, finished : F, parent : P,
                   closing : L]
  <1>1. Searches = S
    BY DEF Searches
  <1> HIDE DEF O, C, F, P, L
  <1>2. /\ \A o \in O : [s EXCEPT !.order = o] \in S
        /\ \A c \in C : [s EXCEPT !.count = c] \in S
        /\ \A f \in F : [s EXCEPT !.finished = f] \in S
        /\ \A p \in P : [s EXCEPT !.parent = p] \in S
        /\ \A l \in L : [s EXCEPT !.closing = l] \in S
    BY <1>1
  <1>. QED
    BY <1>1, <1>2 DEF O, C, F, P, L

LEMMA DiscoverFields ==
    ASSUME NEW s \in Searches, NEW here \in Ids,
           NEW r, r = Discover(s, here)
    PROVE  /\ r \in Searches
           /\ \A i \in Ids :
                  r.order[i] = IF i = here THEN s.count ELSE s.order[i]
           /\ r.count = s.count + 1 /\ r.finished = s.finished
           /\ r.parent = s.parent /\ r.closing = s.closing
  <1>1. /\ r.order = [s.order EXCEPT ![here] = s.count]
        /\ r.count = s.count + 1 /\ r.finished = s.finished
        /\ r.parent = s.parent /\ r.closing = s.closing
    BY Z3 DEF Discover, Searches
  <1>3. r.order \in [Ids -> Nat] /\ r.count \in Nat \ {0}
    BY <1>1, SearchFields
  <1>2. PICK q : q = [s EXCEPT !.order = r.order]
    OBVIOUS
  <1>5. r = [q EXCEPT !.count = r.count]
    BY <1>1, <1>2 DEF Discover
  <1>4. r \in Searches
    <2>1. q \in Searches
      BY <1>2, <1>3, FieldsReplaced
    <2>. QED
      BY <1>3, <1>5, <2>1, FieldsReplaced
  <1>. QED
    BY <1>1, <1>4, SearchFields

LEMMA DescendFields ==
    ASSUME NEW s \in Searches, NEW here \in Ids, NEW there \in Ids,
           NEW r, r = Descend(s, here, there)
    PROVE  /\ r \in Searches
           /\ r.parent[there] = here
           /\ \A i \in Ids : i # there => r.parent[i] = s.parent[i]
           /\ r.order = s.order /\ r.count = s.count
           /\ r.finished = s.finished /\ r.closing = s.closing
  <1>1. /\ r.parent = [s.parent EXCEPT ![there] = here]
        /\ r.order = s.order /\ r.count = s.count
        /\ r.finished = s.finished /\ r.closing = s.closing
    BY Z3 DEF Descend, Searches
  <1>2. r = [s EXCEPT !.parent = r.parent]
    BY <1>1 DEF Descend
  <1>3. r.parent \in [Ids -> Ids \cup {0}]
    BY <1>1, SearchFields
  <1>4. r \in Searches
    BY <1>2, <1>3, FieldsReplaced
  <1>. QED
    BY <1>1, <1>4, SearchFields

LEMMA CloseFields ==
    ASSUME NEW s \in Searches, NEW here \in Ids, NEW there \in Ids,
           NEW r, r = Close(s, here, there)
    PROVE  /\ r \in Searches
           /\ r.closing = <<here, there>>
           /\ r.order = s.order /\ r.count = s.count
           /\ r.finished = s.finished /\ r.parent = s.parent
  <1>1. /\ r.closing = <<here, there>>
        /\ r.order = s.order /\ r.count = s.count
        /\ r.finished = s.finished /\ r.parent = s.parent
    BY Z3 DEF Close, Searches
  <1>2. r = [s EXCEPT !.closing = r.closing]
    BY <1>1 DEF Close
  <1>3. r.closing \in {<<>>} \cup (Ids \X Ids)
    BY <1>1
  <1>4. r \in Searches
    BY <1>2, <1>3, FieldsReplaced
  <1>. QED
    BY <1>1, <1>4

LEMMA FinishFields ==
    ASSUME NEW s \in Searches, NEW here \in Ids,
           NEW r, r = Finish(s, here)
    PROVE  /\ r \in Searches
           /\ s.closing # <<>> => r = s
           /\ s.closing = <<>> =>
                  \A i \in Ids :
                      r.finished[i] <=> i = here \/ s.finished[i]
           /\ r.order = s.order /\ r.count = s.count
           /\ r.parent = s.parent /\ r.closing = s.closing
  <1>1. CASE s.closing # <<>>
    BY <1>1 DEF Finish
  <1>2. CASE s.closing = <<>>
    <2>1. /\ r.finished = [s.finished EXCEPT ![here] = TRUE]
          /\ r.order = s.order /\ r.count = s.count
          /\ r.parent = s.parent /\ r.closing = s.closing
      BY <1>2, Z3 DEF Finish, Searches
    <2>3. r.finished \in [Ids -> BOOLEAN]
      BY <2>1, SearchFields
    <2>2. r = [s EXCEPT !.finished = r.finished]
      BY <1>2, <2>1 DEF Finish
    <2>5. \A i \in Ids : r.finished[i] <=> i = here \/ s.finished[i]
      <3>1. PICK f \in [Ids -> BOOLEAN] : f = s.finished
        BY SearchFields
      <3>2. PICK g : g = r.finished
        OBVIOUS
      <3>3. g = [f EXCEPT ![here] = TRUE]
        BY <2>1, <3>1, <3>2
      <3>4. \A i \in Ids : g[i] <=> i = here \/ f[i]
        BY <3>3
      <3>. QED
        BY <3>1, <3>2, <3>4
    <2>4. r \in Searches
      BY <2>2, <2>3, SearchFields, FieldsReplaced
    <2>. QED
      BY <1>2, <2>1, <2>4, <2>5
  <1>. QED
    BY <1>1, <1>2

\* What no later search takes back.
Kept(s, r) ==
    \A i \in Ids : /\ s.order[i] # 0 => r.order[i] # 0
                   /\ s.finished[i] => r.finished[i]

Undiscovered(s) == {i \in Ids : s.order[i] = 0}
Rest(s) == Cardinality(Undiscovered(s))

LEMMA RestType ==
    ASSUME NEW s
    PROVE  /\ IsFiniteSet(Undiscovered(s))
           /\ Rest(s) \in Nat /\ Rest(s) <= MaxId
  <1>1. IsFiniteSet(Ids) /\ Cardinality(Ids) = MaxId
    BY FS_Interval, MaxIdType DEF Ids
  <1>2. Undiscovered(s) \subseteq Ids
    BY DEF Undiscovered
  <1>. QED
    BY <1>1, <1>2, FS_Subset, FS_CardinalityType DEF Rest

LEMMA RestKept ==
    ASSUME NEW s, NEW r, Kept(s, r)
    PROVE  /\ Rest(r) <= Rest(s)
           /\ \A i \in Ids : s.order[i] = 0 /\ r.order[i] # 0
                                 => Rest(r) < Rest(s)
  <1>1. Undiscovered(r) \subseteq Undiscovered(s)
    BY DEF Kept, Undiscovered
  <1>2. Rest(r) <= Rest(s)
    BY <1>1, RestType, FS_Subset DEF Rest
  <1>3. ASSUME NEW i \in Ids, s.order[i] = 0, r.order[i] # 0
        PROVE  Rest(r) < Rest(s)
    <2>1. i \in Undiscovered(s) /\ i \notin Undiscovered(r)
      BY <1>3 DEF Undiscovered
    <2>2. Rest(r) # Rest(s)
      BY <1>1, <2>1, RestType, FS_Subset DEF Rest
    <2>. QED
      BY <1>2, <2>2, RestType
  <1>. QED
    BY <1>2, <1>3

-----------------------------------------------------------------------------
(* What Dfs and the loops of CheckCycle compute *)

\* The searches that a function may be asked to go on with.
Tables == [Searches -> [Ids -> Searches]]

\* A loop over the ids from 1: its steps have states.
LEMMA LoopExists ==
    ASSUME NEW start \in Searches, NEW step \in Tables
    PROVE  \E e \in [0..MaxId -> Searches] :
               e[0] = start /\ \A k \in Ids : e[k] = step[e[k - 1]][k]
  <1> DEFINE S == Searches
  <1>5. start \in S /\ step \in [S -> [Ids -> S]]
    BY DEF Tables
  <1> HIDE DEF S
  <1> DEFINE Upto(n) == \E e \in [0..n -> S] :
                            /\ e[0] = start
                            /\ \A k \in 1..n : e[k] = step[e[k - 1]][k]
             R == {n \in Nat : n <= MaxId => Upto(n)}
  <1>0. MaxId \in Nat
    BY MaxIdType
  <1>1. 0 \in R
    <2>1. PICK e : e = [k \in 0..0 |-> start]
      OBVIOUS
    <2>2. e \in [0..0 -> S] /\ e[0] = start /\ 1..0 = {}
      BY <1>5, <2>1
    <2>. QED
      BY <2>2
  <1>2. ASSUME NEW n \in Nat, n \in R
        PROVE  n + 1 \in R
    <2>9. n + 1 \in Nat
      OBVIOUS
    <2> SUFFICES ASSUME n + 1 <= MaxId
                 PROVE  Upto(n + 1)
      BY <2>9, Zenon
    <2>0. n <= MaxId /\ n + 1 \in Ids
      BY <1>0 DEF Ids
    <2>1. PICK e \in [0..n -> S] :
              e[0] = start /\ \A k \in 1..n : e[k] = step[e[k - 1]][k]
      BY <1>2, <2>0
    <2>2. PICK x \in S : x = step[e[n]][n + 1]
      BY <1>5, <2>0, <2>1
    <2> DEFINE f == [k \in 0..(n + 1) |-> IF k = n + 1 THEN x ELSE e[k]]
    <2>3. f \in [0..(n + 1) -> S]
      BY <2>1, <2>2
    <2>4. f[n + 1] = x /\ \A k \in 0..n : f[k] = e[k]
      OBVIOUS
    <2> HIDE DEF f
    <2>5. f[0] = start
      BY <2>1, <2>4
    <2>6. ASSUME NEW k \in 1..(n + 1)
          PROVE  f[k] = step[f[k - 1]][k]
      <3>1. k - 1 \in 0..n /\ f[k - 1] = e[k - 1]
        BY <2>4
      <3>2. CASE k = n + 1
        BY <2>2, <2>4, <3>1, <3>2
      <3>3. CASE k # n + 1
        <4>1. k \in 1..n /\ k \in 0..n
          BY <3>3
        <4>. QED
          BY <2>1, <2>4, <3>1, <4>1
      <3>. QED
        BY <3>2, <3>3
    <2>. QED
      BY <2>3, <2>5, <2>6
  <1> HIDE DEF R
  <1>3. MaxId \in R
    BY <1>0, <1>1, <1>2, NatSetInduction
  <1>. QED
    BY <1>0, <1>3 DEF R, Ids, S

\* What the search does with the edge of here to k, if there is one.
EdgeOf(dfs, f, here, k) ==
    IF f.closing # <<>> THEN f
    ELSE IF f.order[k] = 0 THEN dfs[Descend(f, here, k)][k]
    ELSE IF \/ f.order[here] < f.order[k]
            \/ f.finished[k]
      THEN f
    ELSE Close(f, here, k)

Step(dfs, graph, f, here, k) ==
    IF k \in graph[here] THEN EdgeOf(dfs, f, here, k) ELSE f

\* The states of the loop over the edges of here.
AreEdges(e, dfs, graph, s, here) ==
    e = [k \in 0..MaxId |->
            IF k = 0 THEN Discover(s, here)
            ELSE IF k \in graph[here] THEN EdgeOf(dfs, e[k - 1], here, k)
            ELSE e[k - 1]]

Edges(dfs, graph, s, here) ==
    CHOOSE e : AreEdges(e, dfs, graph, s, here)

Body(dfs, graph, s, here) ==
    IF s.order[here] # 0 \/ s.closing # <<>> THEN s
    ELSE Finish(Edges(dfs, graph, s, here)[MaxId], here)

\* The body of Dfs, which calls what Dfs returns.
IsDfs(dfs, graph) ==
    dfs = [s \in Searches |-> [here \in Ids |-> Body(dfs, graph, s, here)]]

LEMMA DfsChosen ==
    ASSUME NEW graph
    PROVE  Dfs(graph) = CHOOSE dfs : IsDfs(dfs, graph)
  BY DEF Dfs, IsDfs, Body, Edges, AreEdges, EdgeOf

\* dfs takes nothing back in a search with fewer than n locks left.
Keeps(dfs, n) ==
    \A x \in Searches, i \in Ids : Rest(x) < n => Kept(x, dfs[x][i])

\* Two functions go on in the same way with fewer than n locks left.
Agree(dfs, dfs2, n) ==
    \A x \in Searches, i \in Ids : Rest(x) < n => dfs[x][i] = dfs2[x][i]

LEMMA StepType ==
    ASSUME NEW dfs \in Tables, NEW graph,
           NEW f \in Searches, NEW here \in Ids, NEW k \in Ids
    PROVE  Step(dfs, graph, f, here, k) \in Searches
  <1>1. Descend(f, here, k) \in Searches
    BY DescendFields
  <1>2. Close(f, here, k) \in Searches
    BY CloseFields
  <1>3. dfs[Descend(f, here, k)][k] \in Searches
    BY <1>1 DEF Tables
  <1>. QED
    BY <1>2, <1>3, Zenon DEF Step, EdgeOf

LEMMA StepKeeps ==
    ASSUME NEW dfs \in Tables, NEW graph,
           NEW f \in Searches, NEW here \in Ids, NEW k \in Ids,
           NEW n, Keeps(dfs, n), Rest(f) < n,
           NEW r, r = Step(dfs, graph, f, here, k)
    PROVE  Kept(f, r)
  <1>1. PICK d : d = Descend(f, here, k)
    OBVIOUS
  <1>2. d \in Searches /\ d.order = f.order /\ d.finished = f.finished
    BY <1>1, DescendFields
  <1>3. Rest(d) = Rest(f)
    BY <1>2 DEF Rest, Undiscovered
  <1>4. Kept(d, dfs[d][k])
    BY <1>2, <1>3 DEF Keeps
  <1>5. Kept(f, dfs[d][k])
    BY <1>2, <1>4 DEF Kept
  <1>6. PICK c : c = Close(f, here, k)
    OBVIOUS
  <1>7. c.order = f.order /\ c.finished = f.finished
    BY <1>6, CloseFields
  <1>8. Kept(f, c) /\ Kept(f, f)
    BY <1>7 DEF Kept
  <1>9. r = f \/ r = c \/ r = dfs[d][k]
    BY <1>1, <1>6, Zenon DEF Step, EdgeOf
  <1>. QED
    BY <1>5, <1>8, <1>9

LEMMA StepAgrees ==
    ASSUME NEW dfs, NEW dfs2, NEW graph,
           NEW f \in Searches, NEW here \in Ids, NEW k \in Ids,
           NEW n, Agree(dfs, dfs2, n), Rest(f) < n
    PROVE  Step(dfs, graph, f, here, k) = Step(dfs2, graph, f, here, k)
  <1>1. PICK d : d = Descend(f, here, k)
    OBVIOUS
  <1>2. d \in Searches /\ d.order = f.order
    BY <1>1, DescendFields
  <1>3. Rest(d) = Rest(f)
    BY <1>2 DEF Rest, Undiscovered
  <1>4. dfs[d][k] = dfs2[d][k]
    BY <1>2, <1>3 DEF Agree
  <1>. QED
    BY <1>1, <1>4, Zenon DEF Step, EdgeOf

\* The states of that loop, step by step.
IsLoop(e, dfs, graph, s, here) ==
    /\ e[0] = Discover(s, here)
    /\ \A k \in Ids : e[k] = Step(dfs, graph, e[k - 1], here, k)

\* They have less left than s.
Shrinks(e, s) ==
    \A k \in 0..MaxId : Kept(s, e[k]) /\ Rest(e[k]) < Rest(s)

\* The loop over the edges of here has states, and they are searches.
LEMMA EdgesExist ==
    ASSUME NEW dfs \in Tables, NEW graph,
           NEW s \in Searches, NEW here \in Ids
    PROVE  \E e \in [0..MaxId -> Searches] :
               /\ AreEdges(e, dfs, graph, s, here)
               /\ IsLoop(e, dfs, graph, s, here)
  <1> DEFINE step == [f \in Searches |->
                         [k \in Ids |-> Step(dfs, graph, f, here, k)]]
  <1>0. MaxId \in Nat
    BY MaxIdType
  <1>1. Discover(s, here) \in Searches
    BY DiscoverFields
  <1>2. step \in Tables
    BY StepType DEF Tables
  <1>3. \A f \in Searches, k \in Ids :
            step[f][k] = Step(dfs, graph, f, here, k)
    OBVIOUS
  <1> HIDE DEF step
  <1>9. PICK d : d = Discover(s, here)
    OBVIOUS
  <1>10. d \in Searches
    BY <1>1, <1>9
  <1>11. PICK e \in [0..MaxId -> Searches] :
            e[0] = d /\ \A k \in Ids : e[k] = step[e[k - 1]][k]
    BY <1>2, <1>10, LoopExists
  <1>4. /\ e[0] = Discover(s, here)
        /\ \A k \in Ids : e[k] = step[e[k - 1]][k]
    BY <1>9, <1>11
  <1>5. ASSUME NEW k \in Ids
        PROVE  e[k] = Step(dfs, graph, e[k - 1], here, k)
    <2>1. k - 1 \in 0..MaxId
      BY <1>0 DEF Ids
    <2>. QED
      BY <1>3, <1>4, <2>1
  <1>6. ASSUME NEW k \in 0..MaxId
        PROVE  e[k] = IF k = 0 THEN Discover(s, here)
                      ELSE IF k \in graph[here]
                        THEN EdgeOf(dfs, e[k - 1], here, k)
                      ELSE e[k - 1]
    <2>1. CASE k = 0
      BY <1>4, <2>1
    <2>2. CASE k # 0
      <3>1. k \in Ids
        BY <1>0, <2>2 DEF Ids
      <3>. QED
        BY <1>5, <2>2, <3>1 DEF Step
    <2>. QED
      BY <2>1, <2>2
  <1>7. AreEdges(e, dfs, graph, s, here)
    BY <1>6 DEF AreEdges
  <1>. QED
    BY <1>4, <1>5, <1>7 DEF IsLoop

\* In a loop that starts by discovering here, fewer locks are left.
LEMMA EdgesKeep ==
    ASSUME NEW dfs \in Tables, NEW graph,
           NEW s \in Searches, NEW here \in Ids, s.order[here] = 0,
           Keeps(dfs, Rest(s)),
           NEW e \in [0..MaxId -> Searches],
           IsLoop(e, dfs, graph, s, here),
           NEW m \in 0..MaxId
    PROVE  Kept(s, e[m]) /\ Rest(e[m]) < Rest(s)
  <1> DEFINE R == {n \in Nat : n <= MaxId =>
                       Kept(s, e[n]) /\ e[n].order[here] # 0}
  <1>0. MaxId \in Nat
    BY MaxIdType
  <1>1. 0 \in R
    <2>1. PICK d : d = Discover(s, here)
      OBVIOUS
    <2>2. \A i \in Ids : /\ d.order[i] = IF i = here THEN s.count
                                                     ELSE s.order[i]
                         /\ d.finished[i] = s.finished[i]
      BY <2>1, DiscoverFields
    <2>3. Kept(s, d) /\ d.order[here] # 0
      BY <2>2, SearchFields DEF Kept
    <2>. QED
      BY <2>1, <2>3 DEF IsLoop
  <1>2. ASSUME NEW n \in Nat, n \in R
        PROVE  n + 1 \in R
    <2> SUFFICES ASSUME n + 1 <= MaxId
                 PROVE  Kept(s, e[n + 1]) /\ e[n + 1].order[here] # 0
      OBVIOUS
    <2>1. n \in 0..MaxId /\ n + 1 \in Ids /\ (n + 1) - 1 = n
      BY <1>0 DEF Ids
    <2>2. PICK f \in Searches : f = e[n]
      BY <2>1
    <2>3. Kept(s, f) /\ f.order[here] # 0
      BY <1>2, <2>1, <2>2
    <2>4. Rest(f) < Rest(s)
      BY <2>3, RestKept
    <2>5. e[n + 1] = Step(dfs, graph, f, here, n + 1)
      BY <2>1, <2>2 DEF IsLoop
    <2>6. Kept(f, e[n + 1])
      BY <2>1, <2>4, <2>5, StepKeeps
    <2>. QED
      BY <2>3, <2>6 DEF Kept
  <1> HIDE DEF R
  <1>3. m \in R
    BY <1>1, <1>2, NatSetInduction
  <1>4. Kept(s, e[m]) /\ e[m].order[here] # 0
    BY <1>0, <1>3 DEF R
  <1>. QED
    BY <1>4, RestKept

\* States of the same loop, made with functions that agree, are the same.
LEMMA EdgesSame ==
    ASSUME NEW dfs \in Tables, NEW dfs2, NEW graph,
           NEW s \in Searches, NEW here \in Ids, s.order[here] = 0,
           Keeps(dfs, Rest(s)), Agree(dfs, dfs2, Rest(s)),
           NEW e \in [0..MaxId -> Searches],
           IsLoop(e, dfs, graph, s, here),
           NEW e2, AreEdges(e2, dfs2, graph, s, here)
    PROVE  e2 = e
  <1> DEFINE R == {n \in Nat : n <= MaxId => e2[n] = e[n]}
  <1>0. MaxId \in Nat
    BY MaxIdType
  <1>1. /\ e2 = [k \in 0..MaxId |-> e2[k]]
        /\ e2[0] = Discover(s, here)
        /\ \A k \in Ids : e2[k] = Step(dfs2, graph, e2[k - 1], here, k)
    <2>1. PICK F : F = [k \in 0..MaxId |->
                           IF k = 0 THEN Discover(s, here)
                           ELSE IF k \in graph[here]
                             THEN EdgeOf(dfs2, e2[k - 1], here, k)
                           ELSE e2[k - 1]]
      OBVIOUS
    <2>2. e2 = F
      BY <2>1 DEF AreEdges
    <2>3. F = [k \in 0..MaxId |-> F[k]] /\ F[0] = Discover(s, here)
      BY <1>0, <2>1
    <2>4. ASSUME NEW k \in Ids
          PROVE  F[k] = Step(dfs2, graph, e2[k - 1], here, k)
      <3>1. k \in 0..MaxId /\ k # 0
        BY <1>0 DEF Ids
      <3>. QED
        BY <2>1, <3>1 DEF Step
    <2>. QED
      BY <2>2, <2>3, <2>4
  <1>2. 0 \in R
    BY <1>1 DEF IsLoop
  <1>3. ASSUME NEW n \in Nat, n \in R
        PROVE  n + 1 \in R
    <2> SUFFICES ASSUME n + 1 <= MaxId
                 PROVE  e2[n + 1] = e[n + 1]
      OBVIOUS
    <2>1. n \in 0..MaxId /\ n + 1 \in Ids /\ (n + 1) - 1 = n
      BY <1>0 DEF Ids
    <2>2. PICK f \in Searches : f = e[n]
      BY <2>1
    <2>3. e2[n] = f
      BY <1>3, <2>1, <2>2
    <2>4. Rest(f) < Rest(s)
      BY <2>1, <2>2, EdgesKeep
    <2>5. /\ e[n + 1] = Step(dfs, graph, f, here, n + 1)
          /\ e2[n + 1] = Step(dfs2, graph, f, here, n + 1)
      BY <1>1, <2>1, <2>2, <2>3 DEF IsLoop
    <2>. QED
      BY <2>1, <2>4, <2>5, StepAgrees
  <1> HIDE DEF R
  <1>4. \A n \in 0..MaxId : n \in R
    BY <1>0, <1>2, <1>3, NatSetInduction
  <1>5. \A n \in 0..MaxId : e2[n] = e[n]
    BY <1>0, <1>4 DEF R
  <1>. QED
    BY <1>1, <1>5

\* So the loop has these states and no others.
LEMMA EdgesAre ==
    ASSUME NEW dfs \in Tables, NEW graph,
           NEW s \in Searches, NEW here \in Ids, s.order[here] = 0,
           Keeps(dfs, Rest(s))
    PROVE  \E e \in [0..MaxId -> Searches] :
               /\ e = Edges(dfs, graph, s, here)
               /\ IsLoop(e, dfs, graph, s, here)
               /\ Shrinks(e, s)
  <1>1. PICK e \in [0..MaxId -> Searches] :
               /\ AreEdges(e, dfs, graph, s, here)
               /\ IsLoop(e, dfs, graph, s, here)
    BY EdgesExist
  <1>2. Agree(dfs, dfs, Rest(s))
    BY DEF Agree
  <1>3. PICK e2 : e2 = Edges(dfs, graph, s, here)
    OBVIOUS
  <1>4. AreEdges(e2, dfs, graph, s, here)
    BY <1>1, <1>3 DEF Edges
  <1>5. e2 = e
    BY <1>1, <1>2, <1>4, EdgesSame
  <1>6. \A k \in 0..MaxId : Kept(s, e[k]) /\ Rest(e[k]) < Rest(s)
    BY <1>1, EdgesKeep
  <1>. QED
    BY <1>1, <1>3, <1>5, <1>6 DEF Shrinks

LEMMA EdgesAgree ==
    ASSUME NEW dfs \in Tables, NEW dfs2, NEW graph,
           NEW s \in Searches, NEW here \in Ids, s.order[here] = 0,
           Keeps(dfs, Rest(s)), Agree(dfs, dfs2, Rest(s))
    PROVE  Edges(dfs2, graph, s, here) = Edges(dfs, graph, s, here)
  <1>0. MaxId \in Nat
    BY MaxIdType
  <1>1. PICK e \in [0..MaxId -> Searches] :
               /\ e = Edges(dfs, graph, s, here)
               /\ IsLoop(e, dfs, graph, s, here)
               /\ Shrinks(e, s)
    BY EdgesAre
  <1>2. ASSUME NEW k \in 0..MaxId
        PROVE  e[k] = IF k = 0 THEN Discover(s, here)
                      ELSE IF k \in graph[here]
                        THEN EdgeOf(dfs2, e[k - 1], here, k)
                      ELSE e[k - 1]
    <2>1. CASE k = 0
      BY <1>1, <2>1 DEF IsLoop
    <2>2. CASE k # 0
      <3>1. k \in Ids /\ k - 1 \in 0..MaxId
        BY <1>0, <2>2 DEF Ids
      <3>2. PICK f \in Searches : f = e[k - 1]
        BY <3>1
      <3>3. Rest(f) < Rest(s) /\ e[k] = Step(dfs, graph, f, here, k)
        BY <1>1, <3>1, <3>2 DEF IsLoop, Shrinks
      <3>4. e[k] = Step(dfs2, graph, f, here, k)
        BY <3>1, <3>3, StepAgrees
      <3>. QED
        BY <2>2, <3>2, <3>4 DEF Step
    <2>. QED
      BY <2>1, <2>2
  <1>3. AreEdges(e, dfs2, graph, s, here)
    BY <1>2 DEF AreEdges
  <1>4. PICK e2 : e2 = Edges(dfs2, graph, s, here)
    OBVIOUS
  <1>5. AreEdges(e2, dfs2, graph, s, here)
    BY <1>3, <1>4 DEF Edges
  <1>6. e2 = e
    BY <1>1, <1>5, EdgesSame
  <1>. QED
    BY <1>1, <1>4, <1>6

LEMMA BodyKeeps ==
    ASSUME NEW dfs \in Tables, NEW graph,
           NEW s \in Searches, NEW here \in Ids, Keeps(dfs, Rest(s)),
           NEW r, r = Body(dfs, graph, s, here)
    PROVE  r \in Searches /\ Kept(s, r)
  <1>0. MaxId \in 0..MaxId
    BY MaxIdType
  <1>1. CASE s.order[here] # 0 \/ s.closing # <<>>
    BY <1>1 DEF Body, Kept
  <1>2. CASE ~(s.order[here] # 0 \/ s.closing # <<>>)
    <2>1. PICK e \in [0..MaxId -> Searches] :
               /\ e = Edges(dfs, graph, s, here)
               /\ IsLoop(e, dfs, graph, s, here)
               /\ Shrinks(e, s)
      BY <1>2, EdgesAre
    <2>2. PICK f \in Searches : f = e[MaxId]
      BY <1>0
    <2>3. Kept(s, f)
      BY <1>0, <2>1, <2>2 DEF Shrinks
    <2>4. r = Finish(f, here)
      BY <1>2, <2>1, <2>2 DEF Body
    <2>5. r \in Searches /\ r.order = f.order
      BY <2>4, FinishFields
    <2>6. \A i \in Ids : f.finished[i] => r.finished[i]
      BY <2>4, FinishFields
    <2>. QED
      BY <2>3, <2>5, <2>6 DEF Kept
  <1>. QED
    BY <1>1, <1>2

LEMMA BodyAgrees ==
    ASSUME NEW dfs \in Tables, NEW dfs2, NEW graph,
           NEW s \in Searches, NEW here \in Ids,
           Keeps(dfs, Rest(s)), Agree(dfs, dfs2, Rest(s))
    PROVE  Body(dfs2, graph, s, here) = Body(dfs, graph, s, here)
  BY EdgesAgree DEF Body

\* A function solves the equation of Dfs in every search with fewer than n
\* locks left.
Solves(dfs, graph, n) ==
    \A s \in Searches, here \in Ids :
        Rest(s) < n => /\ dfs[s][here] = Body(dfs, graph, s, here)
                       /\ Kept(s, dfs[s][here])

LEMMA DfsUpTo ==
    ASSUME NEW graph, NEW n \in Nat
    PROVE  \E dfs \in Tables : Solves(dfs, graph, n)
  <1> DEFINE R == {m \in Nat : \E dfs \in Tables : Solves(dfs, graph, m)}
  <1>1. 0 \in R
    <2>1. PICK d : d = [s \in Searches |-> [here \in Ids |-> s]]
      OBVIOUS
    <2>2. d \in Tables
      BY <2>1 DEF Tables
    <2>3. Solves(d, graph, 0)
      BY RestType DEF Solves
    <2>. QED
      BY <2>2, <2>3
  <1>2. ASSUME NEW m \in Nat, m \in R
        PROVE  m + 1 \in R
    <2>1. PICK d \in Tables : Solves(d, graph, m)
      BY <1>2
    <2>2. Keeps(d, m)
      BY <2>1 DEF Keeps, Solves
    <2>3. PICK d2 : d2 = [s \in Searches |-> [here \in Ids |->
                             IF Rest(s) = m THEN Body(d, graph, s, here)
                                            ELSE d[s][here]]]
      OBVIOUS
    <2>4. \A s \in Searches, here \in Ids :
              /\ Rest(s) = m => d2[s][here] = Body(d, graph, s, here)
              /\ Rest(s) # m => d2[s][here] = d[s][here]
      BY <2>3
    <2>5. ASSUME NEW s \in Searches, NEW here \in Ids
          PROVE  Rest(s) < m + 1 => /\ Keeps(d, Rest(s))
                                    /\ Agree(d, d2, Rest(s))
      BY <2>2, <2>4, RestType DEF Keeps, Agree
    <2>6. ASSUME NEW s \in Searches, NEW here \in Ids, Rest(s) = m
          PROVE  Body(d, graph, s, here) \in Searches
      BY <2>2, <2>6, BodyKeeps
    <2>7. d2 \in Tables
      BY <2>3, <2>6 DEF Tables
    <2>8. ASSUME NEW s \in Searches, NEW here \in Ids, Rest(s) < m + 1
          PROVE  /\ d2[s][here] = Body(d2, graph, s, here)
                 /\ Kept(s, d2[s][here])
      <3>1. Keeps(d, Rest(s)) /\ Agree(d, d2, Rest(s))
        BY <2>5, <2>8
      <3>2. Body(d2, graph, s, here) = Body(d, graph, s, here)
        BY <3>1, BodyAgrees
      <3>3. d2[s][here] = Body(d, graph, s, here)
        BY <2>1, <2>4, <2>8, RestType DEF Solves
      <3>4. Kept(s, Body(d, graph, s, here))
        BY <3>1, BodyKeeps
      <3>. QED
        BY <3>2, <3>3, <3>4
    <2>9. Solves(d2, graph, m + 1)
      BY <2>8 DEF Solves
    <2>. QED
      BY <2>7, <2>9
  <1>. QED
    BY <1>1, <1>2, NatSetInduction

\* There is a function that solves the equation of Dfs, so Dfs is one: it is
\* defined for every search, and takes nothing back.
LEMMA DfsSolves ==
    ASSUME NEW graph
    PROVE  /\ Dfs(graph) \in Tables
           /\ \A s \in Searches, here \in Ids :
                  /\ Dfs(graph)[s][here] = Body(Dfs(graph), graph, s, here)
                  /\ Kept(s, Dfs(graph)[s][here])
  <1>0. MaxId \in Nat /\ MaxId + 1 \in Nat
    BY MaxIdType
  <1>1. PICK d \in Tables : Solves(d, graph, MaxId + 1)
    BY <1>0, DfsUpTo
  <1>2. \A s \in Searches, here \in Ids :
            d[s][here] = Body(d, graph, s, here) /\ Kept(s, d[s][here])
    BY <1>0, <1>1, RestType DEF Solves
  <1>3. \A n : Keeps(d, n)
    BY <1>2 DEF Keeps
  <1>4. d = [s \in Searches |-> [here \in Ids |-> d[s][here]]]
    BY <1>1 DEF Tables
  <1>5. [s \in Searches |-> [here \in Ids |-> d[s][here]]]
            = [s \in Searches |-> [here \in Ids |-> Body(d, graph, s, here)]]
    BY <1>2
  <1>6. IsDfs(d, graph)
    BY <1>4, <1>5 DEF IsDfs
  <1>7. PICK c : c = Dfs(graph)
    OBVIOUS
  <1>8. IsDfs(c, graph)
    BY <1>6, <1>7, DfsChosen
  <1>9. \A s \in Searches, here \in Ids :
            c[s][here] = Body(c, graph, s, here)
    <2>1. PICK F : F = [s \in Searches |->
                           [here \in Ids |-> Body(c, graph, s, here)]]
      OBVIOUS
    <2>2. c = F
      BY <1>8, <2>1 DEF IsDfs
    <2>3. \A s \in Searches, here \in Ids : F[s][here] = Body(c, graph, s, here)
      BY <2>1
    <2>. QED
      BY <2>2, <2>3
  <1> DEFINE R == {n \in Nat : Agree(d, c, n)}
  <1>10. 0 \in R
    BY RestType DEF Agree
  <1>11. ASSUME NEW n \in Nat, n \in R
         PROVE  n + 1 \in R
    <2>1. ASSUME NEW s \in Searches, NEW here \in Ids, Rest(s) < n + 1
          PROVE  d[s][here] = c[s][here]
      <3>1. Agree(d, c, Rest(s))
        BY <1>11, <2>1, RestType DEF Agree
      <3>2. Body(c, graph, s, here) = Body(d, graph, s, here)
        BY <1>3, <3>1, BodyAgrees
      <3>. QED
        BY <1>2, <1>9, <3>2
    <2>. QED
      BY <2>1 DEF Agree
  <1> HIDE DEF R
  <1>12. MaxId + 1 \in R
    BY <1>0, <1>10, <1>11, NatSetInduction
  <1>13. \A s \in Searches, here \in Ids : c[s][here] = d[s][here]
    BY <1>0, <1>12, RestType DEF R, Agree
  <1>14. c = [s \in Searches |-> [here \in Ids |-> Body(d, graph, s, here)]]
    <2>1. c = [s \in Searches |-> [here \in Ids |-> Body(c, graph, s, here)]]
      BY <1>8 DEF IsDfs
    <2>2. \A s \in Searches, here \in Ids :
              Body(c, graph, s, here) = Body(d, graph, s, here)
      BY <1>2, <1>9, <1>13
    <2>. QED
      BY <2>1, <2>2
  <1>15. c = d
    BY <1>4, <1>5, <1>14
  <1>. QED
    BY <1>1, <1>2, <1>7, <1>15

-----------------------------------------------------------------------------
(* The search finds a cycle, or an order of the locks without one *)

LockGraphs == [Ids -> SUBSET Ids]

\* The stack of the calls of Dfs: their locks are those discovered and not
\* finished, and each was discovered from the one before it.
Unfinished(s, st) ==
    /\ \A k \in 1..Len(st) : s.order[st[k]] # 0 /\ ~s.finished[st[k]]
    /\ \A i \in Ids : s.order[i] # 0 /\ ~s.finished[i]
                          => \E k \in 1..Len(st) : st[k] = i

Sorted(s, st) ==
    /\ \A i \in Ids : s.order[i] < s.count
    /\ \A j, k \in 1..Len(st) : j < k => s.order[st[j]] < s.order[st[k]]

IsChain(graph, parent, st) ==
    \A k \in 2..Len(st) : /\ parent[st[k]] = st[k - 1]
                          /\ st[k] \in graph[st[k - 1]]

\* The finished locks are in an order: all edges of one lead to finished ones
\* of a lower rank.
RankedBelow(graph, s, rank, b) ==
    \A i \in Ids : s.finished[i] =>
        /\ s.order[i] # 0 /\ rank[i] < b
        /\ \A j \in graph[i] : s.finished[j] /\ rank[j] < rank[i]

Ranked(graph, s) ==
    \E rank \in [Ids -> Nat], b \in Nat : RankedBelow(graph, s, rank, b)

Searching(graph, s, st) ==
    /\ s.closing = <<>>
    /\ Unfinished(s, st) /\ Sorted(s, st) /\ IsChain(graph, s.parent, st)
    /\ Ranked(graph, s)

\* Dfs is called for here.
Entered(graph, s, st, here) ==
    /\ Searching(graph, s, st)
    /\ s.order[here] = 0
    /\ Len(st) > 0 => /\ s.parent[here] = st[Len(st)]
                      /\ here \in graph[st[Len(st)]]

\* The last edge of the search goes from the end of a chain into the chain.
ClosesAt(graph, s, st, k) ==
    /\ \A i, j \in 1..Len(st) : i # j => st[i] # st[j]
    /\ IsChain(graph, s.parent, st)
    /\ s.closing = <<st[Len(st)], st[k]>>
    /\ st[k] \in graph[st[Len(st)]]

Closed(graph, s) ==
    \E st \in Seq(Ids) : \E k \in 1..Len(st) : ClosesAt(graph, s, st, k)

\* Dfs returns from here.
Searched(graph, r, st, here) ==
    Closed(graph, r) \/ (Searching(graph, r, st) /\ r.finished[here])

\* The last call is for here.
OnTop(st, here) == Len(st) > 0 /\ st[Len(st)] = here

LEMMA Extended ==
    ASSUME NEW st \in Seq(Ids), NEW here \in Ids, NEW p, p = Append(st, here)
    PROVE  /\ p \in Seq(Ids) /\ Len(st) \in Nat /\ Len(p) = Len(st) + 1
           /\ p[Len(st) + 1] = here /\ \A k \in 1..Len(st) : p[k] = st[k]
  OBVIOUS

\* The call discovers here, which goes on the stack.
LEMMA Discovering ==
    ASSUME NEW graph \in LockGraphs, NEW s \in Searches, NEW here \in Ids,
           NEW st \in Seq(Ids), Entered(graph, s, st, here),
           NEW d, d = Discover(s, here), NEW p, p = Append(st, here)
    PROVE  Searching(graph, d, p)
  <1>0. /\ p \in Seq(Ids) /\ Len(p) = Len(st) + 1
        /\ p[Len(st) + 1] = here /\ \A k \in 1..Len(st) : p[k] = st[k]
    BY Extended
  <1>1. PICK n \in Nat : n = Len(st)
    OBVIOUS
  <1>2. /\ Len(p) = n + 1 /\ p[n + 1] = here
        /\ \A k \in 1..n : p[k] = st[k] /\ st[k] \in Ids
    BY <1>0, <1>1
  <1>3. /\ s.closing = <<>> /\ Unfinished(s, st) /\ Sorted(s, st)
        /\ IsChain(graph, s.parent, st) /\ Ranked(graph, s)
        /\ s.order[here] = 0
        /\ n > 0 => s.parent[here] = st[n] /\ here \in graph[st[n]]
    BY <1>1 DEF Entered, Searching
  <1>4. /\ d \in Searches /\ d.count = s.count + 1
        /\ d.closing = s.closing /\ d.finished = s.finished
        /\ d.parent = s.parent
        /\ d.order[here] = s.count
        /\ \A i \in Ids : i # here => d.order[i] = s.order[i]
    BY DiscoverFields
  <1>5. \A i \in Ids : s.finished[i] => s.order[i] # 0
    BY <1>3 DEF Ranked, RankedBelow
  <1>6. \A k \in 1..n : /\ st[k] # here /\ s.order[st[k]] # 0
                        /\ ~s.finished[st[k]]
    BY <1>1, <1>3 DEF Unfinished
  <1>7. s.count \in Nat \ {0} /\ \A i \in Ids : s.order[i] \in Nat
    BY SearchFields
  <1>8. \A i \in Ids : s.order[i] < s.count
    BY <1>3 DEF Sorted
  <1>9. Unfinished(d, p)
    <2>1. ASSUME NEW k \in 1..(n + 1)
          PROVE  d.order[p[k]] # 0 /\ ~d.finished[p[k]]
      <3>1. CASE k = n + 1
        BY <1>2, <1>3, <1>4, <1>5, <1>7, <3>1
      <3>2. CASE k # n + 1
        <4>1. k \in 1..n
          BY <3>2
        <4>. QED
          BY <1>2, <1>4, <1>6, <4>1
      <3>. QED
        BY <3>1, <3>2
    <2>2. ASSUME NEW i \in Ids, d.order[i] # 0, ~d.finished[i]
          PROVE  \E k \in 1..(n + 1) : p[k] = i
      <3>1. CASE i = here
        BY <1>2, <3>1
      <3>2. CASE i # here
        <4>1. PICK k \in 1..n : st[k] = i
          BY <1>1, <1>3, <1>4, <2>2, <3>2 DEF Unfinished
        <4>. QED
          BY <1>2, <4>1
      <3>. QED
        BY <3>1, <3>2
    <2>. QED
      BY <1>2, <2>1, <2>2 DEF Unfinished
  <1>10. Sorted(d, p)
    <2>1. \A i \in Ids : d.order[i] < d.count
      BY <1>4, <1>7, <1>8
    <2>2. ASSUME NEW j \in 1..(n + 1), NEW k \in 1..(n + 1), j < k
          PROVE  d.order[p[j]] < d.order[p[k]]
      <3>1. j \in 1..n /\ p[j] = st[j] /\ st[j] \in Ids
        BY <1>2, <2>2
      <3>2. d.order[p[j]] = s.order[st[j]]
        BY <1>4, <1>6, <3>1
      <3>3. CASE k = n + 1
        BY <1>2, <1>4, <1>8, <3>1, <3>2, <3>3
      <3>4. CASE k # n + 1
        <4>1. k \in 1..n /\ p[k] = st[k] /\ st[k] \in Ids
          BY <1>2, <3>4
        <4>2. d.order[p[k]] = s.order[st[k]]
          BY <1>4, <1>6, <4>1
        <4>3. s.order[st[j]] < s.order[st[k]]
          BY <1>1, <1>3, <2>2, <3>1, <4>1 DEF Sorted
        <4>. QED
          BY <3>2, <4>2, <4>3
      <3>. QED
        BY <3>3, <3>4
    <2>. QED
      BY <1>2, <2>1, <2>2 DEF Sorted
  <1>11. IsChain(graph, d.parent, p)
    <2>1. ASSUME NEW k \in 2..(n + 1)
          PROVE  s.parent[p[k]] = p[k - 1] /\ p[k] \in graph[p[k - 1]]
      <3>1. CASE k = n + 1
        <4>1. n \in 1..n /\ k - 1 = n
          BY <3>1
        <4>. QED
          BY <1>2, <1>3, <3>1, <4>1
      <3>2. CASE k # n + 1
        <4>1. k \in 2..n /\ k \in 1..n /\ k - 1 \in 1..n
          BY <3>2
        <4>2. p[k] = st[k] /\ p[k - 1] = st[k - 1]
          BY <1>2, <4>1
        <4>. QED
          BY <1>1, <1>3, <4>1, <4>2 DEF IsChain
      <3>. QED
        BY <3>1, <3>2
    <2>. QED
      BY <1>2, <1>4, <2>1 DEF IsChain
  <1>12. Ranked(graph, d)
    <2>1. PICK rank \in [Ids -> Nat], b \in Nat : RankedBelow(graph, s, rank, b)
      BY <1>3 DEF Ranked
    <2>2. RankedBelow(graph, d, rank, b)
      BY <1>3, <1>4, <2>1 DEF RankedBelow
    <2>. QED
      BY <2>1, <2>2 DEF Ranked
  <1>. QED
    BY <1>3, <1>4, <1>9, <1>10, <1>11, <1>12 DEF Searching

\* The call goes on to k, which is on no stack yet.
LEMMA Descending ==
    ASSUME NEW graph \in LockGraphs, NEW s \in Searches, NEW here \in Ids,
           NEW k \in Ids, NEW st \in Seq(Ids), Searching(graph, s, st),
           OnTop(st, here),
           k \in graph[here], s.order[k] = 0,
           NEW d, d = Descend(s, here, k)
    PROVE  Entered(graph, d, st, k)
  <1>1. /\ d \in Searches /\ d.count = s.count /\ d.order = s.order
        /\ d.closing = s.closing /\ d.finished = s.finished
        /\ d.parent[k] = here
        /\ \A i \in Ids : i # k => d.parent[i] = s.parent[i]
    <2>1. /\ d \in Searches /\ d.count = s.count /\ d.order = s.order
          /\ d.closing = s.closing /\ d.finished = s.finished
      BY DescendFields
    <2>2. d.parent[k] = here
      BY DescendFields
    <2>3. \A i \in Ids : i # k => d.parent[i] = s.parent[i]
      <3>1. d.parent = [s.parent EXCEPT ![k] = here]
        BY Z3 DEF Descend, Searches
      <3>2. PICK P : s.parent \in [Ids -> P]
        BY SearchFields
      <3>. QED
        BY <3>1, <3>2
    <2>. QED
      BY <2>1, <2>2, <2>3
  <1>2. /\ s.closing = <<>> /\ Unfinished(s, st) /\ Sorted(s, st)
        /\ IsChain(graph, s.parent, st) /\ Ranked(graph, s)
    BY DEF Searching
  <1>3. \A i \in 1..Len(st) : st[i] # k /\ st[i] \in Ids
    BY <1>2 DEF Unfinished
  <1>4. Unfinished(d, st)
    BY <1>1, <1>2 DEF Unfinished
  <1>5. Sorted(d, st)
    BY <1>1, <1>2 DEF Sorted
  <1>6. IsChain(graph, d.parent, st)
    BY <1>1, <1>2, <1>3 DEF IsChain
  <1>7. Ranked(graph, d)
    <2>1. PICK rank \in [Ids -> Nat], b \in Nat : RankedBelow(graph, s, rank, b)
      BY <1>2 DEF Ranked
    <2>2. RankedBelow(graph, d, rank, b)
      BY <1>1, <2>1 DEF RankedBelow
    <2>. QED
      BY <2>1, <2>2 DEF Ranked
  <1>. QED
    BY <1>1, <1>2, <1>4, <1>5, <1>6, <1>7 DEF Searching, Entered, OnTop

\* A lock discovered after here is finished.
LEMMA Later ==
    ASSUME NEW graph \in LockGraphs, NEW s \in Searches, NEW here \in Ids,
           NEW k \in Ids, NEW st \in Seq(Ids), Searching(graph, s, st),
           OnTop(st, here),
           s.order[here] < s.order[k]
    PROVE  s.finished[k]
  <1> SUFFICES ASSUME ~s.finished[k]
               PROVE  FALSE
    OBVIOUS
  <1>1. Unfinished(s, st) /\ Sorted(s, st)
    BY DEF Searching
  <1>2. s.order[k] \in Nat /\ s.order[here] \in Nat
    BY SearchFields
  <1>3. PICK m \in 1..Len(st) : st[m] = k
    BY <1>1, <1>2 DEF Unfinished
  <1>4. PICK n \in Nat : n = Len(st)
    OBVIOUS
  <1>5. m \in 1..n /\ n \in 1..n /\ st[n] = here
    BY <1>3, <1>4 DEF OnTop
  <1>6. m < n => s.order[k] < s.order[here]
    BY <1>1, <1>3, <1>4, <1>5 DEF Sorted
  <1>7. m = n => k = here
    BY <1>3, <1>5
  <1>. QED
    BY <1>2, <1>5, <1>6, <1>7

\* A lock that is not finished is on the stack: the edge closes a cycle.
LEMMA Closing ==
    ASSUME NEW graph \in LockGraphs, NEW s \in Searches, NEW here \in Ids,
           NEW k \in Ids, NEW st \in Seq(Ids), Searching(graph, s, st),
           OnTop(st, here),
           k \in graph[here], s.order[k] # 0, ~s.finished[k],
           NEW c, c = Close(s, here, k)
    PROVE  Closed(graph, c)
  <1>0. c.closing = <<here, k>>
    BY CloseFields
  <1>8. c.parent = s.parent
    BY CloseFields
  <1>1. c.closing = <<here, k>> /\ c.parent = s.parent
    BY <1>0, <1>8
  <1>2. Unfinished(s, st) /\ Sorted(s, st) /\ IsChain(graph, s.parent, st)
    BY DEF Searching
  <1>3. PICK m \in 1..Len(st) : st[m] = k
    BY <1>2 DEF Unfinished
  <1>4. ASSUME NEW i \in 1..Len(st), NEW j \in 1..Len(st), i # j
        PROVE  st[i] # st[j]
    <2>1. /\ i < j => s.order[st[i]] < s.order[st[j]]
          /\ j < i => s.order[st[j]] < s.order[st[i]]
      BY <1>2 DEF Sorted
    <2>2. st[i] \in Ids /\ st[j] \in Ids
      OBVIOUS
    <2>3. s.order[st[i]] \in Nat /\ s.order[st[j]] \in Nat
      BY <2>2, SearchFields
    <2>4. i < j \/ j < i
      BY <1>4
    <2>. QED
      BY <2>1, <2>3, <2>4
  <1>5. IsChain(graph, c.parent, st)
    BY <1>1, <1>2
  <1>6. c.closing = <<st[Len(st)], st[m]>> /\ st[m] \in graph[st[Len(st)]]
    BY <1>1, <1>3 DEF OnTop
  <1>7. ClosesAt(graph, c, st, m)
    BY <1>4, <1>5, <1>6 DEF ClosesAt
  <1>. QED
    BY <1>3, <1>7 DEF Closed

\* All edges of here lead to finished locks: it comes next in the order.
LEMMA Finishing ==
    ASSUME NEW graph \in LockGraphs, NEW s \in Searches, NEW here \in Ids,
           NEW st \in Seq(Ids), NEW p, p = Append(st, here),
           Searching(graph, s, p),
           \A j \in graph[here] : s.finished[j],
           NEW r, r = Finish(s, here)
    PROVE  Searching(graph, r, st) /\ r.finished[here]
  <1>0. /\ p \in Seq(Ids) /\ Len(p) = Len(st) + 1
        /\ p[Len(st) + 1] = here /\ \A k \in 1..Len(st) : p[k] = st[k]
    BY Extended
  <1>1. PICK n \in Nat : n = Len(st)
    OBVIOUS
  <1>2. /\ Len(p) = n + 1 /\ p[n + 1] = here
        /\ \A k \in 1..n : p[k] = st[k] /\ st[k] \in Ids
    BY <1>0, <1>1
  <1>3. /\ s.closing = <<>> /\ Unfinished(s, p) /\ Sorted(s, p)
        /\ IsChain(graph, s.parent, p) /\ Ranked(graph, s)
    BY DEF Searching
  <1>4. /\ r \in Searches /\ r.count = s.count /\ r.order = s.order
        /\ r.closing = s.closing /\ r.parent = s.parent
        /\ \A i \in Ids : r.finished[i] <=> i = here \/ s.finished[i]
    BY <1>3, FinishFields
  <1>5. s.order[here] # 0 /\ ~s.finished[here]
    <2>1. n + 1 \in 1..(n + 1)
      OBVIOUS
    <2>. QED
      BY <1>2, <1>3, <2>1 DEF Unfinished
  <1>6. \A i \in Ids : s.order[i] \in Nat
    BY SearchFields
  <1>7. \A k \in 1..n : /\ s.order[st[k]] < s.order[here]
                        /\ s.order[st[k]] # 0 /\ ~s.finished[st[k]]
    <2>1. n + 1 \in 1..(n + 1) /\ \A k \in 1..n : k \in 1..(n + 1) /\ k < n + 1
      OBVIOUS
    <2>. QED
      BY <1>2, <1>3, <2>1 DEF Unfinished, Sorted
  <1>8. Unfinished(r, st)
    <2>1. ASSUME NEW k \in 1..n
          PROVE  r.order[st[k]] # 0 /\ ~r.finished[st[k]]
      <3>1. st[k] \in Ids /\ st[k] # here
        BY <1>2, <1>6, <1>7
      <3>. QED
        BY <1>4, <1>7, <3>1
    <2>2. ASSUME NEW i \in Ids, r.order[i] # 0, ~r.finished[i]
          PROVE  \E k \in 1..n : st[k] = i
      <3>1. i # here /\ s.order[i] # 0 /\ ~s.finished[i]
        BY <1>4, <2>2
      <3>2. PICK k \in 1..(n + 1) : p[k] = i
        BY <1>2, <1>3, <3>1 DEF Unfinished
      <3>3. k \in 1..n
        BY <1>2, <3>1, <3>2
      <3>. QED
        BY <1>2, <3>2, <3>3
    <2>. QED
      BY <1>1, <2>1, <2>2 DEF Unfinished
  <1>9. Sorted(r, st)
    <2>1. \A k \in 1..n : k \in 1..(n + 1)
      OBVIOUS
    <2>2. \A j, k \in 1..n : j < k => s.order[st[j]] < s.order[st[k]]
      BY <1>2, <1>3, <2>1 DEF Sorted
    <2>. QED
      BY <1>1, <1>3, <1>4, <2>2 DEF Sorted
  <1>10. IsChain(graph, r.parent, st)
    <2>1. \A k \in 2..n : k \in 2..(n + 1) /\ k \in 1..n /\ k - 1 \in 1..n
      OBVIOUS
    <2>2. \A k \in 2..n : s.parent[st[k]] = st[k - 1] /\ st[k] \in graph[st[k - 1]]
      BY <1>2, <1>3, <2>1 DEF IsChain
    <2>. QED
      BY <1>1, <1>4, <2>2 DEF IsChain
  <1>11. Ranked(graph, r)
    <2>1. PICK rank \in [Ids -> Nat], b \in Nat : RankedBelow(graph, s, rank, b)
      BY <1>3 DEF Ranked
    <2>2. PICK rank2 : rank2 = [rank EXCEPT ![here] = b]
      OBVIOUS
    <2>3. /\ rank2 \in [Ids -> Nat] /\ rank2[here] = b
          /\ \A i \in Ids : i # here => rank2[i] = rank[i]
      BY <2>1, <2>2
    <2>4. \A i \in Ids : graph[i] \subseteq Ids
      BY DEF LockGraphs
    <2>5. \A i \in Ids : rank[i] \in Nat
      BY <2>1
    <2>6. ASSUME NEW i \in Ids, s.finished[i]
          PROVE  /\ i # here /\ s.order[i] # 0 /\ rank2[i] < b
                 /\ \A j \in graph[i] : s.finished[j] /\ rank2[j] < rank2[i]
      BY <1>5, <2>1, <2>3, <2>4, <2>6 DEF RankedBelow
    <2>7. \A j \in graph[here] : s.finished[j] /\ rank2[j] < b
      BY <2>4, <2>6
    <2>8. ASSUME NEW i \in Ids, r.finished[i]
          PROVE  /\ r.order[i] # 0 /\ rank2[i] < b + 1
                 /\ \A j \in graph[i] : r.finished[j] /\ rank2[j] < rank2[i]
      <3>1. CASE i = here
        BY <1>4, <1>5, <2>3, <2>4, <2>7, <3>1
      <3>2. CASE i # here
        <4>1. s.finished[i]
          BY <1>4, <2>8, <3>2
        <4>2. rank2[i] \in Nat
          BY <2>3
        <4>. QED
          BY <1>4, <2>1, <2>4, <2>6, <4>1, <4>2
      <3>. QED
        BY <3>1, <3>2
    <2>9. b + 1 \in Nat /\ RankedBelow(graph, r, rank2, b + 1)
      BY <2>1, <2>8 DEF RankedBelow
    <2>. QED
      BY <2>3, <2>9 DEF Ranked
  <1>. QED
    BY <1>3, <1>4, <1>8, <1>9, <1>10, <1>11 DEF Searching

LEMMA ClosedCloses ==
    ASSUME NEW graph, NEW s, Closed(graph, s)
    PROVE  s.closing # <<>>
  BY DEF Closed, ClosesAt

\* One edge of here: the search finds a cycle, or goes on with the other end
\* finished.
LEMMA EdgeSearched ==
    ASSUME NEW graph \in LockGraphs, NEW dfs, NEW f \in Searches,
           NEW here \in Ids, NEW k \in Ids, NEW p \in Seq(Ids),
           Searching(graph, f, p), OnTop(p, here), k \in graph[here],
           \A d \in Searches :
               Rest(d) = Rest(f) /\ Entered(graph, d, p, k)
                   => Searched(graph, dfs[d][k], p, k),
           NEW g, g = EdgeOf(dfs, f, here, k)
    PROVE  Searched(graph, g, p, k)
  <1>1. f.closing = <<>>
    BY DEF Searching
  <1>2. CASE f.order[k] = 0
    <2>1. PICK d : d = Descend(f, here, k)
      OBVIOUS
    <2>2. d \in Searches /\ d.order = f.order
      BY <2>1, DescendFields
    <2>3. Rest(d) = Rest(f)
      BY <2>2 DEF Rest, Undiscovered
    <2>4. Entered(graph, d, p, k)
      BY <1>2, <2>1, Descending
    <2>5. g = dfs[d][k]
      BY <1>1, <1>2, <2>1 DEF EdgeOf
    <2>. QED
      BY <2>2, <2>3, <2>4, <2>5
  <1>3. CASE f.order[k] # 0 /\ f.order[here] < f.order[k]
    <2>1. f.finished[k]
      BY <1>3, Later
    <2>2. g = f
      BY <1>1, <1>3 DEF EdgeOf
    <2>. QED
      BY <2>1, <2>2 DEF Searched
  <1>4. CASE f.order[k] # 0 /\ f.finished[k]
    <2>2. g = f
      BY <1>1, <1>4 DEF EdgeOf
    <2>. QED
      BY <1>4, <2>2 DEF Searched
  <1>5. CASE /\ f.order[k] # 0 /\ ~(f.order[here] < f.order[k])
             /\ ~f.finished[k]
    <2>1. g = Close(f, here, k)
      BY <1>1, <1>5 DEF EdgeOf
    <2>2. Closed(graph, g)
      BY <1>5, <2>1, Closing
    <2>. QED
      BY <2>2 DEF Searched
  <1>. QED
    BY <1>2, <1>3, <1>4, <1>5

\* All edges of here up to the lock k have been looked at.
LookedAt(graph, f, p, here, k) ==
    \/ Closed(graph, f)
    \/ /\ Searching(graph, f, p)
       /\ \A j \in graph[here] : j <= k => f.finished[j]

\* The calls for searches with fewer than n locks left do what they are for.
Works(graph, dfs, n) ==
    \A s \in Searches, here \in Ids, st \in Seq(Ids) :
        Rest(s) < n /\ Entered(graph, s, st, here)
            => Searched(graph, dfs[s][here], st, here)

LEMMA StepLooks ==
    ASSUME NEW graph \in LockGraphs, NEW dfs \in Tables, NEW f \in Searches,
           NEW here \in Ids, NEW k \in Ids, NEW p \in Seq(Ids),
           OnTop(p, here), LookedAt(graph, f, p, here, k - 1),
           NEW n \in Nat, Works(graph, dfs, n), Keeps(dfs, n), Rest(f) < n,
           NEW g, g = Step(dfs, graph, f, here, k)
    PROVE  LookedAt(graph, g, p, here, k)
  <1>0. graph[here] \subseteq Ids /\ k \in Nat /\ \A j \in graph[here] : j \in Nat
    BY MaxIdType DEF LockGraphs, Ids
  <1>1. CASE Closed(graph, f)
    <2>1. f.closing # <<>>
      BY <1>1, ClosedCloses
    <2>2. g = f
      BY <2>1 DEF Step, EdgeOf
    <2>. QED
      BY <1>1, <2>2 DEF LookedAt
  <1>2. CASE /\ Searching(graph, f, p)
             /\ \A j \in graph[here] : j <= k - 1 => f.finished[j]
    <2>1. CASE k \notin graph[here]
      <3>1. g = f
        BY <2>1 DEF Step
      <3>2. \A j \in graph[here] : j <= k => f.finished[j]
        BY <1>0, <1>2, <2>1
      <3>. QED
        BY <1>2, <3>1, <3>2 DEF LookedAt
    <2>2. CASE k \in graph[here]
      <3>1. g = EdgeOf(dfs, f, here, k)
        BY <2>2 DEF Step
      <3>2. ASSUME NEW d \in Searches, Rest(d) = Rest(f),
                   Entered(graph, d, p, k)
            PROVE  Searched(graph, dfs[d][k], p, k)
        BY <3>2 DEF Works
      <3>3. Searched(graph, g, p, k)
        BY <1>2, <2>2, <3>1, <3>2, EdgeSearched
      <3>4. Kept(f, g)
        BY StepKeeps
      <3>5. CASE Closed(graph, g)
        BY <3>5 DEF LookedAt
      <3>6. CASE Searching(graph, g, p) /\ g.finished[k]
        <4>1. ASSUME NEW j \in graph[here], j <= k
              PROVE  g.finished[j]
          <5>1. j = k \/ j <= k - 1
            BY <1>0, <4>1
          <5>. QED
            BY <1>0, <1>2, <3>4, <3>6, <5>1 DEF Kept
        <4>. QED
          BY <3>6, <4>1 DEF LookedAt
      <3>. QED
        BY <3>3, <3>5, <3>6 DEF Searched
    <2>. QED
      BY <2>1, <2>2
  <1>. QED
    BY <1>1, <1>2 DEF LookedAt

LEMMA EdgesLook ==
    ASSUME NEW graph \in LockGraphs, NEW dfs \in Tables, NEW s \in Searches,
           NEW here \in Ids, NEW st \in Seq(Ids), Entered(graph, s, st, here),
           NEW p, p = Append(st, here),
           Works(graph, dfs, Rest(s)), Keeps(dfs, Rest(s)),
           NEW e \in [0..MaxId -> Searches],
           IsLoop(e, dfs, graph, s, here), Shrinks(e, s)
    PROVE  LookedAt(graph, e[MaxId], p, here, MaxId)
  <1> DEFINE R == {n \in Nat : n <= MaxId =>
                       LookedAt(graph, e[n], p, here, n)}
  <1>0. MaxId \in Nat
    BY MaxIdType
  <1>1. p \in Seq(Ids) /\ OnTop(p, here)
    BY Extended DEF OnTop
  <1>2. 0 \in R
    <2>1. PICK d : d = Discover(s, here)
      OBVIOUS
    <2>2. e[0] = d
      BY <2>1 DEF IsLoop
    <2>3. Searching(graph, d, p)
      BY <2>1, Discovering
    <2>4. \A j \in graph[here] : ~(j <= 0)
      BY <1>0 DEF LockGraphs, Ids
    <2>5. LookedAt(graph, e[0], p, here, 0)
      BY <2>2, <2>3, <2>4 DEF LookedAt
    <2>. QED
      BY <2>5
  <1>3. ASSUME NEW n \in Nat, n \in R
        PROVE  n + 1 \in R
    <2> SUFFICES ASSUME n + 1 <= MaxId
                 PROVE  LookedAt(graph, e[n + 1], p, here, n + 1)
      OBVIOUS
    <2>1. n \in 0..MaxId /\ n + 1 \in Ids /\ (n + 1) - 1 = n
      BY <1>0 DEF Ids
    <2>2. PICK f \in Searches : f = e[n]
      BY <2>1
    <2>3. PICK k \in Ids : k = n + 1
      BY <2>1
    <2>4. LookedAt(graph, f, p, here, k - 1)
      BY <1>0, <1>3, <2>1, <2>2, <2>3
    <2>5. Rest(f) < Rest(s)
      BY <2>1, <2>2 DEF Shrinks
    <2>6. e[k] = Step(dfs, graph, f, here, k)
      BY <2>1, <2>2, <2>3 DEF IsLoop
    <2>7. Rest(s) \in Nat
      BY RestType
    <2>8. LookedAt(graph, e[k], p, here, k)
      BY <1>1, <2>4, <2>5, <2>6, <2>7, StepLooks
    <2>. QED
      BY <2>3, <2>8
  <1> HIDE DEF R
  <1>4. MaxId \in R
    BY <1>0, <1>2, <1>3, NatSetInduction
  <1>. QED
    BY <1>0, <1>4 DEF R

LEMMA BodyWorks ==
    ASSUME NEW graph \in LockGraphs, NEW dfs \in Tables, NEW s \in Searches,
           NEW here \in Ids, NEW st \in Seq(Ids), Entered(graph, s, st, here),
           Works(graph, dfs, Rest(s)), Keeps(dfs, Rest(s)),
           NEW r, r = Body(dfs, graph, s, here)
    PROVE  Searched(graph, r, st, here)
  <1>0. MaxId \in Nat /\ MaxId \in 0..MaxId
    BY MaxIdType
  <1>1. s.order[here] = 0 /\ s.closing = <<>>
    BY DEF Entered, Searching
  <1>2. PICK e \in [0..MaxId -> Searches] :
            /\ e = Edges(dfs, graph, s, here)
            /\ IsLoop(e, dfs, graph, s, here)
            /\ Shrinks(e, s)
    BY <1>1, EdgesAre
  <1>3. PICK f \in Searches : f = e[MaxId]
    BY <1>0
  <1>4. r = Finish(f, here)
    BY <1>1, <1>2, <1>3 DEF Body
  <1>5. PICK p : p = Append(st, here)
    OBVIOUS
  <1>6. LookedAt(graph, f, p, here, MaxId)
    BY <1>2, <1>3, <1>5, EdgesLook
  <1>7. CASE Closed(graph, f)
    <2>1. r = f
      BY <1>4, <1>7, ClosedCloses DEF Finish
    <2>. QED
      BY <1>7, <2>1 DEF Searched
  <1>8. CASE /\ Searching(graph, f, p)
             /\ \A j \in graph[here] : j <= MaxId => f.finished[j]
    <2>1. \A j \in graph[here] : f.finished[j]
      BY <1>0, <1>8 DEF LockGraphs, Ids
    <2>2. Searching(graph, r, st) /\ r.finished[here]
      BY <1>4, <1>5, <1>8, <2>1, Finishing
    <2>. QED
      BY <2>2 DEF Searched
  <1>. QED
    BY <1>6, <1>7, <1>8 DEF LookedAt

\* Every call of Dfs does what it is for.
LEMMA DfsWorks ==
    ASSUME NEW graph \in LockGraphs, NEW n \in Nat
    PROVE  Works(graph, Dfs(graph), n)
  <1> DEFINE R == {m \in Nat : Works(graph, Dfs(graph), m)}
  <1>1. PICK dfs \in Tables : dfs = Dfs(graph)
    BY DfsSolves
  <1>2. \A s \in Searches, here \in Ids :
            dfs[s][here] = Body(dfs, graph, s, here) /\ Kept(s, dfs[s][here])
    BY <1>1, DfsSolves
  <1>3. \A m : Keeps(dfs, m)
    BY <1>2 DEF Keeps
  <1>4. 0 \in R
    BY RestType DEF Works
  <1>5. ASSUME NEW m \in Nat, m \in R
        PROVE  m + 1 \in R
    <2>1. ASSUME NEW s \in Searches, NEW here \in Ids, NEW st \in Seq(Ids),
                 Rest(s) < m + 1, Entered(graph, s, st, here)
          PROVE  Searched(graph, dfs[s][here], st, here)
      <3>1. Works(graph, dfs, m)
        BY <1>1, <1>5
      <3>2. Works(graph, dfs, Rest(s))
        BY <2>1, <3>1, RestType DEF Works
      <3>. QED
        BY <1>2, <1>3, <2>1, <3>2, BodyWorks
    <2>2. Works(graph, dfs, m + 1)
      BY <2>1 DEF Works
    <2>. QED
      BY <1>1, <2>2
  <1> HIDE DEF R
  <1>6. n \in R
    BY <1>4, <1>5, NatSetInduction
  <1>. QED
    BY <1>6 DEF R

\* From the first locks on, the search has found a cycle or finished them.
FinishedTo(graph, f, n) ==
    \/ Closed(graph, f)
    \/ Searching(graph, f, <<>>) /\ \A i \in Ids : i <= n => f.finished[i]

LEMMA NewSearching ==
    ASSUME NEW graph \in LockGraphs
    PROVE  NewSearch \in Searches /\ FinishedTo(graph, NewSearch, 0)
  <1>1. PICK s : s = NewSearch
    OBVIOUS
  <1>2. /\ s.order = [i \in Ids |-> 0] /\ s.count = 1
        /\ s.finished = [i \in Ids |-> FALSE]
        /\ s.parent = [i \in Ids |-> 0] /\ s.closing = <<>>
    BY <1>1 DEF NewSearch
  <1>3. s \in Searches
    BY <1>1 DEF NewSearch, Searches
  <1>4. \A i \in Ids : s.order[i] = 0 /\ ~s.finished[i]
    BY <1>2
  <1>5. Unfinished(s, <<>>) /\ Sorted(s, <<>>) /\ IsChain(graph, s.parent, <<>>)
    BY <1>2, <1>4 DEF Unfinished, Sorted, IsChain
  <1>6. Ranked(graph, s)
    <2>1. [i \in Ids |-> 0] \in [Ids -> Nat]
      OBVIOUS
    <2>2. RankedBelow(graph, s, [i \in Ids |-> 0], 0)
      BY <1>4 DEF RankedBelow
    <2>. QED
      BY <2>1, <2>2 DEF Ranked
  <1>7. Searching(graph, s, <<>>)
    BY <1>2, <1>5, <1>6 DEF Searching
  <1>8. \A i \in Ids : ~(i <= 0)
    BY MaxIdType DEF Ids
  <1>. QED
    BY <1>1, <1>3, <1>7, <1>8 DEF FinishedTo

LEMMA SearchFrom ==
    ASSUME NEW graph \in LockGraphs, NEW f \in Searches, NEW i \in Ids,
           FinishedTo(graph, f, i - 1),
           NEW g, g = Dfs(graph)[f][i]
    PROVE  FinishedTo(graph, g, i)
  <1>0. MaxId \in Nat /\ i \in Nat /\ \A j \in Ids : j \in Nat
    BY MaxIdType DEF Ids
  <1>1. g = Body(Dfs(graph), graph, f, i) /\ Kept(f, g)
    BY DfsSolves
  <1>2. CASE Closed(graph, f)
    <2>1. g = f
      BY <1>1, <1>2, ClosedCloses DEF Body
    <2>. QED
      BY <1>2, <2>1 DEF FinishedTo
  <1>3. CASE /\ Searching(graph, f, <<>>)
             /\ \A j \in Ids : j <= i - 1 => f.finished[j]
    <2>1. Searched(graph, g, <<>>, i)
      <3>1. CASE f.order[i] = 0
        <4>1. <<>> \in Seq(Ids) /\ ~(Len(<<>>) > 0)
          OBVIOUS
        <4>2. Entered(graph, f, <<>>, i)
          BY <1>3, <3>1, <4>1 DEF Entered
        <4>3. Rest(f) \in Nat /\ Rest(f) + 1 \in Nat /\ Rest(f) < Rest(f) + 1
          BY RestType
        <4>4. Works(graph, Dfs(graph), Rest(f) + 1)
          BY <4>3, DfsWorks
        <4>. QED
          BY <4>1, <4>2, <4>3, <4>4 DEF Works
      <3>2. CASE f.order[i] # 0
        <4>1. g = f
          BY <1>1, <3>2 DEF Body
        <4>2. f.finished[i]
          BY <1>3, <3>2 DEF Searching, Unfinished
        <4>. QED
          BY <1>3, <4>1, <4>2 DEF Searched
      <3>. QED
        BY <3>1, <3>2
    <2>2. CASE Closed(graph, g)
      BY <2>2 DEF FinishedTo
    <2>3. CASE Searching(graph, g, <<>>) /\ g.finished[i]
      <3>1. ASSUME NEW j \in Ids, j <= i
            PROVE  g.finished[j]
        <4>1. j = i \/ j <= i - 1
          BY <1>0, <3>1
        <4>. QED
          BY <1>1, <1>3, <2>3, <4>1 DEF Kept
      <3>. QED
        BY <2>3, <3>1 DEF FinishedTo
    <2>. QED
      BY <2>1, <2>2, <2>3 DEF Searched
  <1>. QED
    BY <1>2, <1>3 DEF FinishedTo

-----------------------------------------------------------------------------
(* CheckCycle *)

\* A path over edges of the graph, backwards, that comes back to its start.
IsCycle(graph, c) ==
    /\ c # <<>>
    /\ \A i \in 1..Len(c) : c[i] \in graph[c[(i % Len(c)) + 1]]

\* All edges of the graph lead down.
IsRanking(graph, rank) == \A i \in Ids : \A j \in graph[i] : rank[j] < rank[i]

\* A sequence of different elements of a set is no longer than the set.
LEMMA OnceShort ==
    ASSUME NEW S, IsFiniteSet(S), NEW st \in Seq(S),
           \A i, j \in 1..Len(st) : st[i] = st[j] => i = j
    PROVE  Len(st) <= Cardinality(S)
  <1>1. PICK n \in Nat : n = Len(st)
    OBVIOUS
  <1>2. st \in [1..n -> S] /\ DOMAIN st = 1..n
    BY <1>1
  <1>3. \A i, j \in 1..n : st[i] = st[j] => i = j
    BY <1>1
  <1>4. st \in Injection(1..n, S)
    BY <1>2, <1>3 DEF Injection, IsInjective
  <1>5. Cardinality(1..n) <= Cardinality(S)
    BY <1>4, FS_Injection
  <1>6. Cardinality(1..n) = n
    BY FS_Interval
  <1>. QED
    BY <1>1, <1>5, <1>6

\* What Path chooses from.
IsPath(path, parent, here, there) ==
    /\ path # <<>> /\ path[1] = here /\ Last(path) = there
    /\ \A k \in 1..(Len(path) - 1) :
           path[k] # there /\ path[k + 1] = parent[path[k]]

LEMMA PathChosen ==
    ASSUME NEW parent, NEW here, NEW there,
           NEW p \in SeqOf(Ids, MaxId), IsPath(p, parent, here, there),
           NEW q, q = Path(parent, here, there)
    PROVE  q \in SeqOf(Ids, MaxId) /\ IsPath(q, parent, here, there)
  <1>1. q = CHOOSE path \in SeqOf(Ids, MaxId) :
                IsPath(path, parent, here, there)
    BY DEF Path, IsPath
  <1>. QED
    BY <1>1

LEMMA SeqOfIds ==
    \A p : p \in SeqOf(Ids, MaxId) <=>
               p \in Seq(Ids) /\ Len(p) <= MaxId
  <1>0. MaxId \in Nat
    BY MaxIdType
  <1>1. \A p : p \in SeqOf(Ids, MaxId) <=> \E m \in 0..MaxId : p \in [1..m -> Ids]
    BY DEF SeqOf
  <1>2. ASSUME NEW p, NEW m \in 0..MaxId, p \in [1..m -> Ids]
        PROVE  p \in Seq(Ids) /\ Len(p) <= MaxId
    <2>1. m \in Nat
      BY <1>0
    <2>2. p \in Seq(Ids) /\ Len(p) = m
      BY <1>2, <2>1
    <2>. QED
      BY <1>0, <2>2
  <1>3. ASSUME NEW p \in Seq(Ids), Len(p) <= MaxId
        PROVE  \E m \in 0..MaxId : p \in [1..m -> Ids]
    <2>1. PICK m \in Nat : m = Len(p)
      OBVIOUS
    <2>2. m \in 0..MaxId /\ p \in [1..m -> Ids]
      BY <1>0, <1>3, <2>1
    <2>. QED
      BY <2>2
  <1>. QED
    BY <1>1, <1>2, <1>3

\* The path that is reported is a cycle.
LEMMA ReportIsCycle ==
    ASSUME NEW graph \in LockGraphs, NEW s \in Searches, Closed(graph, s),
           NEW c, c = Reported(s)
    PROVE  c \in Seq(Ids) /\ IsCycle(graph, c)
  <1>1. PICK st \in Seq(Ids) : \E m \in 1..Len(st) : ClosesAt(graph, s, st, m)
    BY DEF Closed
  <1>2. PICK n \in Nat : n = Len(st)
    OBVIOUS
  <1>3. PICK m \in 1..n : ClosesAt(graph, s, st, m)
    BY <1>1, <1>2
  <1>4. PICK parent : parent = s.parent
    OBVIOUS
  <1>5. PICK here \in Ids : here = st[n]
    BY <1>2
  <1>6. PICK there \in Ids : there = st[m]
    BY <1>2, <1>3
  <1>7. /\ \A i, j \in 1..n : i # j => st[i] # st[j]
        /\ \A k \in 2..n : parent[st[k]] = st[k - 1] /\ st[k] \in graph[st[k - 1]]
        /\ s.closing = <<here, there>> /\ there \in graph[here]
        /\ \A k \in 1..n : st[k] \in Ids
    BY <1>2, <1>3, <1>4, <1>5, <1>6 DEF ClosesAt, IsChain
  <1>8. n <= MaxId /\ MaxId \in Nat
    <2>1. IsFiniteSet(Ids) /\ Cardinality(Ids) = MaxId /\ MaxId \in Nat
      BY MaxIdType, FS_Interval DEF Ids
    <2>2. \A i, j \in 1..Len(st) : st[i] = st[j] => i = j
      BY <1>2, <1>7
    <2>. QED
      BY <1>2, <2>1, <2>2, OnceShort
  <1>9. c = Path(parent, here, there)
    BY <1>4, <1>7 DEF Reported
  <1>10. PICK len \in Nat : len = n - m + 1
    BY <1>3
  <1>11. PICK p : p = [i \in 1..len |-> st[n + 1 - i]]
    OBVIOUS
  <1>12. \A i \in 1..len : n + 1 - i \in 1..n /\ n + 1 - i >= m
    BY <1>3, <1>10
  <1>13. p \in Seq(Ids) /\ Len(p) = len /\ \A i \in 1..len : p[i] = st[n + 1 - i]
    <2>1. \A i \in 1..len : st[n + 1 - i] \in Ids
      BY <1>7, <1>12
    <2>2. p \in [1..len -> Ids] /\ \A i \in 1..len : p[i] = st[n + 1 - i]
      BY <1>11, <2>1
    <2>. QED
      BY <2>2
  <1>14. p \in SeqOf(Ids, MaxId)
    BY <1>3, <1>8, <1>10, <1>13, SeqOfIds
  <1>15. IsPath(p, parent, here, there)
    <2>1. 1 \in 1..len /\ len \in 1..len /\ n + 1 - 1 = n /\ n + 1 - len = m
      BY <1>3, <1>10
    <2>2. p # <<>> /\ p[1] = here /\ p[len] = there
      BY <1>5, <1>6, <1>13, <2>1
    <2>3. ASSUME NEW k \in 1..(len - 1)
          PROVE  p[k] # there /\ p[k + 1] = parent[p[k]]
      <3>1. PICK j \in 2..n : j = n + 1 - k
        BY <1>3, <1>10
      <3>2. k \in 1..len /\ k + 1 \in 1..len /\ n + 1 - (k + 1) = j - 1
        BY <1>3, <1>10, <3>1
      <3>3. p[k] = st[j] /\ p[k + 1] = st[j - 1]
        BY <1>13, <3>1, <3>2
      <3>4. j \in 1..n /\ j # m
        BY <1>3, <1>10, <3>1
      <3>. QED
        BY <1>3, <1>6, <1>7, <3>1, <3>3, <3>4
    <2>. QED
      BY <1>13, <2>2, <2>3 DEF IsPath, Last
  <1>16. c \in SeqOf(Ids, MaxId) /\ IsPath(c, parent, here, there)
    BY <1>9, <1>14, <1>15, PathChosen
  <1>17. c \in Seq(Ids)
    BY <1>16, SeqOfIds
  <1>18. PICK l \in Nat : l = Len(c)
    BY <1>17
  <1>19. /\ c # <<>> /\ c[1] = here /\ c[l] = there /\ l > 0
         /\ \A k \in 1..(l - 1) : c[k] # there /\ c[k + 1] = parent[c[k]]
    <2>1. c # <<>> /\ c[1] = here /\ Last(c) = there
      BY <1>16 DEF IsPath
    <2>2. \A k \in 1..(Len(c) - 1) : c[k] # there /\ c[k + 1] = parent[c[k]]
      BY <1>16 DEF IsPath
    <2>. QED
      BY <1>17, <1>18, <2>1, <2>2 DEF Last
  \* It goes back on the chain, and not beyond m.
  <1> DEFINE R == {i \in Nat : i + 1 <= l =>
                       i < len /\ c[i + 1] = st[n - i]}
  <1>20. 0 \in R
    BY <1>3, <1>5, <1>10, <1>19
  <1>21. ASSUME NEW i \in Nat, i \in R
         PROVE  i + 1 \in R
    <2> SUFFICES ASSUME i + 2 <= l
                 PROVE  i + 1 < len /\ c[i + 2] = st[n - (i + 1)]
      OBVIOUS
    <2>1. i < len /\ c[i + 1] = st[n - i]
      BY <1>21
    <2>2. i + 1 \in 1..(l - 1) /\ (i + 1) + 1 = i + 2
      OBVIOUS
    <2>3. c[i + 1] # there /\ c[i + 2] = parent[c[i + 1]]
      BY <1>19, <2>2
    <2>4. PICK j \in 1..n : j = n - i /\ j >= m
      BY <1>3, <1>10, <2>1
    <2>5. j # m
      BY <1>6, <2>1, <2>3, <2>4
    <2>6. j \in 2..n /\ i + 1 < len /\ j - 1 = n - (i + 1)
      BY <1>3, <1>10, <2>4, <2>5
    <2>. QED
      BY <1>7, <2>1, <2>3, <2>4, <2>6
  <1> HIDE DEF R
  <1>22. \A i \in Nat : i + 1 <= l => i < len /\ c[i + 1] = st[n - i]
    BY <1>20, <1>21, NatSetInduction DEF R
  <1>23. ASSUME NEW i \in 1..l
         PROVE  c[i] \in graph[c[(i % l) + 1]]
    <2>1. CASE i = l
      <3>1. (i % l) + 1 = 1
        BY <1>19, <2>1
      <3>. QED
        BY <1>7, <1>19, <2>1, <3>1
    <2>2. CASE i # l
      <3>1. i \in Nat /\ i - 1 \in Nat /\ (i - 1) + 1 = i /\ i <= l /\ i + 1 <= l
        BY <2>2
      <3>2. (i % l) + 1 = i + 1
        <4>1. i < l
          BY <3>1, <2>2
        <4>. QED
          BY <3>1, <4>1, SmallModulo
      <3>3. c[i] = st[n - (i - 1)] /\ c[i + 1] = st[n - i] /\ i < len
        BY <1>22, <3>1
      <3>4. PICK j \in 2..n : j = n - (i - 1)
        BY <1>3, <1>10, <3>1, <3>3
      <3>5. j - 1 = n - i
        BY <3>4
      <3>. QED
        BY <1>7, <3>2, <3>3, <3>4, <3>5
    <2>. QED
      BY <2>1, <2>2
  <1>. QED
    BY <1>17, <1>18, <1>19, <1>23 DEF IsCycle

\* CheckCycle goes through all locks.
LEMMA SearchedAll ==
    ASSUME NEW graph \in LockGraphs
    PROVE  \E s \in Searches : /\ CheckCycle(graph) = Reported(s)
                               /\ FinishedTo(graph, s, MaxId)
  <1> DEFINE AreFrom(from) ==
                 from = [i \in 0..MaxId |->
                            IF i = 0 THEN NewSearch
                                     ELSE Dfs(graph)[from[i - 1]][i]]
             From == CHOOSE from : AreFrom(from)
  <1>0. MaxId \in Nat
    BY MaxIdType
  <1>1. CheckCycle(graph) = Reported(From[MaxId])
    BY DEF CheckCycle
  <1>2. PICK dfs \in Tables : dfs = Dfs(graph)
    BY DfsSolves
  <1>3. PICK start \in Searches : start = NewSearch
    BY NewSearching
  <1>4. PICK e \in [0..MaxId -> Searches] :
            e[0] = start /\ \A i \in Ids : e[i] = dfs[e[i - 1]][i]
    BY LoopExists
  <1>5. ASSUME NEW i \in 0..MaxId
        PROVE  e[i] = IF i = 0 THEN NewSearch ELSE Dfs(graph)[e[i - 1]][i]
    BY <1>0, <1>2, <1>3, <1>4 DEF Ids
  <1>6. AreFrom(e)
    BY <1>4, <1>5
  <1>7. PICK from : from = From
    OBVIOUS
  <1>8. AreFrom(from)
    BY <1>6, <1>7
  <1>9. from[0] = start /\ \A i \in Ids : from[i] = dfs[from[i - 1]][i]
    <2>1. PICK F : F = [i \in 0..MaxId |->
                            IF i = 0 THEN NewSearch
                                     ELSE Dfs(graph)[from[i - 1]][i]]
      OBVIOUS
    <2>2. from = F
      BY <1>8, <2>1
    <2>3. F[0] = start /\ \A i \in Ids : F[i] = dfs[from[i - 1]][i]
      BY <1>0, <1>2, <1>3, <2>1 DEF Ids
    <2>. QED
      BY <2>2, <2>3
  <1> HIDE DEF AreFrom, From
  <1> DEFINE R == {n \in Nat : n <= MaxId =>
                       from[n] \in Searches /\ FinishedTo(graph, from[n], n)}
  <1>10. 0 \in R
    BY <1>3, <1>9, NewSearching
  <1>11. ASSUME NEW n \in Nat, n \in R
         PROVE  n + 1 \in R
    <2> SUFFICES ASSUME n + 1 <= MaxId
                 PROVE  /\ from[n + 1] \in Searches
                        /\ FinishedTo(graph, from[n + 1], n + 1)
      OBVIOUS
    <2>1. PICK i \in Ids : i = n + 1 /\ i - 1 = n
      BY <1>0 DEF Ids
    <2>2. PICK f \in Searches : f = from[n] /\ FinishedTo(graph, f, i - 1)
      BY <1>0, <1>11, <2>1
    <2>3. from[i] = dfs[f][i]
      BY <1>9, <2>1, <2>2
    <2>4. FinishedTo(graph, from[i], i)
      BY <1>2, <2>2, <2>3, SearchFrom
    <2>5. from[i] \in Searches
      BY <2>3 DEF Tables
    <2>. QED
      BY <2>1, <2>4, <2>5
  <1> HIDE DEF R
  <1>12. MaxId \in R
    BY <1>0, <1>10, <1>11, NatSetInduction
  <1>13. from[MaxId] \in Searches /\ FinishedTo(graph, from[MaxId], MaxId)
    BY <1>0, <1>12 DEF R
  <1>. QED
    BY <1>1, <1>7, <1>13

\* Without a report there is an order of the locks; what is reported is a
\* cycle.
LEMMA CheckCycleFinds ==
    ASSUME NEW graph \in LockGraphs, NEW c, c = CheckCycle(graph)
    PROVE  /\ c \in Seq(Ids)
           /\ c = <<>> => \E rank \in [Ids -> Nat] : IsRanking(graph, rank)
           /\ c # <<>> => IsCycle(graph, c)
  <1>1. PICK s \in Searches : /\ CheckCycle(graph) = Reported(s)
                              /\ FinishedTo(graph, s, MaxId)
    BY SearchedAll
  <1>2. CASE Closed(graph, s)
    <2>1. c \in Seq(Ids) /\ IsCycle(graph, c)
      BY <1>1, <1>2, ReportIsCycle
    <2>2. c # <<>>
      BY <2>1 DEF IsCycle
    <2>. QED
      BY <2>1, <2>2
  <1>3. CASE /\ Searching(graph, s, <<>>)
             /\ \A i \in Ids : i <= MaxId => s.finished[i]
    <2>1. \A i \in Ids : s.finished[i]
      BY <1>3, MaxIdType DEF Ids
    <2>2. s.closing = <<>> /\ Ranked(graph, s)
      BY <1>3 DEF Searching
    <2>3. c = <<>>
      BY <1>1, <2>2 DEF Reported
    <2>4. PICK rank \in [Ids -> Nat], b \in Nat :
              RankedBelow(graph, s, rank, b)
      BY <2>2 DEF Ranked
    <2>5. IsRanking(graph, rank)
      BY <2>1, <2>4 DEF RankedBelow, IsRanking
    <2>6. <<>> \in Seq(Ids)
      OBVIOUS
    <2>. QED
      BY <2>3, <2>5, <2>6
  <1>. QED
    BY <1>1, <1>2, <1>3 DEF FinishedTo

\* A graph with an order of its locks has no cycle.
LEMMA RankedNoCycle ==
    ASSUME NEW graph \in LockGraphs,
           NEW rank \in [Ids -> Nat], IsRanking(graph, rank),
           NEW c \in Seq(Ids)
    PROVE  ~IsCycle(graph, c)
  <1> SUFFICES ASSUME IsCycle(graph, c)
               PROVE  FALSE
    OBVIOUS
  <1>1. PICK l \in Nat : l = Len(c)
    OBVIOUS
  <1>2. /\ l > 0
        /\ \A i \in 1..l : c[i] \in Ids /\ c[i] \in graph[c[(i % l) + 1]]
    BY <1>1 DEF IsCycle
  <1> DEFINE S == {rank[c[i]] : i \in 1..l}
  <1>3. S \in SUBSET Nat /\ S # {}
    <2>1. 1 \in 1..l
      BY <1>2
    <2>2. \A i \in 1..l : rank[c[i]] \in Nat
      BY <1>2
    <2>. QED
      BY <2>1, <2>2
  <1>4. PICK m \in S : \A k \in S : m <= k
    BY <1>3, Smallest
  <1>5. PICK i \in 1..l : rank[c[i]] = m
    BY <1>4
  <1>6. PICK j \in 1..l : (j % l) + 1 = i
    <2>1. CASE i = 1
      <3>1. l \in 1..l /\ (l % l) + 1 = 1
        BY <1>2
      <3>. QED
        BY <2>1, <3>1
    <2>2. CASE i # 1
      <3>1. i - 1 \in 1..l /\ i - 1 \in Nat /\ i - 1 < l
        BY <2>2
      <3>2. (i - 1) % l = i - 1
        BY <3>1, SmallModulo
      <3>3. ((i - 1) % l) + 1 = i
        BY <3>2
      <3>. QED
        BY <3>1, <3>3
    <2>. QED
      BY <2>1, <2>2
  <1>7. c[j] \in graph[c[i]] /\ c[i] \in Ids /\ c[j] \in Ids
    BY <1>2, <1>6
  <1>8. rank[c[j]] < rank[c[i]]
    BY <1>7 DEF IsRanking
  <1>9. rank[c[j]] \in S /\ rank[c[j]] \in Nat /\ m \in Nat
    BY <1>3, <1>4, <1>7
  <1>10. PICK x \in Nat : x = rank[c[j]]
    BY <1>9
  <1>11. x \in S /\ x < m
    BY <1>5, <1>8, <1>9, <1>10
  <1>12. m <= x
    BY <1>4, <1>11
  <1>. QED
    BY <1>9, <1>10, <1>11, <1>12

\* CheckCycle (DeadLockProfiler.cpp:53-115) reports something if and only if
\* the graph of the nested locks has a cycle, and then it reports one.
THEOREM CheckCycleCorrect ==
    ASSUME NEW graph \in [Ids -> SUBSET Ids]
    PROVE  /\ CheckCycle(graph) = <<>> <=>
                  \A c \in Seq(Ids) : ~IsCycle(graph, c)
           /\ CheckCycle(graph) # <<>> => IsCycle(graph, CheckCycle(graph))
  <1>1. graph \in LockGraphs
    BY DEF LockGraphs
  <1>2. PICK c : c = CheckCycle(graph)
    OBVIOUS
  <1>3. /\ c \in Seq(Ids)
        /\ c = <<>> => \E rank \in [Ids -> Nat] : IsRanking(graph, rank)
        /\ c # <<>> => IsCycle(graph, c)
    BY <1>1, <1>2, CheckCycleFinds
  <1>4. CASE c = <<>>
    BY <1>1, <1>2, <1>3, <1>4, RankedNoCycle
  <1>5. CASE c # <<>>
    BY <1>2, <1>3, <1>5
  <1>. QED
    BY <1>4, <1>5

-----------------------------------------------------------------------------
(* The invariant of the profiler *)

\* The locks of the guards of t, and the one it is taking.
Taken(t) == IF wanted[t] = NoLock THEN holding[t]
                                  ELSE Append(holding[t], wanted[t])

ProfilerTypeOK ==
    /\ holding \in [Callers -> Seq(Locks)]
    /\ wanted \in [Callers -> Locks \cup {NoLock}]
    /\ names \in Seq(Range(Name))
    /\ history \in [Ids -> SUBSET Ids]
    /\ LLockStack \in [Callers -> Seq(Ids)]
    /\ report \in Seq(Ids)

\* A name has one id.
NamesOnce == \A i, j \in 1..Len(names) : names[i] = names[j] => i = j

\* LLockStack has the ids of what a thread has taken.
StackMatches(t) ==
    /\ Len(LLockStack[t]) = Len(Taken(t))
    /\ \A k \in 1..Len(Taken(t)) :
           /\ LLockStack[t][k] \in 1..Len(names)
           /\ names[LLockStack[t][k]] = Name[Taken(t)[k]]

\* What a thread has nested is in the history, although the profiler only
\* looks at the top of the stack.
EdgesKnown(st) ==
    \A k \in 2..Len(st) : \/ st[k] = st[k - 1]
                          \/ st[k] \in history[st[k - 1]]

\* While there is no report the history has an order; a report is a cycle.
ReportRight ==
    /\ report = <<>> => \E rank \in [Ids -> Nat] : IsRanking(history, rank)
    /\ report # <<>> => IsCycle(history, report)

ProfilerInv ==
    /\ ProfilerTypeOK
    /\ NamesOnce
    /\ \A t \in Callers : StackMatches(t) /\ EdgesKnown(LLockStack[t])
    /\ ReportRight

LEMMA ProfilerInitInv == ProfilerInit => ProfilerInv
  <1> SUFFICES ASSUME ProfilerInit
               PROVE  ProfilerInv
    OBVIOUS
  <1>1. ProfilerTypeOK
    BY DEF ProfilerInit, ProfilerTypeOK
  <1>2. NamesOnce
    BY DEF ProfilerInit, NamesOnce
  <1>3. ASSUME NEW t \in Callers
        PROVE  StackMatches(t) /\ EdgesKnown(LLockStack[t])
    <2>1. LLockStack[t] = <<>> /\ holding[t] = <<>> /\ wanted[t] = NoLock
      BY DEF ProfilerInit
    <2>2. Taken(t) = <<>>
      BY <2>1 DEF Taken
    <2>. QED
      BY <2>1, <2>2 DEF StackMatches, EdgesKnown
  <1>4. ReportRight
    <2>1. PICK rank : rank = [i \in Ids |-> 0]
      OBVIOUS
    <2>2. rank \in [Ids -> Nat] /\ IsRanking(history, rank)
      BY <2>1 DEF ProfilerInit, IsRanking
    <2>. QED
      BY <2>2 DEF ProfilerInit, ReportRight
  <1>. QED
    BY <1>1, <1>2, <1>3, <1>4 DEF ProfilerInv

\* The map of the names after a call of PushLock for l, and the id of l.
Known(l) == IF Name[l] \in Range(names) THEN names ELSE Append(names, Name[l])
IdOf(l) == CHOOSE i \in DOMAIN Known(l) : Known(l)[i] = Name[l]

\* known is the map with the name of l, which has this id.
Registered(known, l, id) ==
    /\ known \in Seq(Range(Name))
    /\ \A i, j \in 1..Len(known) : known[i] = known[j] => i = j
    /\ \A i \in 1..Len(names) : i \in 1..Len(known) /\ known[i] = names[i]
    /\ id \in Ids /\ id \in 1..Len(known) /\ known[id] = Name[l]

LEMMA KnownNames ==
    ASSUME NEW l \in Locks, names \in Seq(Range(Name)), NamesOnce,
           NEW known, known = Known(l), NEW id, id = IdOf(l)
    PROVE  Registered(known, l, id)
  <1>0. Name[l] \in Range(Name)
    BY DeadLockProfilerAssumption DEF Range
  <1>1. PICK S : S = Range(Name)
    OBVIOUS
  <1>2. names \in Seq(S) /\ Name[l] \in S
    BY <1>0, <1>1
  <1>3. PICK x \in S : x = Name[l]
    BY <1>2
  <1>4. PICK n \in Nat : n = Len(names)
    BY <1>2
  <1>5. \A i, j \in 1..n : names[i] = names[j] => i = j
    BY <1>4 DEF NamesOnce
  <1>6. x \in Range(names) <=> \E i \in 1..n : names[i] = x
    BY <1>2, <1>4 DEF Range
  <1>7. /\ known \in Seq(S)
        /\ \A i, j \in 1..Len(known) : known[i] = known[j] => i = j
        /\ \A i \in 1..n : i \in 1..Len(known) /\ known[i] = names[i]
        /\ \E i \in 1..Len(known) : known[i] = x
    <2>1. CASE x \in Range(names)
      <3>1. known = names
        BY <1>3, <2>1 DEF Known
      <3>. QED
        BY <1>2, <1>4, <1>5, <1>6, <2>1, <3>1
    <2>2. CASE x \notin Range(names)
      <3>1. known = Append(names, x)
        BY <1>3, <2>2 DEF Known
      <3>2. /\ known \in Seq(S) /\ Len(known) = n + 1 /\ known[n + 1] = x
            /\ \A i \in 1..n : known[i] = names[i]
        BY <1>2, <1>4, <3>1
      <3>3. \A i \in 1..n : known[i] # x
        BY <1>6, <2>2, <3>2
      <3>4. ASSUME NEW i \in 1..(n + 1), NEW j \in 1..(n + 1),
                   known[i] = known[j]
            PROVE  i = j
        <4>1. i \in 1..n \/ i = n + 1
          OBVIOUS
        <4>2. j \in 1..n \/ j = n + 1
          OBVIOUS
        <4>. QED
          BY <1>5, <3>2, <3>3, <3>4, <4>1, <4>2
      <3>. QED
        BY <3>2, <3>4
    <2>. QED
      BY <2>1, <2>2
  <1>8. DOMAIN known = 1..Len(known) /\ Len(known) \in Nat
    BY <1>7
  <1>9. id \in 1..Len(known) /\ known[id] = x
    BY <1>3, <1>7, <1>8 DEF IdOf
  <1>10. Len(known) <= MaxId
    BY <1>1, <1>7, MaxIdType, OnceShort DEF MaxId
  <1>11. id \in Ids
    BY <1>8, <1>9, <1>10, MaxIdType DEF Ids
  <1>. QED
    BY <1>1, <1>3, <1>4, <1>7, <1>9, <1>11 DEF Registered

\* A stack that is right stays right when the history and the map of the names
\* grow.
LEMMA StackGrows ==
    ASSUME NEW u \in Callers, StackMatches(u), EdgesKnown(LLockStack[u]),
           LLockStack'[u] = LLockStack[u], Taken(u)' = Taken(u),
           \A i \in 1..Len(names) : /\ i \in 1..Len(names')
                                    /\ names'[i] = names[i],
           LLockStack[u] \in Seq(Ids),
           \A i \in Ids : history[i] \subseteq history'[i]
    PROVE  StackMatches(u)' /\ EdgesKnown(LLockStack[u])'
  <1>1. PICK st \in Seq(Ids) : st = LLockStack[u] /\ st = LLockStack'[u]
    OBVIOUS
  <1>2. PICK tk : tk = Taken(u) /\ tk = Taken(u)'
    OBVIOUS
  <1>3. /\ Len(st) = Len(tk)
        /\ \A k \in 1..Len(tk) : /\ st[k] \in 1..Len(names)
                                 /\ names[st[k]] = Name[tk[k]]
    BY <1>1, <1>2 DEF StackMatches
  <1>4. \A k \in 1..Len(tk) : /\ st[k] \in 1..Len(names')
                              /\ names'[st[k]] = Name[tk[k]]
    BY <1>3
  <1>5. StackMatches(u)'
    BY <1>1, <1>2, <1>3, <1>4 DEF StackMatches
  <1>6. ASSUME NEW k \in 2..Len(st)
        PROVE  st[k] = st[k - 1] \/ st[k] \in history'[st[k - 1]]
    <2>1. st[k - 1] \in Ids
      OBVIOUS
    <2>. QED
      BY <1>1, <2>1 DEF EdgesKnown
  <1>7. EdgesKnown(LLockStack[u])'
    BY <1>1, <1>6 DEF EdgesKnown
  <1>. QED
    BY <1>5, <1>7

\* A stack that is right stays right with the id of one more lock on top.
LEMMA StackPushed ==
    ASSUME NEW t \in Callers, NEW l \in Locks, NEW id \in Ids,
           StackMatches(t), EdgesKnown(LLockStack[t]),
           LLockStack[t] \in Seq(Ids), Taken(t) \in Seq(Locks),
           LLockStack'[t] = Append(LLockStack[t], id),
           Taken(t)' = Append(Taken(t), l),
           \A i \in 1..Len(names) : /\ i \in 1..Len(names')
                                    /\ names'[i] = names[i],
           \A i \in Ids : history[i] \subseteq history'[i],
           id \in 1..Len(names'), names'[id] = Name[l],
           LLockStack[t] # <<>> =>
               \/ Last(LLockStack[t]) = id
               \/ id \in history'[Last(LLockStack[t])]
    PROVE  StackMatches(t)' /\ EdgesKnown(LLockStack[t])'
  <1>1. PICK st \in Seq(Ids) : st = LLockStack[t]
    OBVIOUS
  <1>2. PICK tk \in Seq(Locks) : tk = Taken(t)
    OBVIOUS
  <1>3. PICK n \in Nat : n = Len(st)
    OBVIOUS
  <1>4. /\ Len(tk) = n
        /\ \A k \in 1..n : /\ st[k] \in 1..Len(names)
                           /\ names[st[k]] = Name[tk[k]]
    BY <1>1, <1>2, <1>3 DEF StackMatches
  <1>5. PICK st2 \in Seq(Ids) : st2 = LLockStack'[t] /\ st2 = Append(st, id)
    <2>1. Append(st, id) \in Seq(Ids)
      OBVIOUS
    <2>2. LLockStack'[t] = Append(st, id)
      BY <1>1
    <2>. QED
      BY <2>1, <2>2
  <1>6. PICK tk2 \in Seq(Locks) : tk2 = Taken(t)' /\ tk2 = Append(tk, l)
    <2>1. Append(tk, l) \in Seq(Locks)
      OBVIOUS
    <2>2. Taken(t)' = Append(tk, l)
      BY <1>2
    <2>. QED
      BY <2>1, <2>2
  <1>7. /\ Len(st2) = n + 1 /\ st2[n + 1] = id
        /\ \A k \in 1..n : st2[k] = st[k]
    BY <1>3, <1>5
  <1>8. /\ Len(tk2) = n + 1 /\ tk2[n + 1] = l
        /\ \A k \in 1..n : tk2[k] = tk[k]
    <2>1. PICK q : q = Append(tk, l)
      OBVIOUS
    <2>2. /\ Len(q) = n + 1 /\ q[n + 1] = l
          /\ \A k \in 1..n : q[k] = tk[k]
      BY <1>4, <2>1
    <2>. QED
      BY <1>6, <2>1, <2>2
  <1>9. ASSUME NEW k \in 1..(n + 1)
        PROVE  st2[k] \in 1..Len(names') /\ names'[st2[k]] = Name[tk2[k]]
    <2>1. CASE k = n + 1
      BY <1>7, <1>8, <2>1
    <2>2. CASE k # n + 1
      <3>1. k \in 1..n
        BY <2>2
      <3>2. /\ st[k] \in 1..Len(names) /\ names[st[k]] = Name[tk[k]]
            /\ st2[k] = st[k] /\ tk2[k] = tk[k]
        BY <1>4, <1>7, <1>8, <3>1
      <3>. QED
        BY <3>2
    <2>. QED
      BY <2>1, <2>2
  <1>10. StackMatches(t)'
    BY <1>5, <1>6, <1>7, <1>8, <1>9 DEF StackMatches
  <1>11. ASSUME NEW k \in 2..(n + 1)
         PROVE  st2[k] = st2[k - 1] \/ st2[k] \in history'[st2[k - 1]]
    <2>1. CASE k = n + 1
      <3>1. k \in Int /\ k >= 2
        OBVIOUS
      <3>2. n >= 1 /\ k - 1 = n
        BY <2>1, <3>1
      <3>3. n \in 1..n /\ st2[n] = st[n]
        BY <1>7, <3>2
      <3>4. st # <<>> /\ Last(LLockStack[t]) = st[n]
        BY <1>1, <1>3, <3>3 DEF Last
      <3>. QED
        BY <1>1, <1>7, <2>1, <3>2, <3>3, <3>4
    <2>2. CASE k # n + 1
      <3>1. k \in 2..n /\ k \in 1..n /\ k - 1 \in 1..n
        BY <2>2
      <3>2. st[k] = st[k - 1] \/ st[k] \in history[st[k - 1]]
        BY <1>1, <1>3, <3>1 DEF EdgesKnown
      <3>3. st[k - 1] \in Ids
        BY <1>3, <3>1
      <3>4. st2[k] = st[k] /\ st2[k - 1] = st[k - 1]
        BY <1>7, <3>1
      <3>. QED
        BY <3>2, <3>3, <3>4
    <2>. QED
      BY <2>1, <2>2
  <1>12. EdgesKnown(LLockStack[t])'
    BY <1>5, <1>7, <1>11 DEF EdgesKnown
  <1>. QED
    BY <1>10, <1>12

LEMMA TakenType ==
    ASSUME ProfilerTypeOK, NEW t \in Callers
    PROVE  Taken(t) \in Seq(Locks)
  <1>1. holding[t] \in Seq(Locks) /\ wanted[t] \in Locks \cup {NoLock}
    BY DEF ProfilerTypeOK
  <1>. QED
    BY <1>1 DEF Taken

\* PushLock adds the edge from the lock on top, if it is new, and asks
\* CheckCycle.
LEMMA PushEffect ==
    ASSUME ProfilerTypeOK, NamesOnce, ReportRight,
           NEW t \in Callers, NEW l \in Locks, PushLock(t, l)
    PROVE  /\ history' \in [Ids -> SUBSET Ids] /\ report' \in Seq(Ids)
           /\ \A i \in Ids : history[i] \subseteq history'[i]
           /\ LLockStack[t] # <<>> =>
                  \/ Last(LLockStack[t]) = IdOf(l)
                  \/ IdOf(l) \in history'[Last(LLockStack[t])]
           /\ ReportRight'
  <1>1. PICK st \in Seq(Ids) : st = LLockStack[t]
    BY DEF ProfilerTypeOK
  <1>2. PICK id : id = IdOf(l)
    OBVIOUS
  <1>3. id \in Ids
    <2>1. names \in Seq(Range(Name))
      BY DEF ProfilerTypeOK
    <2>2. PICK known : known = Known(l)
      OBVIOUS
    <2>. QED
      BY <1>2, <2>1, <2>2, KnownNames DEF Registered
  <1>4. PICK p : p = Last(st)
    OBVIOUS
  <1>5. st # <<>> => p \in Ids
    BY <1>4 DEF Last
  <1>6. history \in [Ids -> SUBSET Ids] /\ report \in Seq(Ids)
    BY DEF ProfilerTypeOK
  <1>7. /\ report = <<>>
        /\ IF (st # <<>> /\ p # id) /\ id \notin history[p]
             THEN /\ history' = [history EXCEPT ![p] = history[p] \cup {id}]
                  /\ report' = CheckCycle(history')
             ELSE UNCHANGED <<history, report>>
    BY <1>1, <1>2, <1>4 DEF PushLock, Known, IdOf
  <1>8. CASE (st # <<>> /\ p # id) /\ id \notin history[p]
    <2>1. history' = [history EXCEPT ![p] = history[p] \cup {id}]
      BY <1>7, <1>8
    <2>2. p \in Ids
      BY <1>5, <1>8
    <2>3. /\ history' \in [Ids -> SUBSET Ids]
          /\ \A i \in Ids : history[i] \subseteq history'[i]
          /\ id \in history'[p]
      BY <1>3, <1>6, <2>1, <2>2
    <2>4. PICK graph \in LockGraphs : graph = history'
      BY <2>3 DEF LockGraphs
    <2>5. PICK r : r = CheckCycle(graph)
      OBVIOUS
    <2>6. report' = r
      BY <1>7, <1>8, <2>4, <2>5
    <2>7. /\ r \in Seq(Ids)
          /\ r = <<>> => \E rank \in [Ids -> Nat] : IsRanking(graph, rank)
          /\ r # <<>> => IsCycle(graph, r)
      BY <2>5, CheckCycleFinds
    <2>8. ReportRight'
      BY <2>4, <2>6, <2>7 DEF ReportRight
    <2>. QED
      BY <1>1, <1>2, <1>4, <2>3, <2>6, <2>7, <2>8
  <1>9. CASE ~((st # <<>> /\ p # id) /\ id \notin history[p])
    <2>1. history' = history /\ report' = report
      BY <1>7, <1>9
    <2>2. ReportRight'
      BY <2>1 DEF ReportRight
    <2>. QED
      BY <1>1, <1>2, <1>4, <1>6, <1>9, <2>1, <2>2
  <1>. QED
    BY <1>8, <1>9

LEMMA PushKeepsInv ==
    ASSUME ProfilerInv, NEW t \in Callers, NEW l \in Locks, PushLock(t, l)
    PROVE  ProfilerInv'
  <1>0. /\ ProfilerTypeOK /\ NamesOnce /\ ReportRight
        /\ \A u \in Callers : StackMatches(u) /\ EdgesKnown(LLockStack[u])
    BY DEF ProfilerInv
  <1>1. /\ names' = Known(l) /\ holding' = holding
        /\ wanted[t] = NoLock /\ wanted' = [wanted EXCEPT ![t] = l]
        /\ LLockStack' = [LLockStack EXCEPT ![t] =
                              Append(LLockStack[t], IdOf(l))]
    BY DEF PushLock, Known, IdOf
  <1>2. PICK id : id = IdOf(l)
    OBVIOUS
  <1>3. /\ names' \in Seq(Range(Name))
        /\ \A i, j \in 1..Len(names') : names'[i] = names'[j] => i = j
        /\ \A i \in 1..Len(names) : i \in 1..Len(names') /\ names'[i] = names[i]
        /\ id \in Ids /\ id \in 1..Len(names') /\ names'[id] = Name[l]
    <2>1. names \in Seq(Range(Name))
      BY <1>0 DEF ProfilerTypeOK
    <2>2. PICK known : known = Known(l) /\ known = names'
      BY <1>1
    <2>3. Registered(known, l, id)
      BY <1>0, <1>2, <2>1, <2>2, KnownNames
    <2>. QED
      BY <2>2, <2>3 DEF Registered
  <1>4. /\ history' \in [Ids -> SUBSET Ids] /\ report' \in Seq(Ids)
        /\ \A i \in Ids : history[i] \subseteq history'[i]
        /\ LLockStack[t] # <<>> =>
               \/ Last(LLockStack[t]) = id
               \/ id \in history'[Last(LLockStack[t])]
        /\ ReportRight'
    BY <1>0, <1>2, PushEffect
  <1>5. /\ holding \in [Callers -> Seq(Locks)]
        /\ wanted \in [Callers -> Locks \cup {NoLock}]
        /\ LLockStack \in [Callers -> Seq(Ids)]
    BY <1>0 DEF ProfilerTypeOK
  <1>6. /\ wanted' \in [Callers -> Locks \cup {NoLock}] /\ wanted'[t] = l
        /\ \A u \in Callers : u # t => wanted'[u] = wanted[u]
    BY <1>1, <1>5
  <1>7. /\ LLockStack' \in [Callers -> Seq(Ids)]
        /\ LLockStack'[t] = Append(LLockStack[t], id)
        /\ \A u \in Callers : u # t => LLockStack'[u] = LLockStack[u]
    <2>3. PICK q \in Seq(Ids) : q = LLockStack[t]
      BY <1>5
    <2>4. Append(q, id) \in Seq(Ids)
      BY <1>3
    <2>1. PICK st \in Seq(Ids) : st = Append(LLockStack[t], id)
      BY <2>3, <2>4
    <2>2. LLockStack' = [LLockStack EXCEPT ![t] = st]
      BY <1>1, <1>2, <2>1
    <2>. QED
      BY <1>5, <2>1, <2>2
  <1>8. ProfilerTypeOK'
    BY <1>1, <1>3, <1>4, <1>5, <1>6, <1>7 DEF ProfilerTypeOK
  <1>9. NamesOnce'
    BY <1>3 DEF NamesOnce
  <1>10. ASSUME NEW u \in Callers, u # t
         PROVE  StackMatches(u)' /\ EdgesKnown(LLockStack[u])'
    <2>1. Taken(u)' = Taken(u)
      BY <1>1, <1>6, <1>10 DEF Taken
    <2>2. LLockStack[u] \in Seq(Ids) /\ LLockStack'[u] = LLockStack[u]
      BY <1>5, <1>7, <1>10
    <2>. QED
      BY <1>0, <1>3, <1>4, <2>1, <2>2, StackGrows
  <1>11. StackMatches(t)' /\ EdgesKnown(LLockStack[t])'
    <2>1. Taken(t)' = Append(Taken(t), l)
      <3>1. l # NoLock
        BY DeadLockProfilerAssumption
      <3>2. Taken(t) = holding[t]
        BY <1>1 DEF Taken
      <3>3. Taken(t)' = Append(holding[t], l)
        BY <1>1, <1>6, <3>1 DEF Taken
      <3>. QED
        BY <3>2, <3>3
    <2>2. LLockStack[t] \in Seq(Ids) /\ Taken(t) \in Seq(Locks)
      BY <1>0, <1>5, TakenType
    <2>. QED
      BY <1>0, <1>3, <1>4, <1>7, <2>1, <2>2, StackPushed
  <1>. QED
    BY <1>4, <1>8, <1>9, <1>10, <1>11 DEF ProfilerInv

\* A stack that is right stays right without the lock on top.
LEMMA StackPopped ==
    ASSUME NEW t \in Callers, StackMatches(t), EdgesKnown(LLockStack[t]),
           LLockStack[t] \in Seq(Ids), Taken(t) \in Seq(Locks),
           Len(Taken(t)) > 0,
           LLockStack'[t] = Front(LLockStack[t]),
           Taken(t)' = Front(Taken(t)),
           names' = names, history' = history
    PROVE  StackMatches(t)' /\ EdgesKnown(LLockStack[t])'
  <1>1. PICK st \in Seq(Ids) : st = LLockStack[t]
    OBVIOUS
  <1>2. PICK tk \in Seq(Locks) : tk = Taken(t)
    OBVIOUS
  <1>3. PICK n \in Nat : n + 1 = Len(st)
    <2>1. Len(st) \in Nat /\ Len(st) > 0
      BY <1>1 DEF StackMatches
    <2>2. Len(st) - 1 \in Nat /\ (Len(st) - 1) + 1 = Len(st)
      BY <2>1
    <2>. QED
      BY <2>2
  <1>4. /\ Len(tk) = n + 1
        /\ \A k \in 1..(n + 1) : /\ st[k] \in 1..Len(names)
                                 /\ names[st[k]] = Name[tk[k]]
    BY <1>1, <1>2, <1>3 DEF StackMatches
  <1>5. PICK st2 \in Seq(Ids) : /\ st2 = LLockStack'[t] /\ Len(st2) = n
                                /\ \A k \in 1..n : st2[k] = st[k]
    <2>1. PICK q : q = SubSeq(st, 1, n)
      OBVIOUS
    <2>2. q \in Seq(Ids) /\ Len(q) = n /\ \A k \in 1..n : q[k] = st[k]
      BY <1>3, <2>1
    <2>3. Len(st) - 1 = n
      BY <1>3
    <2>4. q = Front(st)
      BY <2>1, <2>3 DEF Front
    <2>. QED
      BY <1>1, <2>2, <2>4
  <1>6. PICK tk2 \in Seq(Locks) : /\ tk2 = Taken(t)' /\ Len(tk2) = n
                                  /\ \A k \in 1..n : tk2[k] = tk[k]
    <2>1. PICK q : q = SubSeq(tk, 1, n)
      OBVIOUS
    <2>2. q \in Seq(Locks) /\ Len(q) = n /\ \A k \in 1..n : q[k] = tk[k]
      BY <1>4, <2>1
    <2>3. Len(tk) - 1 = n
      BY <1>4
    <2>4. q = Front(tk)
      BY <2>1, <2>3 DEF Front
    <2>. QED
      BY <1>2, <2>2, <2>4
  <1>7. \A k \in 1..n : k \in 1..(n + 1)
    OBVIOUS
  <1>8. \A k \in 1..n : /\ st2[k] \in 1..Len(names')
                        /\ names'[st2[k]] = Name[tk2[k]]
    BY <1>4, <1>5, <1>6, <1>7
  <1>9. StackMatches(t)'
    BY <1>5, <1>6, <1>8 DEF StackMatches
  <1>10. \A k \in 2..n : k \in 2..(n + 1) /\ k \in 1..n /\ k - 1 \in 1..n
    OBVIOUS
  <1>11. \A k \in 2..n : st2[k] = st2[k - 1] \/ st2[k] \in history'[st2[k - 1]]
    BY <1>1, <1>3, <1>5, <1>10 DEF EdgesKnown
  <1>12. EdgesKnown(LLockStack[t])'
    BY <1>5, <1>11 DEF EdgesKnown
  <1>. QED
    BY <1>9, <1>12

LEMMA FrontType ==
    ASSUME NEW S, NEW q \in Seq(S), q # <<>>
    PROVE  Front(q) \in Seq(S)
  <1>1. Len(q) - 1 \in 0..Len(q)
    OBVIOUS
  <1>2. SubSeq(q, 1, Len(q) - 1) \in Seq(S)
    BY <1>1
  <1>. QED
    BY <1>2 DEF Front

LEMMA AcquireKeepsInv ==
    ASSUME ProfilerInv, NEW t \in Callers, Acquire(t)
    PROVE  ProfilerInv'
  <1>0. /\ ProfilerTypeOK /\ NamesOnce /\ ReportRight
        /\ \A u \in Callers : StackMatches(u) /\ EdgesKnown(LLockStack[u])
    BY DEF ProfilerInv
  <1>1. /\ wanted[t] # NoLock
        /\ holding' = [holding EXCEPT ![t] = Append(holding[t], wanted[t])]
        /\ wanted' = [wanted EXCEPT ![t] = NoLock]
        /\ names' = names /\ history' = history
        /\ LLockStack' = LLockStack /\ report' = report
    BY DEF Acquire
  <1>2. /\ holding \in [Callers -> Seq(Locks)]
        /\ wanted \in [Callers -> Locks \cup {NoLock}]
    BY <1>0 DEF ProfilerTypeOK
  <1>3. PICK tk \in Seq(Locks) : tk = Append(holding[t], wanted[t])
    <2>1. PICK q \in Seq(Locks), l \in Locks : q = holding[t] /\ l = wanted[t]
      BY <1>1, <1>2
    <2>2. Append(q, l) \in Seq(Locks)
      OBVIOUS
    <2>. QED
      BY <2>1, <2>2
  <1>4. /\ holding' \in [Callers -> Seq(Locks)] /\ holding'[t] = tk
        /\ \A u \in Callers : u # t => holding'[u] = holding[u]
    BY <1>1, <1>2, <1>3
  <1>5. /\ wanted' \in [Callers -> Locks \cup {NoLock}] /\ wanted'[t] = NoLock
        /\ \A u \in Callers : u # t => wanted'[u] = wanted[u]
    BY <1>1, <1>2
  <1>6. ProfilerTypeOK'
    BY <1>0, <1>1, <1>4, <1>5 DEF ProfilerTypeOK
  <1>7. NamesOnce' /\ ReportRight'
    BY <1>0, <1>1 DEF NamesOnce, ReportRight
  <1>8. ASSUME NEW u \in Callers
        PROVE  StackMatches(u)' /\ EdgesKnown(LLockStack[u])'
    <2>1. Taken(u)' = Taken(u)
      BY <1>1, <1>3, <1>4, <1>5 DEF Taken
    <2>. QED
      BY <1>0, <1>1, <2>1 DEF StackMatches, EdgesKnown
  <1>. QED
    BY <1>6, <1>7, <1>8 DEF ProfilerInv

LEMMA PopKeepsInv ==
    ASSUME ProfilerInv, NEW t \in Callers, PopLock(t)
    PROVE  ProfilerInv'
  <1>0. /\ ProfilerTypeOK /\ NamesOnce /\ ReportRight
        /\ \A u \in Callers : StackMatches(u) /\ EdgesKnown(LLockStack[u])
    BY DEF ProfilerInv
  <1>1. /\ wanted[t] = NoLock /\ holding[t] # <<>>
        /\ holding' = [holding EXCEPT ![t] = Front(holding[t])]
        /\ LLockStack' = [LLockStack EXCEPT ![t] = Front(LLockStack[t])]
        /\ names' = names /\ history' = history
        /\ wanted' = wanted /\ report' = report
    BY DEF PopLock
  <1>2. /\ holding \in [Callers -> Seq(Locks)]
        /\ LLockStack \in [Callers -> Seq(Ids)]
    BY <1>0 DEF ProfilerTypeOK
  <1>3. Taken(t) = holding[t] /\ Len(Taken(t)) > 0
    BY <1>1, <1>2 DEF Taken
  <1>4. LLockStack[t] # <<>>
    BY <1>0, <1>2, <1>3 DEF StackMatches
  <1>5. PICK h \in Seq(Locks) : h = Front(holding[t])
    <2>1. PICK q \in Seq(Locks) : q = holding[t]
      BY <1>2
    <2>2. Front(q) \in Seq(Locks)
      BY <1>1, <2>1, FrontType
    <2>. QED
      BY <2>1, <2>2
  <1>6. PICK st \in Seq(Ids) : st = Front(LLockStack[t])
    <2>1. PICK q \in Seq(Ids) : q = LLockStack[t]
      BY <1>2
    <2>2. Front(q) \in Seq(Ids)
      BY <1>4, <2>1, FrontType
    <2>. QED
      BY <2>1, <2>2
  <1>7. /\ holding' \in [Callers -> Seq(Locks)] /\ holding'[t] = h
        /\ \A u \in Callers : u # t => holding'[u] = holding[u]
    BY <1>1, <1>2, <1>5
  <1>8. /\ LLockStack' \in [Callers -> Seq(Ids)] /\ LLockStack'[t] = st
        /\ \A u \in Callers : u # t => LLockStack'[u] = LLockStack[u]
    BY <1>1, <1>2, <1>6
  <1>9. ProfilerTypeOK'
    BY <1>0, <1>1, <1>7, <1>8 DEF ProfilerTypeOK
  <1>10. NamesOnce' /\ ReportRight'
    BY <1>0, <1>1 DEF NamesOnce, ReportRight
  <1>11. ASSUME NEW u \in Callers, u # t
         PROVE  StackMatches(u)' /\ EdgesKnown(LLockStack[u])'
    <2>1. Taken(u)' = Taken(u) /\ LLockStack'[u] = LLockStack[u]
      BY <1>1, <1>7, <1>8, <1>11 DEF Taken
    <2>. QED
      BY <1>0, <1>1, <2>1 DEF StackMatches, EdgesKnown
  <1>12. StackMatches(t)' /\ EdgesKnown(LLockStack[t])'
    <2>1. Taken(t)' = Front(Taken(t))
      BY <1>1, <1>3, <1>5, <1>7 DEF Taken
    <2>2. LLockStack'[t] = Front(LLockStack[t])
      BY <1>6, <1>8
    <2>3. LLockStack[t] \in Seq(Ids) /\ Taken(t) \in Seq(Locks)
      BY <1>0, <1>2, TakenType
    <2>. QED
      BY <1>0, <1>1, <1>3, <2>1, <2>2, <2>3, StackPopped
  <1>. QED
    BY <1>9, <1>10, <1>11, <1>12 DEF ProfilerInv

LEMMA ProfilerNextInv == ProfilerInv /\ [ProfilerNext]_profilerVars => ProfilerInv'
  <1> SUFFICES ASSUME ProfilerInv, [ProfilerNext]_profilerVars
               PROVE  ProfilerInv'
    OBVIOUS
  <1>1. ASSUME NEW t \in Callers, NEW l \in Locks, PushLock(t, l)
        PROVE  ProfilerInv'
    BY <1>1, PushKeepsInv
  <1>2. ASSUME NEW t \in Callers, Acquire(t)
        PROVE  ProfilerInv'
    BY <1>2, AcquireKeepsInv
  <1>3. ASSUME NEW t \in Callers, PopLock(t)
        PROVE  ProfilerInv'
    BY <1>3, PopKeepsInv
  <1>4. CASE UNCHANGED profilerVars
    <2>1. /\ holding' = holding /\ wanted' = wanted /\ names' = names
          /\ history' = history /\ LLockStack' = LLockStack
          /\ report' = report
      BY <1>4 DEF profilerVars
    <2>2. ProfilerTypeOK' /\ NamesOnce' /\ ReportRight'
      BY <2>1 DEF ProfilerInv, ProfilerTypeOK, NamesOnce, ReportRight
    <2>3. ASSUME NEW t \in Callers
          PROVE  StackMatches(t)' /\ EdgesKnown(LLockStack[t])'
      <3>1. Taken(t)' = Taken(t)
        BY <2>1 DEF Taken
      <3>. QED
        BY <2>1, <3>1 DEF ProfilerInv, StackMatches, EdgesKnown
    <2>. QED
      BY <2>2, <2>3 DEF ProfilerInv
  <1>. QED
    BY <1>1, <1>2, <1>3, <1>4 DEF ProfilerNext

LEMMA ProfilerInvariance == ProfilerSpec => []ProfilerInv
  BY ProfilerInitInv, ProfilerNextInv, PTL DEF ProfilerSpec

-----------------------------------------------------------------------------
(* Why no circle of waiting threads goes unseen *)

\* Up a stack the ids go down in the order, as long as they change.
LEMMA StackDescends ==
    ASSUME NEW st \in Seq(Ids), EdgesKnown(st),
           history \in [Ids -> SUBSET Ids],
           NEW rank \in [Ids -> Nat], IsRanking(history, rank),
           NEW k \in 1..Len(st), NEW m \in 1..Len(st), k <= m
    PROVE  st[m] = st[k] \/ rank[st[m]] < rank[st[k]]
  <1> DEFINE R == {d \in Nat : k + d <= Len(st) =>
                       \/ st[k + d] = st[k]
                       \/ rank[st[k + d]] < rank[st[k]]}
  <1>1. 0 \in R
    OBVIOUS
  <1>2. ASSUME NEW d \in Nat, d \in R
        PROVE  d + 1 \in R
    <2> SUFFICES ASSUME k + (d + 1) <= Len(st)
                 PROVE  \/ st[k + (d + 1)] = st[k]
                        \/ rank[st[k + (d + 1)]] < rank[st[k]]
      OBVIOUS
    <2>1. PICK i \in 1..Len(st) : i = k + d
      OBVIOUS
    <2>2. PICK j \in 2..Len(st) : j = k + (d + 1) /\ j - 1 = i
      BY <2>1
    <2>3. st[i] = st[k] \/ rank[st[i]] < rank[st[k]]
      BY <1>2, <2>1
    <2>4. st[j] = st[i] \/ st[j] \in history[st[i]]
      BY <2>2 DEF EdgesKnown
    <2>5. st[i] \in Ids /\ st[j] \in Ids /\ st[k] \in Ids
      BY <2>1, <2>2
    <2>6. st[j] = st[i] \/ rank[st[j]] < rank[st[i]]
      BY <2>4, <2>5 DEF IsRanking
    <2>7. PICK x, y, z \in Nat :
              x = rank[st[i]] /\ y = rank[st[j]] /\ z = rank[st[k]]
      BY <2>5
    <2>8. st[j] = st[k] \/ y < z
      BY <2>3, <2>6, <2>7
    <2>. QED
      BY <2>2, <2>7, <2>8
  <1> HIDE DEF R
  <1>5. Nat \subseteq R
    BY <1>1, <1>2, NatSetInduction
  <1>6. m - k \in Nat
    OBVIOUS
  <1>3. m - k \in Nat /\ m - k \in R
    BY <1>5, <1>6
  <1>4. k + (m - k) = m
    OBVIOUS
  <1>. QED
    BY <1>3, <1>4 DEF R

\* What is true at one place of a circle, and goes on to the next, is true
\* everywhere.
LEMMA AroundCircle ==
    ASSUME NEW n \in Nat, NEW S, NEW m \in 1..n, m \in S,
           \A i \in 1..n : i \in S => (i % n) + 1 \in S
    PROVE  \A i \in 1..n : i \in S
  <1>1. ASSUME NEW k \in 1..n, k \in S, NEW i \in 1..n, k <= i
        PROVE  i \in S
    <2> DEFINE R == {d \in Nat : k + d <= n => k + d \in S}
    <2>1. 0 \in R
      BY <1>1
    <2>2. ASSUME NEW d \in Nat, d \in R
          PROVE  d + 1 \in R
      <3> SUFFICES ASSUME k + (d + 1) <= n
                   PROVE  k + (d + 1) \in S
        OBVIOUS
      <3>1. PICK j \in 1..n : j = k + d
        OBVIOUS
      <3>2. j \in S /\ j \in Nat /\ j < n
        BY <2>2, <3>1
      <3>3. j % n = j
        BY <3>2, SmallModulo
      <3>4. j + 1 \in S
        BY <3>2, <3>3
      <3>. QED
        BY <3>1, <3>4
    <2> HIDE DEF R
    <2>3. i - k \in Nat /\ i - k \in R
      BY <1>1, <2>1, <2>2, NatSetInduction
    <2>4. k + (i - k) = i
      OBVIOUS
    <2>. QED
      BY <2>3, <2>4 DEF R
  <1>2. n \in 1..n /\ n \in S
    BY <1>1
  <1>3. (n % n) + 1 = 1
    BY <1>2
  <1>4. 1 \in S /\ 1 \in 1..n
    BY <1>2, <1>3
  <1>. QED
    BY <1>1, <1>4

\* Ids that go down or stay the same around a circle are all the same.
LEMMA CircleConstant ==
    ASSUME NEW n \in Nat, n > 0, NEW v \in [1..n -> Ids],
           NEW rank \in [Ids -> Nat],
           \A i \in 1..n : \/ v[(i % n) + 1] = v[i]
                           \/ rank[v[(i % n) + 1]] < rank[v[i]]
    PROVE  \E x \in Ids : \A i \in 1..n : v[i] = x
  <1> DEFINE T == {rank[v[i]] : i \in 1..n}
  <1>1. T \in SUBSET Nat /\ T # {}
    <2>1. 1 \in 1..n
      OBVIOUS
    <2>2. \A i \in 1..n : rank[v[i]] \in Nat
      OBVIOUS
    <2>. QED
      BY <2>1, <2>2
  <1>2. PICK low \in T : \A k \in T : low <= k
    BY <1>1, Smallest
  <1>3. PICK m \in 1..n : rank[v[m]] = low
    BY <1>2
  <1> DEFINE S == {i \in 1..n : v[i] = v[m]}
  <1>4. m \in S
    OBVIOUS
  <1>5. ASSUME NEW i \in 1..n, i \in S
        PROVE  (i % n) + 1 \in S
    <2>1. PICK j \in 1..n : j = (i % n) + 1
      <3>1. i % n \in 0..(n - 1)
        OBVIOUS
      <3>. QED
        BY <3>1
    <2>2. v[j] = v[i] \/ rank[v[j]] < rank[v[i]]
      BY <2>1
    <2>3. PICK x \in Nat : x = rank[v[j]]
      OBVIOUS
    <2>4. x \in T
      BY <2>3
    <2>5. low <= x /\ low \in Nat
      BY <1>1, <1>2, <2>4
    <2>6. v[i] = v[m] /\ rank[v[i]] = low
      BY <1>3, <1>5
    <2>7. ~(x < low)
      BY <2>5
    <2>8. v[j] = v[m]
      BY <2>2, <2>3, <2>6, <2>7
    <2>. QED
      BY <2>1, <2>8
  <1> HIDE DEF S, T
  <1>6. \A i \in 1..n : i \in S
    BY <1>4, <1>5, AroundCircle
  <1>7. v[m] \in Ids /\ \A i \in 1..n : v[i] = v[m]
    BY <1>6 DEF S
  <1>. QED
    BY <1>7

\* The id on top of the stack of a thread that waits is that of the lock it
\* waits for, and the holder of that lock has it in its stack.
LEMMA WaitsDown ==
    ASSUME ProfilerInv, NEW rank \in [Ids -> Nat], IsRanking(history, rank),
           NEW t \in Callers, NEW u \in Callers, WaitsFor(t, u),
           wanted[u] # NoLock,
           NEW x, x = Last(LLockStack[t]), NEW y, y = Last(LLockStack[u])
    PROVE  /\ x \in Ids /\ x \in 1..Len(names) /\ names[x] = Name[wanted[t]]
           /\ y = x \/ rank[y] < rank[x]
  <1>0. /\ ProfilerTypeOK /\ NamesOnce
        /\ \A s \in Callers : StackMatches(s) /\ EdgesKnown(LLockStack[s])
    BY DEF ProfilerInv
  <1>1. ASSUME NEW s \in Callers, wanted[s] # NoLock
        PROVE  \E n \in Nat \ {0} :
                   /\ Len(LLockStack[s]) = n
                   /\ LLockStack[s][n] \in 1..Len(names)
                   /\ names[LLockStack[s][n]] = Name[wanted[s]]
    <2>1. PICK h \in Seq(Locks), w \in Locks : h = holding[s] /\ w = wanted[s]
      BY <1>0, <1>1 DEF ProfilerTypeOK
    <2>2. PICK n \in Nat \ {0} : n = Len(h) + 1
      OBVIOUS
    <2>3. PICK tk : tk = Append(h, w)
      OBVIOUS
    <2>4. Len(tk) = n /\ tk[n] = w /\ n \in 1..n
      BY <2>2, <2>3
    <2>5. Taken(s) = tk
      BY <1>1, <2>1, <2>3 DEF Taken
    <2>. QED
      BY <1>0, <2>1, <2>4, <2>5 DEF StackMatches
  <1>2. /\ wanted[t] # NoLock
        /\ wanted[t] \in Range(holding[u])
    BY DEF WaitsFor, Holder
  <1>3. PICK st \in Seq(Ids) : st = LLockStack[t]
    BY <1>0 DEF ProfilerTypeOK
  <1>4. PICK n \in Nat \ {0} : /\ Len(st) = n /\ st[n] \in 1..Len(names)
                               /\ names[st[n]] = Name[wanted[t]]
    BY <1>1, <1>2, <1>3
  <1>5. x = st[n] /\ x \in Ids
    BY <1>3, <1>4 DEF Last
  <1>6. PICK su \in Seq(Ids) : su = LLockStack[u]
    BY <1>0 DEF ProfilerTypeOK
  <1>7. PICK h \in Seq(Locks), w \in Locks : h = holding[u] /\ w = wanted[u]
    BY <1>0 DEF ProfilerTypeOK
  <1>8. PICK k \in 1..Len(h) : h[k] = wanted[t]
    <2>1. wanted[t] \in Range(h) /\ DOMAIN h = 1..Len(h)
      BY <1>2, <1>7
    <2>. QED
      BY <2>1 DEF Range
  <1>9. PICK tk : tk = Append(h, w)
    OBVIOUS
  <1>10. Len(tk) = Len(h) + 1 /\ tk[k] = h[k] /\ k \in 1..(Len(h) + 1)
    BY <1>9
  <1>11. Taken(u) = tk
    BY <1>7, <1>9 DEF Taken
  <1>12. /\ Len(su) = Len(h) + 1 /\ su[k] \in 1..Len(names)
         /\ names[su[k]] = Name[wanted[t]]
    <2>1. /\ Len(su) = Len(tk)
          /\ \A i \in 1..Len(tk) : /\ su[i] \in 1..Len(names)
                                   /\ names[su[i]] = Name[tk[i]]
      BY <1>0, <1>6, <1>11 DEF StackMatches
    <2>2. k \in 1..Len(tk) /\ tk[k] = wanted[t]
      BY <1>8, <1>10
    <2>. QED
      BY <1>10, <2>1, <2>2
  <1>13. su[k] = x
    BY <1>0, <1>4, <1>5, <1>12 DEF NamesOnce
  <1>14. PICK m \in 1..Len(su) : m = Len(su) /\ k <= m /\ k \in 1..Len(su)
    BY <1>10, <1>12
  <1>15. y = su[m]
    BY <1>6, <1>14 DEF Last
  <1>16. history \in [Ids -> SUBSET Ids] /\ EdgesKnown(su)
    BY <1>0, <1>6 DEF ProfilerTypeOK
  <1>17. su[m] = su[k] \/ rank[su[m]] < rank[su[k]]
    BY <1>14, <1>16, StackDescends
  <1>. QED
    BY <1>4, <1>5, <1>13, <1>15, <1>17

LEMMA CircleHasOneName ==
    ASSUME ProfilerInv, report = <<>>, NEW n \in Nat, n > 0,
           NEW c \in [1..n -> Callers],
           \A i \in 1..n : WaitsFor(c[i], c[(i % n) + 1])
    PROVE  Cardinality({Name[wanted[c[i]]] : i \in 1..n}) = 1
  <1>1. PICK rank \in [Ids -> Nat] : IsRanking(history, rank)
    BY DEF ProfilerInv, ReportRight
  <1>2. \A i \in 1..n : (i % n) + 1 \in 1..n
    <2>1. \A i \in 1..n : i % n \in 0..(n - 1)
      OBVIOUS
    <2>. QED
      BY <2>1
  <1>3. \A i \in 1..n : wanted[c[i]] # NoLock
    BY DEF WaitsFor
  <1>4. PICK v : v = [i \in 1..n |-> Last(LLockStack[c[i]])]
    OBVIOUS
  <1>5. ASSUME NEW i \in 1..n
        PROVE  /\ v[i] \in Ids
               /\ v[i] \in 1..Len(names) /\ names[v[i]] = Name[wanted[c[i]]]
               /\ \/ v[(i % n) + 1] = v[i]
                  \/ rank[v[(i % n) + 1]] < rank[v[i]]
    <2>1. PICK j \in 1..n : j = (i % n) + 1
      BY <1>2
    <2>2. PICK t \in Callers : t = c[i]
      OBVIOUS
    <2>3. PICK u \in Callers : u = c[j]
      OBVIOUS
    <2>4. WaitsFor(t, u) /\ wanted[u] # NoLock
      BY <1>3, <2>1, <2>2, <2>3
    <2>5. v[i] = Last(LLockStack[t]) /\ v[j] = Last(LLockStack[u])
      BY <1>4, <2>2, <2>3
    <2>6. /\ v[i] \in Ids /\ v[i] \in 1..Len(names)
          /\ names[v[i]] = Name[wanted[t]]
          /\ v[j] = v[i] \/ rank[v[j]] < rank[v[i]]
      BY <1>1, <2>4, <2>5, WaitsDown
    <2>. QED
      BY <2>1, <2>2, <2>6
  <1>6. v \in [1..n -> Ids]
    BY <1>4, <1>5
  <1>7. PICK x \in Ids : \A i \in 1..n : v[i] = x
    BY <1>1, <1>5, <1>6, CircleConstant
  <1>8. \A i \in 1..n : Name[wanted[c[i]]] = names[x]
    BY <1>5, <1>7
  <1>9. 1 \in 1..n
    OBVIOUS
  <1>10. {Name[wanted[c[i]]] : i \in 1..n} = {names[x]}
    BY <1>8, <1>9
  <1>. QED
    BY <1>10, FS_Singleton

LEMMA InvForesees == ProfilerInv => DeadlockForeseen
  <1> SUFFICES ASSUME ProfilerInv
               PROVE  DeadlockForeseen
    OBVIOUS
  <1>1. ASSUME NEW n \in 2..Cardinality(Callers), NEW c \in [1..n -> Callers],
               report = <<>>, \A i \in 1..n : WaitsFor(c[i], c[(i % n) + 1])
        PROVE  Cardinality({Name[wanted[c[i]]] : i \in 1..n}) = 1
    <2>1. Cardinality(Callers) \in Nat
      BY DeadLockProfilerAssumption, FS_CardinalityType
    <2>2. n \in Nat /\ n > 0
      BY <2>1
    <2>. QED
      BY <1>1, <2>2, CircleHasOneName
  <1>2. ASSUME NEW i \in DOMAIN report
        PROVE  report[i] \in history[report[(i % Len(report)) + 1]]
    <2>1. report \in Seq(Ids) /\ DOMAIN report = 1..Len(report)
      BY DEF ProfilerInv, ProfilerTypeOK
    <2>2. report # <<>>
      BY <1>2, <2>1
    <2>. QED
      BY <1>2, <2>1, <2>2 DEF ProfilerInv, ReportRight, IsCycle
  <1>. QED
    BY <1>1, <1>2 DEF DeadlockForeseen


\* DeadLockProfiler's maps, stacks and reports keep their types.
THEOREM ProfilerTypeCorrect == ProfilerSpec => []ProfilerTypeOK
  <1>1. ProfilerInv => ProfilerTypeOK
    BY DEF ProfilerInv
  <1>. QED
    BY <1>1, ProfilerInvariance, PTL

\* A guard that ends finds its own lock on top of its thread's stack: PopLock
\* crashes neither with MULTIPLE_UNLOCK nor with INVALID_UNLOCK
\* (DeadLockProfiler.cpp:43-48), whichever threads gave the names their ids.
PopFindsItsLock ==
    \A t \in Callers : wanted[t] = NoLock /\ holding[t] # <<>> =>
        /\ LLockStack[t] # <<>>
        /\ Last(LLockStack[t]) \in DOMAIN names
        /\ names[Last(LLockStack[t])] = Name[Last(holding[t])]

\* PopLock's two checks (DeadLockProfiler.cpp:43-48) never fail.
THEOREM NoPopCrash == ProfilerSpec => []PopFindsItsLock
  <1>1. ASSUME ProfilerInv
        PROVE  PopFindsItsLock
    <2> SUFFICES ASSUME NEW t \in Callers, wanted[t] = NoLock, holding[t] # <<>>
                 PROVE  /\ LLockStack[t] # <<>>
                        /\ Last(LLockStack[t]) \in DOMAIN names
                        /\ names[Last(LLockStack[t])] = Name[Last(holding[t])]
      BY DEF PopFindsItsLock
    <2>1. PICK h \in Seq(Locks) : h = holding[t]
      BY <1>1 DEF ProfilerInv, ProfilerTypeOK
    <2>2. PICK st \in Seq(Ids) : st = LLockStack[t]
      BY <1>1 DEF ProfilerInv, ProfilerTypeOK
    <2>3. names \in Seq(Range(Name))
      BY <1>1 DEF ProfilerInv, ProfilerTypeOK
    <2>4. /\ Len(st) = Len(h)
          /\ \A k \in 1..Len(h) : /\ st[k] \in 1..Len(names)
                                  /\ names[st[k]] = Name[h[k]]
      BY <1>1, <2>1, <2>2 DEF ProfilerInv, StackMatches, Taken
    <2>5. Len(h) \in 1..Len(h) /\ Len(st) > 0
      BY <2>1, <2>4
    <2>6. st # <<>> /\ Last(st) = st[Len(h)] /\ Last(h) = h[Len(h)]
      BY <2>2, <2>4, <2>5 DEF Last
    <2>7. DOMAIN names = 1..Len(names)
      BY <2>3
    <2>. QED
      BY <2>1, <2>2, <2>4, <2>5, <2>6, <2>7
  <1>. QED
    BY <1>1, ProfilerInvariance, PTL

\* Threads never wait for each other in a circle before the profiler has
\* stopped the process, unless the circle is over locks of one name; and what
\* it reports is a cycle of the history (DeadLockProfiler.cpp:22-36, 53-115).
THEOREM DeadlocksForeseen == ProfilerSpec => []DeadlockForeseen
  BY ProfilerInvariance, InvForesees, PTL
=============================================================================
