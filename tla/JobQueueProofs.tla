--------------------------- MODULE JobQueueProofs ---------------------------
(***************************************************************************)
(* Theorems about JobQueue, for any finite set of threads and any sets of  *)
(* queues and jobs.                                                        *)
(***************************************************************************)
EXTENDS JobQueue, TLAPS, FiniteSetTheorems, SequenceTheorems

\* What a thread's place in Push and Execute says of its variables.
LocalInv ==
    \A t \in Threads :
        /\ exec[t] = "none" <=> current[t] = NoQueue
        /\ exec[t] \in {"none", "tick"} => size[t] = 0 /\ batch[t] = <<>>
        /\ exec[t] \in {"popAll", "tick"} => push[t].stage = "none"
        /\ push[t].stage # "none" =>
               push[t].queue \in Queues /\ push[t].job \in Jobs
        /\ push[t].stage = "dispatch" => push[t].prevCount = 0

HasPusher(q) == \E t \in Threads : FirstPusher(t, q)
HasExecutor(q) == \E t \in Threads : current[t] = q
IsGlobal(q) == \E i \in 1..Len(globalQueue) : globalQueue[i] = q

\* OneKeeper without its cardinality: a queue has a keeper just when a job of
\* it is counted, and never has two, of one kind or of two kinds.
KeeperAt(q) ==
    /\ jobCount[q] # 0 <=> HasPusher(q) \/ HasExecutor(q) \/ IsGlobal(q)
    /\ ~(HasPusher(q) /\ HasExecutor(q))
    /\ ~(HasPusher(q) /\ IsGlobal(q))
    /\ ~(HasExecutor(q) /\ IsGlobal(q))
    /\ \A t, u \in Threads : FirstPusher(t, q) /\ FirstPusher(u, q) => t = u
    /\ \A t, u \in Threads : current[t] = q /\ current[u] = q => t = u
    /\ \A i, k \in 1..Len(globalQueue) :
           globalQueue[i] = q /\ globalQueue[k] = q => i = k

KeeperInv == \A q \in Queues : KeeperAt(q)

\* CountIsExact with the executor of the queue named.
CountAt(q) ==
    /\ ~HasExecutor(q) => jobCount[q] = Len(jobs[q]) + Cardinality(Linkers(q))
    /\ \A t \in Threads :
           current[t] = q =>
               jobCount[q] = Len(jobs[q]) + Cardinality(Linkers(q)) + size[t]

CountInv == \A q \in Queues : CountAt(q)

\* RunInOrder with the executor of the queue named.
OrderAt(q) ==
    /\ ~HasExecutor(q) => linked[q] = done[q] \o jobs[q]
    /\ \A t \in Threads :
           current[t] = q => linked[q] = (done[q] \o batch[t]) \o jobs[q]

OrderInv == \A q \in Queues : OrderAt(q)

IInv == TypeOK /\ LocalInv /\ KeeperInv /\ CountInv /\ OrderInv

-----------------------------------------------------------------------------
(* Threads that have counted a job and not yet linked it.                  *)

LEMMA LinkersFinite ==
    ASSUME NEW q PROVE IsFiniteSet(Linkers(q)) /\ Cardinality(Linkers(q)) \in Nat
  <1>1. IsFiniteSet(Linkers(q))
    BY JobQueueAssumption, FS_Subset DEF Linkers
  <1>. QED
    BY <1>1, FS_CardinalityType

\* fetch_add brings the pusher in.
LEMMA LinkerEnters ==
    ASSUME NEW t \in Threads, NEW q, push[t].stage # "link",
           t \in Linkers(q)',
           \A u \in Threads \ {t} : push'[u] = push[u]
    PROVE  Cardinality(Linkers(q)') = Cardinality(Linkers(q)) + 1
  <1>1. Linkers(q)' = Linkers(q) \cup {t} /\ t \notin Linkers(q)
    BY DEF Linkers
  <1>. QED
    BY <1>1, LinkersFinite, FS_AddElement

\* Linking the job takes the pusher out.
LEMMA LinkerLeaves ==
    ASSUME NEW t \in Threads, NEW q, t \in Linkers(q),
           push'[t].stage # "link",
           \A u \in Threads \ {t} : push'[u] = push[u]
    PROVE  Cardinality(Linkers(q)') = Cardinality(Linkers(q)) - 1
  <1>1. Linkers(q)' = Linkers(q) \ {t}
    BY DEF Linkers
  <1>. QED
    BY <1>1, LinkersFinite, FS_RemoveElement

\* No other call of Push changes who is linking to q.
LEMMA LinkersSame ==
    ASSUME NEW q, NEW t \in Threads,
           t \notin Linkers(q), t \notin Linkers(q)',
           \A u \in Threads \ {t} : push'[u] = push[u]
    PROVE  Linkers(q)' = Linkers(q)
  BY DEF Linkers

-----------------------------------------------------------------------------
(* Sequences: moving the head of one to the end of the one before it.      *)

LEMMA MoveHead ==
    ASSUME NEW S, NEW a \in Seq(S), NEW b \in Seq(S), b # <<>>
    PROVE  /\ Head(b) \in S /\ Tail(b) \in Seq(S)
           /\ Append(a, Head(b)) \in Seq(S)
           /\ Append(a, Head(b)) \o Tail(b) = a \o b
  <1>1. Head(b) \in S /\ Tail(b) \in Seq(S) /\ <<Head(b)>> \in Seq(S)
    BY HeadTailProperties
  <1>2. b = <<Head(b)>> \o Tail(b)
    <2>1. Len(b) \in Nat \ {0}
      BY EmptySeq
    <2>2. 1 \in 1..Len(b) /\ Len(b) \in 1..Len(b)
      BY <2>1
    <2>3. SubSeq(b, 1, Len(b)) = <<b[1]>> \o SubSeq(b, 2, Len(b))
      BY <2>1, <2>2, SubSeqRecursiveFirst
    <2>4. SubSeq(b, 1, Len(b)) = b /\ Tail(b) = SubSeq(b, 2, Len(b))
      BY SubSeqFull, TailIsSubSeq
    <2>5. Head(b) = b[1]
      BY <2>2, <2>4, HeadTailOfSubSeq
    <2>. QED
      BY <2>3, <2>4, <2>5
  <1>3. Append(a, Head(b)) = a \o <<Head(b)>>
    BY <1>1, AppendIsConcat
  <1>4. (a \o <<Head(b)>>) \o Tail(b) = a \o (<<Head(b)>> \o Tail(b))
    BY <1>1, ConcatAssociative
  <1>5. Append(a, Head(b)) \in Seq(S)
    BY <1>1, AppendProperties
  <1>. QED
    BY <1>1, <1>2, <1>3, <1>4, <1>5

LEMMA AppendOutside ==
    ASSUME NEW S, NEW a \in Seq(S), NEW b \in Seq(S), NEW x \in S
    PROVE  a \o Append(b, x) = Append(a \o b, x)
  <1>1. <<x>> \in Seq(S) /\ a \o b \in Seq(S)
    BY ConcatProperties
  <1>2. Append(b, x) = b \o <<x>> /\ Append(a \o b, x) = (a \o b) \o <<x>>
    BY <1>1, AppendIsConcat
  <1>. QED
    BY <1>1, <1>2, ConcatAssociative

\* The GlobalQueue after a Push and after a Pop.
LEMMA GlobalAppend ==
    ASSUME globalQueue \in Seq(Queues), NEW p \in Queues,
           globalQueue' = Append(globalQueue, p)
    PROVE  /\ globalQueue' \in Seq(Queues)
           /\ Len(globalQueue) \in Nat
           /\ Len(globalQueue') = Len(globalQueue) + 1
           /\ \A i \in 1..Len(globalQueue) : globalQueue'[i] = globalQueue[i]
           /\ globalQueue'[Len(globalQueue) + 1] = p
  BY AppendProperties, LenProperties

\* A queue that was not in the GlobalQueue is there once after its Push.
LEMMA GlobalEnters ==
    ASSUME globalQueue \in Seq(Queues), NEW q \in Queues,
           globalQueue' = Append(globalQueue, q), ~IsGlobal(q)
    PROVE  /\ IsGlobal(q)'
           /\ \A i, k \in 1..Len(globalQueue') :
                  globalQueue'[i] = q /\ globalQueue'[k] = q => i = k
  <1>1. /\ Len(globalQueue) \in Nat
        /\ Len(globalQueue') = Len(globalQueue) + 1
        /\ \A i \in 1..Len(globalQueue) : globalQueue'[i] = globalQueue[i]
        /\ globalQueue'[Len(globalQueue) + 1] = q
    BY GlobalAppend
  <1>2. ASSUME NEW i \in 1..Len(globalQueue'), globalQueue'[i] = q
        PROVE  i = Len(globalQueue) + 1
    BY <1>1, <1>2 DEF IsGlobal
  <1>3. Len(globalQueue) + 1 \in 1..Len(globalQueue')
    BY <1>1
  <1>. QED
    BY <1>1, <1>2, <1>3 DEF IsGlobal

\* The places of the other queues are the same after it.
LEMMA GlobalKeeps ==
    ASSUME globalQueue \in Seq(Queues), NEW p \in Queues,
           globalQueue' = Append(globalQueue, p),
           NEW q \in Queues \ {p},
           \A i, k \in 1..Len(globalQueue) :
               globalQueue[i] = q /\ globalQueue[k] = q => i = k
    PROVE  /\ IsGlobal(q)' <=> IsGlobal(q)
           /\ \A i, k \in 1..Len(globalQueue') :
                  globalQueue'[i] = q /\ globalQueue'[k] = q => i = k
  <1>1. /\ Len(globalQueue) \in Nat
        /\ Len(globalQueue') = Len(globalQueue) + 1
        /\ \A i \in 1..Len(globalQueue) : globalQueue'[i] = globalQueue[i]
        /\ globalQueue'[Len(globalQueue) + 1] = p
    BY GlobalAppend
  <1>2. ASSUME NEW i \in 1..Len(globalQueue'), globalQueue'[i] = q
        PROVE  i \in 1..Len(globalQueue) /\ globalQueue[i] = q
    BY <1>1, <1>2
  <1>3. ASSUME NEW i \in 1..Len(globalQueue), globalQueue[i] = q
        PROVE  i \in 1..Len(globalQueue') /\ globalQueue'[i] = q
    BY <1>1, <1>3
  <1>. QED
    BY <1>2, <1>3 DEF IsGlobal

LEMMA GlobalTail ==
    ASSUME globalQueue \in Seq(Queues), globalQueue # <<>>,
           globalQueue' = Tail(globalQueue)
    PROVE  /\ globalQueue' \in Seq(Queues)
           /\ Len(globalQueue) \in Nat \ {0}
           /\ Len(globalQueue') = Len(globalQueue) - 1
           /\ \A i \in 1..Len(globalQueue') : globalQueue'[i] = globalQueue[i + 1]
           /\ Head(globalQueue) = globalQueue[1]
           /\ Head(globalQueue) \in Queues
  <1>1. Len(globalQueue) \in Nat \ {0}
    BY EmptySeq
  <1>2. 1 \in 1..Len(globalQueue) /\ Len(globalQueue) \in 1..Len(globalQueue)
    BY <1>1
  <1>3. Head(globalQueue) = globalQueue[1]
    BY <1>2, SubSeqFull, HeadTailOfSubSeq
  <1>. QED
    BY <1>1, <1>3, HeadTailProperties
-----------------------------------------------------------------------------
(* The initial state, and one lemma per action.                            *)

LEMMA InitInv == Init => IInv
  <1> SUFFICES ASSUME Init PROVE IInv
    OBVIOUS
  <1> USE JobQueueAssumption
  <1>1. TypeOK
    BY DEF Init, TypeOK, NoPush, PushFrames
  <1>2. LocalInv
    BY DEF Init, LocalInv, NoPush
  <1>3. Len(globalQueue) = 0
    BY DEF Init
  <1>4. \A q \in Queues : ~HasPusher(q) /\ ~HasExecutor(q) /\ ~IsGlobal(q)
    BY <1>3 DEF Init, HasPusher, FirstPusher, HasExecutor, IsGlobal, NoPush
  <1>5. KeeperInv
    BY <1>3, <1>4 DEF Init, KeeperInv, KeeperAt, FirstPusher, NoPush, HasPusher,
                      HasExecutor
  <1>6. \A q \in Queues : Linkers(q) = {}
    BY DEF Init, Linkers, NoPush
  <1>7. CountInv
    <2>1. \A q \in Queues : /\ Cardinality(Linkers(q)) = 0
                            /\ Len(jobs[q]) = 0 /\ jobCount[q] = 0
      BY <1>6, FS_EmptySet DEF Init
    <2>. QED
      BY <1>4, <2>1 DEF CountInv, CountAt, HasExecutor
  <1>8. OrderInv
    BY <1>4 DEF Init, OrderInv, OrderAt, HasExecutor
  <1>. QED
    BY <1>1, <1>2, <1>5, <1>7, <1>8 DEF IInv

\* The count is 0 exactly when there is no keeper: then t becomes one.
LEMMA PushCountInv ==
    ASSUME IInv, NEW t \in Threads, NEW p \in Queues, NEW j \in Jobs,
           NEW mode \in {"async", "toss"}, PushCount(t, p, j, mode)
    PROVE  IInv'
  <1>0. TypeOK /\ LocalInv /\ KeeperInv /\ CountInv /\ OrderInv
    BY DEF IInv
  <1>1. TypeOK'
    BY <1>0 DEF PushCount, TypeOK, PushFrames
  <1>2. LocalInv'
    BY <1>0 DEF PushCount, TypeOK, LocalInv, PushFrames, Free
  <1>3. KeeperInv'
    <2>1. ~FirstPusher(t, p) /\ (FirstPusher(t, p)' <=> jobCount[p] = 0)
      BY <1>0 DEF PushCount, TypeOK, Free, FirstPusher
    <2>2. \A q \in Queues \ {p} : ~FirstPusher(t, q) /\ ~FirstPusher(t, q)'
      BY <1>0 DEF PushCount, TypeOK, Free, FirstPusher
    <2>3. \A q \in Queues, u \in Threads \ {t} :
              FirstPusher(u, q)' <=> FirstPusher(u, q)
      BY <1>0 DEF PushCount, TypeOK, FirstPusher
    <2>4. /\ jobCount'[p] = jobCount[p] + 1 /\ jobCount[p] \in Nat
          /\ \A q \in Queues \ {p} : jobCount'[q] = jobCount[q]
      BY <1>0 DEF PushCount, TypeOK
    <2>5. UNCHANGED <<current, globalQueue>>
      BY DEF PushCount
    <2>. QED
      BY <1>0, <2>1, <2>2, <2>3, <2>4, <2>5
         DEF KeeperInv, KeeperAt, HasPusher, HasExecutor, IsGlobal
  <1>4. CountInv'
    <2>1. \A u \in Threads \ {t} : push'[u] = push[u]
      BY <1>0 DEF PushCount, TypeOK
    <2>2. push[t].stage # "link" /\ t \in Linkers(p)'
      BY <1>0 DEF PushCount, TypeOK, Free, Linkers
    <2>3. Cardinality(Linkers(p)') = Cardinality(Linkers(p)) + 1
      BY <2>1, <2>2, LinkerEnters
    <2>4. \A q \in Queues \ {p} : Linkers(q)' = Linkers(q)
      <3>1. \A q \in Queues \ {p} : t \notin Linkers(q) /\ t \notin Linkers(q)'
        BY <1>0 DEF PushCount, TypeOK, Free, Linkers
      <3>. QED
        BY <2>1, <3>1, LinkersSame
    <2>5. /\ jobCount'[p] = jobCount[p] + 1
          /\ \A q \in Queues \ {p} : jobCount'[q] = jobCount[q]
          /\ UNCHANGED <<current, jobs, size>>
      BY <1>0 DEF PushCount, TypeOK
    <2>6. \A q \in Queues : Len(jobs[q]) \in Nat /\ Cardinality(Linkers(q)) \in Nat
      BY <1>0, LinkersFinite, LenProperties DEF TypeOK
    <2>7. CountAt(p)'
      <3>1. CountAt(p) /\ \A u \in Threads : size[u] \in Nat
        BY <1>0 DEF CountInv, TypeOK
      <3>2. Len(jobs[p]) \in Nat /\ Cardinality(Linkers(p)) \in Nat
        BY <2>6
      <3>3. ASSUME ~HasExecutor(p)
            PROVE  jobCount'[p] = Len(jobs'[p]) + Cardinality(Linkers(p)')
        BY <2>3, <2>5, <3>1, <3>2, <3>3 DEF CountAt
      <3>4. ASSUME NEW u \in Threads, current[u] = p
            PROVE  jobCount'[p] =
                       Len(jobs'[p]) + Cardinality(Linkers(p)') + size'[u]
        BY <2>3, <2>5, <3>1, <3>2, <3>4 DEF CountAt
      <3>. QED
        BY <2>5, <3>3, <3>4 DEF CountAt, HasExecutor
    <2>8. ASSUME NEW q \in Queues \ {p} PROVE CountAt(q)'
      BY <1>0, <2>4, <2>5 DEF CountInv, CountAt, HasExecutor
    <2>. QED
      BY <2>7, <2>8 DEF CountInv
  <1>5. OrderInv'
    BY <1>0 DEF PushCount, OrderInv, OrderAt, HasExecutor
  <1>. QED
    BY <1>1, <1>2, <1>3, <1>4, <1>5 DEF IInv

\* The job leaves the pusher for _jobs; a first pusher stays answerable.
LEMMA PushLinkInv ==
    ASSUME IInv, NEW t \in Threads, PushLink(t)
    PROVE  IInv'
  <1>0. TypeOK /\ LocalInv /\ KeeperInv /\ CountInv /\ OrderInv
    BY DEF IInv
  <1>a. PICK p \in Queues, j \in Jobs : p = push[t].queue /\ j = push[t].job
    BY <1>0 DEF PushLink, LocalInv
  <1>1. /\ p \in Queues /\ p = push[t].queue
        /\ j \in Jobs /\ j = push[t].job
        /\ push[t].stage = "link" /\ push[t] \in PushFrames
    BY <1>0, <1>a DEF PushLink, TypeOK
  <1>2. /\ jobs'[p] = Append(jobs[p], j) /\ linked'[p] = Append(linked[p], j)
        /\ \A q \in Queues \ {p} : jobs'[q] = jobs[q] /\ linked'[q] = linked[q]
        /\ UNCHANGED <<jobCount, globalQueue, current, exec, batch, size, done>>
    BY <1>0, <1>1 DEF PushLink, TypeOK
  <1>3. /\ push'[t] \in PushFrames
        /\ push'[t].stage = IF push[t].prevCount = 0 THEN "dispatch" ELSE "none"
        /\ push[t].prevCount = 0 => /\ push'[t].queue = p
                                    /\ push'[t].job = j
                                    /\ push'[t].prevCount = 0
        /\ \A u \in Threads \ {t} : push'[u] = push[u]
    <2>1. push' = [push EXCEPT ![t] = IF push[t].prevCount = 0
                                       THEN [push[t] EXCEPT !.stage = "dispatch"]
                                       ELSE NoPush]
      BY DEF PushLink
    <2>2. push'[t] = IF push[t].prevCount = 0
                       THEN [push[t] EXCEPT !.stage = "dispatch"]
                       ELSE NoPush
      BY <1>0, <2>1 DEF TypeOK
    <2>3. CASE push[t].prevCount = 0
      <3>1. push'[t] = [push[t] EXCEPT !.stage = "dispatch"]
        BY <2>2, <2>3
      <3>. QED
        BY <1>0, <1>1, <2>1, <2>3, <3>1 DEF TypeOK, PushFrames
    <2>4. CASE push[t].prevCount # 0
      BY <1>0, <2>1, <2>2, <2>4 DEF TypeOK, PushFrames, NoPush
    <2>. QED
      BY <2>3, <2>4
  <1>4. TypeOK'
    <2>1. jobs' \in [Queues -> Seq(Jobs)] /\ linked' \in [Queues -> Seq(Jobs)]
      BY <1>0, <1>1, AppendProperties DEF PushLink, TypeOK
    <2>2. push' \in [Threads -> PushFrames]
      BY <1>0, <1>3 DEF PushLink, TypeOK
    <2>. QED
      BY <1>0, <2>1, <2>2 DEF PushLink, TypeOK
  <1>5. LocalInv'
    BY <1>0, <1>1, <1>2, <1>3 DEF LocalInv
  <1>6. KeeperInv'
    <2>1. \A q \in Queues, u \in Threads :
              FirstPusher(u, q)' <=> FirstPusher(u, q)
      BY <1>1, <1>3 DEF FirstPusher
    <2>. QED
      BY <1>0, <1>2, <2>1
         DEF KeeperInv, KeeperAt, HasPusher, HasExecutor, IsGlobal
  <1>7. CountInv'
    <2>1. Cardinality(Linkers(p)') = Cardinality(Linkers(p)) - 1
      <3>1. t \in Linkers(p)
        BY <1>1 DEF Linkers
      <3>. QED
        BY <1>1, <1>3, <3>1, LinkerLeaves
    <2>2. \A q \in Queues \ {p} : Linkers(q)' = Linkers(q)
      BY <1>1, <1>3 DEF Linkers
    <2>3. Len(jobs'[p]) = Len(jobs[p]) + 1
      BY <1>0, <1>1, <1>2, AppendProperties DEF TypeOK
    <2>4. Len(jobs[p]) \in Nat /\ Cardinality(Linkers(p)) \in Nat
      BY <1>0, <1>1, LinkersFinite, LenProperties DEF TypeOK
    <2>5. /\ Len(jobs'[p]) + Cardinality(Linkers(p)')
                 = Len(jobs[p]) + Cardinality(Linkers(p))
      BY <2>1, <2>3, <2>4
    <2>6. CountAt(p)'
      BY <1>0, <1>1, <1>2, <2>5 DEF CountInv, CountAt, HasExecutor
    <2>7. ASSUME NEW q \in Queues \ {p} PROVE CountAt(q)'
      BY <1>0, <1>2, <2>2 DEF CountInv, CountAt, HasExecutor
    <2>. QED
      BY <1>1, <2>6, <2>7 DEF CountInv
  <1>8. OrderInv'
    <2>0. j \in Jobs
      BY <1>1
    <2>1. ASSUME NEW u \in Threads, current[u] = p
          PROVE  linked'[p] = (done[p] \o batch[u]) \o jobs'[p]
      <3>1. /\ done[p] \o batch[u] \in Seq(Jobs) /\ jobs[p] \in Seq(Jobs)
            /\ linked[p] = (done[p] \o batch[u]) \o jobs[p]
        BY <1>0, <1>1, <2>1, ConcatProperties DEF TypeOK, OrderInv, OrderAt
      <3>2. \A a, b \in Seq(Jobs) : a \o Append(b, j) = Append(a \o b, j)
        BY <2>0, AppendOutside
      <3>. QED
        BY <1>2, <3>1, <3>2
    <2>2. ASSUME ~HasExecutor(p)
          PROVE  linked'[p] = done[p] \o jobs'[p]
      <3>1. /\ done[p] \in Seq(Jobs) /\ jobs[p] \in Seq(Jobs)
            /\ linked[p] = done[p] \o jobs[p]
        BY <1>0, <1>1, <2>2 DEF TypeOK, OrderInv, OrderAt
      <3>2. \A a, b \in Seq(Jobs) : a \o Append(b, j) = Append(a \o b, j)
        BY <2>0, AppendOutside
      <3>. QED
        BY <1>2, <3>1, <3>2
    <2>3. OrderAt(p)'
      BY <1>2, <2>1, <2>2 DEF OrderAt, HasExecutor
    <2>4. ASSUME NEW q \in Queues \ {p} PROVE OrderAt(q)'
      BY <1>0, <1>2 DEF OrderInv, OrderAt, HasExecutor
    <2>. QED
      BY <2>3, <2>4 DEF OrderInv
  <1>. QED
    BY <1>4, <1>5, <1>6, <1>7, <1>8 DEF IInv

\* The first pusher becomes the executor.
LEMMA PushExecuteInv ==
    ASSUME IInv, NEW t \in Threads, PushExecute(t)
    PROVE  IInv'
  <1>0. TypeOK /\ LocalInv /\ KeeperInv /\ CountInv /\ OrderInv
    BY DEF IInv
  <1>a. PICK p \in Queues : p = push[t].queue
    BY <1>0 DEF PushExecute, LocalInv
  <1>1. /\ p \in Queues /\ p = push[t].queue /\ p # NoQueue /\ FirstPusher(t, p)
        /\ exec[t] = "none" /\ size[t] = 0 /\ batch[t] = <<>>
    BY <1>0, <1>a, JobQueueAssumption DEF PushExecute, LocalInv, FirstPusher
  <1>2. /\ current'[t] = p /\ current[t] = NoQueue
        /\ \A u \in Threads \ {t} : current'[u] = current[u] /\ push'[u] = push[u]
        /\ push'[t] = NoPush
        /\ UNCHANGED <<jobCount, jobs, globalQueue, batch, size, linked, done>>
    BY <1>0, <1>1 DEF PushExecute, StartExecute, TypeOK
  <1>3. TypeOK'
    BY <1>0, <1>1 DEF PushExecute, StartExecute, TypeOK, PushFrames, NoPush
  <1>4. LocalInv'
    BY <1>0, <1>1 DEF PushExecute, StartExecute, TypeOK, LocalInv, NoPush
  <1>5. KeeperAt(p) /\ ~HasExecutor(p) /\ ~IsGlobal(p) /\ jobCount[p] # 0
    BY <1>0, <1>1 DEF KeeperInv, KeeperAt, HasPusher
  <1>6. KeeperInv'
    <2>1. /\ \A q \in Queues : ~FirstPusher(t, q)'
          /\ \A q \in Queues \ {p} : ~FirstPusher(t, q)
          /\ \A q \in Queues, u \in Threads \ {t} :
                 FirstPusher(u, q)' <=> FirstPusher(u, q)
      BY <1>1, <1>2 DEF FirstPusher, NoPush
    <2>2. HasExecutor(p)' /\ ~HasPusher(p)' /\ ~IsGlobal(p)'
      BY <1>1, <1>2, <1>5, <2>1
         DEF KeeperAt, HasExecutor, HasPusher, IsGlobal
    <2>3. KeeperAt(p)'
      BY <1>1, <1>2, <1>5, <2>1, <2>2
         DEF KeeperAt, HasExecutor, HasPusher
    <2>4. ASSUME NEW q \in Queues \ {p} PROVE KeeperAt(q)'
      <3>1. q # NoQueue /\ KeeperAt(q)
        BY <1>0, JobQueueAssumption DEF KeeperInv
      <3>. QED
        BY <1>2, <2>1, <3>1 DEF KeeperAt, HasExecutor, HasPusher, IsGlobal
    <2>. QED
      BY <2>3, <2>4 DEF KeeperInv
  <1>7. CountInv'
    <2>1. \A q \in Queues : Linkers(q)' = Linkers(q)
      BY <1>2 DEF PushExecute, Linkers, NoPush
    <2>2. Len(jobs[p]) \in Nat /\ Cardinality(Linkers(p)) \in Nat
      BY <1>0, <1>1, LinkersFinite, LenProperties DEF TypeOK
    <2>3. CountAt(p)'
      BY <1>0, <1>1, <1>2, <1>5, <2>1, <2>2
         DEF CountInv, CountAt, HasExecutor
    <2>4. ASSUME NEW q \in Queues \ {p} PROVE CountAt(q)'
      BY <1>0, <1>2, <2>1, JobQueueAssumption
         DEF CountInv, CountAt, HasExecutor
    <2>. QED
      BY <2>3, <2>4 DEF CountInv
  <1>8. OrderInv'
    <2>1. (done[p] \o batch[t]) = done[p]
      BY <1>0, <1>1, ConcatEmptySeq DEF TypeOK
    <2>2. OrderAt(p)'
      BY <1>0, <1>1, <1>2, <1>5, <2>1 DEF OrderInv, OrderAt, HasExecutor
    <2>3. ASSUME NEW q \in Queues \ {p} PROVE OrderAt(q)'
      <3>1. q # NoQueue /\ OrderAt(q)
        BY <1>0, JobQueueAssumption DEF OrderInv
      <3>2. \A u \in Threads : current'[u] = q <=> current[u] = q
        BY <1>2, <3>1
      <3>3. HasExecutor(q)' <=> HasExecutor(q)
        BY <3>2 DEF HasExecutor
      <3>. QED
        BY <1>2, <3>1, <3>2, <3>3 DEF OrderAt
    <2>. QED
      BY <2>2, <2>3 DEF OrderInv
  <1>. QED
    BY <1>3, <1>4, <1>6, <1>7, <1>8 DEF IInv

\* The first pusher leaves the queue in the GlobalQueue.
LEMMA PushGlobalInv ==
    ASSUME IInv, NEW t \in Threads, PushGlobal(t)
    PROVE  IInv'
  <1>0. TypeOK /\ LocalInv /\ KeeperInv /\ CountInv /\ OrderInv
    BY DEF IInv
  <1>a. PICK p \in Queues : p = push[t].queue
    BY <1>0 DEF PushGlobal, LocalInv
  <1>1. p \in Queues /\ p = push[t].queue /\ FirstPusher(t, p)
    BY <1>0, <1>a DEF PushGlobal, LocalInv, FirstPusher
  <1>2. /\ \A u \in Threads \ {t} : push'[u] = push[u]
        /\ push'[t] = NoPush
        /\ globalQueue' = Append(globalQueue, p)
        /\ UNCHANGED <<jobCount, jobs, current, exec, batch, size, linked, done>>
    BY <1>0, <1>1 DEF PushGlobal, TypeOK
  <1>3. TypeOK'
    BY <1>0, <1>1, <1>2, GlobalAppend
       DEF PushGlobal, TypeOK, PushFrames, NoPush
  <1>4. LocalInv'
    BY <1>0, <1>2 DEF LocalInv, NoPush
  <1>5. KeeperAt(p) /\ ~HasExecutor(p) /\ ~IsGlobal(p) /\ jobCount[p] # 0
    BY <1>0, <1>1 DEF KeeperInv, KeeperAt, HasPusher
  <1>6. KeeperInv'
    <2>1. /\ \A q \in Queues : ~FirstPusher(t, q)'
          /\ \A q \in Queues \ {p} : ~FirstPusher(t, q)
          /\ \A q \in Queues, u \in Threads \ {t} :
                 FirstPusher(u, q)' <=> FirstPusher(u, q)
      BY <1>1, <1>2 DEF FirstPusher, NoPush
    <2>2. IsGlobal(p)' /\ ~HasPusher(p)' /\ ~HasExecutor(p)'
      <3>1. IsGlobal(p)'
        BY <1>0, <1>1, <1>2, <1>5, GlobalEnters DEF TypeOK
      <3>. QED
        BY <1>1, <1>2, <1>5, <2>1, <3>1 DEF KeeperAt, HasExecutor, HasPusher
    <2>3. \A i, k \in 1..Len(globalQueue') :
              globalQueue'[i] = p /\ globalQueue'[k] = p => i = k
      BY <1>0, <1>1, <1>2, <1>5, GlobalEnters DEF TypeOK
    <2>4. KeeperAt(p)'
      BY <1>2, <1>5, <2>1, <2>2, <2>3 DEF KeeperAt, HasPusher, HasExecutor
    <2>5. ASSUME NEW q \in Queues \ {p} PROVE KeeperAt(q)'
      <3>1. KeeperAt(q)
        BY <1>0 DEF KeeperInv
      <3>2. /\ IsGlobal(q)' <=> IsGlobal(q)
            /\ \A i, k \in 1..Len(globalQueue') :
                   globalQueue'[i] = q /\ globalQueue'[k] = q => i = k
        <4>1. \A i, k \in 1..Len(globalQueue) :
                  globalQueue[i] = q /\ globalQueue[k] = q => i = k
          BY <3>1 DEF KeeperAt
        <4>2. globalQueue \in Seq(Queues) /\ globalQueue' = Append(globalQueue, p)
          BY <1>0, <1>2 DEF TypeOK
        <4>. QED
          BY <1>1, <4>1, <4>2, GlobalKeeps
      <3>. QED
        BY <1>2, <2>1, <3>1, <3>2 DEF KeeperAt, HasExecutor, HasPusher
    <2>. QED
      BY <2>4, <2>5 DEF KeeperInv
  <1>7. CountInv'
    <2>1. \A q \in Queues : Linkers(q)' = Linkers(q)
      BY <1>2 DEF PushGlobal, Linkers, NoPush
    <2>. QED
      BY <1>0, <1>2, <2>1 DEF CountInv, CountAt, HasExecutor
  <1>8. OrderInv'
    BY <1>0, <1>2 DEF OrderInv, OrderAt, HasExecutor
  <1>. QED
    BY <1>3, <1>4, <1>6, <1>7, <1>8 DEF IInv

\* A job moves from _jobs to the executor's batch.
LEMMA PopOneInv ==
    ASSUME IInv, NEW t \in Threads, PopOne(t)
    PROVE  IInv'
  <1>0. TypeOK /\ LocalInv /\ KeeperInv /\ CountInv /\ OrderInv
    BY DEF IInv
  <1>a. PICK p \in Queues : p = current[t]
    BY <1>0 DEF PopOne, LocalInv, TypeOK
  <1>1. p \in Queues /\ p = current[t] /\ exec[t] = "popAll" /\ jobs[p] # <<>>
    BY <1>a DEF PopOne
  <1>2. /\ batch'[t] = Append(batch[t], Head(jobs[p]))
        /\ size'[t] = size[t] + 1
        /\ jobs'[p] = Tail(jobs[p])
        /\ \A u \in Threads \ {t} : batch'[u] = batch[u] /\ size'[u] = size[u]
        /\ \A q \in Queues \ {p} : jobs'[q] = jobs[q]
        /\ UNCHANGED <<jobCount, globalQueue, current, push, exec, linked, done>>
    BY <1>0, <1>1 DEF PopOne, TypeOK
  <1>3. /\ batch[t] \in Seq(Jobs) /\ jobs[p] \in Seq(Jobs) /\ done[p] \in Seq(Jobs)
        /\ Head(jobs[p]) \in Jobs /\ Tail(jobs[p]) \in Seq(Jobs)
        /\ Append(batch[t], Head(jobs[p])) \in Seq(Jobs)
    BY <1>0, <1>1, MoveHead DEF TypeOK
  <1>4. TypeOK'
    BY <1>0, <1>1, <1>3 DEF PopOne, TypeOK
  <1>5. LocalInv'
    BY <1>0, <1>1, <1>2 DEF LocalInv
  <1>6. KeeperInv'
    BY <1>0, <1>2
       DEF KeeperInv, KeeperAt, HasPusher, FirstPusher, HasExecutor, IsGlobal
  <1>7. \A u \in Threads \ {t} : current[u] # p
    BY <1>0, <1>1 DEF KeeperInv, KeeperAt
  <1>8. CountInv'
    <2>1. \A q \in Queues : Linkers(q)' = Linkers(q)
      BY <1>2 DEF Linkers
    <2>2. Len(jobs'[p]) = Len(jobs[p]) - 1 /\ Len(jobs[p]) \in Nat
      BY <1>1, <1>2, <1>3, HeadTailProperties, LenProperties
    <2>3. Cardinality(Linkers(p)) \in Nat /\ size[t] \in Nat
      BY <1>0, LinkersFinite DEF TypeOK
    <2>4. jobCount[p] = Len(jobs[p]) + Cardinality(Linkers(p)) + size[t]
      BY <1>0, <1>1 DEF CountInv, CountAt
    <2>5. jobCount'[p] = Len(jobs'[p]) + Cardinality(Linkers(p)') + size'[t]
      <3>1. Cardinality(Linkers(p)') = Cardinality(Linkers(p))
        BY <1>1, <2>1
      <3>2. jobCount'[p] = jobCount[p] /\ size'[t] = size[t] + 1
        BY <1>2
      <3>. QED
        BY <2>2, <2>3, <2>4, <3>1, <3>2
    <2>6. CountAt(p)'
      BY <1>1, <1>2, <1>7, <2>5 DEF CountAt, HasExecutor
    <2>7. ASSUME NEW q \in Queues \ {p} PROVE CountAt(q)'
      BY <1>0, <1>1, <1>2, <2>1 DEF CountInv, CountAt, HasExecutor
    <2>. QED
      BY <2>6, <2>7 DEF CountInv
  <1>9. OrderInv'
    <2>1. linked[p] = (done[p] \o batch[t]) \o jobs[p]
      BY <1>0, <1>1 DEF OrderInv, OrderAt
    <2>2. done[p] \o batch[t] \in Seq(Jobs)
      BY <1>3, ConcatProperties
    <2>3. Append(done[p] \o batch[t], Head(jobs[p])) \o Tail(jobs[p])
              = (done[p] \o batch[t]) \o jobs[p]
      <3>1. \A a, b \in Seq(Jobs) :
                b # <<>> => Append(a, Head(b)) \o Tail(b) = a \o b
        BY MoveHead
      <3>. QED
        BY <1>1, <1>3, <2>2, <3>1
    <2>4. done[p] \o Append(batch[t], Head(jobs[p]))
              = Append(done[p] \o batch[t], Head(jobs[p]))
      <3>1. \A a, b \in Seq(Jobs), h \in Jobs :
                a \o Append(b, h) = Append(a \o b, h)
        BY AppendOutside
      <3>. QED
        BY <1>3, <3>1
    <2>5. linked'[p] = (done'[p] \o batch'[t]) \o jobs'[p]
      BY <1>1, <1>2, <2>1, <2>3, <2>4
    <2>6. OrderAt(p)'
      BY <1>1, <1>2, <1>7, <2>5 DEF OrderAt, HasExecutor
    <2>7. ASSUME NEW q \in Queues \ {p} PROVE OrderAt(q)'
      <3>1. OrderAt(q) /\ (HasExecutor(q)' <=> HasExecutor(q))
        BY <1>0, <1>2 DEF OrderInv, HasExecutor
      <3>2. \A u \in Threads : current[u] = q => batch'[u] = batch[u]
        BY <1>1, <1>2
      <3>3. UNCHANGED <<linked[q], done[q], jobs[q], current>>
        BY <1>2
      <3>. QED
        BY <3>1, <3>2, <3>3 DEF OrderAt
    <2>. QED
      BY <2>6, <2>7 DEF OrderInv
  <1>. QED
    BY <1>4, <1>5, <1>6, <1>8, <1>9 DEF IInv

\* Only the executor's place changes.
LEMMA PopEndInv ==
    ASSUME IInv, NEW t \in Threads, PopEnd(t) \/ NextRound(t)
    PROVE  IInv'
  <1>0. TypeOK /\ LocalInv /\ KeeperInv /\ CountInv /\ OrderInv
    BY DEF IInv
  <1>1. /\ exec[t] # "none" /\ exec'[t] # "none" /\ exec'[t] # "tick"
        /\ exec' \in [Threads -> {"none", "popAll", "run", "tick"}]
        /\ exec'[t] = "popAll" => exec[t] = "tick"
        /\ \A u \in Threads \ {t} : exec'[u] = exec[u]
        /\ UNCHANGED <<jobCount, jobs, globalQueue, current, push, batch,
                       size, fresh, linked, done>>
    BY <1>0 DEF PopEnd, NextRound, TypeOK
  <1>2. TypeOK'
    BY <1>0, <1>1 DEF TypeOK
  <1>3. LocalInv'
    BY <1>0, <1>1 DEF LocalInv
  <1>4. KeeperInv'
    BY <1>0, <1>1
       DEF KeeperInv, KeeperAt, HasPusher, FirstPusher, HasExecutor, IsGlobal
  <1>5. CountInv'
    <2>1. \A q \in Queues : Linkers(q)' = Linkers(q)
      BY <1>1 DEF Linkers
    <2>. QED
      BY <1>0, <1>1, <2>1 DEF CountInv, CountAt, HasExecutor
  <1>6. OrderInv'
    BY <1>0, <1>1 DEF OrderInv, OrderAt, HasExecutor
  <1>. QED
    BY <1>2, <1>3, <1>4, <1>5, <1>6 DEF IInv

\* A job moves from the batch to the jobs that have run.
LEMMA RunJobInv ==
    ASSUME IInv, NEW t \in Threads, RunJob(t)
    PROVE  IInv'
  <1>0. TypeOK /\ LocalInv /\ KeeperInv /\ CountInv /\ OrderInv
    BY DEF IInv
  <1>a. PICK p \in Queues : p = current[t]
    BY <1>0 DEF RunJob, LocalInv, TypeOK
  <1>1. p \in Queues /\ p = current[t] /\ exec[t] = "run" /\ batch[t] # <<>>
    BY <1>a DEF RunJob
  <1>2. /\ batch'[t] = Tail(batch[t])
        /\ done'[p] = Append(done[p], Head(batch[t]))
        /\ \A u \in Threads \ {t} : batch'[u] = batch[u]
        /\ \A q \in Queues \ {p} : done'[q] = done[q]
        /\ UNCHANGED <<jobCount, jobs, globalQueue, current, push, exec, size,
                       linked>>
    BY <1>0, <1>1 DEF RunJob, TypeOK
  <1>3. /\ batch[t] \in Seq(Jobs) /\ done[p] \in Seq(Jobs)
        /\ Tail(batch[t]) \in Seq(Jobs)
        /\ Append(done[p], Head(batch[t])) \in Seq(Jobs)
        /\ Append(done[p], Head(batch[t])) \o Tail(batch[t])
               = done[p] \o batch[t]
    <2>1. batch[t] \in Seq(Jobs) /\ done[p] \in Seq(Jobs)
      BY <1>0, <1>1 DEF TypeOK
    <2>2. Tail(batch[t]) \in Seq(Jobs) /\ Head(batch[t]) \in Jobs
      BY <1>1, <2>1, HeadTailProperties
    <2>3. Append(done[p], Head(batch[t])) \in Seq(Jobs)
      BY <2>1, <2>2, AppendProperties
    <2>4. \A a, b \in Seq(Jobs) :
              b # <<>> => Append(a, Head(b)) \o Tail(b) = a \o b
      BY MoveHead
    <2>. QED
      BY <1>1, <2>1, <2>2, <2>3, <2>4
  <1>4. TypeOK'
    BY <1>0, <1>1, <1>3 DEF RunJob, TypeOK
  <1>5. LocalInv'
    BY <1>0, <1>1, <1>2 DEF LocalInv
  <1>6. KeeperInv'
    BY <1>0, <1>2
       DEF KeeperInv, KeeperAt, HasPusher, FirstPusher, HasExecutor, IsGlobal
  <1>7. \A u \in Threads \ {t} : current[u] # p
    BY <1>0, <1>1 DEF KeeperInv, KeeperAt
  <1>8. CountInv'
    <2>1. \A q \in Queues : Linkers(q)' = Linkers(q)
      BY <1>2 DEF Linkers
    <2>. QED
      BY <1>0, <1>2, <2>1 DEF CountInv, CountAt, HasExecutor
  <1>9. OrderInv'
    <2>1. linked[p] = (done[p] \o batch[t]) \o jobs[p]
      BY <1>0, <1>1 DEF OrderInv, OrderAt
    <2>2. linked'[p] = (done'[p] \o batch'[t]) \o jobs'[p]
      BY <1>2, <1>3, <2>1
    <2>3. OrderAt(p)'
      BY <1>1, <1>2, <1>7, <2>2 DEF OrderAt, HasExecutor
    <2>4. ASSUME NEW q \in Queues \ {p} PROVE OrderAt(q)'
      BY <1>0, <1>1, <1>2 DEF OrderInv, OrderAt, HasExecutor
    <2>. QED
      BY <2>3, <2>4 DEF OrderInv
  <1>. QED
    BY <1>4, <1>5, <1>6, <1>8, <1>9 DEF IInv

\* The executor leaves exactly when it ran the last counted job.
LEMMA SubtractInv ==
    ASSUME IInv, NEW t \in Threads, Subtract(t)
    PROVE  IInv'
  <1>0. TypeOK /\ LocalInv /\ KeeperInv /\ CountInv /\ OrderInv
    BY DEF IInv
  <1>a. PICK p \in Queues : p = current[t]
    BY <1>0 DEF Subtract, LocalInv, TypeOK
  <1>1. /\ p \in Queues /\ p # NoQueue /\ p = current[t]
        /\ exec[t] = "run" /\ batch[t] = <<>> /\ push[t].stage = "none"
    BY <1>a, JobQueueAssumption DEF Subtract, Free
  <1>2. /\ jobCount'[p] = jobCount[p] - size[t]
        /\ \A q \in Queues \ {p} : jobCount'[q] = jobCount[q]
        /\ size'[t] = 0
        /\ \A u \in Threads \ {t} :
               /\ size'[u] = size[u] /\ current'[u] = current[u]
               /\ exec'[u] = exec[u]
        /\ UNCHANGED <<jobs, globalQueue, push, batch, linked, done>>
    BY <1>0, <1>1 DEF Subtract, TypeOK
  <1>3. /\ jobCount[p] = size[t] => exec'[t] = "none" /\ current'[t] = NoQueue
        /\ jobCount[p] # size[t] => exec'[t] = "tick" /\ current'[t] = p
    BY <1>0, <1>1 DEF Subtract, TypeOK
  <1>4. /\ Len(jobs[p]) \in Nat /\ Cardinality(Linkers(p)) \in Nat
        /\ size[t] \in Nat /\ jobCount[p] \in Nat
        /\ jobCount[p] = Len(jobs[p]) + Cardinality(Linkers(p)) + size[t]
        /\ jobCount[p] - size[t] = Len(jobs[p]) + Cardinality(Linkers(p))
        /\ jobCount[p] - size[t] \in Nat
    <2>1. /\ Len(jobs[p]) \in Nat /\ Cardinality(Linkers(p)) \in Nat
          /\ size[t] \in Nat /\ jobCount[p] \in Nat
      BY <1>0, <1>1, LinkersFinite, LenProperties DEF TypeOK
    <2>2. jobCount[p] = Len(jobs[p]) + Cardinality(Linkers(p)) + size[t]
      BY <1>0, <1>1 DEF CountInv, CountAt
    <2>. QED
      BY <2>1, <2>2
  <1>5. TypeOK'
    BY <1>0, <1>1, <1>4 DEF Subtract, TypeOK
  <1>6. LocalInv'
    BY <1>0, <1>1, <1>2, <1>3 DEF LocalInv
  <1>7. KeeperAt(p) /\ \A u \in Threads \ {t} : current[u] # p
    BY <1>0, <1>1 DEF KeeperInv, KeeperAt
  <1>8. ~HasPusher(p) /\ ~IsGlobal(p)
    BY <1>1, <1>7 DEF KeeperAt, HasExecutor
  <1>9. KeeperInv'
    <2>1. /\ \A q \in Queues : HasPusher(q)' <=> HasPusher(q)
          /\ \A q \in Queues : IsGlobal(q)' <=> IsGlobal(q)
      BY <1>2 DEF HasPusher, FirstPusher, IsGlobal
    <2>2. HasExecutor(p)' <=> jobCount[p] # size[t]
      BY <1>1, <1>2, <1>3, <1>7 DEF HasExecutor
    <2>3. jobCount'[p] # 0 <=> jobCount[p] # size[t]
      BY <1>2, <1>4
    <2>4. KeeperAt(p)'
      BY <1>1, <1>2, <1>3, <1>7, <1>8, <2>1, <2>2, <2>3
         DEF KeeperAt, FirstPusher
    <2>5. ASSUME NEW q \in Queues \ {p} PROVE KeeperAt(q)'
      <3>1. q # NoQueue /\ q # p /\ KeeperAt(q)
        BY <1>0, JobQueueAssumption DEF KeeperInv
      <3>2. \A u \in Threads : current'[u] = q <=> current[u] = q
        BY <1>1, <1>2, <1>3, <3>1
      <3>3. HasExecutor(q)' <=> HasExecutor(q)
        BY <3>2 DEF HasExecutor
      <3>. QED
        BY <1>2, <2>1, <3>1, <3>2, <3>3 DEF KeeperAt, FirstPusher
    <2>. QED
      BY <2>4, <2>5 DEF KeeperInv
  <1>10. CountInv'
    <2>1. \A q \in Queues : Linkers(q)' = Linkers(q)
      BY <1>2 DEF Linkers
    <2>2. /\ jobCount'[p] = Len(jobs'[p]) + Cardinality(Linkers(p)')
          /\ jobCount'[p] = Len(jobs'[p]) + Cardinality(Linkers(p)') + size'[t]
      <3>1. Cardinality(Linkers(p)') = Cardinality(Linkers(p))
        BY <1>1, <2>1
      <3>2. /\ jobCount'[p] = jobCount[p] - size[t] /\ jobs'[p] = jobs[p]
            /\ size'[t] = 0
        BY <1>2
      <3>. QED
        BY <1>4, <3>1, <3>2
    <2>3. CountAt(p)'
      BY <1>1, <1>2, <1>7, <2>2 DEF CountAt
    <2>4. ASSUME NEW q \in Queues \ {p} PROVE CountAt(q)'
      <3>1. \A u \in Threads : current'[u] = q <=> current[u] = q
        BY <1>1, <1>2, <1>3, JobQueueAssumption
      <3>. QED
        BY <1>0, <1>1, <1>2, <2>1, <3>1 DEF CountInv, CountAt, HasExecutor
    <2>. QED
      BY <2>3, <2>4 DEF CountInv
  <1>11. OrderInv'
    <2>1. done[p] \o batch[t] = done[p]
      BY <1>0, <1>1, ConcatEmptySeq DEF TypeOK
    <2>2. linked[p] = (done[p] \o batch[t]) \o jobs[p]
      BY <1>0, <1>1 DEF OrderInv, OrderAt
    <2>3. OrderAt(p)'
      BY <1>1, <1>2, <1>7, <2>1, <2>2 DEF OrderAt
    <2>4. ASSUME NEW q \in Queues \ {p} PROVE OrderAt(q)'
      <3>1. \A u \in Threads : current'[u] = q <=> current[u] = q
        BY <1>1, <1>2, <1>3, JobQueueAssumption
      <3>. QED
        BY <1>0, <1>2, <3>1 DEF OrderInv, OrderAt, HasExecutor
    <2>. QED
      BY <2>3, <2>4 DEF OrderInv
  <1>. QED
    BY <1>5, <1>6, <1>9, <1>10, <1>11 DEF IInv

\* The executor puts the queue it has not finished into the GlobalQueue.
LEMMA HandOffInv ==
    ASSUME IInv, NEW t \in Threads, HandOff(t)
    PROVE  IInv'
  <1>0. TypeOK /\ LocalInv /\ KeeperInv /\ CountInv /\ OrderInv
    BY DEF IInv
  <1>a. PICK p \in Queues : p = current[t]
    BY <1>0 DEF HandOff, LocalInv, TypeOK
  <1>1. /\ p \in Queues /\ p # NoQueue /\ p = current[t]
        /\ exec[t] = "tick" /\ size[t] = 0 /\ batch[t] = <<>>
    BY <1>0, <1>a, JobQueueAssumption DEF HandOff, LocalInv
  <1>2. /\ exec'[t] = "none" /\ current'[t] = NoQueue
        /\ \A u \in Threads \ {t} :
               exec'[u] = exec[u] /\ current'[u] = current[u]
        /\ globalQueue' = Append(globalQueue, p)
        /\ UNCHANGED <<jobCount, jobs, push, batch, size, linked, done>>
    BY <1>0, <1>1 DEF HandOff, TypeOK
  <1>3. TypeOK'
    BY <1>0, <1>1, <1>2, GlobalAppend DEF HandOff, TypeOK
  <1>4. LocalInv'
    BY <1>0, <1>1, <1>2 DEF LocalInv
  <1>5. /\ KeeperAt(p) /\ ~HasPusher(p) /\ ~IsGlobal(p) /\ jobCount[p] # 0
        /\ \A u \in Threads \ {t} : current[u] # p
    BY <1>0, <1>1 DEF KeeperInv, KeeperAt, HasExecutor
  <1>6. \A q \in Queues \ {p}, u \in Threads : current'[u] = q <=> current[u] = q
    BY <1>1, <1>2, JobQueueAssumption
  <1>7. KeeperInv'
    <2>1. \A q \in Queues : HasPusher(q)' <=> HasPusher(q)
      BY <1>2 DEF HasPusher, FirstPusher
    <2>2. /\ IsGlobal(p)'
          /\ \A i, k \in 1..Len(globalQueue') :
                 globalQueue'[i] = p /\ globalQueue'[k] = p => i = k
      BY <1>0, <1>1, <1>2, <1>5, GlobalEnters DEF TypeOK
    <2>3. ~HasExecutor(p)'
      BY <1>1, <1>2, <1>5 DEF HasExecutor
    <2>4. KeeperAt(p)'
      BY <1>2, <1>5, <2>1, <2>2, <2>3
         DEF KeeperAt, FirstPusher, HasExecutor
    <2>5. ASSUME NEW q \in Queues \ {p} PROVE KeeperAt(q)'
      <3>1. KeeperAt(q)
        BY <1>0 DEF KeeperInv
      <3>2. /\ IsGlobal(q)' <=> IsGlobal(q)
            /\ \A i, k \in 1..Len(globalQueue') :
                   globalQueue'[i] = q /\ globalQueue'[k] = q => i = k
        <4>1. \A i, k \in 1..Len(globalQueue) :
                  globalQueue[i] = q /\ globalQueue[k] = q => i = k
          BY <3>1 DEF KeeperAt
        <4>2. globalQueue \in Seq(Queues) /\ globalQueue' = Append(globalQueue, p)
          BY <1>0, <1>2 DEF TypeOK
        <4>. QED
          BY <1>1, <4>1, <4>2, GlobalKeeps
      <3>3. HasExecutor(q)' <=> HasExecutor(q)
        BY <1>6 DEF HasExecutor
      <3>. QED
        BY <1>2, <1>6, <2>1, <3>1, <3>2, <3>3 DEF KeeperAt, FirstPusher
    <2>. QED
      BY <2>4, <2>5 DEF KeeperInv
  <1>8. CountInv'
    <2>1. \A q \in Queues : Linkers(q)' = Linkers(q)
      BY <1>2 DEF Linkers
    <2>2. jobCount'[p] = Len(jobs'[p]) + Cardinality(Linkers(p)')
      <3>1. Cardinality(Linkers(p)') = Cardinality(Linkers(p))
        BY <1>1, <2>1
      <3>2. jobCount[p] = Len(jobs[p]) + Cardinality(Linkers(p)) + size[t]
        BY <1>0, <1>1 DEF CountInv, CountAt
      <3>3. Len(jobs[p]) \in Nat /\ Cardinality(Linkers(p)) \in Nat
        BY <1>0, <1>1, LinkersFinite, LenProperties DEF TypeOK
      <3>. QED
        BY <1>1, <1>2, <3>1, <3>2, <3>3
    <2>3. CountAt(p)'
      BY <1>1, <1>2, <1>5, <2>2 DEF CountAt
    <2>4. ASSUME NEW q \in Queues \ {p} PROVE CountAt(q)'
      BY <1>0, <1>2, <1>6, <2>1 DEF CountInv, CountAt, HasExecutor
    <2>. QED
      BY <2>3, <2>4 DEF CountInv
  <1>9. OrderInv'
    <2>1. done[p] \o batch[t] = done[p]
      BY <1>0, <1>1, ConcatEmptySeq DEF TypeOK
    <2>2. linked[p] = (done[p] \o batch[t]) \o jobs[p]
      BY <1>0, <1>1 DEF OrderInv, OrderAt
    <2>3. OrderAt(p)'
      BY <1>1, <1>2, <1>5, <2>1, <2>2 DEF OrderAt
    <2>4. ASSUME NEW q \in Queues \ {p} PROVE OrderAt(q)'
      BY <1>0, <1>2, <1>6 DEF OrderInv, OrderAt, HasExecutor
    <2>. QED
      BY <2>3, <2>4 DEF OrderInv
  <1>. QED
    BY <1>3, <1>4, <1>7, <1>8, <1>9 DEF IInv

\* A worker takes the queue at the head of the GlobalQueue.
LEMMA DoGlobalQueueWorkInv ==
    ASSUME IInv, NEW t \in Threads, DoGlobalQueueWork(t)
    PROVE  IInv'
  <1>0. TypeOK /\ LocalInv /\ KeeperInv /\ CountInv /\ OrderInv
    BY DEF IInv
  <1>g. /\ globalQueue' = Tail(globalQueue)
        /\ globalQueue' \in Seq(Queues)
        /\ Len(globalQueue) \in Nat \ {0}
        /\ Len(globalQueue') = Len(globalQueue) - 1
        /\ \A i \in 1..Len(globalQueue') : globalQueue'[i] = globalQueue[i + 1]
        /\ Head(globalQueue) = globalQueue[1]
        /\ Head(globalQueue) \in Queues
    <2>1. /\ globalQueue \in Seq(Queues) /\ globalQueue # <<>>
          /\ globalQueue' = Tail(globalQueue)
      BY <1>0 DEF DoGlobalQueueWork, TypeOK
    <2>. QED
      BY <2>1, GlobalTail
  <1>a. PICK p \in Queues : p = Head(globalQueue)
    BY <1>g
  <1>1. /\ p \in Queues /\ p # NoQueue /\ p = globalQueue[1]
        /\ 1 \in 1..Len(globalQueue)
        /\ exec[t] = "none" /\ current[t] = NoQueue /\ push[t].stage = "none"
        /\ size[t] = 0 /\ batch[t] = <<>>
    BY <1>0, <1>a, <1>g, JobQueueAssumption
       DEF DoGlobalQueueWork, LocalInv, Free
  <1>2. /\ exec'[t] = "popAll" /\ current'[t] = p
        /\ \A u \in Threads \ {t} :
               exec'[u] = exec[u] /\ current'[u] = current[u]
        /\ UNCHANGED <<jobCount, jobs, push, batch, size, linked, done>>
    BY <1>0, <1>a DEF DoGlobalQueueWork, StartExecute, TypeOK
  <1>3. TypeOK'
    BY <1>0, <1>g DEF DoGlobalQueueWork, StartExecute, TypeOK
  <1>4. LocalInv'
    BY <1>0, <1>1, <1>2 DEF LocalInv
  <1>5. KeeperAt(p) /\ ~HasPusher(p) /\ ~HasExecutor(p) /\ jobCount[p] # 0
    <2>1. KeeperAt(p) /\ IsGlobal(p)
      BY <1>0, <1>1 DEF KeeperInv, IsGlobal
    <2>. QED
      BY <2>1 DEF KeeperAt
  <1>6. \A q \in Queues \ {p}, u \in Threads : current'[u] = q <=> current[u] = q
    BY <1>1, <1>2, JobQueueAssumption
  <1>7. KeeperInv'
    <2>1. \A q \in Queues : HasPusher(q)' <=> HasPusher(q)
      BY <1>2 DEF HasPusher, FirstPusher
    <2>2. \A i \in 1..Len(globalQueue') :
              /\ i + 1 \in 1..Len(globalQueue) /\ i + 1 # 1
              /\ globalQueue'[i] = globalQueue[i + 1]
      BY <1>g
    <2>3. ~IsGlobal(p)' /\ \A i \in 1..Len(globalQueue') : globalQueue'[i] # p
      BY <1>1, <1>5, <2>2 DEF KeeperAt, IsGlobal
    <2>4. HasExecutor(p)'
      BY <1>2 DEF HasExecutor
    <2>5. \A u, v \in Threads : current'[u] = p /\ current'[v] = p => u = v
      BY <1>2, <1>5 DEF HasExecutor
    <2>6. KeeperAt(p)'
      BY <1>2, <1>5, <2>1, <2>3, <2>4, <2>5 DEF KeeperAt, FirstPusher
    <2>7. ASSUME NEW q \in Queues \ {p} PROVE KeeperAt(q)'
      <3>1. KeeperAt(q)
        BY <1>0 DEF KeeperInv
      <3>2. ASSUME NEW i \in 1..Len(globalQueue), globalQueue[i] = q
            PROVE  i - 1 \in 1..Len(globalQueue') /\ globalQueue'[i - 1] = q
        <4>1. i # 1
          BY <1>1, <3>2
        <4>. QED
          BY <1>g, <3>2, <4>1
      <3>3. IsGlobal(q)' <=> IsGlobal(q)
        BY <2>2, <3>2 DEF IsGlobal
      <3>4. \A i, k \in 1..Len(globalQueue') :
                globalQueue'[i] = q /\ globalQueue'[k] = q => i = k
        <4> SUFFICES ASSUME NEW i \in 1..Len(globalQueue'),
                            NEW k \in 1..Len(globalQueue'),
                            globalQueue'[i] = q, globalQueue'[k] = q
                     PROVE  i = k
          OBVIOUS
        <4>1. i + 1 = k + 1
          BY <2>2, <3>1 DEF KeeperAt
        <4>. QED
          BY <4>1
      <3>5. HasExecutor(q)' <=> HasExecutor(q)
        BY <1>6 DEF HasExecutor
      <3>. QED
        BY <1>2, <1>6, <2>1, <3>1, <3>3, <3>4, <3>5 DEF KeeperAt, FirstPusher
    <2>. QED
      BY <2>6, <2>7 DEF KeeperInv
  <1>8. CountInv'
    <2>1. \A q \in Queues : Linkers(q)' = Linkers(q)
      BY <1>2 DEF Linkers
    <2>2. jobCount'[p] = Len(jobs'[p]) + Cardinality(Linkers(p)') + size'[t]
      <3>1. Cardinality(Linkers(p)') = Cardinality(Linkers(p))
        BY <1>1, <2>1
      <3>2. jobCount[p] = Len(jobs[p]) + Cardinality(Linkers(p))
        BY <1>0, <1>1, <1>5 DEF CountInv, CountAt
      <3>3. Len(jobs[p]) \in Nat /\ Cardinality(Linkers(p)) \in Nat
        BY <1>0, <1>1, LinkersFinite, LenProperties DEF TypeOK
      <3>. QED
        BY <1>1, <1>2, <3>1, <3>2, <3>3
    <2>3. CountAt(p)'
      BY <1>1, <1>2, <1>5, <2>2 DEF CountAt, HasExecutor
    <2>4. ASSUME NEW q \in Queues \ {p} PROVE CountAt(q)'
      BY <1>0, <1>2, <1>6, <2>1 DEF CountInv, CountAt, HasExecutor
    <2>. QED
      BY <2>3, <2>4 DEF CountInv
  <1>9. OrderInv'
    <2>1. done[p] \o batch[t] = done[p]
      BY <1>0, <1>1, ConcatEmptySeq DEF TypeOK
    <2>2. linked[p] = done[p] \o jobs[p]
      BY <1>0, <1>1, <1>5 DEF OrderInv, OrderAt
    <2>3. OrderAt(p)'
      BY <1>1, <1>2, <1>5, <2>1, <2>2 DEF OrderAt, HasExecutor
    <2>4. ASSUME NEW q \in Queues \ {p} PROVE OrderAt(q)'
      BY <1>0, <1>2, <1>6 DEF OrderInv, OrderAt, HasExecutor
    <2>. QED
      BY <2>3, <2>4 DEF OrderInv
  <1>. QED
    BY <1>3, <1>4, <1>7, <1>8, <1>9 DEF IInv

LEMMA NextInv == IInv /\ [Next]_vars => IInv'
  <1> SUFFICES ASSUME IInv, [Next]_vars PROVE IInv'
    OBVIOUS
  <1>1. CASE UNCHANGED vars
    <2> USE <1>1 DEF vars
    <2>1. TypeOK' /\ LocalInv'
      BY DEF IInv, TypeOK, LocalInv
    <2>2. KeeperInv'
      BY DEF IInv, KeeperInv, KeeperAt, HasPusher, FirstPusher, HasExecutor,
             IsGlobal
    <2>3. CountInv'
      <3>1. \A q \in Queues : Linkers(q)' = Linkers(q)
        BY DEF Linkers
      <3>. QED
        BY <3>1 DEF IInv, CountInv, CountAt, HasExecutor
    <2>4. OrderInv'
      BY DEF IInv, OrderInv, OrderAt, HasExecutor
    <2>. QED
      BY <2>1, <2>2, <2>3, <2>4 DEF IInv
  <1>2. CASE Quiescent
    BY <1>1, <1>2 DEF Quiescent
  <1>3. ASSUME NEW t \in Threads, Progress(t) \/ DoGlobalQueueWork(t)
        PROVE  IInv'
    BY <1>3, PushLinkInv, PushExecuteInv, PushGlobalInv, PopOneInv, PopEndInv,
       RunJobInv, SubtractInv, HandOffInv, DoGlobalQueueWorkInv DEF Progress
  <1>. QED
    BY <1>1, <1>2, <1>3, PushCountInv DEF Next

LEMMA Invariance == Spec => []IInv
  BY InitInv, NextInv, PTL DEF Spec

-----------------------------------------------------------------------------
(* The properties the runs check, for every value of the constants.        *)

\* Every variable stays in range; _jobCount never goes below 0.
THEOREM TypeCorrect == Spec => []TypeOK
  <1>1. IInv => TypeOK
    BY DEF IInv
  <1>. QED
    BY <1>1, Invariance, PTL

\* JobQueue.h:61: no two threads are ever inside Execute of one queue.
THEOREM OneThreadPerQueue == Spec => []SingleExecutor
  <1>1. IInv => SingleExecutor
    <2> SUFFICES ASSUME IInv, NEW t \in Threads, NEW u \in Threads,
                        t # u, current[t] = current[u], current[t] # NoQueue
                 PROVE  FALSE
      BY DEF SingleExecutor
    <2>1. current[t] \in Queues
      BY DEF IInv, TypeOK
    <2>2. KeeperAt(current[t])
      BY <2>1 DEF IInv, KeeperInv
    <2>. QED
      BY <2>2 DEF KeeperAt
  <1>. QED
    BY <1>1, Invariance, PTL

\* A queue with a job counted has one keeper, a queue with none has none: no
\* wakeup is lost and none is doubled.
THEOREM NoLostWakeup == Spec => []OneKeeper
  <1>1. IInv => OneKeeper
    <2> SUFFICES ASSUME IInv, NEW q \in Queues
                 PROVE  Cardinality(Keepers(q)) = IF jobCount[q] = 0 THEN 0 ELSE 1
      BY DEF OneKeeper
    <2>0. KeeperAt(q)
      BY DEF IInv, KeeperInv
    <2>1. CASE jobCount[q] = 0
      <3>1. Keepers(q) = {}
        BY <2>0, <2>1 DEF KeeperAt, Keepers, HasPusher, HasExecutor, IsGlobal
      <3>. QED
        BY <2>1, <3>1, FS_EmptySet
    <2>2. ASSUME NEW t \in Threads, FirstPusher(t, q)
          PROVE  Keepers(q) = {<<"push", t>>}
      <3>1. /\ {u \in Threads : FirstPusher(u, q)} = {t}
            /\ {u \in Threads : current[u] = q} = {}
            /\ {k \in 1..Len(globalQueue) : globalQueue[k] = q} = {}
        BY <2>0, <2>2 DEF KeeperAt, HasPusher, HasExecutor, IsGlobal
      <3>. QED
        BY <3>1 DEF Keepers
    <2>3. ASSUME NEW t \in Threads, current[t] = q
          PROVE  Keepers(q) = {<<"exec", t>>}
      <3>1. /\ {u \in Threads : FirstPusher(u, q)} = {}
            /\ {u \in Threads : current[u] = q} = {t}
            /\ {k \in 1..Len(globalQueue) : globalQueue[k] = q} = {}
        BY <2>0, <2>3 DEF KeeperAt, HasPusher, HasExecutor, IsGlobal
      <3>. QED
        BY <3>1 DEF Keepers
    <2>4. ASSUME NEW i \in 1..Len(globalQueue), globalQueue[i] = q
          PROVE  Keepers(q) = {<<"global", i>>}
      <3>1. /\ {u \in Threads : FirstPusher(u, q)} = {}
            /\ {u \in Threads : current[u] = q} = {}
            /\ {k \in 1..Len(globalQueue) : globalQueue[k] = q} = {i}
        BY <2>0, <2>4 DEF KeeperAt, HasPusher, HasExecutor, IsGlobal
      <3>. QED
        BY <3>1 DEF Keepers
    <2>5. CASE jobCount[q] # 0
      <3>1. \E k : Keepers(q) = {k}
        BY <2>0, <2>2, <2>3, <2>4, <2>5
           DEF KeeperAt, HasPusher, HasExecutor, IsGlobal
      <3>. QED
        BY <2>5, <3>1, FS_Singleton
    <2>. QED
      BY <2>1, <2>5
  <1>. QED
    BY <1>1, Invariance, PTL

\* With one executor at most, the executor CHOOSE finds is that one.
LEMMA TheExecutor ==
    ASSUME KeeperInv, NEW q \in Queues, NEW t \in Threads, current[t] = q
    PROVE  /\ BatchOf(q) = batch[t]
           /\ Popped(q) = size[t]
  <1>1. \A u \in Threads : current[u] = q => u = t
    BY DEF KeeperInv, KeeperAt
  <1>2. (CHOOSE u \in Threads : current[u] = q) = t
    BY <1>1
  <1>. QED
    BY <1>2 DEF BatchOf, Popped

LEMMA NoExecutor ==
    ASSUME NEW q, ~HasExecutor(q)
    PROVE  BatchOf(q) = <<>> /\ Popped(q) = 0
  BY DEF HasExecutor, BatchOf, Popped

\* _jobCount is exact, so Execute ends on no job left.
THEOREM JobCountExact == Spec => []CountIsExact
  <1>1. IInv => CountIsExact
    <2> SUFFICES ASSUME IInv, NEW q \in Queues
                 PROVE  jobCount[q] =
                            Len(jobs[q]) + Cardinality(Linkers(q)) + Popped(q)
      BY DEF CountIsExact
    <2>0. KeeperInv /\ CountAt(q) /\ jobs[q] \in Seq(Jobs)
      BY DEF IInv, CountInv, TypeOK
    <2>1. Len(jobs[q]) \in Nat /\ Cardinality(Linkers(q)) \in Nat
      BY <2>0, LinkersFinite, LenProperties
    <2>2. CASE HasExecutor(q)
      <3>1. PICK t \in Threads : current[t] = q
        BY <2>2 DEF HasExecutor
      <3>2. Popped(q) = size[t]
        BY <2>0, <3>1, TheExecutor
      <3>. QED
        BY <2>0, <3>1, <3>2 DEF CountAt
    <2>3. CASE ~HasExecutor(q)
      BY <2>0, <2>1, <2>3, NoExecutor DEF CountAt
    <2>. QED
      BY <2>2, <2>3
  <1>. QED
    BY <1>1, Invariance, PTL

LEMMA OrderFromInv == IInv => RunInOrder
  <1> SUFFICES ASSUME IInv, NEW q \in Queues
               PROVE  linked[q] = done[q] \o BatchOf(q) \o jobs[q]
    BY DEF RunInOrder
  <1>0. KeeperInv /\ OrderAt(q) /\ done[q] \in Seq(Jobs)
    BY DEF IInv, OrderInv, TypeOK
  <1>1. CASE HasExecutor(q)
    <2>1. PICK t \in Threads : current[t] = q
      BY <1>1 DEF HasExecutor
    <2>2. BatchOf(q) = batch[t]
      BY <1>0, <2>1, TheExecutor
    <2>. QED
      BY <1>0, <2>1, <2>2 DEF OrderAt
  <1>2. CASE ~HasExecutor(q)
    <2>1. BatchOf(q) = <<>> /\ done[q] \o <<>> = done[q]
      BY <1>0, <1>2, NoExecutor, ConcatEmptySeq
    <2>. QED
      BY <1>0, <1>2, <2>1 DEF OrderAt
  <1>. QED
    BY <1>1, <1>2

\* Jobs of one queue run in the order they were linked, none lost and none
\* twice, whichever threads run them.
THEOREM JobsRunInOrder == Spec => []RunInOrder
  BY OrderFromInv, Invariance, PTL

\* A thread that runs jobs of a queue never enters the Execute of another.
THEOREM NeverNested == Spec => NoNestedExecute
  <1>1. ASSUME IInv, [Next]_vars, NEW t \in Threads, current'[t] # current[t]
        PROVE  NoQueue \in {current[t], current'[t]}
    <2>0. TypeOK /\ LocalInv
      BY <1>1 DEF IInv
    <2>1. ASSUME NEW u \in Threads,
                 \/ PushLink(u) \/ PushGlobal(u) \/ PopOne(u) \/ PopEnd(u)
                 \/ RunJob(u) \/ NextRound(u)
                 \/ \E q \in Queues, j \in Jobs, mode \in {"async", "toss"} :
                        PushCount(u, q, j, mode)
          PROVE  current' = current
      BY <2>1 DEF PushCount, PushLink, PushGlobal, PopOne, PopEnd, RunJob,
                  NextRound
    <2>2. ASSUME NEW u \in Threads, PushExecute(u) \/ DoGlobalQueueWork(u)
          PROVE  current[u] = NoQueue /\ \A v \in Threads \ {u} :
                                            current'[v] = current[v]
      BY <2>0, <2>2 DEF PushExecute, DoGlobalQueueWork, StartExecute, LocalInv,
                        TypeOK
    <2>3. ASSUME NEW u \in Threads, Subtract(u) \/ HandOff(u)
          PROVE  current' \in {current, [current EXCEPT ![u] = NoQueue]}
      BY <2>3 DEF Subtract, HandOff
    <2>4. ~(UNCHANGED vars \/ Quiescent)
      BY <1>1 DEF vars, Quiescent
    <2>5. PICK u \in Threads :
                 \/ Progress(u) \/ DoGlobalQueueWork(u)
                 \/ \E q \in Queues, j \in Jobs, mode \in {"async", "toss"} :
                        PushCount(u, q, j, mode)
      BY <1>1, <2>4 DEF Next
    <2>6. CASE PushExecute(u) \/ DoGlobalQueueWork(u)
      BY <1>1, <2>2, <2>6
    <2>7. CASE Subtract(u) \/ HandOff(u)
      BY <1>1, <2>0, <2>3, <2>7 DEF TypeOK
    <2>. QED
      BY <1>1, <2>1, <2>5, <2>6, <2>7 DEF Progress
  <1>2. IInv /\ [Next]_vars =>
            [\A t \in Threads :
                 current'[t] # current[t] =>
                     NoQueue \in {current[t], current'[t]}]_vars
    BY <1>1
  <1>. QED
    BY <1>2, Invariance, PTL DEF Spec, NoNestedExecute

-----------------------------------------------------------------------------
(* The serial executor is implemented: a job is posted when it is linked,  *)
(* and what is pending is the executor's batch and then _jobs.             *)

Pending(q) == BatchOf(q) \o jobs[q]
AllPending == [q \in Queues |-> Pending(q)]

LEMMA HeadOfConcat ==
    ASSUME NEW S, NEW b \in Seq(S), NEW c \in Seq(S), b # <<>>
    PROVE  /\ b \o c # <<>>
           /\ Head(b \o c) = Head(b)
           /\ Tail(b \o c) = Tail(b) \o c
  <1>1. b \o c \in Seq(S) /\ Len(b) \in Nat \ {0} /\ Len(c) \in Nat
    BY EmptySeq, ConcatProperties, LenProperties
  <1>2. Len(b \o c) = Len(b) + Len(c) /\ b \o c # <<>>
    BY <1>1, ConcatProperties, EmptySeq
  <1>3. (b \o c)[1] = b[1]
    <2>1. 1 \in 1..Len(b) + Len(c) /\ 1 <= Len(b)
      BY <1>1
    <2>. QED
      BY <2>1, ConcatProperties
  <1>4. Head(b \o c) = Head(b)
    BY <1>3
  <1>5. /\ Tail(b) \in Seq(S) /\ Len(Tail(b)) = Len(b) - 1
        /\ \A i \in 1..Len(b) - 1 : Tail(b)[i] = b[i + 1]
    BY HeadTailProperties
  <1>6. /\ Tail(b \o c) \in Seq(S) /\ Len(Tail(b \o c)) = Len(b) + Len(c) - 1
        /\ \A i \in 1..Len(b) + Len(c) - 1 : Tail(b \o c)[i] = (b \o c)[i + 1]
    BY <1>1, <1>2, HeadTailProperties
  <1>7. /\ Tail(b) \o c \in Seq(S)
        /\ Len(Tail(b) \o c) = (Len(b) - 1) + Len(c)
        /\ \A i \in 1..(Len(b) - 1) + Len(c) :
               (Tail(b) \o c)[i] = IF i <= Len(b) - 1 THEN Tail(b)[i]
                                                      ELSE c[i - (Len(b) - 1)]
    BY <1>5, ConcatProperties
  <1>8. \A i \in 1..Len(b) + Len(c) - 1 :
            Tail(b \o c)[i] = (Tail(b) \o c)[i]
    <2> SUFFICES ASSUME NEW i \in 1..Len(b) + Len(c) - 1
                 PROVE  Tail(b \o c)[i] = (Tail(b) \o c)[i]
      OBVIOUS
    <2>1. Tail(b \o c)[i] = (b \o c)[i + 1] /\ i + 1 \in 1..Len(b) + Len(c)
      BY <1>1, <1>6
    <2>2. (b \o c)[i + 1] = IF i + 1 <= Len(b) THEN b[i + 1]
                                               ELSE c[(i + 1) - Len(b)]
      BY <2>1, ConcatProperties
    <2>3. i <= Len(b) - 1 <=> i + 1 <= Len(b)
      BY <1>1
    <2>4. (i + 1) - Len(b) = i - (Len(b) - 1) /\ i \in 1..(Len(b) - 1) + Len(c)
      BY <1>1
    <2>5. i <= Len(b) - 1 => Tail(b)[i] = b[i + 1]
      BY <1>1, <1>5
    <2>. QED
      BY <1>7, <2>1, <2>2, <2>3, <2>4, <2>5
  <1>. QED
    BY <1>1, <1>2, <1>4, <1>6, <1>7, <1>8, SeqEqual

\* TheExecutor and NoExecutor, after a step.
LEMMA TheExecutorNext ==
    ASSUME KeeperInv', NEW q \in Queues, NEW t \in Threads, current'[t] = q
    PROVE  BatchOf(q)' = batch'[t]
  <1>1. \A u \in Threads : current'[u] = q => u = t
    BY DEF KeeperInv, KeeperAt
  <1>2. (CHOOSE u \in Threads : current'[u] = q) = t
    BY <1>1
  <1>. QED
    BY <1>2 DEF BatchOf

LEMMA NoExecutorNext ==
    ASSUME NEW q, ~HasExecutor(q)'
    PROVE  BatchOf(q)' = <<>>
  BY DEF HasExecutor, BatchOf

\* A step of t on one queue leaves the batch of another queue alone.
LEMMA BatchElsewhere ==
    ASSUME KeeperInv, KeeperInv', NEW t \in Threads, NEW q \in Queues,
           current[t] # q, current'[t] # q,
           \A u \in Threads \ {t} :
               current'[u] = current[u] /\ batch'[u] = batch[u]
    PROVE  BatchOf(q)' = BatchOf(q)
  <1>1. CASE HasExecutor(q)
    <2>1. PICK u \in Threads : current[u] = q
      BY <1>1 DEF HasExecutor
    <2>2. current'[u] = q /\ batch'[u] = batch[u]
      BY <2>1
    <2>. QED
      BY <2>1, <2>2, TheExecutor, TheExecutorNext
  <1>2. CASE ~HasExecutor(q)
    <2>1. ~HasExecutor(q)'
      BY <1>2 DEF HasExecutor
    <2>. QED
      BY <1>2, <2>1, NoExecutor, NoExecutorNext
  <1>. QED
    BY <1>1, <1>2

\* What t does to its own queue leaves every other queue pending as it was.
LEMMA PendingElsewhere ==
    ASSUME TypeOK, KeeperInv, KeeperInv', NEW t \in Threads, NEW p,
           current[t] \in {p, NoQueue}, current'[t] \in {p, NoQueue},
           \A u \in Threads \ {t} :
               current'[u] = current[u] /\ batch'[u] = batch[u],
           \A q \in Queues : q # p => jobs'[q] = jobs[q]
    PROVE  \A q \in Queues : q # p => Pending(q)' = Pending(q)
  <1> SUFFICES ASSUME NEW q \in Queues, q # p
               PROVE  Pending(q)' = Pending(q)
    OBVIOUS
  <1>1. current[t] # q /\ current'[t] # q
    BY JobQueueAssumption
  <1>2. BatchOf(q)' = BatchOf(q)
    BY <1>1, BatchElsewhere
  <1>. QED
    BY <1>2 DEF Pending

\* Steps that change no batch and no executor change what is pending only
\* through _jobs.
LEMMA BatchesSame ==
    ASSUME current' = current, batch' = batch, NEW q
    PROVE  BatchOf(q)' = BatchOf(q)
  BY DEF BatchOf

\* The steps of Push and of Execute the executor does not see.
LEMMA HiddenStep ==
    ASSUME NEW t \in Threads,
           \/ PushGlobal(t) \/ PopEnd(t) \/ NextRound(t)
           \/ \E q \in Queues, j \in Jobs, mode \in {"async", "toss"} :
                  PushCount(t, q, j, mode)
    PROVE  AllPending' = AllPending /\ done' = done /\ current' = current
  <1>1. current' = current /\ batch' = batch /\ jobs' = jobs /\ done' = done
    BY DEF PushGlobal, PopEnd, NextRound, PushCount
  <1>2. \A q \in Queues : Pending(q)' = Pending(q)
    BY <1>1, BatchesSame DEF Pending
  <1>. QED
    BY <1>1, <1>2 DEF AllPending

\* Linking the job posts it.
LEMMA LinkPosts ==
    ASSUME TypeOK, LocalInv, KeeperInv, NEW t \in Threads, PushLink(t)
    PROVE  \E q \in Queues, j \in Jobs :
               /\ AllPending' = [AllPending EXCEPT ![q] = Append(@, j)]
               /\ done' = done /\ current' = current
  <1>1. PICK q \in Queues, j \in Jobs :
            q = push[t].queue /\ j = push[t].job
    BY DEF LocalInv, PushLink
  <1>2. /\ jobs' = [jobs EXCEPT ![q] = Append(@, j)]
        /\ current' = current /\ batch' = batch /\ done' = done
    BY <1>1 DEF PushLink
  <1>3. jobs[q] \in Seq(Jobs) /\ jobs \in [Queues -> Seq(Jobs)]
    BY DEF TypeOK
  <1>4. BatchOf(q) \in Seq(Jobs)
    <2>1. CASE HasExecutor(q)
      <3>1. PICK u \in Threads : current[u] = q
        BY <2>1 DEF HasExecutor
      <3>2. batch[u] \in Seq(Jobs)
        BY DEF TypeOK
      <3>. QED
        BY <3>1, <3>2, TheExecutor
    <2>2. CASE ~HasExecutor(q)
      BY <2>2, NoExecutor, EmptySeq
    <2>. QED
      BY <2>1, <2>2
  <1>5. Pending(q)' = Append(Pending(q), j)
    <2>1. BatchOf(q)' = BatchOf(q) /\ jobs'[q] = Append(jobs[q], j)
      BY <1>2, <1>3, BatchesSame
    <2>. QED
      BY <1>3, <1>4, <2>1, AppendOutside DEF Pending
  <1>6. \A p \in Queues : p # q => Pending(p)' = Pending(p)
    BY <1>2, <1>3, BatchesSame DEF Pending
  <1>7. AllPending' = [AllPending EXCEPT ![q] = Append(@, j)]
    BY <1>5, <1>6 DEF AllPending
  <1>. QED
    BY <1>2, <1>7

\* Both ways into Execute enter the queue.
LEMMA ExecuteEnters ==
    ASSUME TypeOK, LocalInv, KeeperInv, KeeperInv', NEW t \in Threads,
           PushExecute(t) \/ DoGlobalQueueWork(t)
    PROVE  \E q \in Queues :
               /\ current[t] = NoQueue
               /\ \A u \in Threads : current[u] # q
               /\ current' = [current EXCEPT ![t] = q]
               /\ AllPending' = AllPending /\ done' = done
  <1>1. PICK q : /\ current' = [current EXCEPT ![t] = q]
                 /\ \/ PushExecute(t) /\ q = push[t].queue
                    \/ DoGlobalQueueWork(t) /\ q = Head(globalQueue)
    BY DEF PushExecute, DoGlobalQueueWork, StartExecute
  <1>2. /\ current[t] = NoQueue /\ batch[t] = <<>>
        /\ batch' = batch /\ jobs' = jobs /\ done' = done
    BY DEF PushExecute, DoGlobalQueueWork, StartExecute, LocalInv
  <1>3. q \in Queues /\ \A u \in Threads : current[u] # q
    <2>1. CASE PushExecute(t) /\ q = push[t].queue
      <3>1. q \in Queues /\ FirstPusher(t, q)
        BY <2>1 DEF PushExecute, LocalInv, FirstPusher
      <3>. QED
        BY <3>1 DEF KeeperInv, KeeperAt, HasPusher, HasExecutor
    <2>2. CASE DoGlobalQueueWork(t) /\ q = Head(globalQueue)
      <3>1. globalQueue # <<>> /\ globalQueue \in Seq(Queues)
        BY <2>2 DEF DoGlobalQueueWork, TypeOK
      <3>2. q \in Queues /\ Len(globalQueue) \in Nat \ {0}
        BY <2>2, <3>1, HeadTailProperties, EmptySeq, LenProperties
      <3>3. 1 \in 1..Len(globalQueue) /\ globalQueue[1] = q
        BY <2>2, <3>2
      <3>. QED
        BY <3>2, <3>3 DEF KeeperInv, KeeperAt, IsGlobal, HasExecutor
    <2>. QED
      BY <1>1, <2>1, <2>2
  <1>4. current'[t] = q /\ \A u \in Threads \ {t} : current'[u] = current[u]
    BY <1>1 DEF TypeOK
  <1>5. Pending(q)' = Pending(q)
    <2>1. BatchOf(q) = <<>>
      BY <1>3, NoExecutor DEF HasExecutor
    <2>2. BatchOf(q)' = <<>>
      BY <1>2, <1>3, <1>4, TheExecutorNext
    <2>. QED
      BY <1>2, <2>1, <2>2 DEF Pending
  <1>6. \A p \in Queues : p # q => Pending(p)' = Pending(p)
    <2>1. /\ current[t] \in {q, NoQueue} /\ current'[t] \in {q, NoQueue}
          /\ \A u \in Threads \ {t} :
                 current'[u] = current[u] /\ batch'[u] = batch[u]
          /\ \A p \in Queues : p # q => jobs'[p] = jobs[p]
      BY <1>2, <1>4
    <2>. QED
      BY <2>1, PendingElsewhere
  <1>7. AllPending' = AllPending
    BY <1>5, <1>6 DEF AllPending
  <1>. QED
    BY <1>1, <1>2, <1>3, <1>7

\* Popping moves a job from one part of what is pending to the other.
LEMMA PopHidden ==
    ASSUME TypeOK, LocalInv, KeeperInv, KeeperInv', NEW t \in Threads, PopOne(t)
    PROVE  AllPending' = AllPending /\ done' = done /\ current' = current
  <1>1. PICK q \in Queues : q = current[t]
    BY DEF PopOne, LocalInv, TypeOK
  <1>2. /\ current' = current /\ done' = done /\ jobs[q] # <<>>
        /\ batch' = [batch EXCEPT ![t] = Append(@, Head(jobs[q]))]
        /\ jobs' = [jobs EXCEPT ![q] = Tail(@)]
    BY <1>1 DEF PopOne
  <1>3. batch[t] \in Seq(Jobs) /\ jobs[q] \in Seq(Jobs)
    BY DEF TypeOK
  <1>4. /\ batch'[t] = Append(batch[t], Head(jobs[q]))
        /\ jobs'[q] = Tail(jobs[q])
        /\ \A u \in Threads \ {t} : batch'[u] = batch[u]
        /\ \A p \in Queues : p # q => jobs'[p] = jobs[p]
    BY <1>2 DEF TypeOK
  <1>5. Pending(q)' = Pending(q)
    <2>1. BatchOf(q) = batch[t] /\ BatchOf(q)' = batch'[t]
      BY <1>1, <1>2, TheExecutor, TheExecutorNext
    <2>2. Append(batch[t], Head(jobs[q])) \o Tail(jobs[q]) = batch[t] \o jobs[q]
      BY <1>2, <1>3, MoveHead
    <2>3. BatchOf(q)' \o jobs'[q] = BatchOf(q) \o jobs[q]
      BY <1>4, <2>1, <2>2
    <2>. QED
      BY <2>3 DEF Pending
  <1>6. \A p \in Queues : p # q => Pending(p)' = Pending(p)
    <2>1. /\ current[t] \in {q, NoQueue} /\ current'[t] \in {q, NoQueue}
          /\ \A u \in Threads \ {t} :
                 current'[u] = current[u] /\ batch'[u] = batch[u]
      BY <1>1, <1>2, <1>4
    <2>2. \A p \in Queues : p # q => jobs'[p] = jobs[p]
      BY <1>4
    <2>. QED
      BY <2>1, <2>2, PendingElsewhere
  <1>7. AllPending' = AllPending
    BY <1>5, <1>6 DEF AllPending
  <1>. QED
    BY <1>2, <1>7

LEMMA RunRuns ==
    ASSUME TypeOK, LocalInv, KeeperInv, KeeperInv', NEW t \in Threads, RunJob(t)
    PROVE  \E q \in Queues :
               /\ current[t] = q /\ current' = current
               /\ Pending(q) # <<>>
               /\ AllPending' = [AllPending EXCEPT ![q] = Tail(@)]
               /\ done' = [done EXCEPT ![q] = Append(@, Head(Pending(q)))]
  <1>1. PICK q \in Queues : q = current[t]
    BY DEF RunJob, LocalInv, TypeOK
  <1>2. /\ current' = current /\ jobs' = jobs /\ batch[t] # <<>>
        /\ batch' = [batch EXCEPT ![t] = Tail(@)]
        /\ done' = [done EXCEPT ![q] = Append(@, Head(batch[t]))]
    BY <1>1 DEF RunJob
  <1>3. batch[t] \in Seq(Jobs) /\ jobs[q] \in Seq(Jobs)
    BY DEF TypeOK
  <1>4. /\ batch'[t] = Tail(batch[t])
        /\ \A u \in Threads \ {t} : batch'[u] = batch[u]
    BY <1>2 DEF TypeOK
  <1>5. BatchOf(q) = batch[t] /\ BatchOf(q)' = batch'[t]
    BY <1>1, <1>2, TheExecutor, TheExecutorNext
  <1>6. /\ Pending(q) # <<>> /\ Head(Pending(q)) = Head(batch[t])
        /\ Pending(q)' = Tail(Pending(q))
    <2>1. /\ batch[t] \o jobs[q] # <<>>
          /\ Head(batch[t] \o jobs[q]) = Head(batch[t])
          /\ Tail(batch[t] \o jobs[q]) = Tail(batch[t]) \o jobs[q]
      BY <1>2, <1>3, HeadOfConcat
    <2>2. Pending(q) = batch[t] \o jobs[q]
      BY <1>5 DEF Pending
    <2>3. Pending(q)' = Tail(batch[t]) \o jobs[q]
      BY <1>2, <1>4, <1>5 DEF Pending
    <2>. QED
      BY <2>1, <2>2, <2>3
  <1>7. \A p \in Queues : p # q => Pending(p)' = Pending(p)
    BY <1>1, <1>2, <1>4, PendingElsewhere
  <1>8. AllPending' = [AllPending EXCEPT ![q] = Tail(@)]
    BY <1>6, <1>7 DEF AllPending
  <1>. QED
    BY <1>1, <1>2, <1>6, <1>8

\* The executor leaves with an empty batch.
LEMMA ExecuteLeaves ==
    ASSUME TypeOK, LocalInv, KeeperInv, KeeperInv', NEW t \in Threads,
           Subtract(t) \/ HandOff(t)
    PROVE  /\ current' \in {current, [current EXCEPT ![t] = NoQueue]}
           /\ AllPending' = AllPending /\ done' = done
  <1>1. PICK q \in Queues : q = current[t]
    BY DEF Subtract, HandOff, LocalInv, TypeOK
  <1>2. /\ current' \in {current, [current EXCEPT ![t] = NoQueue]}
        /\ batch' = batch /\ jobs' = jobs /\ done' = done /\ batch[t] = <<>>
    BY DEF Subtract, HandOff, LocalInv
  <1>3. CASE current' = current
    <2>1. \A p \in Queues : Pending(p)' = Pending(p)
      BY <1>2, <1>3, BatchesSame DEF Pending
    <2>. QED
      BY <1>2, <2>1 DEF AllPending
  <1>4. CASE current' = [current EXCEPT ![t] = NoQueue]
    <2>1. current'[t] = NoQueue /\ \A u \in Threads \ {t} : current'[u] = current[u]
      BY <1>4 DEF TypeOK
    <2>2. BatchOf(q) = <<>>
      BY <1>1, <1>2, TheExecutor
    <2>3. \A u \in Threads \ {t} : current[u] # q
      BY <1>1 DEF KeeperInv, KeeperAt
    <2>4. ~HasExecutor(q)'
      BY <2>1, <2>3, JobQueueAssumption DEF HasExecutor
    <2>5. Pending(q)' = Pending(q)
      BY <1>2, <2>2, <2>4, NoExecutorNext DEF Pending
    <2>6. \A p \in Queues : p # q => Pending(p)' = Pending(p)
      <3>1. /\ current[t] \in {q, NoQueue} /\ current'[t] \in {q, NoQueue}
            /\ \A u \in Threads \ {t} :
                   current'[u] = current[u] /\ batch'[u] = batch[u]
        BY <1>1, <1>2, <2>1
      <3>2. \A p \in Queues : p # q => jobs'[p] = jobs[p]
        BY <1>2
      <3>. QED
        BY <3>1, <3>2, PendingElsewhere
    <2>. QED
      BY <1>2, <2>5, <2>6 DEF AllPending
  <1>. QED
    BY <1>2, <1>3, <1>4

\* The job queues implement the serial executor.
THEOREM Refinement == Spec => ImplementsSerialExecutor
  <1>0. AllPending = [q \in Queues |-> BatchOf(q) \o jobs[q]]
    BY DEF AllPending, Pending
  <1>1. Init => Executor!Init
    <2> SUFFICES ASSUME Init PROVE Executor!Init
      OBVIOUS
    <2>1. \A q \in Queues : Pending(q) = <<>>
      <3> SUFFICES ASSUME NEW q \in Queues PROVE Pending(q) = <<>>
        OBVIOUS
      <3>1. BatchOf(q) = <<>>
        BY NoExecutor, JobQueueAssumption DEF Init, HasExecutor
      <3>. QED
        BY <3>1 DEF Init, Pending
    <2>. QED
      BY <2>1 DEF Init, Executor!Init, Pending
  <1>2. IInv /\ [Next]_vars => [Executor!Next]_Executor!vars
    <2> SUFFICES ASSUME IInv, [Next]_vars
                 PROVE  [Executor!Next]_Executor!vars
      OBVIOUS
    <2>0. TypeOK /\ LocalInv /\ KeeperInv /\ KeeperInv'
      BY NextInv DEF IInv
    <2>. DEFINE Same == AllPending' = AllPending /\ done' = done /\ current' = current
    <2>1. Same => UNCHANGED Executor!vars
      BY DEF Executor!vars, AllPending, Pending
    <2>2. ASSUME NEW t \in Threads, PushLink(t) PROVE Executor!Next
      <3>1. PICK q \in Queues, j \in Jobs :
                /\ AllPending' = [AllPending EXCEPT ![q] = Append(@, j)]
                /\ done' = done /\ current' = current
        BY <2>0, <2>2, LinkPosts
      <3>2. Executor!Post(q, j)
        BY <3>1 DEF Executor!Post, AllPending, Pending
      <3>. QED
        BY <3>2 DEF Executor!Next
    <2>3. ASSUME NEW t \in Threads, PushExecute(t) \/ DoGlobalQueueWork(t)
          PROVE  Executor!Next
      <3>1. PICK q \in Queues :
                /\ current[t] = NoQueue
                /\ \A u \in Threads : current[u] # q
                /\ current' = [current EXCEPT ![t] = q]
                /\ AllPending' = AllPending /\ done' = done
        BY <2>0, <2>3, ExecuteEnters
      <3>2. Executor!Enter(t, q)
        BY <3>1 DEF Executor!Enter, AllPending, Pending
      <3>. QED
        BY <3>2 DEF Executor!Next
    <2>4. ASSUME NEW t \in Threads, RunJob(t) PROVE Executor!Next
      <3>1. PICK q \in Queues :
                /\ current[t] = q /\ current' = current
                /\ Pending(q) # <<>>
                /\ AllPending' = [AllPending EXCEPT ![q] = Tail(@)]
                /\ done' = [done EXCEPT ![q] = Append(@, Head(Pending(q)))]
        BY <2>0, <2>4, RunRuns
      <3>2. Executor!Run(t, q)
        BY <3>1 DEF Executor!Run, AllPending, Pending
      <3>. QED
        BY <3>2 DEF Executor!Next
    <2>5. ASSUME NEW t \in Threads, Subtract(t) \/ HandOff(t)
          PROVE  Executor!Next \/ Same
      <3>1. /\ current' \in {current, [current EXCEPT ![t] = NoQueue]}
            /\ AllPending' = AllPending /\ done' = done
        BY <2>0, <2>5, ExecuteLeaves
      <3>2. Executor!Leave(t) \/ Same
        BY <3>1 DEF Executor!Leave, AllPending, Pending
      <3>. QED
        BY <3>2 DEF Executor!Next
    <2>6. CASE UNCHANGED vars \/ Quiescent
      <3>1. current' = current /\ batch' = batch /\ jobs' = jobs /\ done' = done
        BY <2>6 DEF vars, Quiescent
      <3>2. \A q \in Queues : Pending(q)' = Pending(q)
        BY <3>1, BatchesSame DEF Pending
      <3>3. Same
        BY <3>1, <3>2 DEF AllPending
      <3>. QED
        BY <2>1, <3>3
    <2>7. ASSUME NEW t \in Threads,
                 \/ PushGlobal(t) \/ PopEnd(t) \/ NextRound(t) \/ PopOne(t)
                 \/ \E q \in Queues, j \in Jobs, mode \in {"async", "toss"} :
                        PushCount(t, q, j, mode)
          PROVE  Same
      BY <2>0, <2>7, HiddenStep, PopHidden
    <2>. QED
      BY <2>1, <2>2, <2>3, <2>4, <2>5, <2>6, <2>7 DEF Next, Progress
  <1>. QED
    BY <1>1, <1>2, Invariance, PTL
       DEF Spec, ImplementsSerialExecutor, Executor!Spec
=============================================================================
