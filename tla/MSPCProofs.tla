----------------------------- MODULE MSPCProofs -----------------------------
(***************************************************************************)
(* Theorems about MSPCLockFreeQueue, for any producers, items and nodes.   *)
(***************************************************************************)
EXTENDS MSPCLockFreeQueue, TLAPS, FiniteSetTheorems, FunctionTheorems,
        SequenceTheorems, WellFoundedInduction

-----------------------------------------------------------------------------
(* Sequences *)

LEMMA SeqFacts ==
    ASSUME NEW S, NEW s \in Seq(S)
    PROVE  /\ Len(s) \in Nat /\ DOMAIN s = 1..Len(s)
           /\ \A k \in 1..Len(s) : s[k] \in S /\ s[k] \in Range(s)
           /\ \A x \in Range(s) : \E k \in 1..Len(s) : s[k] = x
           /\ Range(s) \subseteq S
           /\ s # <<>> => 1 \in 1..Len(s) /\ Len(s) \in 1..Len(s)
  <1>1. Len(s) \in Nat /\ DOMAIN s = 1..Len(s) /\ \A k \in 1..Len(s) : s[k] \in S
    BY LenProperties, ElementOfSeq
  <1>2. s # <<>> => Len(s) # 0
    BY EmptySeq
  <1>. QED
    BY <1>1, <1>2 DEF Range

LEMMA AppendFacts ==
    ASSUME NEW S, NEW s \in Seq(S), NEW x \in S
    PROVE  /\ Append(s, x) \in Seq(S) /\ Append(s, x) # <<>>
           /\ Len(Append(s, x)) = Len(s) + 1
           /\ Append(s, x)[Len(s) + 1] = x
           /\ \A k \in 1..Len(s) : Append(s, x)[k] = s[k]
           /\ Range(Append(s, x)) = Range(s) \cup {x}
           /\ IsInjective(s) /\ x \notin Range(s) => IsInjective(Append(s, x))
  <1>1. /\ Len(s) \in Nat
        /\ DOMAIN s = 1..Len(s)
        /\ Append(s, x) \in Seq(S)
        /\ Len(Append(s, x)) = Len(s) + 1
        /\ DOMAIN Append(s, x) = 1..(Len(s) + 1)
        /\ \A i \in 1..Len(s) : Append(s, x)[i] = s[i]
        /\ Append(s, x)[Len(s) + 1] = x
    OBVIOUS
  <1>2. Range(Append(s, x)) = Range(s) \cup {x}
    <2>1. \A i \in 1..(Len(s) + 1) : i \in 1..Len(s) \/ i = Len(s) + 1
      BY <1>1
    <2>. QED
      BY <1>1, <2>1 DEF Range
  <1>3. IsInjective(s) /\ x \notin Range(s) => IsInjective(Append(s, x))
    BY <1>1 DEF Range, IsInjective
  <1>4. Append(s, x) # <<>>
    BY <1>1, EmptySeq
  <1>. QED
    BY <1>1, <1>2, <1>3, <1>4

LEMMA TailFacts ==
    ASSUME NEW S, NEW s \in Seq(S), s # <<>>
    PROVE  /\ Head(s) = s[1] /\ s[1] \in S
           /\ Tail(s) \in Seq(S) /\ Len(Tail(s)) = Len(s) - 1
           /\ \A k \in 1..(Len(s) - 1) : Tail(s)[k] = s[k + 1]
           /\ Range(Tail(s)) \subseteq Range(s)
           /\ Range(s) = Range(Tail(s)) \cup {s[1]}
           /\ IsInjective(s) => IsInjective(Tail(s)) /\ s[1] \notin Range(Tail(s))
  <1>1. /\ Len(s) \in Nat \ {0} /\ DOMAIN s = 1..Len(s) /\ s[1] \in S
    BY EmptySeq, LenProperties, ElementOfSeq
  <1>0. Len(s) - 1 \in Nat /\ Len(s) = (Len(s) - 1) + 1
    BY <1>1
  <1>2. PICK n \in Nat : Len(s) = n + 1 /\ n = Len(s) - 1
    BY <1>0
  <1>3. PICK q \in Seq(S) : q = Tail(s)
    BY HeadTailProperties
  <1>4. /\ Head(s) = s[1] /\ Len(q) = n /\ DOMAIN q = 1..n
        /\ DOMAIN s = 1..(n + 1)
        /\ \A k \in 1..n : q[k] = s[k + 1]
    BY <1>1, <1>2, <1>3, HeadTailProperties, LenProperties
  <1>5. /\ \A k \in 1..n : k + 1 \in 1..(n + 1) /\ k + 1 # 1
        /\ \A k \in 1..(n + 1) : k # 1 => k - 1 \in 1..n /\ (k - 1) + 1 = k
        /\ \A j, k \in 1..n : j + 1 = k + 1 => j = k
        /\ 1 \in 1..(n + 1)
    OBVIOUS
  <1>6. \A k \in 1..(n + 1) : k # 1 => k - 1 \in 1..n /\ q[k - 1] = s[k]
    BY <1>4, <1>5
  <1>7. Range(s) = Range(q) \cup {s[1]}
    <2>1. ASSUME NEW y \in Range(s)
          PROVE  y \in Range(q) \cup {s[1]}
      <3>1. PICK k \in 1..(n + 1) : s[k] = y
        BY <1>4 DEF Range
      <3>. QED
        BY <1>4, <1>6, <3>1 DEF Range
    <2>2. ASSUME NEW y \in Range(q)
          PROVE  y \in Range(s)
      <3>1. PICK k \in 1..n : q[k] = y
        BY <1>4 DEF Range
      <3>. QED
        BY <1>4, <1>5, <3>1 DEF Range
    <2>3. s[1] \in Range(s)
      BY <1>4, <1>5 DEF Range
    <2>. QED
      BY <2>1, <2>2, <2>3
  <1>8. ASSUME IsInjective(s)
        PROVE  IsInjective(q) /\ s[1] \notin Range(q)
    <2>1. \A j, k \in 1..(n + 1) : s[j] = s[k] => j = k
      BY <1>4, <1>8 DEF IsInjective
    <2>2. \A j, k \in 1..n : q[j] = q[k] => j = k
      BY <1>4, <1>5, <2>1
    <2>3. \A k \in 1..n : q[k] # s[1]
      BY <1>4, <1>5, <2>1
    <2>. QED
      BY <1>4, <2>2, <2>3 DEF Range, IsInjective
  <1>. QED
    BY <1>1, <1>2, <1>3, <1>4, <1>7, <1>8

LEMMA ConsFacts ==
    ASSUME NEW S, NEW s \in Seq(S), NEW x \in S
    PROVE  /\ <<x>> \o s \in Seq(S)
           /\ Range(<<x>> \o s) = Range(s) \cup {x}
           /\ IsInjective(s) /\ x \notin Range(s) => IsInjective(<<x>> \o s)
  <1>1. <<x>> \in Seq(S) /\ Len(<<x>>) = 1 /\ <<x>>[1] = x
    OBVIOUS
  <1>2. PICK n \in Nat : n = Len(s) /\ DOMAIN s = 1..n
    BY LenProperties
  <1>3. PICK q \in Seq(S) : q = <<x>> \o s
    BY <1>1, ConcatProperties
  <1>4. /\ Len(q) = n + 1
        /\ \A k \in 1..(1 + n) : q[k] = IF k <= 1 THEN <<x>>[k] ELSE s[k - 1]
    <2>1. Len(q) = 1 + n
      BY <1>1, <1>2, <1>3, ConcatProperties
    <2>2. \A k \in 1..(1 + n) : q[k] = IF k <= 1 THEN <<x>>[k] ELSE s[k - 1]
      BY <1>1, <1>2, <1>3, ConcatProperties
    <2>. QED
      BY <2>1, <2>2
  <1>5. /\ DOMAIN q = 1..(n + 1)
        /\ 1 \in 1..(n + 1) /\ q[1] = x
        /\ \A k \in 1..(n + 1) : k # 1 => k - 1 \in 1..n /\ q[k] = s[k - 1]
        /\ \A k \in 1..n : k + 1 \in 1..(n + 1) /\ k + 1 # 1 /\ q[k + 1] = s[k]
    <2>1. /\ 1 \in 1..(n + 1) /\ 1..(1 + n) = 1..(n + 1)
          /\ \A k \in 1..(n + 1) : k # 1 => k - 1 \in 1..n /\ ~(k <= 1)
          /\ \A k \in 1..n : k + 1 \in 1..(n + 1) /\ k + 1 # 1 /\ (k + 1) - 1 = k
      OBVIOUS
    <2>2. DOMAIN q = 1..(n + 1)
      BY <1>4, LenProperties
    <2>. QED
      BY <1>1, <1>4, <2>1, <2>2
  <1>6. Range(q) = Range(s) \cup {x}
    <2>1. ASSUME NEW y \in Range(q)
          PROVE  y \in Range(s) \cup {x}
      <3>1. PICK k \in 1..(n + 1) : q[k] = y
        BY <1>5 DEF Range
      <3>. QED
        BY <1>2, <1>5, <3>1 DEF Range
    <2>2. ASSUME NEW y \in Range(s)
          PROVE  y \in Range(q)
      <3>1. PICK k \in 1..n : s[k] = y
        BY <1>2 DEF Range
      <3>. QED
        BY <1>5, <3>1 DEF Range
    <2>3. x \in Range(q)
      BY <1>5 DEF Range
    <2>. QED
      BY <2>1, <2>2, <2>3
  <1>7. ASSUME IsInjective(s), x \notin Range(s)
        PROVE  IsInjective(q)
    <2>1. \A j, k \in 1..n : s[j] = s[k] => j = k
      BY <1>2, <1>7 DEF IsInjective
    <2>2. \A k \in 1..n : s[k] # x
      BY <1>2, <1>7 DEF Range
    <2>3. \A j, k \in 1..(n + 1) : q[j] = q[k] => j = k
      <3>1. \A j, k \in 1..(n + 1) : j # 1 /\ k # 1 /\ j - 1 = k - 1 => j = k
        OBVIOUS
      <3>. QED
        BY <1>5, <2>1, <2>2, <3>1
    <2>. QED
      BY <1>5, <2>3 DEF IsInjective
  <1>. QED
    BY <1>3, <1>6, <1>7

-----------------------------------------------------------------------------
(* Lists *)

\* Chain, of any heap nx and any first node h.
Along(nx, h) ==
    LET succ == [n \in Nodes \cup {Null} |-> IF n = Null THEN Null ELSE nx[n]]
        at[k \in 1..Cardinality(Nodes)] == IF k = 1 THEN h ELSE succ[at[k - 1]]
        live == {k \in 1..Cardinality(Nodes) : at[k] # Null}
    IN [k \in live |-> at[k]]

\* s is the list of distinct nodes from h to the one whose next is null.
List(nx, h, s) ==
    /\ s \in Seq(Nodes) /\ s # <<>>
    /\ s[1] = h
    /\ \A k \in 1..(Len(s) - 1) : nx[s[k]] = s[k + 1]
    /\ nx[s[Len(s)]] = Null
    /\ IsInjective(s)

End(s) == s[Len(s)]

\* There is no number a list could skip.
LEMMA Smallest ==
    ASSUME NEW S \in SUBSET Nat, S # {}
    PROVE  \E m \in S : \A k \in S : m <= k
  <1> DEFINE R == OpToRel(<, Nat)
  <1>1. IsWellFoundedOn(R, Nat)
    BY NatLessThanWellFounded, Zenon
  <1>2. \A k, m \in Nat : <<k, m>> \in R <=> k < m
    BY DEF OpToRel
  <1> HIDE DEF R
  <1>3. PICK m \in S : \A k \in S : ~(<<k, m>> \in R)
    BY <1>1, WFMin
  <1>4. \A k \in S : ~(k < m) /\ k \in Nat /\ m \in Nat
    BY <1>2, <1>3
  <1>. QED
    BY <1>4

LEMMA InjectiveFits ==
    ASSUME NEW s \in Seq(Nodes), IsInjective(s)
    PROVE  /\ Cardinality(Nodes) \in Nat
           /\ Len(s) <= Cardinality(Nodes)
  <1>1. IsFiniteSet(Nodes) /\ Cardinality(Nodes) \in Nat
    BY MSPCAssumption, FS_CardinalityType
  <1>2. Len(s) \in Nat /\ Range(s) \subseteq Nodes /\ DOMAIN s = 1..Len(s)
    BY SeqFacts
  <1>3. s \in Bijection(1..Len(s), Range(s))
    BY <1>2 DEF Bijection, Injection, Surjection, IsInjective, Range
  <1>4. Cardinality(Range(s)) = Len(s)
    BY <1>2, <1>3, FS_CountingElements DEF ExistsBijection
  <1>5. Cardinality(Range(s)) <= Cardinality(Nodes)
    BY <1>1, <1>2, FS_Subset
  <1>. QED
    BY <1>1, <1>4, <1>5

\* Chain is the list.
LEMMA AlongList ==
    ASSUME NEW nx, NEW h, NEW s, List(nx, h, s)
    PROVE  Along(nx, h) = s
  <1> DEFINE N == Cardinality(Nodes)
             succ == [n \in Nodes \cup {Null} |-> IF n = Null THEN Null ELSE nx[n]]
             Next2(f) == [k \in 1..N |-> IF k = 1 THEN h ELSE succ[f[k - 1]]]
             at == CHOOSE f : f = Next2(f)
  <1>1. s \in Seq(Nodes) /\ s # <<>> /\ IsInjective(s)
    BY DEF List
  <1>2. PICK L \in Nat \ {0} : L = Len(s) /\ DOMAIN s = 1..L
    BY <1>1, SeqFacts, EmptySeq
  <1>3. N \in Nat /\ L <= N
    BY <1>1, <1>2, InjectiveFits
  <1> HIDE DEF N
  <1>4. /\ Null \notin Nodes
        /\ \A k \in 1..L : s[k] \in Nodes
        /\ s[1] = h /\ nx[s[L]] = Null
        /\ \A k \in 1..(L - 1) : nx[s[k]] = s[k + 1]
    BY <1>1, <1>2, SeqFacts, MSPCAssumption DEF List
  <1>5. /\ succ[Null] = Null
        /\ succ[s[L]] = Null
        /\ \A k \in 1..(L - 1) : succ[s[k]] = s[k + 1]
    BY <1>2, <1>4
  <1> HIDE DEF succ
  <1> DEFINE g == [k \in 1..N |-> IF k <= L THEN s[k] ELSE Null]
  <1>6. g = Next2(g)
    <2>1. ASSUME NEW k \in 1..N
          PROVE  g[k] = IF k = 1 THEN h ELSE succ[g[k - 1]]
      <3>1. CASE k = 1
        BY <1>2, <1>3, <1>4, <3>1
      <3>2. CASE k # 1
        <4>1. k - 1 \in 1..N
          BY <3>2, <1>3
        <4>2. CASE k <= L
          <5>1. k - 1 \in 1..(L - 1) /\ (k - 1) + 1 = k /\ k - 1 <= L
            BY <1>2, <1>3, <3>2, <4>2
          <5>. QED
            BY <1>5, <3>2, <4>1, <4>2, <5>1
        <4>3. CASE ~(k <= L) /\ k - 1 <= L
          <5>1. k - 1 = L
            BY <1>2, <1>3, <4>3
          <5>. QED
            BY <1>5, <3>2, <4>1, <4>3, <5>1
        <4>4. CASE ~(k <= L) /\ ~(k - 1 <= L)
          BY <1>5, <3>2, <4>1, <4>4
        <4>5. k <= L => k - 1 <= L
          BY <1>2, <1>3
        <4>. QED
          BY <4>2, <4>3, <4>4, <4>5
      <3>. QED
        BY <3>1, <3>2
    <2>. QED
      BY <2>1
  <1>7. at = Next2(at)
    BY <1>6
  <1> HIDE DEF at
  <1>8. \A k \in 1..N : at[k] = IF k = 1 THEN h ELSE succ[at[k - 1]]
    BY <1>7
  <1>9. \A k \in 1..N : g[k] = IF k = 1 THEN h ELSE succ[g[k - 1]]
    BY <1>6
  <1> HIDE DEF g
  <1>10. \A k \in 1..N : at[k] = g[k]
    <2> DEFINE Bad == {k \in 1..N : at[k] # g[k]}
    <2> SUFFICES ASSUME Bad # {}
                 PROVE  FALSE
      OBVIOUS
    <2>1. Bad \in SUBSET Nat
      BY <1>3
    <2>2. PICK m \in Bad : \A k \in Bad : m <= k
      <3> HIDE DEF Bad
      <3>. QED
        BY <2>1, Smallest
    <2>3. m # 1
      BY <1>8, <1>9, <2>2
    <2>4. m - 1 \in 1..N /\ ~(m <= m - 1)
      BY <1>3, <2>2, <2>3
    <2>5. at[m - 1] = g[m - 1]
      BY <2>2, <2>4
    <2>. QED
      BY <1>8, <1>9, <2>2, <2>3, <2>5
  <1>11. \A k \in 1..N : at[k] = IF k <= L THEN s[k] ELSE Null
    BY <1>10 DEF g
  <1>12. {k \in 1..N : at[k] # Null} = 1..L
    BY <1>2, <1>3, <1>4, <1>11
  <1>13. \A k \in 1..L : at[k] = s[k]
    BY <1>2, <1>3, <1>11
  <1>14. Along(nx, h) = [k \in {j \in 1..N : at[j] # Null} |-> at[k]]
    BY DEF Along, at, N, succ
  <1>15. s = [k \in 1..L |-> s[k]]
    BY <1>1, <1>2
  <1>. QED
    BY <1>12, <1>13, <1>14, <1>15

LEMMA ListFacts ==
    ASSUME NEW nx, NEW h, NEW s, List(nx, h, s)
    PROVE  /\ Range(s) \subseteq Nodes
           /\ h \in Range(s) /\ End(s) \in Range(s)
           /\ nx[End(s)] = Null
           /\ \A n \in Range(s) : n = End(s) \/ nx[n] \in Range(s)
  <1>1. s \in Seq(Nodes) /\ s # <<>>
    BY DEF List
  <1>2. PICK L \in Nat : /\ L = Len(s)
                         /\ \A k \in 1..L : s[k] \in Nodes /\ s[k] \in Range(s)
                         /\ \A n \in Range(s) : \E k \in 1..L : s[k] = n
                         /\ Range(s) \subseteq Nodes
                         /\ 1 \in 1..L /\ L \in 1..L
    BY <1>1, SeqFacts
  <1>3. \A k \in 1..L : k # L => k \in 1..(L - 1) /\ k + 1 \in 1..L
    BY <1>2
  <1>4. \A k \in 1..L : s[k] = End(s) \/ nx[s[k]] \in Range(s)
    BY <1>2, <1>3 DEF List, End
  <1>. QED
    BY <1>2, <1>4 DEF List, End

\* A write to a node that is not in a list does not touch it.
LEMMA ListFrame ==
    ASSUME NEW nx, NEW nx2, NEW h, NEW s, List(nx, h, s),
           \A n \in Range(s) : nx2[n] = nx[n]
    PROVE  List(nx2, h, s)
  <1>1. s \in Seq(Nodes) /\ s # <<>>
    BY DEF List
  <1>2. PICK L \in Nat : /\ L = Len(s)
                         /\ \A k \in 1..L : s[k] \in Range(s)
                         /\ L \in 1..L
    BY <1>1, SeqFacts
  <1>3. \A k \in 1..(L - 1) : k \in 1..L
    BY <1>2
  <1>4. /\ nx2[s[L]] = nx[s[L]]
        /\ \A k \in 1..(L - 1) : nx2[s[k]] = nx[s[k]]
    BY <1>2, <1>3
  <1>. QED
    BY <1>2, <1>4 DEF List

\* The exchange on the next of the last node appends.
LEMMA ListAppend ==
    ASSUME NEW nx, NEW nx2, NEW h, NEW s, List(nx, h, s),
           NEW n \in Nodes, n \notin Range(s),
           nx2[End(s)] = n, nx2[n] = Null,
           \A m \in Range(s) : m # End(s) => nx2[m] = nx[m]
    PROVE  /\ List(nx2, h, Append(s, n))
           /\ End(Append(s, n)) = n
           /\ Range(Append(s, n)) = Range(s) \cup {n}
  <1>1. s \in Seq(Nodes) /\ s # <<>> /\ IsInjective(s)
    BY DEF List
  <1>2. PICK L \in Nat : /\ L = Len(s)
                         /\ DOMAIN s = 1..L
                         /\ \A k \in 1..L : s[k] \in Range(s)
                         /\ L \in 1..L /\ 1 \in 1..L
    BY <1>1, SeqFacts
  <1>3. PICK q \in Seq(Nodes) : /\ q = Append(s, n) /\ q # <<>>
                                /\ Len(q) = L + 1
                                /\ q[L + 1] = n
                                /\ \A k \in 1..L : q[k] = s[k]
                                /\ Range(q) = Range(s) \cup {n}
                                /\ IsInjective(q)
    BY <1>1, <1>2, AppendFacts
  <1>4. ASSUME NEW k \in 1..((L + 1) - 1)
        PROVE  nx2[q[k]] = q[k + 1]
    <2>1. k \in 1..L /\ (k = L \/ (k \in 1..(L - 1) /\ k # L /\ k + 1 \in 1..L))
      BY <1>2
    <2>2. CASE k = L
      BY <1>2, <1>3, <2>1, <2>2 DEF End
    <2>3. CASE k \in 1..(L - 1) /\ k # L /\ k + 1 \in 1..L
      <3>1. nx[s[k]] = s[k + 1]
        BY <1>2, <2>3 DEF List
      <3>2. s[k] # s[L]
        BY <1>1, <1>2, <2>1, <2>3 DEF IsInjective
      <3>3. nx2[s[k]] = nx[s[k]]
        BY <1>2, <2>1, <3>2 DEF End
      <3>. QED
        BY <1>3, <2>1, <2>3, <3>1, <3>3
    <2>. QED
      BY <2>1, <2>2, <2>3
  <1>5. q[1] = h
    BY <1>2, <1>3 DEF List
  <1>6. List(nx2, h, q)
    BY <1>3, <1>4, <1>5 DEF List
  <1>. QED
    BY <1>3, <1>6 DEF End

\* Without its first node a list is the list from the next one.
LEMMA ListTail ==
    ASSUME NEW nx, NEW h, NEW s, List(nx, h, s), nx[h] # Null
    PROVE  /\ List(nx, nx[h], Tail(s))
           /\ End(Tail(s)) = End(s)
           /\ Range(Tail(s)) = Range(s) \ {h}
           /\ Len(s) >= 2 /\ s[2] = nx[h]
  <1>1. s \in Seq(Nodes) /\ s # <<>> /\ IsInjective(s) /\ s[1] = h
    BY DEF List
  <1>2. PICK L \in Nat : L = Len(s) /\ 1 \in 1..L
    BY <1>1, SeqFacts
  <1>3. L # 1
    BY <1>1, <1>2 DEF List
  <1>4. PICK n \in Nat : L = n + 1 /\ n # 0
    <2>1. L - 1 \in Nat /\ L = (L - 1) + 1 /\ L - 1 # 0
      BY <1>2, <1>3
    <2>. QED
      BY <2>1
  <1>5. /\ Tail(s) \in Seq(Nodes) /\ Len(Tail(s)) = Len(s) - 1
        /\ \A k \in 1..(Len(s) - 1) : Tail(s)[k] = s[k + 1]
        /\ Range(s) = Range(Tail(s)) \cup {s[1]}
        /\ IsInjective(Tail(s)) /\ s[1] \notin Range(Tail(s))
    BY <1>1, TailFacts
  <1>6. PICK q \in Seq(Nodes) : /\ q = Tail(s) /\ Len(q) = n
                                /\ \A k \in 1..n : q[k] = s[k + 1]
                                /\ Range(s) = Range(q) \cup {h}
                                /\ IsInjective(q) /\ h \notin Range(q)
    <2>1. Len(s) - 1 = n
      BY <1>2, <1>4
    <2>. QED
      BY <1>1, <1>5, <2>1
  <1>7. /\ 1 \in 1..n /\ n \in 1..n /\ 1 \in 1..(L - 1)
        /\ \A k \in 1..(n - 1) : /\ k \in 1..n /\ k + 1 \in 1..n
                                 /\ k + 1 \in 1..(L - 1)
    BY <1>4
  <1>8. nx[s[1]] = s[1 + 1] /\ nx[s[n + 1]] = Null
    BY <1>2, <1>4, <1>7 DEF List
  <1>9. \A k \in 1..(n - 1) : nx[q[k]] = q[k + 1]
    BY <1>2, <1>6, <1>7 DEF List
  <1>10. List(nx, nx[h], q) /\ End(q) = End(s)
    <2>1. q # <<>>
      BY <1>4, <1>6, EmptySeq
    <2>. QED
      BY <1>1, <1>2, <1>4, <1>6, <1>7, <1>8, <1>9, <2>1 DEF List, End
  <1>. QED
    BY <1>1, <1>2, <1>4, <1>6, <1>8, <1>10

-----------------------------------------------------------------------------
(* Types *)

Unlinked == {"construct", "tail", "next", "link", "help"}
Looping == {"next", "link", "help", "swing"}

\* What the place of a producer says of its local variables.
LocalInv ==
    \A p \in Producers :
        /\ pc[p] # "idle" => node[p] \in Nodes /\ item[p] \in Items
        /\ pc[p] \in Looping => oldTail[p] \in Nodes
        /\ pc[p] = "help" => seenNext[p] \in Nodes

TypeInv == TypeOK /\ LocalInv

LEMMA TypeInit == Init => TypeInv
  <1>1. /\ <<>> \in Seq(Nodes) /\ <<>> \in Seq(Items)
        /\ <<>> \in Seq(Items \cup {NoItem})
    OBVIOUS
  <1>. QED
    BY <1>1 DEF Init, TypeInv, TypeOK, LocalInv, Looping, Labels

LEMMA TypeStep == TypeInv /\ [Next]_vars => TypeInv'
  <1> SUFFICES ASSUME TypeInv, [Next]_vars
               PROVE  TypeInv'
    OBVIOUS
  <1> USE DEF TypeInv, TypeOK, LocalInv, Looping, Labels
  <1>1. ASSUME NEW p \in Producers, NEW i \in Items, PushAlloc(p, i)
        PROVE  TypeInv'
    <2>1. PICK n \in Nodes : /\ New(n)
                             /\ node' = [node EXCEPT ![p] = n]
                             /\ reused' = (reused \/ ReliedOn(n))
      BY <1>1 DEF PushAlloc
    <2>2. pool' \in Seq(Nodes) /\ unused' \in SUBSET Nodes
      <3>1. CASE pool # <<>>
        <4>1. Tail(pool) \in Seq(Nodes)
          BY <3>1, TailFacts
        <4>. QED
          BY <2>1, <3>1, <4>1 DEF New
      <3>2. CASE pool = <<>>
        BY <2>1, <3>2 DEF New
      <3>. QED
        BY <3>1, <3>2
    <2>3. reused' \in BOOLEAN
      BY <2>1, Zenon
    <2>. QED
      BY <1>1, <2>1, <2>2, <2>3 DEF PushAlloc, Goto
  <1>2. ASSUME NEW p \in Producers, PushStep(p)
        PROVE  TypeInv'
    <2>1. CASE PushConstruct(p)
      BY <2>1 DEF PushConstruct, Goto
    <2>2. CASE LoadTail(p)
      BY <2>2 DEF LoadTail, Goto
    <2>3. CASE LoadNext(p)
      BY <2>3 DEF LoadNext, Goto
    <2>4. CASE Link(p)
      <3>1. linked' \in Seq(Items)
        BY <2>4, AppendFacts DEF Link, Goto
      <3>. QED
        BY <2>4, <3>1 DEF Link, Goto
    <2>5. CASE LinkFails(p)
      BY <2>5 DEF LinkFails, Goto
    <2>6. CASE Help(p)
      BY <2>6 DEF Help, SwingTail, Goto
    <2>7. CASE Swing(p)
      BY <2>7 DEF Swing, SwingTail, Goto
    <2>. QED
      BY <1>2, <2>1, <2>2, <2>3, <2>4, <2>5, <2>6, <2>7 DEF PushStep
  <1>3. CASE Pop
    <2>1. popped' \in Seq(Items \cup {NoItem})
      BY <1>3, AppendFacts DEF Pop
    <2>. QED
      BY <1>3, <2>1 DEF Pop
  <1>4. CASE PopFree
    <2>1. pool' \in Seq(Nodes)
      BY <1>4, ConsFacts DEF PopFree
    <2>. QED
      BY <1>4, <2>1 DEF PopFree
  <1>5. CASE Quiescent \/ UNCHANGED vars
    BY <1>5 DEF Quiescent, vars
  <1>. QED
    BY <1>1, <1>2, <1>3, <1>4, <1>5 DEF Next

LEMMA TypeInvariant == Spec => []TypeInv
  BY TypeInit, TypeStep, PTL DEF Spec

\* The type invariant; neither end of the list is ever null.
THEOREM TypeCorrect == Spec => []TypeOK
  <1>1. TypeInv => TypeOK
    BY DEF TypeInv
  <1>. QED
    BY TypeInvariant, <1>1, PTL

-----------------------------------------------------------------------------
(* The list, as long as no node came back that a Push relied on.  C is the  *)
(* set of its nodes and e the last of them.                                 *)

Freed == Range(pool) \cup {freeing}

\* A node is in the list, in the pool, being freed, about to be linked by one
\* producer, or was never handed out.
Apart(C) ==
    /\ IsInjective(pool)
    /\ Range(pool) \cap unused = {}
    /\ freeing \notin Range(pool) \cup unused
    /\ C \cap (Freed \cup unused) = {}
    /\ \A p \in Producers :
           pc[p] \in Unlinked => node[p] \notin Freed \cup unused \cup C
    /\ \A p, q \in Producers :
           pc[p] \in Unlinked /\ pc[q] \in Unlinked /\ node[p] = node[q] => p = q

\* A node is as its constructor left it until it is linked.
Ready ==
    \A p \in Producers :
        pc[p] \in Unlinked \ {"construct"} =>
            next[node[p]] = Null /\ data[node[p]] = item[p]

\* _tail is one behind at most, though the node it points to may be freed.
Ends(C, e) ==
    /\ tail = e \/ next[tail] = e
    /\ tail \in C \cup Freed

\* A producer that saw the last node sees it in _tail too.
Looking(C) ==
    \A p \in Producers : pc[p] \in Looping =>
        /\ oldTail[p] \in C \cup Freed
        /\ next[oldTail[p]] = Null => tail = oldTail[p]
        /\ pc[p] = "help" => seenNext[p] = next[oldTail[p]]
        /\ pc[p] = "swing" => node[p] = next[oldTail[p]]

ListInv(s) ==
    /\ List(next, head, s)
    /\ Apart(Range(s))
    /\ Ready
    /\ Ends(Range(s), End(s))
    /\ Looking(Range(s))

Inv == reused \/ \E s : ListInv(s)

LEMMA ListInit == Init => Inv
  <1> SUFFICES ASSUME Init
               PROVE  Inv
    OBVIOUS
  <1>1. PICK d \in Nodes : /\ head = d /\ tail = d
                           /\ next = [n \in Nodes |-> Null]
                           /\ pool = <<>>
                           /\ unused = Nodes \ {d}
                           /\ freeing = Null
                           /\ pc = [p \in Producers |-> "idle"]
    BY DEF Init
  <1>2. PICK s \in Seq(Nodes) : s = <<d>> /\ Len(s) = 1 /\ s[1] = d /\ s # <<>>
    <2>1. <<d>> \in Seq(Nodes) /\ Len(<<d>>) = 1 /\ <<d>>[1] = d /\ <<d>> # <<>>
      OBVIOUS
    <2>. QED
      BY <2>1
  <1>3. DOMAIN s = 1..1 /\ 1..1 = {1}
    BY <1>2, SeqFacts
  <1>4. Range(s) = {d} /\ End(s) = d /\ IsInjective(s)
    BY <1>2, <1>3 DEF Range, IsInjective, End
  <1>5. List(next, head, s)
    BY <1>1, <1>2, <1>4 DEF List
  <1>6. Range(pool) = {} /\ IsInjective(pool)
    <2>1. DOMAIN pool = {}
      BY <1>1
    <2>. QED
      BY <2>1 DEF Range, IsInjective
  <1>7. Apart({d}) /\ Ready /\ Ends({d}, d) /\ Looking({d})
    BY <1>1, <1>6, MSPCAssumption
       DEF Apart, Ready, Ends, Looking, Unlinked, Looping, Freed
  <1>. QED
    BY <1>4, <1>5, <1>7 DEF Inv, ListInv

\* What the pool hands out was in it or never handed out.
LEMMA NewFacts ==
    ASSUME TypeInv, NEW C, Apart(C), NEW n \in Nodes, New(n)
    PROVE  /\ n \in Range(pool) \cup unused
           /\ Range(pool') = Range(pool) \ {n}
           /\ unused' = unused \ {n}
           /\ IsInjective(pool')
  <1>1. pool \in Seq(Nodes) /\ IsInjective(pool) /\ Range(pool) \cap unused = {}
    BY DEF TypeInv, TypeOK, Apart
  <1>2. CASE pool # <<>>
    <2>1. n = Head(pool) /\ pool' = Tail(pool) /\ unused' = unused
      BY <1>2 DEF New
    <2>2. /\ Head(pool) = pool[1]
          /\ Range(pool) = Range(Tail(pool)) \cup {pool[1]}
          /\ IsInjective(Tail(pool)) /\ pool[1] \notin Range(Tail(pool))
      BY <1>1, <1>2, TailFacts
    <2>. QED
      BY <1>1, <2>1, <2>2
  <1>3. CASE pool = <<>>
    <2>1. Range(pool) = {}
      <3>1. DOMAIN pool = {}
        BY <1>3
      <3>. QED
        BY <3>1 DEF Range
    <2>. QED
      BY <1>1, <1>3, <2>1 DEF New
  <1>. QED
    BY <1>2, <1>3

LEMMA AllocKeeps ==
    ASSUME TypeInv, NEW s, ListInv(s), ~reused',
           NEW p \in Producers, NEW i \in Items, PushAlloc(p, i)
    PROVE  ListInv(s)'
  <1>1. PICK n \in Nodes : /\ New(n)
                           /\ node' = [node EXCEPT ![p] = n]
                           /\ reused' = (reused \/ ReliedOn(n))
    BY DEF PushAlloc
  <1>2. PICK C, e : C = Range(s) /\ e = End(s)
    OBVIOUS
  <1>3. Apart(C) /\ Ready /\ Ends(C, e) /\ Looking(C) /\ List(next, head, s)
    BY <1>2 DEF ListInv
  <1>4. /\ n \in Range(pool) \cup unused
        /\ Range(pool') = Range(pool) \ {n}
        /\ unused' = unused \ {n}
        /\ IsInjective(pool')
    BY <1>1, <1>3, NewFacts
  <1>5. /\ n # tail
        /\ \A q \in Producers : pc[q] \in Looping => oldTail[q] # n
    BY <1>1 DEF ReliedOn, Looping
  <1>6. /\ pc[p] = "idle" /\ pc' = [pc EXCEPT ![p] = "construct"]
        /\ item' = [item EXCEPT ![p] = i]
        /\ UNCHANGED <<head, tail, next, data, oldTail, seenNext, freeing>>
    BY DEF PushAlloc, Goto
  <1>7. /\ pc \in [Producers -> Labels] /\ node \in [Producers -> Nodes \cup {Null}]
        /\ item \in [Producers -> Items \cup {NoItem}]
    BY DEF TypeInv, TypeOK
  <1>8. \A q \in Producers : q # p => /\ pc'[q] = pc[q] /\ node'[q] = node[q]
                                      /\ item'[q] = item[q]
    BY <1>1, <1>6, <1>7
  <1>9. pc'[p] = "construct" /\ node'[p] = n
    BY <1>1, <1>6, <1>7
  <1>10. Freed' = Freed \ {n} /\ n \notin C
    BY <1>3, <1>4, <1>6 DEF Freed, Apart
  <1>11. Apart(C)'
    <2>1. \A q \in Producers : q # p /\ pc[q] \in Unlinked => node[q] # n
      BY <1>3, <1>4 DEF Apart, Freed
    <2>2. n \notin Freed' /\ n \notin unused'
      BY <1>4, <1>10
    <2>3. \A q \in Producers :
              pc'[q] \in Unlinked => node'[q] \notin Freed' \cup unused' \cup C
      BY <1>3, <1>4, <1>8, <1>9, <1>10, <2>2 DEF Apart
    <2>4. \A q, r \in Producers :
              pc'[q] \in Unlinked /\ pc'[r] \in Unlinked /\ node'[q] = node'[r] => q = r
      BY <1>3, <1>8, <1>9, <2>1 DEF Apart
    <2>5. /\ Range(pool') \cap unused' = {}
          /\ freeing' \notin Range(pool') \cup unused'
          /\ C \cap (Freed' \cup unused') = {}
      BY <1>3, <1>4, <1>6, <1>10 DEF Apart
    <2>. QED
      BY <1>4, <2>3, <2>4, <2>5 DEF Apart
  <1>12. Ready'
    BY <1>3, <1>6, <1>8, <1>9 DEF Ready
  <1>13. Ends(C, e)'
    BY <1>3, <1>5, <1>6, <1>10 DEF Ends
  <1>14. Looking(C)'
    BY <1>3, <1>5, <1>6, <1>8, <1>9, <1>10 DEF Looking, Looping
  <1>. QED
    BY <1>2, <1>3, <1>6, <1>11, <1>12, <1>13, <1>14 DEF ListInv

LEMMA ConstructKeeps ==
    ASSUME TypeInv, NEW s, ListInv(s), NEW p \in Producers, PushConstruct(p)
    PROVE  ListInv(s)'
  <1>1. PICK C, e : C = Range(s) /\ e = End(s)
    OBVIOUS
  <1>2. Apart(C) /\ Ready /\ Ends(C, e) /\ Looking(C) /\ List(next, head, s)
    BY <1>1 DEF ListInv
  <1>3. /\ pc[p] = "construct" /\ pc' = [pc EXCEPT ![p] = "tail"]
        /\ next' = [next EXCEPT ![node[p]] = Null]
        /\ data' = [data EXCEPT ![node[p]] = item[p]]
        /\ UNCHANGED <<head, tail, pool, unused, node, item, oldTail, seenNext, freeing>>
    BY DEF PushConstruct, Goto
  <1>4. /\ pc \in [Producers -> Labels] /\ node[p] \in Nodes
        /\ next \in [Nodes -> Nodes \cup {Null}]
        /\ data \in [Nodes -> Items \cup {NoItem}]
        /\ tail \in Nodes /\ \A q \in Producers : pc[q] \in Looping => oldTail[q] \in Nodes
        /\ \A q \in Producers : pc[q] \in Unlinked => node[q] \in Nodes
    BY <1>3 DEF TypeInv, TypeOK, LocalInv, Unlinked
  <1>5. /\ node[p] \notin C \cup Freed
        /\ \A q \in Producers : q # p /\ pc[q] \in Unlinked => node[q] # node[p]
    BY <1>2, <1>3 DEF Apart, Unlinked
  <1>6. \A n \in Nodes : n # node[p] => next'[n] = next[n] /\ data'[n] = data[n]
    BY <1>3, <1>4
  <1>7. /\ pc'[p] = "tail" /\ next'[node[p]] = Null /\ data'[node[p]] = item[p]
        /\ \A q \in Producers : q # p => pc'[q] = pc[q]
    BY <1>3, <1>4
  <1>8. C \subseteq Nodes
    BY <1>1, <1>2, ListFacts
  <1>9. List(next', head', s)
    BY <1>1, <1>2, <1>3, <1>5, <1>6, <1>8, ListFrame
  <1>10. Apart(C)'
    <2>1. Freed' = Freed
      BY <1>3 DEF Freed
    <2>2. \A q \in Producers : pc'[q] \in Unlinked => pc[q] \in Unlinked
      BY <1>3, <1>7 DEF Unlinked
    <2>. QED
      BY <1>2, <1>3, <2>1, <2>2 DEF Apart
  <1>11. Ready'
    <2>1. ASSUME NEW q \in Producers, pc'[q] \in Unlinked \ {"construct"}
          PROVE  next'[node[q]] = Null /\ data'[node[q]] = item[q]
      <3>1. CASE q = p
        BY <1>7, <3>1
      <3>2. CASE q # p
        BY <1>2, <1>4, <1>5, <1>6, <1>7, <2>1, <3>2 DEF Ready
      <3>. QED
        BY <3>1, <3>2
    <2>. QED
      BY <1>3, <2>1 DEF Ready
  <1>12. Ends(C, e)'
    BY <1>2, <1>3, <1>4, <1>5, <1>6 DEF Ends, Freed
  <1>13. Looking(C)'
    <2>1. \A q \in Producers : pc'[q] \in Looping => q # p /\ pc[q] \in Looping
      BY <1>7 DEF Looping
    <2>2. \A q \in Producers :
              pc[q] \in Looping => /\ oldTail[q] \in C \cup Freed
                                   /\ next'[oldTail[q]] = next[oldTail[q]]
      BY <1>2, <1>4, <1>5, <1>6 DEF Looking
    <2>. QED
      BY <1>2, <1>3, <1>7, <2>1, <2>2 DEF Looking, Freed
  <1>. QED
    BY <1>1, <1>9, <1>10, <1>11, <1>12, <1>13 DEF ListInv

\* LoadTail, LoadNext and LinkFails move one producer and read.
LEMMA ReadKeeps ==
    ASSUME TypeInv, NEW s, ListInv(s), NEW p \in Producers,
           LoadTail(p) \/ LoadNext(p) \/ LinkFails(p)
    PROVE  ListInv(s)'
  <1>1. PICK C, e : C = Range(s) /\ e = End(s)
    OBVIOUS
  <1>2. Apart(C) /\ Ready /\ Ends(C, e) /\ Looking(C) /\ List(next, head, s)
    BY <1>1 DEF ListInv
  <1>3. UNCHANGED <<head, tail, next, data, pool, unused, node, item, freeing>>
    BY DEF LoadTail, LoadNext, LinkFails
  <1>4. /\ pc \in [Producers -> Labels]
        /\ oldTail \in [Producers -> Nodes \cup {Null}]
        /\ seenNext \in [Producers -> Nodes \cup {Null}]
    BY DEF TypeInv, TypeOK
  <1>5. /\ pc[p] \in Unlinked \ {"construct"} /\ pc'[p] \in Unlinked \ {"construct"}
        /\ \A q \in Producers : q # p => /\ pc'[q] = pc[q]
                                         /\ oldTail'[q] = oldTail[q]
                                         /\ seenNext'[q] = seenNext[q]
    BY <1>4 DEF LoadTail, LoadNext, LinkFails, Goto, Unlinked
  <1>6. Freed' = Freed
    BY <1>3 DEF Freed
  <1>7. Apart(C)'
    BY <1>2, <1>3, <1>5, <1>6 DEF Apart
  <1>8. Ready'
    BY <1>2, <1>3, <1>5 DEF Ready
  <1>9. Ends(C, e)'
    BY <1>2, <1>3, <1>6 DEF Ends
  <1>10. pc'[p] \in Looping => /\ oldTail'[p] \in C \cup Freed
                               /\ next[oldTail'[p]] = Null => tail = oldTail'[p]
                               /\ pc'[p] = "help" => seenNext'[p] = next[oldTail'[p]]
                               /\ pc'[p] # "swing"
    <2>1. CASE LoadTail(p)
      <3>1. oldTail'[p] = tail /\ pc'[p] = "next"
        BY <1>4, <2>1 DEF LoadTail, Goto
      <3>. QED
        BY <1>2, <3>1 DEF Ends
    <2>2. CASE LoadNext(p)
      <3>1. /\ pc[p] \in Looping /\ oldTail'[p] = oldTail[p]
            /\ seenNext'[p] = next[oldTail[p]] /\ pc'[p] # "swing"
        BY <1>4, <2>2 DEF LoadNext, Goto, Looping
      <3>. QED
        BY <1>2, <3>1 DEF Looking
    <2>3. CASE LinkFails(p)
      <3>1. pc'[p] = "tail"
        BY <1>4, <2>3 DEF LinkFails, Goto
      <3>. QED
        BY <3>1 DEF Looping
    <2>. QED
      BY <2>1, <2>2, <2>3
  <1>11. Looking(C)'
    BY <1>2, <1>3, <1>5, <1>6, <1>10 DEF Looking
  <1>. QED
    BY <1>1, <1>2, <1>3, <1>7, <1>8, <1>9, <1>11 DEF ListInv

\* Help and Swing move _tail to the last node, if it still is where they saw it.
LEMMA SwingKeeps ==
    ASSUME TypeInv, NEW s, ListInv(s), NEW p \in Producers, Help(p) \/ Swing(p)
    PROVE  ListInv(s)'
  <1>1. PICK C, e : C = Range(s) /\ e = End(s)
    OBVIOUS
  <1>2. Apart(C) /\ Ready /\ Ends(C, e) /\ Looking(C) /\ List(next, head, s)
    BY <1>1 DEF ListInv
  <1>3. UNCHANGED <<head, next, data, pool, unused, node, item, oldTail, seenNext,
                    freeing>>
    BY DEF Help, Swing, SwingTail
  <1>4. /\ pc \in [Producers -> Labels] /\ Null \notin Nodes
        /\ pc[p] = "help" => seenNext[p] \in Nodes
        /\ pc[p] = "swing" => node[p] \in Nodes
    BY MSPCAssumption DEF TypeInv, TypeOK, LocalInv
  <1>5. /\ pc[p] \in Looping
        /\ pc'[p] \in Unlinked \ {"construct"} => pc[p] \in Unlinked \ {"construct"}
        /\ pc'[p] \notin Looping
        /\ \A q \in Producers : q # p => pc'[q] = pc[q]
    BY <1>4 DEF Help, Swing, Goto, Unlinked, Looping
  <1>6. /\ tail' = IF tail = oldTail[p] THEN next[oldTail[p]] ELSE tail
        /\ next[oldTail[p]] # Null
    <2>1. CASE Help(p)
      <3>1. pc[p] = "help" /\ tail' = IF tail = oldTail[p] THEN seenNext[p] ELSE tail
        BY <2>1 DEF Help, SwingTail, Goto
      <3>. QED
        BY <1>2, <1>4, <1>5, <3>1 DEF Looking
    <2>2. CASE Swing(p)
      <3>1. pc[p] = "swing" /\ tail' = IF tail = oldTail[p] THEN node[p] ELSE tail
        BY <2>2 DEF Swing, SwingTail, Goto
      <3>. QED
        BY <1>2, <1>4, <1>5, <3>1 DEF Looking
    <2>. QED
      BY <2>1, <2>2
  <1>7. e \in C /\ next[e] = Null
    BY <1>1, <1>2, ListFacts
  <1>8. tail = oldTail[p] => tail' = e
    BY <1>2, <1>6, <1>7 DEF Ends
  <1>9. Freed' = Freed
    BY <1>3 DEF Freed
  <1>10. Apart(C)'
    <2>1. \A q \in Producers : pc'[q] \in Unlinked => pc[q] \in Unlinked
      BY <1>4, <1>5 DEF Help, Swing, Goto, Unlinked
    <2>. QED
      BY <1>2, <1>3, <1>9, <2>1 DEF Apart
  <1>11. Ready'
    BY <1>2, <1>3, <1>5 DEF Ready
  <1>12. Ends(C, e)'
    BY <1>2, <1>3, <1>6, <1>7, <1>8, <1>9 DEF Ends
  <1>13. Looking(C)'
    BY <1>2, <1>3, <1>5, <1>6, <1>9 DEF Looking
  <1>. QED
    BY <1>1, <1>2, <1>3, <1>10, <1>11, <1>12, <1>13 DEF ListInv

\* The exchange on next succeeds only at the last node, and appends to it.
LEMMA LinkAppends ==
    ASSUME TypeInv, NEW s, ListInv(s), NEW p \in Producers, Link(p)
    PROVE  /\ oldTail[p] = End(s) /\ tail = End(s)
           /\ node[p] \in Nodes /\ node[p] \notin Range(s)
           /\ List(next', head', Append(s, node[p]))
           /\ End(Append(s, node[p])) = node[p]
           /\ Range(Append(s, node[p])) = Range(s) \cup {node[p]}
  <1>1. /\ pc[p] = "link" /\ next[oldTail[p]] = Null
        /\ next' = [next EXCEPT ![oldTail[p]] = node[p]]
        /\ head' = head
    BY DEF Link, Goto
  <1>2. PICK C, e : C = Range(s) /\ e = End(s)
    OBVIOUS
  <1>3. Apart(C) /\ Ready /\ Ends(C, e) /\ Looking(C) /\ List(next, head, s)
    BY <1>2 DEF ListInv
  <1>4. /\ next \in [Nodes -> Nodes \cup {Null}] /\ node[p] \in Nodes
        /\ Null \notin Nodes
    BY <1>1, MSPCAssumption DEF TypeInv, TypeOK, LocalInv
  <1>5. C \subseteq Nodes /\ e \in C /\ next[e] = Null
    BY <1>2, <1>3, ListFacts
  <1>6. tail = oldTail[p]
    BY <1>1, <1>3 DEF Looking, Looping
  <1>7. tail = e
    BY <1>1, <1>3, <1>4, <1>5, <1>6 DEF Ends
  <1>8. node[p] \notin C /\ next[node[p]] = Null
    BY <1>1, <1>3 DEF Apart, Ready, Unlinked
  <1>9. /\ next'[e] = node[p] /\ next'[node[p]] = Null
        /\ \A m \in C : m # e => next'[m] = next[m]
    BY <1>1, <1>4, <1>5, <1>6, <1>7, <1>8
  <1>10. PICK n, nx2 : n \in Nodes /\ n = node[p] /\ nx2 = next'
    BY <1>4
  <1>11. /\ List(nx2, head, Append(s, n))
         /\ End(Append(s, n)) = n
         /\ Range(Append(s, n)) = Range(s) \cup {n}
    BY <1>2, <1>3, <1>8, <1>9, <1>10, ListAppend
  <1>. QED
    BY <1>1, <1>2, <1>4, <1>6, <1>7, <1>8, <1>10, <1>11

LEMMA LinkKeeps ==
    ASSUME TypeInv, NEW s, ListInv(s), NEW p \in Producers, Link(p)
    PROVE  \E s2 : ListInv(s2)'
  <1>1. PICK C, e : C = Range(s) /\ e = End(s)
    OBVIOUS
  <1>2. Apart(C) /\ Ready /\ Ends(C, e) /\ Looking(C) /\ List(next, head, s)
    BY <1>1 DEF ListInv
  <1>3. /\ oldTail[p] = e /\ tail = e
        /\ node[p] \in Nodes /\ node[p] \notin C
        /\ List(next', head', Append(s, node[p]))
        /\ End(Append(s, node[p])) = node[p]
        /\ Range(Append(s, node[p])) = C \cup {node[p]}
    BY <1>1, LinkAppends
  <1>4. PICK n, s2 : n \in Nodes /\ n = node[p] /\ s2 = Append(s, node[p])
    BY <1>3
  <1>5. /\ pc[p] = "link" /\ next[e] = Null
        /\ pc' = [pc EXCEPT ![p] = "swing"]
        /\ next' = [next EXCEPT ![e] = n]
        /\ UNCHANGED <<head, tail, data, pool, unused, node, item, oldTail, seenNext,
                       freeing>>
    BY <1>3, <1>4 DEF Link, Goto
  <1>6. /\ pc \in [Producers -> Labels] /\ next \in [Nodes -> Nodes \cup {Null}]
        /\ Null \notin Nodes
        /\ \A q \in Producers : /\ pc[q] \in Unlinked => node[q] \in Nodes
                                /\ pc[q] \in Looping => oldTail[q] \in Nodes
                                /\ pc[q] = "help" => seenNext[q] \in Nodes
                                /\ pc[q] = "swing" => node[q] \in Nodes
    BY MSPCAssumption DEF TypeInv, TypeOK, LocalInv, Unlinked
  <1>7. C \subseteq Nodes /\ e \in C
    BY <1>1, <1>2, ListFacts
  <1>8. /\ next'[e] = n
        /\ \A m \in Nodes : m # e => next'[m] = next[m]
    BY <1>5, <1>6, <1>7
  <1>9. pc'[p] = "swing" /\ \A q \in Producers : q # p => pc'[q] = pc[q]
    BY <1>5, <1>6
  <1>10. Freed' = Freed
    BY <1>5 DEF Freed
  <1>11. Apart(C \cup {n})'
    <2>1. \A q \in Producers : pc'[q] \in Unlinked => q # p /\ pc[q] \in Unlinked
      BY <1>9 DEF Unlinked
    <2>2. \A q \in Producers : q # p /\ pc[q] \in Unlinked => node[q] # n
      BY <1>2, <1>4, <1>5 DEF Apart, Unlinked
    <2>3. n \notin Freed /\ n \notin unused
      BY <1>2, <1>4, <1>5 DEF Apart, Unlinked
    <2>. QED
      BY <1>2, <1>5, <1>10, <2>1, <2>2, <2>3 DEF Apart
  <1>12. Ready'
    <2>1. \A q \in Producers : pc[q] \in Unlinked => node[q] # e
      BY <1>2, <1>7 DEF Apart
    <2>. QED
      BY <1>2, <1>5, <1>6, <1>8, <1>9, <2>1 DEF Ready, Unlinked
  <1>13. Ends(C \cup {n}, n)'
    BY <1>2, <1>3, <1>5, <1>8, <1>10 DEF Ends
  <1>14. Looking(C \cup {n})'
    <2>1. ASSUME NEW q \in Producers, pc'[q] \in Looping
          PROVE  /\ oldTail[q] \in C \cup Freed
                 /\ next'[oldTail[q]] = Null => tail = oldTail[q]
                 /\ pc'[q] = "help" => seenNext[q] = next'[oldTail[q]]
                 /\ pc'[q] = "swing" => node[q] = next'[oldTail[q]]
      <3>1. pc[q] \in Looping /\ oldTail[q] \in Nodes
        BY <1>5, <1>6, <1>9, <2>1 DEF Looping
      <3>2. CASE oldTail[q] = e
        BY <1>2, <1>3, <1>4, <1>5, <1>6, <1>8, <1>9, <3>1, <3>2 DEF Looking
      <3>3. CASE oldTail[q] # e
        BY <1>2, <1>3, <1>6, <1>8, <1>9, <3>1, <3>3 DEF Looking
      <3>. QED
        BY <3>2, <3>3
    <2>. QED
      BY <1>5, <1>10, <2>1 DEF Looking
  <1>15. ListInv(s2)'
    BY <1>3, <1>4, <1>11, <1>12, <1>13, <1>14 DEF ListInv
  <1>. QED
    BY <1>15

LEMMA PopKeeps ==
    ASSUME TypeInv, NEW s, ListInv(s), Pop
    PROVE  \E s2 : ListInv(s2)'
  <1>1. PICK C, D, e : C = Range(s) /\ D = C \ {head} /\ e = End(s)
    OBVIOUS
  <1>2. Apart(C) /\ Ready /\ Ends(C, e) /\ Looking(C) /\ List(next, head, s)
    BY <1>1 DEF ListInv
  <1>3. /\ freeing = Null /\ next[head] # Null
        /\ head' = next[head] /\ freeing' = head
        /\ UNCHANGED <<tail, next, data, pool, unused, pc, node, item, oldTail,
                       seenNext>>
    BY DEF Pop
  <1>4. PICK s2 : s2 = Tail(s)
    OBVIOUS
  <1>5. /\ List(next, next[head], s2)
        /\ End(s2) = e
        /\ Range(s2) = D
    BY <1>1, <1>2, <1>3, <1>4, ListTail
  <1>6. C \subseteq Nodes /\ head \in C
    BY <1>1, <1>2, ListFacts
  <1>7. /\ Null \notin Nodes /\ tail \in Nodes
        /\ \A q \in Producers : pc[q] \in Looping => oldTail[q] \in Nodes
    BY MSPCAssumption DEF TypeInv, TypeOK, LocalInv
  <1>8. \A n \in Nodes : n \in C \cup Freed => n \in D \cup Freed'
    BY <1>1, <1>3, <1>7 DEF Freed
  <1>9. Apart(D)'
    <2>1. \A n \in Freed' : n \in Freed \cup C
      BY <1>3, <1>6 DEF Freed
    <2>2. /\ head \notin Range(pool) \cup unused
          /\ C \cap Range(pool) = {} /\ C \cap unused = {}
      BY <1>2, <1>6 DEF Apart, Freed
    <2>3. D \cap (Freed' \cup unused') = {}
      BY <1>1, <1>3, <2>2 DEF Freed
    <2>. QED
      BY <1>1, <1>2, <1>3, <2>1, <2>2, <2>3 DEF Apart
  <1>10. Ready'
    BY <1>2, <1>3 DEF Ready
  <1>11. Ends(D, e)'
    BY <1>2, <1>3, <1>7, <1>8 DEF Ends
  <1>12. Looking(D)'
    BY <1>2, <1>3, <1>7, <1>8 DEF Looking
  <1>13. ListInv(s2)'
    BY <1>3, <1>5, <1>9, <1>10, <1>11, <1>12 DEF ListInv
  <1>. QED
    BY <1>13

LEMMA FreeKeeps ==
    ASSUME TypeInv, NEW s, ListInv(s), PopFree
    PROVE  ListInv(s)'
  <1>1. PICK C, e : C = Range(s) /\ e = End(s)
    OBVIOUS
  <1>2. Apart(C) /\ Ready /\ Ends(C, e) /\ Looking(C) /\ List(next, head, s)
    BY <1>1 DEF ListInv
  <1>3. /\ freeing # Null /\ freeing' = Null /\ pool' = <<freeing>> \o pool
        /\ UNCHANGED <<head, tail, next, data, unused, pc, node, item, oldTail,
                       seenNext>>
    BY DEF PopFree
  <1>4. /\ pool \in Seq(Nodes) /\ freeing \in Nodes /\ Null \notin Nodes
        /\ unused \subseteq Nodes
        /\ \A q \in Producers : pc[q] \in Unlinked => node[q] \in Nodes
    BY <1>3, MSPCAssumption DEF TypeInv, TypeOK, LocalInv, Unlinked
  <1>5. C \subseteq Nodes
    BY <1>1, <1>2, ListFacts
  <1>6. IsInjective(pool) /\ freeing \notin Range(pool)
    BY <1>2 DEF Apart
  <1>7. /\ Range(pool') = Range(pool) \cup {freeing}
        /\ IsInjective(pool') /\ pool' \in Seq(Nodes)
    BY <1>3, <1>4, <1>6, ConsFacts
  <1>8. Freed' = Freed \cup {Null} /\ Null \notin Range(pool')
    BY <1>3, <1>4, <1>7, SeqFacts DEF Freed
  <1>9. Apart(C)'
    <2>1. /\ Range(pool') \cap unused = {}
          /\ Null \notin Range(pool') \cup unused
          /\ C \cap (Freed' \cup unused) = {}
      BY <1>2, <1>4, <1>5, <1>7, <1>8 DEF Apart, Freed
    <2>2. \A q \in Producers :
              pc[q] \in Unlinked => node[q] \notin Freed' \cup unused \cup C
      BY <1>2, <1>4, <1>8 DEF Apart
    <2>. QED
      BY <1>2, <1>3, <1>7, <2>1, <2>2 DEF Apart
  <1>10. Ready'
    BY <1>2, <1>3 DEF Ready
  <1>11. Ends(C, e)'
    BY <1>2, <1>3, <1>8 DEF Ends
  <1>12. Looking(C)'
    BY <1>2, <1>3, <1>8 DEF Looking
  <1>. QED
    BY <1>1, <1>2, <1>3, <1>9, <1>10, <1>11, <1>12 DEF ListInv

\* reused is for good.
LEMMA ReusedStays == TypeInv /\ [Next]_vars /\ reused => reused'
  <1> SUFFICES ASSUME TypeInv, [Next]_vars, reused
               PROVE  reused'
    OBVIOUS
  <1>1. ASSUME NEW p \in Producers, NEW i \in Items, PushAlloc(p, i)
        PROVE  reused'
    <2>1. PICK n \in Nodes : reused' = (reused \/ ReliedOn(n))
      BY <1>1 DEF PushAlloc
    <2>. QED
      BY <2>1, Zenon
  <1>2. (\E p \in Producers : PushStep(p)) \/ Pop \/ PopFree \/ Quiescent
            \/ UNCHANGED vars => reused' = reused
    BY DEF PushStep, PushConstruct, LoadTail, LoadNext, Link, LinkFails, Help, Swing,
           SwingTail, Pop, PopFree, Quiescent, vars
  <1>. QED
    BY <1>1, <1>2 DEF Next

LEMMA ListStep == TypeInv /\ Inv /\ [Next]_vars => Inv'
  <1> SUFFICES ASSUME TypeInv, Inv, [Next]_vars, ~reused'
               PROVE  \E s2 : ListInv(s2)'
    BY Zenon DEF Inv
  <1>1. ~reused
    BY ReusedStays
  <1>2. PICK s : ListInv(s)
    BY <1>1 DEF Inv
  <1>3. ASSUME NEW p \in Producers, NEW i \in Items, PushAlloc(p, i)
        PROVE  ListInv(s)'
    BY <1>2, <1>3, AllocKeeps
  <1>4. ASSUME NEW p \in Producers, PushStep(p)
        PROVE  \E s2 : ListInv(s2)'
    <2>1. CASE PushConstruct(p)
      BY <1>2, <2>1, ConstructKeeps
    <2>2. CASE LoadTail(p) \/ LoadNext(p) \/ LinkFails(p)
      BY <1>2, <2>2, ReadKeeps
    <2>3. CASE Link(p)
      BY <1>2, <2>3, LinkKeeps
    <2>4. CASE Help(p) \/ Swing(p)
      BY <1>2, <2>4, SwingKeeps
    <2>. QED
      BY <1>4, <2>1, <2>2, <2>3, <2>4 DEF PushStep
  <1>5. CASE Pop
    BY <1>2, <1>5, PopKeeps
  <1>6. CASE PopFree
    BY <1>2, <1>6, FreeKeeps
  <1>7. CASE Quiescent \/ UNCHANGED vars
    <2>1. UNCHANGED vars
      BY <1>7 DEF Quiescent
    <2>2. ListInv(s)'
      BY <1>2, <2>1 DEF vars, ListInv, Apart, Ready, Ends, Looking, Freed
    <2>. QED
      BY <2>2
  <1>. QED
    BY <1>3, <1>4, <1>5, <1>6, <1>7 DEF Next

LEMMA ListInvariant == Spec => [](TypeInv /\ Inv)
  <1>1. Init => TypeInv /\ Inv
    BY TypeInit, ListInit
  <1>2. TypeInv /\ Inv /\ [Next]_vars => TypeInv' /\ Inv'
    BY TypeStep, ListStep
  <1>. QED
    BY <1>1, <1>2, PTL DEF Spec

\* No node the consumer can still reach is in the pool, about to be freed, or
\* was never handed out, until a node comes back that a Push relies on.
THEOREM LiveNodesKept == Spec => []LiveNodesNotFreed
  <1>1. Inv => LiveNodesNotFreed
    <2> SUFFICES ASSUME NEW s, ListInv(s)
                 PROVE  LiveNodesNotFreed
      BY DEF Inv, LiveNodesNotFreed
    <2>1. Chain = s
      <3>1. Chain = Along(next, head)
        BY DEF Chain, Along
      <3>. QED
        BY <3>1, AlongList DEF ListInv
    <2>2. Range(s) \cap (Freed \cup unused) = {}
      BY DEF ListInv, Apart
    <2>3. Range(Chain) \cap (Range(pool) \cup unused \cup {freeing}) = {}
      BY <2>1, <2>2 DEF Freed
    <2>. QED
      BY <2>3 DEF LiveNodesNotFreed
  <1>. QED
    BY ListInvariant, <1>1, PTL

-----------------------------------------------------------------------------
(* The list is a FIFO.                                                     *)

\* Contents, of any list and any data.
Values(d) == {d[n] : n \in Nodes}
Carried(s, d) == LET nodes == Tail(s) IN [k \in 1..Len(nodes) |-> d[nodes[k]]]

LEMMA ChainIs ==
    ASSUME NEW s, List(next, head, s)
    PROVE  Chain = s /\ Contents = Carried(s, data)
  <1>1. Chain = Along(next, head)
    BY DEF Chain, Along
  <1>2. Chain = s
    BY <1>1, AlongList
  <1>. QED
    BY <1>2 DEF Contents, Carried

LEMMA ChainIsNext ==
    ASSUME NEW s, List(next', head', s)
    PROVE  Contents' = Carried(s, data')
  <1>1. Chain' = Along(next', head')
    BY DEF Chain, Along
  <1>2. Chain' = s
    BY <1>1, AlongList
  <1>. QED
    BY <1>2 DEF Contents, Carried

LEMMA CarriedFacts ==
    ASSUME NEW nx, NEW h, NEW s, List(nx, h, s), NEW d
    PROVE  /\ Carried(s, d) \in Seq(Values(d))
           /\ Len(Carried(s, d)) = Len(s) - 1
           /\ \A k \in 1..(Len(s) - 1) : Carried(s, d)[k] = d[s[k + 1]]
  <1>1. s \in Seq(Nodes) /\ s # <<>>
    BY DEF List
  <1>2. PICK q \in Seq(Nodes) : /\ q = Tail(s) /\ Len(q) = Len(s) - 1
                                /\ \A k \in 1..(Len(s) - 1) : q[k] = s[k + 1]
    <2>1. /\ Tail(s) \in Seq(Nodes) /\ Len(Tail(s)) = Len(s) - 1
          /\ \A k \in 1..(Len(s) - 1) : Tail(s)[k] = s[k + 1]
      BY <1>1, TailFacts
    <2>. QED
      BY <2>1
  <1>3. PICK n \in Nat : n = Len(q) /\ n = Len(s) - 1
    BY <1>2, LenProperties
  <1>4. \A k \in 1..n : q[k] \in Nodes /\ d[q[k]] \in Values(d)
    BY <1>3, ElementOfSeq DEF Values
  <1>5. Carried(s, d) = [k \in 1..n |-> d[q[k]]]
    BY <1>2, <1>3 DEF Carried
  <1>6. [k \in 1..n |-> d[q[k]]] \in Seq(Values(d)) /\ Len([k \in 1..n |-> d[q[k]]]) = n
    BY <1>4
  <1>. QED
    BY <1>2, <1>3, <1>5, <1>6

LEMMA CarriedSame ==
    ASSUME NEW nx, NEW h, NEW s, List(nx, h, s), NEW d, NEW d2,
           \A n \in Range(s) : d2[n] = d[n]
    PROVE  Carried(s, d2) = Carried(s, d)
  <1>1. s \in Seq(Nodes) /\ s # <<>>
    BY DEF List
  <1>2. PICK q \in Seq(Nodes) : q = Tail(s) /\ Range(q) \subseteq Range(s)
    BY <1>1, TailFacts
  <1>3. \A k \in 1..Len(q) : d2[q[k]] = d[q[k]]
    BY <1>2, SeqFacts
  <1>. QED
    BY <1>2, <1>3 DEF Carried

\* What Pop takes is the oldest item.
LEMMA CarriedPop ==
    ASSUME NEW nx, NEW h, NEW s, List(nx, h, s), nx[h] # Null, NEW d
    PROVE  /\ Carried(s, d) # <<>>
           /\ Head(Carried(s, d)) = d[nx[h]]
           /\ Carried(Tail(s), d) = Tail(Carried(s, d))
  <1>1. /\ Carried(s, d) \in Seq(Values(d))
        /\ Len(Carried(s, d)) = Len(s) - 1
        /\ \A k \in 1..(Len(s) - 1) : Carried(s, d)[k] = d[s[k + 1]]
    BY CarriedFacts
  <1>2. PICK q : q = Tail(s)
    OBVIOUS
  <1>3. /\ List(nx, nx[h], q) /\ Len(s) >= 2 /\ s[2] = nx[h]
        /\ s \in Seq(Nodes) /\ s # <<>>
    BY <1>2, ListTail DEF List
  <1>4. PICK n \in Nat \ {0} : Len(s) = n + 1 /\ Len(s) - 1 = n
    <2>1. Len(s) \in Nat
      BY <1>3, LenProperties
    <2>2. Len(s) - 1 \in Nat \ {0} /\ Len(s) = (Len(s) - 1) + 1
      BY <1>3, <2>1
    <2>. QED
      BY <2>2
  <1>5. Len(q) = n /\ \A k \in 1..n : q[k] = s[k + 1]
    BY <1>2, <1>3, <1>4, TailFacts
  <1>6. PICK a \in Seq(Values(d)) : /\ a = Carried(s, d) /\ Len(a) = n
                                    /\ \A k \in 1..n : a[k] = d[s[k + 1]]
    BY <1>1, <1>4
  <1>7. PICK b \in Seq(Values(d)) : /\ b = Carried(q, d) /\ Len(b) = n - 1
                                    /\ \A k \in 1..(n - 1) : b[k] = d[q[k + 1]]
    <2>1. /\ Carried(q, d) \in Seq(Values(d))
          /\ Len(Carried(q, d)) = Len(q) - 1
          /\ \A k \in 1..(Len(q) - 1) : Carried(q, d)[k] = d[q[k + 1]]
      BY <1>3, CarriedFacts
    <2>. QED
      BY <1>5, <2>1
  <1>8. a # <<>> /\ 1 \in 1..n /\ 1 + 1 = 2
    BY <1>4, <1>6, EmptySeq
  <1>9. PICK c \in Seq(Values(d)) : /\ c = Tail(a) /\ Len(c) = n - 1
                                    /\ \A k \in 1..(n - 1) : c[k] = a[k + 1]
                                    /\ Head(a) = a[1]
    <2>1. /\ Tail(a) \in Seq(Values(d)) /\ Len(Tail(a)) = Len(a) - 1
          /\ \A k \in 1..(Len(a) - 1) : Tail(a)[k] = a[k + 1]
          /\ Head(a) = a[1]
      BY <1>8, TailFacts
    <2>. QED
      BY <1>6, <2>1
  <1>10. \A k \in 1..(n - 1) : k + 1 \in 1..n /\ k \in 1..n
    BY <1>4
  <1>11. \A k \in 1..(n - 1) : b[k] = c[k]
    BY <1>5, <1>6, <1>7, <1>9, <1>10
  <1>12. b = c
    BY <1>7, <1>9, <1>11, SeqEqual
  <1>. QED
    BY <1>2, <1>3, <1>6, <1>7, <1>8, <1>9, <1>12

\* What Link adds is the youngest.
LEMMA CarriedLink ==
    ASSUME NEW nx, NEW h, NEW s, List(nx, h, s), NEW n \in Nodes,
           NEW nx2, NEW h2, List(nx2, h2, Append(s, n)),
           NEW d
    PROVE  Carried(Append(s, n), d) = Append(Carried(s, d), d[n])
  <1>1. s \in Seq(Nodes) /\ s # <<>>
    BY DEF List
  <1>2. PICK m \in Nat : Len(s) = m + 1 /\ Len(s) - 1 = m
    <2>1. Len(s) \in Nat /\ Len(s) # 0
      BY <1>1, LenProperties, EmptySeq
    <2>2. Len(s) - 1 \in Nat /\ Len(s) = (Len(s) - 1) + 1
      BY <2>1
    <2>. QED
      BY <2>2
  <1>3. PICK q \in Seq(Nodes) : /\ q = Append(s, n) /\ Len(q) = m + 2
                                /\ Len(q) - 1 = m + 1
                                /\ q[m + 2] = n
                                /\ \A k \in 1..(m + 1) : q[k] = s[k]
    <2>1. /\ Append(s, n) \in Seq(Nodes) /\ Len(Append(s, n)) = Len(s) + 1
          /\ Append(s, n)[Len(s) + 1] = n
          /\ \A k \in 1..Len(s) : Append(s, n)[k] = s[k]
      BY <1>1, AppendFacts
    <2>2. Len(s) + 1 = m + 2 /\ (m + 2) - 1 = m + 1
      BY <1>2
    <2>. QED
      BY <1>2, <2>1, <2>2
  <1>4. PICK a \in Seq(Values(d)) : /\ a = Carried(s, d) /\ Len(a) = m
                                    /\ \A k \in 1..m : a[k] = d[s[k + 1]]
    <2>1. /\ Carried(s, d) \in Seq(Values(d))
          /\ Len(Carried(s, d)) = Len(s) - 1
          /\ \A k \in 1..(Len(s) - 1) : Carried(s, d)[k] = d[s[k + 1]]
      BY CarriedFacts
    <2>. QED
      BY <1>2, <2>1
  <1>5. PICK b \in Seq(Values(d)) : /\ b = Carried(q, d) /\ Len(b) = m + 1
                                    /\ \A k \in 1..(m + 1) : b[k] = d[q[k + 1]]
    <2>1. List(nx2, h2, q)
      BY <1>3
    <2>2. /\ Carried(q, d) \in Seq(Values(d))
          /\ Len(Carried(q, d)) = Len(q) - 1
          /\ \A k \in 1..(Len(q) - 1) : Carried(q, d)[k] = d[q[k + 1]]
      BY <2>1, CarriedFacts
    <2>. QED
      BY <1>3, <2>2
  <1>6. PICK c \in Seq(Values(d)) : /\ c = Append(a, d[n]) /\ Len(c) = m + 1
                                    /\ c[m + 1] = d[n]
                                    /\ \A k \in 1..m : c[k] = a[k]
    <2>1. PICK x \in Values(d) : x = d[n]
      BY DEF Values
    <2>2. /\ Append(a, x) \in Seq(Values(d)) /\ Len(Append(a, x)) = Len(a) + 1
          /\ Append(a, x)[Len(a) + 1] = x
          /\ \A k \in 1..Len(a) : Append(a, x)[k] = a[k]
      BY AppendFacts
    <2>. QED
      BY <1>4, <2>1, <2>2
  <1>7. /\ \A k \in 1..(m + 1) : k = m + 1 \/ (k \in 1..m /\ k + 1 \in 1..(m + 1))
        /\ m + 1 \in 1..(m + 1) /\ (m + 1) + 1 = m + 2
    BY <1>2
  <1>8. \A k \in 1..(m + 1) : b[k] = c[k]
    <2>1. b[m + 1] = c[m + 1]
      BY <1>3, <1>5, <1>6, <1>7
    <2>2. ASSUME NEW k \in 1..m
          PROVE  b[k] = c[k]
      <3>1. k \in 1..(m + 1) /\ k + 1 \in 1..(m + 1)
        BY <1>2
      <3>. QED
        BY <1>3, <1>4, <1>5, <1>6, <3>1
    <2>. QED
      BY <1>7, <2>1, <2>2
  <1>9. b = c
    BY <1>5, <1>6, <1>8, SeqEqual
  <1>. QED
    BY <1>3, <1>4, <1>5, <1>6, <1>9

LEMMA ContentsType ==
    ASSUME TypeInv, NEW s, ListInv(s)
    PROVE  Contents \in Seq(Items \cup {NoItem})
  <1>1. List(next, head, s) /\ data \in [Nodes -> Items \cup {NoItem}]
    BY DEF ListInv, TypeInv, TypeOK
  <1>2. Carried(s, data) \in Seq(Items \cup {NoItem})
    <2>1. Values(data) \subseteq Items \cup {NoItem}
      BY <1>1 DEF Values
    <2>2. PICK c : c = Carried(s, data) /\ c \in Seq(Values(data))
      BY <1>1, CarriedFacts
    <2>3. c \in Seq(Items \cup {NoItem})
      BY <2>1, <2>2
    <2>. QED
      BY <2>2, <2>3
  <1>. QED
    BY <1>1, <1>2, ChainIs

LEMMA ContentsLink ==
    ASSUME TypeInv, NEW s, ListInv(s), NEW p \in Producers, Link(p)
    PROVE  Contents' = Append(Contents, item[p])
  <1>1. List(next, head, s) /\ data \in [Nodes -> Items \cup {NoItem}]
    BY DEF ListInv, TypeInv, TypeOK
  <1>2. PICK n, nx2, h2, d : /\ n \in Nodes /\ n = node[p]
                             /\ nx2 = next' /\ h2 = head' /\ d = data
    BY LinkAppends
  <1>3. List(nx2, h2, Append(s, n))
    BY <1>2, LinkAppends
  <1>4. data' = d /\ d[n] = item[p]
    BY <1>2 DEF Link, Goto, ListInv, Ready, Unlinked
  <1>5. Carried(Append(s, n), d) = Append(Carried(s, d), d[n])
    <2>1. n \in Nodes /\ List(next, head, s) /\ List(nx2, h2, Append(s, n))
      BY <1>1, <1>2, <1>3
    <2>. QED
      BY <2>1, CarriedLink
  <1>6. Contents = Carried(s, d)
    BY <1>1, <1>2, ChainIs
  <1>7. Contents' = Carried(Append(s, n), data')
    BY <1>2, <1>3, ChainIsNext
  <1>. QED
    BY <1>4, <1>5, <1>6, <1>7

LEMMA ContentsPop ==
    ASSUME TypeInv, NEW s, ListInv(s), Pop
    PROVE  /\ Contents # <<>>
           /\ Contents' = Tail(Contents)
           /\ popped' = Append(popped, Head(Contents))
  <1>1. List(next, head, s) /\ data \in [Nodes -> Items \cup {NoItem}]
    BY DEF ListInv, TypeInv, TypeOK
  <1>2. /\ next[head] # Null /\ head' = next[head] /\ next' = next /\ data' = data
        /\ popped' = Append(popped, data[next[head]])
    BY DEF Pop
  <1>3. List(next, next[head], Tail(s))
    BY <1>1, <1>2, ListTail
  <1>4. /\ Carried(s, data) # <<>>
        /\ Head(Carried(s, data)) = data[next[head]]
        /\ Carried(Tail(s), data) = Tail(Carried(s, data))
    BY <1>1, <1>2, CarriedPop
  <1>5. Contents = Carried(s, data)
    BY <1>1, ChainIs
  <1>6. Contents' = Carried(Tail(s), data')
    BY <1>2, <1>3, ChainIsNext
  <1>. QED
    BY <1>2, <1>4, <1>5, <1>6

\* Every other step leaves the contents alone: a constructor writes to a node
\* that is not in the list.
Quiet ==
    \/ \E p \in Producers :
           \/ \E i \in Items : PushAlloc(p, i)
           \/ PushConstruct(p) \/ LoadTail(p) \/ LoadNext(p)
           \/ LinkFails(p) \/ Help(p) \/ Swing(p)
    \/ PopFree \/ Quiescent \/ UNCHANGED vars

LEMMA ContentsQuiet ==
    ASSUME TypeInv, NEW s, ListInv(s), Quiet
    PROVE  Contents' = Contents /\ popped' = popped
  <1>1. List(next, head, s)
    BY DEF ListInv
  <1>2. ASSUME NEW p \in Producers, PushConstruct(p)
        PROVE  Contents' = Contents
    <2>1. /\ next \in [Nodes -> Nodes \cup {Null}]
          /\ data \in [Nodes -> Items \cup {NoItem}]
      BY DEF TypeInv, TypeOK
    <2>2. /\ next' = [next EXCEPT ![node[p]] = Null]
          /\ data' = [data EXCEPT ![node[p]] = item[p]]
          /\ head' = head
      BY <1>2 DEF PushConstruct
    <2>3. node[p] \notin Range(s)
      BY <1>2 DEF ListInv, Apart, PushConstruct, Goto, Unlinked
    <2>4. Range(s) \subseteq Nodes
      BY <1>1, ListFacts
    <2>5. PICK nx2, d2 : nx2 = next' /\ d2 = data'
      OBVIOUS
    <2>6. \A n \in Range(s) : nx2[n] = next[n] /\ d2[n] = data[n]
      BY <2>1, <2>2, <2>3, <2>4, <2>5
    <2>7. List(nx2, head, s)
      BY <1>1, <2>6, ListFrame
    <2>8. Carried(s, d2) = Carried(s, data)
      BY <1>1, <2>6, CarriedSame
    <2>9. Contents' = Carried(s, data')
      BY <2>2, <2>5, <2>7, ChainIsNext
    <2>. QED
      BY <1>1, <2>5, <2>8, <2>9, ChainIs
  <1>3. (\E p \in Producers : PushConstruct(p)) \/ UNCHANGED <<next, head, data>>
    BY DEF Quiet, PushAlloc, LoadTail, LoadNext, LinkFails, Help, Swing, SwingTail,
           PopFree, Quiescent, vars
  <1>4. UNCHANGED <<next, head, data>> => Contents' = Contents
    BY DEF Contents, Chain
  <1>5. popped' = popped
    BY DEF Quiet, PushAlloc, PushConstruct, LoadTail, LoadNext, LinkFails, Help, Swing,
           SwingTail, PopFree, Quiescent, vars
  <1>. QED
    BY <1>2, <1>3, <1>4, <1>5

-----------------------------------------------------------------------------
\* An item nobody has linked yet is not in the queue and did not leave it.
ItemsApart ==
    /\ \A p \in Producers :
           pc[p] \in Unlinked =>
               item[p] \notin fresh \cup Range(Contents) \cup Range(popped)
    /\ \A p, q \in Producers :
           pc[p] \in Unlinked /\ pc[q] \in Unlinked /\ item[p] = item[q] => p = q
    /\ fresh \cap (Range(Contents) \cup Range(popped)) = {}

ItemInv == reused \/ ItemsApart

LEMMA ContentsInit == Init => Contents = <<>>
  <1> SUFFICES ASSUME Init
               PROVE  Contents = <<>>
    OBVIOUS
  <1>1. PICK d \in Nodes : head = d /\ next = [n \in Nodes |-> Null]
    BY DEF Init
  <1>2. TypeInv /\ ~reused
    BY TypeInit DEF Init
  <1>3. PICK s : ListInv(s)
    BY <1>2, ListInit DEF Inv
  <1>4. List(next, head, s) /\ s \in Seq(Nodes) /\ s # <<>>
    BY <1>3 DEF ListInv, List
  <1>5. PICK n \in Nat : n = Len(s)
    BY <1>4, LenProperties
  <1>6. n = 1
    <2>1. n # 0
      BY <1>4, <1>5, EmptySeq
    <2>2. CASE 1 \in 1..(n - 1)
      <3>1. 1 \in 1..n /\ 1 + 1 \in 1..n
        BY <2>2
      <3>2. next[s[1]] = s[1 + 1] /\ s[1] \in Nodes /\ s[1 + 1] \in Nodes
        BY <1>4, <1>5, <2>2, <3>1, ElementOfSeq DEF List
      <3>. QED
        BY <1>1, <3>2, MSPCAssumption
    <2>. QED
      BY <2>1, <2>2
  <1>7. Contents \in Seq(Items \cup {NoItem})
    BY <1>2, <1>3, ContentsType
  <1>8. Len(Contents) = 0
    <2>1. Len(Carried(s, data)) = Len(s) - 1
      BY <1>4, CarriedFacts
    <2>. QED
      BY <1>4, <1>5, <1>6, <2>1, ChainIs
  <1>. QED
    BY <1>7, <1>8, EmptySeq

LEMMA ItemInit == Init => ItemInv
  <1> SUFFICES ASSUME Init
               PROVE  ItemsApart
    BY DEF ItemInv
  <1>1. popped = <<>> /\ pc = [p \in Producers |-> "idle"] /\ Contents = <<>>
    BY ContentsInit DEF Init
  <1>2. Range(<<>>) = {}
    <2>1. DOMAIN <<>> = {}
      OBVIOUS
    <2>. QED
      BY <2>1 DEF Range
  <1>. QED
    BY <1>1, <1>2 DEF ItemsApart, Unlinked

LEMMA ItemStep == TypeInv /\ Inv /\ ItemInv /\ [Next]_vars => ItemInv'
  <1> SUFFICES ASSUME TypeInv, Inv, ItemInv, [Next]_vars, ~reused'
               PROVE  ItemsApart'
    BY Zenon DEF ItemInv
  <1>1. ~reused
    BY ReusedStays
  <1>2. PICK s : ListInv(s)
    BY <1>1 DEF Inv
  <1>3. PICK came : came = Range(Contents) \cup Range(popped)
    OBVIOUS
  <1>4. /\ \A p \in Producers : pc[p] \in Unlinked => item[p] \notin fresh \cup came
        /\ \A p, q \in Producers :
               pc[p] \in Unlinked /\ pc[q] \in Unlinked /\ item[p] = item[q] => p = q
        /\ fresh \cap came = {}
    BY <1>1, <1>3 DEF ItemInv, ItemsApart
  <1>5. /\ pc \in [Producers -> Labels] /\ item \in [Producers -> Items \cup {NoItem}]
        /\ popped \in Seq(Items \cup {NoItem})
        /\ Contents \in Seq(Items \cup {NoItem})
    BY <1>2, ContentsType DEF TypeInv, TypeOK
  <1>6. ASSUME NEW p \in Producers, NEW i \in Items, PushAlloc(p, i)
        PROVE  ItemsApart'
    <2>1. Range(Contents') \cup Range(popped') = came
      <3>1. Contents' = Contents /\ popped' = popped
        BY <1>2, <1>6, ContentsQuiet DEF Quiet
      <3>. QED
        BY <1>3, <3>1
    <2>2. /\ i \in fresh /\ fresh' = fresh \ {i}
          /\ pc' = [pc EXCEPT ![p] = "construct"] /\ item' = [item EXCEPT ![p] = i]
      BY <1>6 DEF PushAlloc, Goto
    <2>3. /\ item'[p] = i
          /\ \A q \in Producers : q # p => pc'[q] = pc[q] /\ item'[q] = item[q]
      BY <1>5, <2>2
    <2>4. \A q \in Producers : pc'[q] \in Unlinked => item'[q] \notin fresh' \cup came
      BY <1>4, <2>2, <2>3
    <2>5. \A q, r \in Producers :
              pc'[q] \in Unlinked /\ pc'[r] \in Unlinked /\ item'[q] = item'[r] => q = r
      BY <1>4, <2>2, <2>3
    <2>6. fresh' \cap came = {}
      BY <1>4, <2>2
    <2>. QED
      BY <2>1, <2>4, <2>5, <2>6 DEF ItemsApart
  <1>7. ASSUME NEW p \in Producers, Link(p)
        PROVE  ItemsApart'
    <2>1. /\ pc[p] = "link" /\ pc' = [pc EXCEPT ![p] = "swing"]
          /\ UNCHANGED <<item, fresh, popped>>
      BY <1>7 DEF Link, Goto
    <2>2. item[p] \in Items
      BY <2>1 DEF TypeInv, LocalInv
    <2>3. Range(Contents') = Range(Contents) \cup {item[p]}
      <3>1. Contents' = Append(Contents, item[p])
        BY <1>2, <1>7, ContentsLink
      <3>2. PICK D, c, x : /\ D = Items \cup {NoItem} /\ c = Contents /\ x = item[p]
                           /\ c \in Seq(D) /\ x \in D
        BY <1>5, <2>2
      <3>3. Range(Append(c, x)) = Range(c) \cup {x}
        BY <3>2, AppendFacts
      <3>. QED
        BY <3>1, <3>2, <3>3
    <2>4. Range(Contents') \cup Range(popped') = came \cup {item[p]}
      BY <1>3, <2>1, <2>3
    <2>5. \A q \in Producers :
              pc'[q] \in Unlinked => q # p /\ pc[q] \in Unlinked /\ item[q] # item[p]
      BY <1>4, <1>5, <2>1 DEF Unlinked
    <2>6. item[p] \notin fresh
      BY <1>4, <2>1 DEF Unlinked
    <2>. QED
      BY <1>4, <2>1, <2>4, <2>5, <2>6 DEF ItemsApart
  <1>8. CASE Pop
    <2>1. /\ Contents # <<>>
          /\ Contents' = Tail(Contents)
          /\ popped' = Append(popped, Head(Contents))
      BY <1>2, <1>8, ContentsPop
    <2>2. PICK c \in Seq(Items \cup {NoItem}) : c = Contents /\ c # <<>>
      BY <1>5, <2>1
    <2>3. /\ Head(c) = c[1] /\ c[1] \in Items \cup {NoItem}
          /\ Range(c) = Range(Tail(c)) \cup {c[1]}
      BY <2>2, TailFacts
    <2>4. PICK x \in Items \cup {NoItem} : x = Head(c)
      BY <2>3
    <2>5. Range(Append(popped, x)) = Range(popped) \cup {x}
      BY <1>5, AppendFacts
    <2>6. Range(Contents') \cup Range(popped') = came
      BY <1>3, <2>1, <2>2, <2>3, <2>4, <2>5
    <2>7. UNCHANGED <<pc, item, fresh>>
      BY <1>8 DEF Pop
    <2>. QED
      BY <1>4, <2>6, <2>7 DEF ItemsApart
  <1>9. ASSUME Quiet, \A p \in Producers, i \in Items : ~PushAlloc(p, i)
        PROVE  ItemsApart'
    <2>1. Range(Contents') \cup Range(popped') = came
      <3>1. Contents' = Contents /\ popped' = popped
        BY <1>2, <1>9, ContentsQuiet
      <3>. QED
        BY <1>3, <3>1
    <2>2. UNCHANGED <<item, fresh>>
      BY <1>9 DEF Quiet, PushConstruct, LoadTail, LoadNext, LinkFails, Help, Swing,
                  SwingTail, PopFree, Quiescent, vars
    <2>3. \A q \in Producers : pc'[q] \in Unlinked => pc[q] \in Unlinked
      <3>1. ASSUME NEW p \in Producers,
                   \/ PushConstruct(p) \/ LoadTail(p) \/ LoadNext(p)
                   \/ LinkFails(p) \/ Help(p) \/ Swing(p)
            PROVE  \A q \in Producers : pc'[q] \in Unlinked => pc[q] \in Unlinked
        <4>1. /\ pc'[p] \in Unlinked => pc[p] \in Unlinked
              /\ \A q \in Producers : q # p => pc'[q] = pc[q]
          BY <1>5, <3>1 DEF PushConstruct, LoadTail, LoadNext, LinkFails, Help, Swing,
                            Goto, Unlinked
        <4>. QED
          BY <4>1
      <3>2. PopFree \/ Quiescent \/ UNCHANGED vars => pc' = pc
        BY DEF PopFree, Quiescent, vars
      <3>. QED
        BY <1>9, <3>1, <3>2 DEF Quiet
    <2>. QED
      BY <1>4, <2>1, <2>2, <2>3 DEF ItemsApart
  <1>. QED
    BY <1>6, <1>7, <1>8, <1>9 DEF Next, PushStep, Quiet

LEMMA ItemInvariant == Spec => [](TypeInv /\ Inv /\ ItemInv)
  BY ListInvariant, ItemInit, ItemStep, PTL DEF Spec

LEMMA FifoInit == Init => Queue!Init
  BY ContentsInit DEF Init, Queue!Init

LEMMA FifoStep == TypeInv /\ Inv /\ ItemInv /\ [Next]_vars => [Queue!Next]_Queue!fifoVars
  <1> SUFFICES ASSUME TypeInv, Inv, ItemInv, [Next]_vars
               PROVE  [Queue!Next]_Queue!fifoVars
    OBVIOUS
  <1>1. CASE reused'
    <2>1. reused' = TRUE
      BY <1>1, TypeStep DEF TypeInv, TypeOK
    <2>2. Queue!Broken
      BY <2>1 DEF Queue!Broken
    <2>. QED
      BY <2>2 DEF Queue!Next
  <1>2. CASE ~reused'
    <2>1. ~reused
      BY <1>2, ReusedStays
    <2>2. reused' = reused /\ reused = FALSE
      BY <1>2, <2>1, TypeStep DEF TypeInv, TypeOK
    <2>3. PICK s : ListInv(s)
      BY <2>1 DEF Inv
    <2>4. ASSUME NEW p \in Producers, Link(p)
          PROVE  Queue!Next
      <3>1. Contents' = Append(Contents, item[p])
        BY <2>3, <2>4, ContentsLink
      <3>2. pc[p] = "link" /\ popped' = popped
        BY <2>4 DEF Link, Goto
      <3>3. item[p] \in Items
        BY <3>2 DEF TypeInv, LocalInv
      <3>4. item[p] \notin Range(Contents) \cup Range(popped)
        BY <2>1, <3>2 DEF ItemInv, ItemsApart, Unlinked
      <3>5. Queue!Put(item[p])
        BY <2>2, <3>1, <3>2, <3>4 DEF Queue!Put, Range, Queue!Range
      <3>. QED
        BY <3>3, <3>5 DEF Queue!Next
    <2>5. CASE Pop
      <3>1. /\ Contents # <<>>
            /\ Contents' = Tail(Contents)
            /\ popped' = Append(popped, Head(Contents))
        BY <2>3, <2>5, ContentsPop
      <3>2. Queue!Take
        BY <2>2, <3>1 DEF Queue!Take
      <3>. QED
        BY <3>2 DEF Queue!Next
    <2>6. CASE Quiet
      <3>1. Contents' = Contents /\ popped' = popped
        BY <2>3, <2>6, ContentsQuiet
      <3>. QED
        BY <2>2, <3>1 DEF Queue!fifoVars
    <2>. QED
      BY <2>4, <2>5, <2>6 DEF Next, PushStep, Quiet
  <1>. QED
    BY <1>1, <1>2

\* The list implements the safety of the abstract queue: an item enters at the
\* exchange on next and leaves, the oldest first and once, at the store to
\* _head, until a node comes back that a Push relies on.
THEOREM ListIsFifo == Spec => Queue!Safety
  BY ItemInvariant, FifoInit, FifoStep, PTL DEF Spec, Queue!Safety
=============================================================================
