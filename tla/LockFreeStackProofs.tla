------------------------ MODULE LockFreeStackProofs ------------------------
(***************************************************************************)
(* Theorems about LockFreeStack, for any threads, blocks and nodes.        *)
(***************************************************************************)
EXTENDS LockFreeStack, TLAPS, FiniteSetTheorems, SequenceTheorems,
        NaturalsInduction, WellFoundedInduction

-----------------------------------------------------------------------------
(* Lists.  nx gives the next of every node.                                *)

\* The nodes of s, each once, lead from h to e.
Seg(s, nx, h, e) ==
    /\ s \in Seq(Nodes)
    /\ \A i, k \in 1..Len(s) : s[i] = s[k] => i = k
    /\ s = <<>> => h = e
    /\ s # <<>> => h = s[1] /\ nx[s[Len(s)]] = e
    /\ \A i \in 1..(Len(s) - 1) : nx[s[i]] = s[i + 1]

Elements(s) == {s[i] : i \in 1..Len(s)}

\* The nodes of S are a list from h to e.
List(nx, h, S, e) == \E s \in Seq(Nodes) : Seg(s, nx, h, e) /\ Elements(s) = S

\* A list is not touched by a write to a node that is not in it.
LEMMA SegFrame ==
    ASSUME NEW nx, NEW nx2, NEW s, NEW h, NEW e, Seg(s, nx, h, e),
           \A n \in Elements(s) : nx2[n] = nx[n]
    PROVE  Seg(s, nx2, h, e)
  <1>1. Len(s) \in Nat /\ s \in Seq(Nodes)
    BY LenProperties DEF Seg
  <1>2. \A i \in 1..Len(s) : nx2[s[i]] = nx[s[i]]
    BY DEF Elements
  <1>3. s # <<>> => Len(s) \in 1..Len(s)
    BY <1>1, EmptySeq
  <1>4. \A i \in 1..(Len(s) - 1) : i \in 1..Len(s)
    BY <1>1
  <1>. QED
    BY <1>2, <1>3, <1>4 DEF Seg

LEMMA ListFrame ==
    ASSUME NEW nx, NEW nx2, NEW S, NEW h, NEW e, List(nx, h, S, e),
           \A n \in S : nx2[n] = nx[n]
    PROVE  List(nx2, h, S, e)
  BY SegFrame DEF List

\* The empty list, and the list of one node.
LEMMA ListEmpty == ASSUME NEW nx, NEW h PROVE List(nx, h, {}, h)
  <1>1. <<>> \in Seq(Nodes) /\ Len(<<>>) = 0
    BY EmptySeq
  <1>2. Seg(<<>>, nx, h, h) /\ Elements(<<>>) = {}
    BY <1>1 DEF Seg, Elements
  <1>. QED
    BY <1>1, <1>2 DEF List

LEMMA ListOne == ASSUME NEW nx, NEW n \in Nodes PROVE List(nx, n, {n}, nx[n])
  <1>1. <<n>> \in Seq(Nodes) /\ Len(<<n>>) = 1 /\ <<n>>[1] = n /\ <<n>> # <<>>
    OBVIOUS
  <1>2. Seg(<<n>>, nx, n, nx[n]) /\ Elements(<<n>>) = {n}
    BY <1>1 DEF Seg, Elements
  <1>. QED
    BY <1>1, <1>2 DEF List

\* Where a list begins: at one of its nodes or, if it has none, at its end.
LEMMA ListHead ==
    ASSUME NEW nx, NEW S, NEW h, NEW e, List(nx, h, S, e)
    PROVE  /\ S \subseteq Nodes
           /\ S = {} => h = e
           /\ S # {} => h \in S
           /\ h \notin Nodes => S = {}
  <1>1. PICK s \in Seq(Nodes) : Seg(s, nx, h, e) /\ Elements(s) = S
    BY DEF List
  <1>2. Len(s) \in Nat /\ \A i \in 1..Len(s) : s[i] \in Nodes
    BY <1>1, LenProperties, ElementOfSeq
  <1>3. s # <<>> => 1 \in 1..Len(s)
    BY <1>2, EmptySeq
  <1>4. S \subseteq Nodes
    BY <1>1, <1>2 DEF Elements
  <1>5. S # {} => s # <<>>
    BY <1>1, EmptySeq DEF Elements
  <1>6. s # <<>> => h \in S
    BY <1>1, <1>3 DEF Seg, Elements
  <1>7. s = <<>> => h = e
    BY <1>1 DEF Seg
  <1>. QED
    BY <1>4, <1>5, <1>6, <1>7

\* A list's last node is the one whose next is the end; the next of any other
\* is one of its nodes.
LEMMA SegNext ==
    ASSUME NEW nx, NEW s, NEW h, NEW e, Seg(s, nx, h, e), NEW i \in 1..Len(s)
    PROVE  /\ i < Len(s) => /\ i + 1 \in 1..Len(s)
                            /\ nx[s[i]] = s[i + 1]
           /\ i = Len(s) => nx[s[i]] = e
           /\ e \notin Elements(s) /\ nx[s[i]] = e => i = Len(s)
  <1>1. Len(s) \in Nat /\ s # <<>>
    BY LenProperties, EmptySeq DEF Seg
  <1>2. i < Len(s) => i + 1 \in 1..Len(s) /\ i \in 1..(Len(s) - 1)
    BY <1>1
  <1>3. i < Len(s) => nx[s[i]] = s[i + 1] /\ s[i + 1] \in Elements(s)
    BY <1>2 DEF Seg, Elements
  <1>4. i < Len(s) \/ i = Len(s)
    BY <1>1
  <1>. QED
    BY <1>1, <1>2, <1>3, <1>4 DEF Seg

LEMMA ListNext ==
    ASSUME NEW nx, NEW S, NEW h, NEW e, List(nx, h, S, e), NEW n \in S
    PROVE  nx[n] \in S \cup {e}
  <1>1. PICK s \in Seq(Nodes) : Seg(s, nx, h, e) /\ Elements(s) = S
    BY DEF List
  <1>2. PICK i \in 1..Len(s) : s[i] = n
    BY <1>1 DEF Elements
  <1>3. Len(s) \in Nat
    BY LenProperties
  <1>4. i < Len(s) \/ i = Len(s)
    BY <1>3
  <1>5. i < Len(s) => s[i + 1] \in S
    BY <1>1, SegNext DEF Elements
  <1>. QED
    BY <1>1, <1>2, <1>4, <1>5, SegNext

\* Another end.
LEMMA ListRelink ==
    ASSUME NEW nx, NEW nx2, NEW S, NEW h, NEW e, List(nx, h, S, e),
           NEW z \in S, nx[z] = e, e \notin S,
           \A n \in S \ {z} : nx2[n] = nx[n]
    PROVE  List(nx2, h, S, nx2[z])
  <1>1. PICK s \in Seq(Nodes) : Seg(s, nx, h, e) /\ Elements(s) = S
    BY DEF List
  <1>2. Len(s) \in Nat /\ s # <<>>
    BY <1>1, LenProperties, EmptySeq DEF Elements
  <1>3. z = s[Len(s)]
    BY <1>1, SegNext DEF Elements
  <1>4. \A i \in 1..(Len(s) - 1) : i \in 1..Len(s) /\ s[i] \in S /\ s[i] # z
    <2>1. \A i \in 1..(Len(s) - 1) : i \in 1..Len(s) /\ i # Len(s) /\ Len(s) \in 1..Len(s)
      BY <1>2
    <2>. QED
      BY <1>1, <1>3, <2>1 DEF Seg, Elements
  <1>5. Seg(s, nx2, h, nx2[z])
    BY <1>1, <1>2, <1>3, <1>4 DEF Seg
  <1>. QED
    BY <1>1, <1>5 DEF List

\* The first node is taken off.
LEMMA SegPop ==
    ASSUME NEW nx, NEW s, NEW h \in Nodes, NEW e, e \notin Nodes, Seg(s, nx, h, e)
    PROVE  /\ s # <<>> /\ h = s[1]
           /\ Seg(Tail(s), nx, nx[h], e)
           /\ Elements(Tail(s)) = Elements(s) \ {h}
           /\ h \in Elements(s)
  <1>1. /\ s \in Seq(Nodes) /\ s # <<>> /\ h = s[1]
    BY DEF Seg
  <1>2. /\ Tail(s) \in Seq(Nodes) /\ Len(Tail(s)) = Len(s) - 1 /\ Len(s) \in Nat
        /\ \A i \in 1..Len(Tail(s)) : Tail(s)[i] = s[i + 1]
        /\ Len(s) >= 1
    BY <1>1, HeadTailProperties, LenProperties, EmptySeq
  <1>3. PICK q \in Seq(Nodes) : q = Tail(s)
    BY <1>2
  <1>n. PICK n \in Nat : n = Len(q)
    BY LenProperties
  <1>l. Len(q) = n /\ Len(s) = n + 1
    BY <1>2, <1>3, <1>n
  <1>4. \A i \in 1..n : i + 1 \in 1..(n + 1) /\ q[i] = s[i + 1]
    BY <1>2, <1>3, <1>l
  <1>5. \A i, k \in 1..n : q[i] = q[k] => i = k
    BY <1>3, <1>l, <1>4 DEF Seg
  <1>6. \A i \in 1..(n + 1) : i # 1 => i - 1 \in 1..n /\ s[i] = q[i - 1]
    BY <1>3, <1>l, <1>4
  <1>7. Elements(q) = Elements(s) \ {h}
    <2>1. \A i \in 1..n : q[i] \in Elements(s) /\ q[i] # h
      <3>1. \A i \in 1..n : i + 1 # 1 /\ i + 1 \in 1..(n + 1) /\ 1 \in 1..(n + 1)
        OBVIOUS
      <3>2. \A i \in 1..n : s[i + 1] # s[1]
        BY <1>l, <3>1 DEF Seg
      <3>3. \A i \in 1..(n + 1) : s[i] \in Elements(s)
        BY <1>l DEF Elements
      <3>. QED
        BY <1>1, <1>4, <3>1, <3>2, <3>3
    <2>2. \A i \in 1..(n + 1) : s[i] # h => s[i] \in Elements(q)
      BY <1>1, <1>3, <1>l, <1>6 DEF Elements
    <2>3. /\ \A x \in Elements(q) : x \in Elements(s) \ {h}
          /\ \A x \in Elements(s) \ {h} : x \in Elements(q)
      BY <1>l, <2>1, <2>2 DEF Elements
    <2>. QED
      BY <2>3
  <1>8. h \in Elements(s)
    BY <1>1, <1>2 DEF Elements
  <1>9. Seg(q, nx, nx[h], e)
    <2>1. \A i \in 1..(n - 1) : nx[q[i]] = q[i + 1]
      <3>1. \A i \in 1..(n - 1) : i \in 1..n /\ i + 1 \in 1..n /\ i + 1 \in 1..((n + 1) - 1)
        BY <1>3, <1>l
      <3>2. \A i \in 1..(n - 1) : nx[s[i + 1]] = s[(i + 1) + 1]
        BY <1>3, <1>l, <3>1 DEF Seg
      <3>. QED
        BY <1>4, <3>1, <3>2
    <2>2. CASE n = 0
      <3>1. q = <<>> /\ nx[h] = e
        BY <1>1, <1>2, <1>3, <1>l, <2>2, EmptySeq DEF Seg
      <3>. QED
        BY <1>2, <1>3, <1>l, <1>5, <2>1, <3>1 DEF Seg
    <2>3. CASE n # 0
      <3>1. 1 \in 1..n /\ n \in 1..n /\ 1 \in 1..((n + 1) - 1) /\ q # <<>>
        BY <1>3, <1>l, <2>3, EmptySeq
      <3>2. nx[h] = s[1 + 1] /\ nx[s[n + 1]] = e
        BY <1>1, <1>3, <1>l, <3>1 DEF Seg
      <3>3. q[1] = s[1 + 1] /\ q[n] = s[n + 1]
        BY <1>4, <3>1
      <3>. QED
        BY <1>2, <1>3, <1>l, <1>5, <2>1, <3>1, <3>2, <3>3 DEF Seg
    <2>. QED
      BY <2>2, <2>3
  <1>. QED
    BY <1>1, <1>3, <1>l, <1>7, <1>8, <1>9

LEMMA ListPop ==
    ASSUME NEW nx, NEW S, NEW h \in Nodes, NEW e, e \notin Nodes, List(nx, h, S, e)
    PROVE  h \in S /\ List(nx, nx[h], S \ {h}, e)
  <1>1. PICK s \in Seq(Nodes) : Seg(s, nx, h, e) /\ Elements(s) = S
    BY DEF List
  <1>2. /\ Seg(Tail(s), nx, nx[h], e) /\ Elements(Tail(s)) = S \ {h}
        /\ h \in S
    BY <1>1, SegPop
  <1>. QED
    BY <1>2 DEF List, Seg

\* Two lists make one.
LEMMA ElementsConcat ==
    ASSUME NEW s \in Seq(Nodes), NEW q \in Seq(Nodes)
    PROVE  Elements(s \o q) = Elements(s) \cup Elements(q)
  <1>0. PICK r \in Seq(Nodes) : r = s \o q
    BY ConcatProperties
  <1>a. PICK a \in Nat, b \in Nat : a = Len(s) /\ b = Len(q)
    BY LenProperties
  <1>2. r = s \o q /\ a = Len(s) /\ b = Len(q)
    BY <1>0, <1>a
  <1>e. (s = <<>> <=> a = 0) /\ (q = <<>> <=> b = 0)
    BY <1>2, EmptySeq
  <1>3. /\ r \in Seq(Nodes) /\ Len(r) = a + b
        /\ \A i \in 1..(a + b) : r[i] = IF i <= a THEN s[i] ELSE q[i - a]
    BY <1>2, ConcatProperties
  <1>4. /\ \A i \in 1..(a + b) : i <= a => i \in 1..a /\ r[i] = s[i]
        /\ \A i \in 1..(a + b) : ~(i <= a) => i - a \in 1..b /\ r[i] = q[i - a]
        /\ \A i \in 1..a : i \in 1..(a + b) /\ i <= a
        /\ \A i \in 1..b : /\ i + a \in 1..(a + b) /\ ~(i + a <= a)
                           /\ (i + a) - a = i
    BY <1>2, <1>3
  <1>5. Elements(r) = Elements(s) \cup Elements(q)
    <2>1. \A i \in 1..(a + b) : r[i] \in Elements(s) \cup Elements(q)
      <3>1. \A i \in 1..a : s[i] \in Elements(s)
        BY <1>2 DEF Elements
      <3>2. \A i \in 1..b : q[i] \in Elements(q)
        BY <1>2 DEF Elements
      <3>. QED
        BY <1>4, <3>1, <3>2
    <2>2. \A i \in 1..a : s[i] \in Elements(r)
      BY <1>3, <1>4 DEF Elements
    <2>3. \A i \in 1..b : q[i] \in Elements(r)
      <3>1. \A i \in 1..(a + b) : r[i] \in Elements(r)
        BY <1>3 DEF Elements
      <3>2. \A i \in 1..b : r[i + a] = q[i] /\ i + a \in 1..(a + b)
        BY <1>4
      <3>. QED
        BY <3>1, <3>2
    <2>4. /\ \A x \in Elements(r) : x \in Elements(s) \cup Elements(q)
          /\ \A x \in Elements(s) \cup Elements(q) : x \in Elements(r)
      BY <1>2, <1>3, <2>1, <2>2, <2>3 DEF Elements
    <2>. QED
      BY <2>4
  <1>. QED
    BY <1>2, <1>5

LEMMA SegConcat ==
    ASSUME NEW nx, NEW s, NEW q, NEW h, NEW m, NEW e,
           Seg(s, nx, h, m), Seg(q, nx, m, e),
           \A n \in Elements(s) : n \notin Elements(q)
    PROVE  Seg(s \o q, nx, h, e)
  <1>1. /\ s \in Seq(Nodes) /\ q \in Seq(Nodes)
    BY DEF Seg
  <1>0. PICK r \in Seq(Nodes) : r = s \o q
    BY <1>1, ConcatProperties
  <1>a. PICK a \in Nat, b \in Nat : a = Len(s) /\ b = Len(q)
    BY <1>1, LenProperties
  <1>2. r = s \o q /\ a = Len(s) /\ b = Len(q)
    BY <1>0, <1>a
  <1>e. (s = <<>> <=> a = 0) /\ (q = <<>> <=> b = 0)
    BY <1>1, <1>2, EmptySeq
  <1>3. /\ r \in Seq(Nodes) /\ Len(r) = a + b
        /\ \A i \in 1..(a + b) : r[i] = IF i <= a THEN s[i] ELSE q[i - a]
    BY <1>1, <1>2, ConcatProperties
  <1>4. /\ \A i \in 1..(a + b) : i <= a => i \in 1..a /\ r[i] = s[i]
        /\ \A i \in 1..(a + b) : ~(i <= a) => i - a \in 1..b /\ r[i] = q[i - a]
        /\ \A i \in 1..a : i \in 1..(a + b) /\ i <= a
        /\ \A i \in 1..b : /\ i + a \in 1..(a + b) /\ ~(i + a <= a)
                           /\ (i + a) - a = i
    BY <1>2, <1>3
  <1>6. \A i, k \in 1..(a + b) : r[i] = r[k] => i = k
    <2> SUFFICES ASSUME NEW i \in 1..(a + b), NEW k \in 1..(a + b), r[i] = r[k]
                 PROVE  i = k
      OBVIOUS
    <2>1. \A j \in 1..a : s[j] \in Elements(s)
      BY <1>2 DEF Elements
    <2>2. \A j \in 1..b : q[j] \in Elements(q)
      BY <1>2 DEF Elements
    <2>3. CASE i <= a /\ k <= a
      BY <1>2, <1>4, <2>3 DEF Seg
    <2>4. CASE ~(i <= a) /\ ~(k <= a)
      <3>1. i - a \in 1..b /\ k - a \in 1..b /\ q[i - a] = q[k - a]
        BY <1>4, <2>4
      <3>2. i - a = k - a
        BY <1>2, <3>1 DEF Seg
      <3>. QED
        BY <3>2
    <2>5. CASE (i <= a /\ ~(k <= a)) \/ (~(i <= a) /\ k <= a)
      BY <1>4, <2>1, <2>2, <2>5
    <2>. QED
      BY <2>3, <2>4, <2>5
  <1>7. \A i \in 1..((a + b) - 1) : nx[r[i]] = r[i + 1]
    <2> SUFFICES ASSUME NEW i \in 1..((a + b) - 1) PROVE nx[r[i]] = r[i + 1]
      OBVIOUS
    <2>1. i \in 1..(a + b) /\ i + 1 \in 1..(a + b) /\ i \in Nat
      BY <1>2
    <2>2. CASE i + 1 <= a
      <3>1. i \in 1..(a - 1) /\ i <= a
        BY <1>2, <2>1, <2>2
      <3>2. nx[s[i]] = s[i + 1]
        BY <1>2, <3>1 DEF Seg
      <3>. QED
        BY <1>4, <2>1, <2>2, <3>1, <3>2
    <2>3. CASE i = a
      <3>1. s # <<>> /\ q # <<>> /\ (a + 1) - a = 1 /\ ~(a + 1 <= a) /\ a <= a
        BY <1>2, <2>1, <2>3, EmptySeq
      <3>2. nx[s[a]] = m /\ m = q[1]
        BY <1>2, <3>1 DEF Seg
      <3>. QED
        BY <1>4, <2>1, <2>3, <3>1, <3>2
    <2>4. CASE i > a
      <3>1. /\ i - a \in 1..(b - 1) /\ (i + 1) - a = (i - a) + 1
            /\ ~(i <= a) /\ ~(i + 1 <= a)
        BY <1>2, <2>1, <2>4
      <3>2. nx[q[i - a]] = q[(i - a) + 1]
        BY <1>2, <3>1 DEF Seg
      <3>. QED
        BY <1>4, <2>1, <3>1, <3>2
    <2>. QED
      BY <1>2, <2>1, <2>2, <2>3, <2>4
  <1>8. r = <<>> => h = e
    <2>1. r = <<>> => s = <<>> /\ q = <<>>
      BY <1>1, <1>2, <1>3, EmptySeq
    <2>. QED
      BY <2>1 DEF Seg
  <1>9. ASSUME r # <<>> PROVE h = r[1] /\ nx[r[a + b]] = e
    <2>1. a + b \in 1..(a + b) /\ 1 \in 1..(a + b)
      BY <1>2, <1>3, <1>9, EmptySeq
    <2>2. CASE a = 0
      <3>0. s = <<>> /\ q # <<>> /\ b \in 1..b
        BY <1>e, <2>1, <2>2
      <3>1. s = <<>> /\ q # <<>> /\ b \in 1..b /\ h = m
        BY <3>0 DEF Seg
      <3>2. m = q[1] /\ nx[q[b]] = e
        BY <1>2, <3>1 DEF Seg
      <3>3. ~(1 <= a) /\ ~(a + b <= a) /\ 1 - a = 1 /\ (a + b) - a = b
        BY <1>2, <2>1, <2>2
      <3>. QED
        BY <1>4, <2>1, <3>1, <3>2, <3>3
    <2>3. CASE a # 0
      <3>1. 1 <= a /\ s # <<>> /\ h = s[1] /\ nx[s[a]] = m
        BY <1>1, <1>2, <2>3, EmptySeq DEF Seg
      <3>2. h = r[1]
        BY <1>4, <2>1, <3>1
      <3>3. CASE b = 0
        <4>0. q = <<>> /\ a + b = a /\ a <= a
          BY <1>e, <3>3
        <4>1. q = <<>> /\ m = e /\ a + b = a /\ a <= a
          BY <4>0 DEF Seg
        <4>. QED
          BY <1>4, <2>1, <3>1, <3>2, <4>1
      <3>4. CASE b # 0
        <4>1. q # <<>> /\ ~(a + b <= a) /\ (a + b) - a = b
          BY <1>e, <3>4
        <4>2. nx[q[b]] = e
          BY <1>2, <4>1 DEF Seg
        <4>. QED
          BY <1>4, <2>1, <3>2, <4>1, <4>2
      <3>. QED
        BY <3>3, <3>4
    <2>. QED
      BY <2>2, <2>3
  <1>10. Seg(r, nx, h, e)
    BY <1>3, <1>6, <1>7, <1>8, <1>9 DEF Seg
  <1>. QED
    BY <1>2, <1>10

LEMMA ListConcat ==
    ASSUME NEW nx, NEW S, NEW Q, NEW h, NEW m, NEW e,
           List(nx, h, S, m), List(nx, m, Q, e), S \cap Q = {}
    PROVE  List(nx, h, S \cup Q, e)
  <1>1. PICK s \in Seq(Nodes) : Seg(s, nx, h, m) /\ Elements(s) = S
    BY DEF List
  <1>2. PICK q \in Seq(Nodes) : Seg(q, nx, m, e) /\ Elements(q) = Q
    BY DEF List
  <1>3. \A n \in Elements(s) : n \notin Elements(q)
    BY <1>1, <1>2
  <1>4. Seg(s \o q, nx, h, e)
    BY <1>1, <1>2, <1>3, SegConcat
  <1>5. Elements(s \o q) = S \cup Q
    BY <1>1, <1>2, ElementsConcat
  <1>. QED
    BY <1>4, <1>5 DEF List, Seg

\* A node is put in front.
LEMMA SegPush ==
    ASSUME NEW nx, NEW s, NEW n \in Nodes, NEW e, Seg(s, nx, nx[n], e),
           n \notin Elements(s)
    PROVE  Seg(<<n>> \o s, nx, n, e) /\ Elements(<<n>> \o s) = {n} \cup Elements(s)
  <1>1. <<n>> \in Seq(Nodes) /\ Len(<<n>>) = 1 /\ <<n>>[1] = n /\ <<n>> # <<>>
    OBVIOUS
  <1>2. Seg(<<n>>, nx, n, nx[n]) /\ Elements(<<n>>) = {n}
    BY <1>1 DEF Seg, Elements
  <1>3. PICK one \in Seq(Nodes) : one = <<n>>
    BY <1>1
  <1>4. Seg(one, nx, n, nx[n]) /\ Elements(one) = {n}
    BY <1>2, <1>3
  <1>5. \A x \in Elements(one) : x \notin Elements(s)
    BY <1>4
  <1>6. Seg(one \o s, nx, n, e)
    BY <1>4, <1>5, SegConcat
  <1>7. s \in Seq(Nodes)
    BY DEF Seg
  <1>8. Elements(one \o s) = Elements(one) \cup Elements(s)
    BY <1>7, ElementsConcat
  <1>. QED
    BY <1>3, <1>4, <1>6, <1>8

-----------------------------------------------------------------------------
(* Types.  That _popCount is a number of threads, and that a node taken from *)
(* the stack has a block, comes with the invariants further down.            *)

TypeInv ==
    /\ head \in NodePtr /\ pendingList \in NodePtr
    /\ popCount \in Int
    /\ next \in [Nodes -> NodePtr]
    /\ data \in [Nodes -> Blocks \cup {Null}]
    /\ allocated \in SUBSET Nodes
    /\ unused \in SUBSET Blocks
    /\ pc \in [Threads -> Labels]
    /\ node \in [Threads -> NodePtr] /\ seen \in [Threads -> NodePtr]
    /\ first \in [Threads -> NodePtr] /\ last \in [Threads -> NodePtr]

\* The pointers a thread follows are not null.
Pointers ==
    \A t \in Threads :
        /\ pc[t] \notin {"idle", "loadHead", "leaveEmpty", "leave"} => node[t] \in Nodes
        /\ pc[t] = "decrement" => last[t] = first[t]
        /\ pc[t] \in {"findLast", "chainLoad", "chainCas"} => last[t] \in Nodes

LEMMA TypeInit == Init => TypeInv /\ Pointers
  BY DEF Init, TypeInv, Pointers, NodePtr, Labels

LEMMA TypeStep == TypeInv /\ Pointers /\ [Next]_vars => TypeInv' /\ Pointers'
  <1> SUFFICES ASSUME TypeInv, Pointers, [Next]_vars PROVE TypeInv' /\ Pointers'
    OBVIOUS
  <1>. USE DEF TypeInv, Pointers, NodePtr, Labels
  <1>1. CASE UNCHANGED vars
    BY <1>1 DEF vars, blockVars, locals
  <1>2. ASSUME NEW t \in Threads, NEW b \in Blocks, Push(t, b)
       PROVE  TypeInv' /\ Pointers'
    BY <1>2 DEF Push, Goto
  <1>3. ASSUME NEW t \in Threads, TryPop(t)
       PROVE  TypeInv' /\ Pointers'
    BY <1>3 DEF TryPop, Goto, blockVars, locals
  <1>4. ASSUME NEW t \in Threads, PushCas(t)
       PROVE  TypeInv' /\ Pointers'
    BY <1>4 DEF PushCas, Return, Goto, blockVars
  <1>5. ASSUME NEW t \in Threads, PushCasFails(t)
       PROVE  TypeInv' /\ Pointers'
    BY <1>5 DEF PushCasFails, blockVars, locals
  <1>6. ASSUME NEW t \in Threads, NEW here, SeeHead(t, here)
       PROVE  TypeInv' /\ Pointers'
    BY <1>6 DEF SeeHead, Goto, blockVars
  <1>7. ASSUME NEW t \in Threads, ReadNext(t)
       PROVE  TypeInv' /\ Pointers'
    BY <1>7 DEF ReadNext, Goto, blockVars
  <1>8. ASSUME NEW t \in Threads, PopCas(t)
       PROVE  TypeInv' /\ Pointers'
    BY <1>8 DEF PopCas, Goto, blockVars, locals
  <1>9. ASSUME NEW t \in Threads, LeaveEmpty(t)
       PROVE  TypeInv' /\ Pointers'
    BY <1>9 DEF LeaveEmpty, Return, Goto, Malloc, blockVars
  <1>10. ASSUME NEW t \in Threads, TryDelete(t)
       PROVE  TypeInv' /\ Pointers'
    BY <1>10 DEF TryDelete, Goto
  <1>11. ASSUME NEW t \in Threads, Exchange(t)
       PROVE  TypeInv' /\ Pointers'
    BY <1>11 DEF Exchange, Goto, blockVars
  <1>12. ASSUME NEW t \in Threads, Decrement(t)
       PROVE  TypeInv' /\ Pointers'
    BY <1>12 DEF Decrement, Goto, blockVars, locals
  <1>13. ASSUME NEW t \in Threads, DeleteNodes(t)
       PROVE  TypeInv' /\ Pointers'
    BY <1>13, StackAssumption DEF DeleteNodes, Goto, blockVars
  <1>14. ASSUME NEW t \in Threads, FindLast(t)
       PROVE  TypeInv' /\ Pointers'
    BY <1>14 DEF FindLast, Goto, blockVars
  <1>15. ASSUME NEW t \in Threads, ChainLoad(t)
       PROVE  TypeInv' /\ Pointers'
    BY <1>15 DEF ChainLoad, Goto, blockVars, locals
  <1>16. ASSUME NEW t \in Threads, ChainCas(t)
       PROVE  TypeInv' /\ Pointers'
    BY <1>16 DEF ChainCas, Goto, blockVars, locals
  <1>17. ASSUME NEW t \in Threads, ChainCasFails(t)
       PROVE  TypeInv' /\ Pointers'
    BY <1>17 DEF ChainCasFails, blockVars, locals
  <1>18. ASSUME NEW t \in Threads, Leave(t)
       PROVE  TypeInv' /\ Pointers'
    BY <1>18 DEF Leave, Return, Goto, blockVars
  <1>19. ASSUME NEW t \in Threads, Delete(t)
       PROVE  TypeInv' /\ Pointers'
    BY <1>19 DEF Delete, Return, Goto, blockVars
  <1>20. ASSUME NEW t \in Threads, Step(t)
       PROVE  TypeInv' /\ Pointers'
    <2>. HIDE DEF TypeInv, Pointers
    <2>. QED
      BY <1>20, <1>4, <1>5, <1>6, <1>7, <1>8, <1>9, <1>10, <1>11, <1>12, <1>13,
         <1>14, <1>15, <1>16, <1>17, <1>18, <1>19
      DEF Step, LoadHead, PopCasFails
  <1>. HIDE DEF TypeInv, Pointers
  <1>. QED
    BY <1>1, <1>2, <1>3, <1>20 DEF Next

-----------------------------------------------------------------------------
(* _popCount.                                                              *)

\* The threads that have raised _popCount and not taken that back.  One that
\* chains the node it has just popped is still among them.
Counted ==
    {t \in Threads :
        \/ pc[t] \in {"loadHead", "readNext", "popCas", "leaveEmpty", "count",
                      "exchange", "decrement", "leave"}
        \/ pc[t] \in {"chainLoad", "chainCas"} /\ first[t] = node[t]}

CountInv == popCount = Cardinality(Counted)

\* What a taken list begins with is not the node of the thread that took it.
OtherFirst == \A t \in Threads : pc[t] = "findLast" => first[t] # node[t]

LEMMA CountedFinite == IsFiniteSet(Counted) /\ Cardinality(Counted) \in 0..Cardinality(Threads)
  BY StackAssumption, FS_Subset, FS_CardinalityType DEF Counted

\* A thread that is in TryPop when _popCount is 1 is there alone.
LEMMA CountedAlone ==
    ASSUME CountInv, popCount = 1, NEW t \in Counted, NEW u \in Counted
    PROVE  u = t
  <1>1. Cardinality(Counted) = 1 /\ IsFiniteSet(Counted)
    BY CountedFinite DEF CountInv
  <1>2. PICK x : Counted = {x}
    BY <1>1, FS_Singleton
  <1>. QED
    BY <1>2

LEMMA CountInit == Init => CountInv
  <1> SUFFICES ASSUME Init PROVE CountInv
    OBVIOUS
  <1>1. Counted = {}
    BY DEF Init, Counted
  <1>. QED
    BY <1>1, FS_EmptySet DEF Init, CountInv

\* Only t moves: it is in TryPop before and after, or neither; it comes in; it
\* goes out.
LEMMA CountSame ==
    ASSUME CountInv, popCount' = popCount, Counted' = Counted PROVE CountInv'
  BY DEF CountInv

LEMMA CountIn ==
    ASSUME CountInv, NEW t \in Threads, t \notin Counted, popCount' = popCount + 1,
           Counted' = Counted \cup {t}
    PROVE  CountInv'
  BY CountedFinite, FS_AddElement DEF CountInv

LEMMA CountOut ==
    ASSUME CountInv, NEW t \in Counted, popCount' = popCount - 1,
           Counted' = Counted \ {t}
    PROVE  CountInv'
  BY CountedFinite, FS_RemoveElement DEF CountInv

LEMMA CountStep ==
    TypeInv /\ OtherFirst /\ CountInv /\ [Next]_vars => CountInv'
  <1> SUFFICES ASSUME TypeInv, OtherFirst, CountInv, [Next]_vars PROVE CountInv'
    OBVIOUS
  <1>1. CASE UNCHANGED vars
    <2>1. Counted' = Counted /\ popCount' = popCount
      BY <1>1 DEF vars, locals, Counted
    <2>. QED
      BY <2>1, CountSame
  <1>2. ASSUME NEW t \in Threads, NEW b \in Blocks, Push(t, b) PROVE CountInv'
    <2>1. Counted' = Counted /\ popCount' = popCount
      BY <1>2 DEF Push, Goto, TypeInv, Counted
    <2>. QED
      BY <2>1, CountSame
  <1>3. ASSUME NEW t \in Threads, TryPop(t) PROVE CountInv'
    <2>1. t \notin Counted /\ popCount' = popCount + 1
      BY <1>3 DEF TryPop, Goto, Counted
    <2>2. Counted' = Counted \cup {t}
      BY <1>3 DEF TryPop, Goto, TypeInv, locals, Counted
    <2>. QED
      BY <2>1, <2>2, CountIn
  <1>4. ASSUME NEW t \in Threads, PushCas(t) PROVE CountInv'
    <2>1. Counted' = Counted /\ popCount' = popCount
      BY <1>4 DEF PushCas, Return, Goto, TypeInv, Counted
    <2>. QED
      BY <2>1, CountSame
  <1>5. ASSUME NEW t \in Threads, PushCasFails(t) \/ ChainCasFails(t) PROVE CountInv'
    <2>1. Counted' = Counted /\ popCount' = popCount
      BY <1>5 DEF PushCasFails, ChainCasFails, locals, Counted
    <2>. QED
      BY <2>1, CountSame
  <1>6. ASSUME NEW t \in Threads, NEW here \in {"loadHead", "popCas"}, SeeHead(t, here)
        PROVE CountInv'
    <2>1. Counted' = Counted /\ popCount' = popCount
      BY <1>6 DEF SeeHead, Goto, TypeInv, Counted
    <2>. QED
      BY <2>1, CountSame
  <1>7. ASSUME NEW t \in Threads, ReadNext(t) \/ PopCas(t) PROVE CountInv'
    <2>1. Counted' = Counted /\ popCount' = popCount
      BY <1>7 DEF ReadNext, PopCas, Goto, TypeInv, locals, Counted
    <2>. QED
      BY <2>1, CountSame
  <1>8. ASSUME NEW t \in Threads, LeaveEmpty(t) \/ Leave(t) PROVE CountInv'
    <2>1. t \in Counted /\ popCount' = popCount - 1
      BY <1>8 DEF LeaveEmpty, Leave, Return, Goto, Counted
    <2>2. Counted' = Counted \ {t}
      BY <1>8 DEF LeaveEmpty, Leave, Return, Goto, TypeInv, Counted
    <2>. QED
      BY <2>1, <2>2, CountOut
  <1>9. ASSUME NEW t \in Threads, TryDelete(t) PROVE CountInv'
    <2>1. Counted' = Counted /\ popCount' = popCount
      BY <1>9 DEF TryDelete, Goto, TypeInv, Counted
    <2>. QED
      BY <2>1, CountSame
  <1>10. ASSUME NEW t \in Threads, Exchange(t) PROVE CountInv'
    <2>1. Counted' = Counted /\ popCount' = popCount
      BY <1>10 DEF Exchange, Goto, TypeInv, Counted
    <2>. QED
      BY <2>1, CountSame
  <1>11. ASSUME NEW t \in Threads, Decrement(t) PROVE CountInv'
    <2>1. t \in Counted /\ popCount' = popCount - 1
      BY <1>11 DEF Decrement, Goto, Counted
    <2>2. Counted' = Counted \ {t}
      BY <1>11 DEF Decrement, Goto, TypeInv, locals, Counted
    <2>. QED
      BY <2>1, <2>2, CountOut
  <1>12. ASSUME NEW t \in Threads, DeleteNodes(t) \/ FindLast(t) PROVE CountInv'
    <2>1. Counted' = Counted /\ popCount' = popCount
      BY <1>12 DEF DeleteNodes, FindLast, Goto, TypeInv, OtherFirst, Counted
    <2>. QED
      BY <2>1, CountSame
  <1>13. ASSUME NEW t \in Threads, ChainLoad(t) \/ ChainCas(t) PROVE CountInv'
    <2>1. Counted' = Counted /\ popCount' = popCount
      BY <1>13 DEF ChainLoad, ChainCas, Goto, TypeInv, locals, Counted
    <2>. QED
      BY <2>1, CountSame
  <1>14. ASSUME NEW t \in Threads, Delete(t) PROVE CountInv'
    <2>1. Counted' = Counted /\ popCount' = popCount
      BY <1>14 DEF Delete, Return, Goto, TypeInv, Counted
    <2>. QED
      BY <2>1, CountSame
  <1>15. ASSUME NEW t \in Threads, Step(t) PROVE CountInv'
    BY <1>15, <1>4, <1>5, <1>6, <1>7, <1>8, <1>9, <1>10, <1>11, <1>12, <1>13,
       <1>14
    DEF Step, LoadHead, PopCasFails
  <1>. QED
    BY <1>1, <1>2, <1>3, <1>15 DEF Next

-----------------------------------------------------------------------------
(* Where the nodes are.  P is the set of the nodes in _pendingList, T[t] the *)
(* set of those in the list that t has taken.                              *)

Linked == Elements(chain)

HasNode(t) ==
    pc[t] \in {"pushCas", "count", "exchange", "decrement", "deleteNodes",
               "findLast", "chainLoad", "chainCas", "delete"}

HasList(t) ==
    pc[t] \in {"decrement", "deleteNodes", "findLast", "chainLoad", "chainCas"}

\* The nodes that t has to itself, when S is the list it has taken.
Held(t, S) == {n \in Nodes : (HasNode(t) /\ n = node[t]) \/ n \in S}

\* The nodes of t that no other thread can be reading any more.  One that has
\* just been popped, or chained at once, is not among them.
Sealed(t, S) ==
    {n \in Nodes :
        \/ /\ HasNode(t) /\ n = node[t]
           /\ pc[t] # "count"
           /\ pc[t] \in {"chainLoad", "chainCas"} => first[t] # node[t]
        \/ pc[t] = "deleteNodes" /\ n \in S}

\* The list a thread has taken, and how far it is with it.
Local(t, S) ==
    /\ S \in SUBSET Nodes
    /\ ~HasList(t) => S = {}
    /\ pc[t] = "count" => next[node[t]] # node[t]
    /\ pc[t] \in {"decrement", "deleteNodes", "findLast"} =>
           List(next, first[t], S, Null) /\ node[t] \notin S
    /\ pc[t] = "findLast" => last[t] \in S
    /\ pc[t] \in {"chainLoad", "chainCas"} =>
           /\ last[t] \in S /\ next[last[t]] \notin S
           /\ List(next, first[t], S, next[last[t]])
           /\ IF first[t] = node[t] THEN S = {node[t]} ELSE node[t] \notin S

\* No node is in two places, and those that are somewhere are the ones that
\* the heap has handed out.
Apart(P, T) ==
    /\ P \in SUBSET Nodes /\ Linked \cap P = {}
    /\ \A t \in Threads : \A n \in Held(t, T[t]) : n \notin Linked /\ n \notin P
    /\ \A t, u \in Threads : t # u => \A n \in Held(t, T[t]) : n \notin Held(u, T[u])
    /\ \A n \in Nodes :
           n \in allocated <=>
               n \in Linked \/ n \in P \/ \E t \in Threads : n \in Held(t, T[t])

\* What a thread is reading has not been deleted; what it has read is still so
\* if the node is in the stack.
Reading(u, T) ==
    pc[u] \in {"readNext", "popCas"} =>
        /\ node[u] \in allocated
        /\ pc[u] = "popCas" /\ node[u] \in Linked => seen[u] = next[node[u]]
        /\ \A t \in Threads : node[u] \notin Sealed(t, T[t])

Shape(P, T) ==
    /\ Seg(chain, next, head, Null)
    /\ List(next, pendingList, P, Null)
    /\ \A t \in Threads : Local(t, T[t])
    /\ Apart(P, T)
    /\ \A u \in Threads : Reading(u, T)

ShapeInv == \E P \in SUBSET Nodes, T \in [Threads -> SUBSET Nodes] : Shape(P, T)

\* Only t moves.
Kept(t) ==
    \A u \in Threads \ {t} :
        /\ pc'[u] = pc[u] /\ node'[u] = node[u] /\ seen'[u] = seen[u]
        /\ first'[u] = first[u] /\ last'[u] = last[u]

LEMMA HeldFrame ==
    ASSUME NEW t \in Threads, Kept(t), NEW u \in Threads \ {t}, NEW S
    PROVE  Held(u, S)' = Held(u, S) /\ Sealed(u, S)' = Sealed(u, S)
  BY DEF Kept, Held, Sealed, HasNode

LEMMA SealedHeld == ASSUME NEW t, NEW S PROVE Sealed(t, S) \subseteq Held(t, S)
  BY DEF Sealed, Held

LEMMA LocalFrame ==
    ASSUME NEW t \in Threads, Kept(t), NEW u \in Threads \ {t}, NEW S, Local(u, S),
           Pointers, \A n \in Held(u, S) : next'[n] = next[n]
    PROVE  Local(u, S)'
  <1>1. \A n \in S : next'[n] = next[n]
    BY DEF Local, Held
  <1>2. pc[u] = "count" => next'[node[u]] = next[node[u]]
    BY DEF Held, HasNode, Pointers
  <1>3. \A e : List(next, first[u], S, e) => List(next', first[u], S, e)
    BY <1>1, ListFrame
  <1>4. last[u] \in S => next'[last[u]] = next[last[u]]
    BY <1>1
  <1>5. /\ pc'[u] = pc[u] /\ node'[u] = node[u]
        /\ first'[u] = first[u] /\ last'[u] = last[u]
    BY DEF Kept
  <1>. QED
    BY <1>2, <1>3, <1>4, <1>5 DEF Local, HasList

\* The places of the nodes of the pool and of t, whose list was S, after a step.
Placed(t, P, S, P2, S2) ==
    /\ \A n \in Nodes :
           /\ n \in Linked' => n \notin P2 /\ n \notin Held(t, S2)'
           /\ n \in P2 => n \notin Held(t, S2)'
    /\ \A n \in Nodes :
           n \in Linked' \/ n \in P2 \/ n \in Held(t, S2)' =>
               n \in Linked \/ n \in P \/ n \in Held(t, S) \/ n \notin allocated
    /\ \A n \in Nodes :
           n \in allocated' <=>
               \/ n \in Linked' \/ n \in P2 \/ n \in Held(t, S2)'
               \/ n \in allocated /\ n \notin Linked /\ n \notin P /\ n \notin Held(t, S)

\* A step of t writes only nodes that t has, or that nobody has.
Writes(t, S) ==
    \A n \in Nodes : next'[n] # next[n] => n \in Held(t, S) \/ n \notin allocated

\* What the other threads read is still there, and as they have read it.
ReadersSafe(t, S2) ==
    \A u \in Threads \ {t} :
        pc[u] \in {"readNext", "popCas"} =>
            /\ node[u] \in allocated'
            /\ node[u] \notin Sealed(t, S2)'
            /\ node[u] \in Linked' =>
                   node[u] \in Linked /\ next'[node[u]] = next[node[u]]

\* t has moved nodes between the stack, _pendingList and its own, has made one
\* or deleted one; what others hold is left alone.
LEMMA ApartMove ==
    ASSUME NEW t \in Threads, Kept(t), NEW P, NEW T \in [Threads -> SUBSET Nodes],
           Apart(P, T), NEW P2 \in SUBSET Nodes, NEW S2 \in SUBSET Nodes,
           Placed(t, P, T[t], P2, S2)
    PROVE  Apart(P2, [T EXCEPT ![t] = S2])'
  <1>1. PICK T2 \in [Threads -> SUBSET Nodes] : T2 = [T EXCEPT ![t] = S2]
    OBVIOUS
  <1>2. T2[t] = S2 /\ \A u \in Threads \ {t} : T2[u] = T[u]
    BY <1>1
  <1>3. \A u \in Threads \ {t} : Held(u, T2[u])' = Held(u, T[u])
    BY <1>2, HeldFrame
  <1>4. \A u \in Threads : Held(u, T2[u])' \subseteq Nodes
    BY DEF Held
  <1>5. Held(t, T2[t])' = Held(t, S2)'
    BY <1>2
  <1>6. PICK H2 : H2 = Held(t, S2)'
    OBVIOUS
  <1>7. PICK L2 : L2 = Linked'
    OBVIOUS
  <1>8. PICK H : H = Held(t, T[t])
    OBVIOUS
  <1>9. \A u \in Threads \ {t} : \A n \in Held(u, T[u]) :
            /\ n \in Nodes /\ n \in allocated /\ n \notin Linked /\ n \notin P
            /\ n \notin H
    BY <1>8 DEF Apart, Held
  <1>10. \A u \in Threads \ {t} : \A n \in Held(u, T[u]) :
             n \notin L2 /\ n \notin P2 /\ n \notin H2
    BY <1>6, <1>7, <1>8, <1>9 DEF Placed
  <1>11. \A u \in Threads : \A n \in Held(u, T2[u])' : n \notin Linked' /\ n \notin P2
    <2>1. \A n \in H2 : n \in Nodes /\ n \notin L2 /\ n \notin P2
      BY <1>4, <1>5, <1>6, <1>7 DEF Placed
    <2>. QED
      BY <1>3, <1>5, <1>6, <1>7, <1>10, <2>1
  <1>12. \A u, v \in Threads : u # v =>
             \A n \in Held(u, T2[u])' : n \notin Held(v, T2[v])'
    <2>1. \A u, v \in Threads \ {t} : u # v =>
              \A n \in Held(u, T[u]) : n \notin Held(v, T[v])
      BY DEF Apart
    <2>. QED
      BY <1>3, <1>5, <1>6, <1>10, <2>1
  <1>13. \A n \in Nodes :
             n \in allocated' <=>
                 n \in Linked' \/ n \in P2 \/ \E u \in Threads : n \in Held(u, T2[u])'
    <2>1. \A n \in Nodes :
              /\ n \in allocated /\ n \notin Linked /\ n \notin P /\ n \notin H
              <=> \E u \in Threads \ {t} : n \in Held(u, T[u])
      <3>1. \A n \in Nodes :
                n \in allocated <=>
                    n \in Linked \/ n \in P \/ \E u \in Threads : n \in Held(u, T[u])
        BY DEF Apart
      <3>. QED
        BY <1>8, <1>9, <3>1
    <2>2. \A n \in Nodes :
              n \in allocated' <=>
                 \/ n \in L2 \/ n \in P2 \/ n \in H2
                 \/ \E u \in Threads \ {t} : n \in Held(u, T[u])
      BY <1>6, <1>7, <1>8, <2>1 DEF Placed
    <2>. QED
      BY <1>3, <1>5, <1>6, <1>7, <2>2
  <1>14. Linked' \cap P2 = {}
    BY <1>7 DEF Placed
  <1>. QED
    BY <1>1, <1>11, <1>12, <1>13, <1>14 DEF Apart

\* What another thread is reading.
LEMMA ReadingFrame ==
    ASSUME NEW t \in Threads, Kept(t), NEW T \in [Threads -> SUBSET Nodes],
           NEW S2 \in SUBSET Nodes, NEW u \in Threads \ {t}, Reading(u, T),
           pc[u] \in {"readNext", "popCas"} =>
               /\ node[u] \in allocated'
               /\ node[u] \notin Sealed(t, S2)'
               /\ node[u] \in Linked' =>
                      node[u] \in Linked /\ next'[node[u]] = next[node[u]]
    PROVE  Reading(u, [T EXCEPT ![t] = S2])'
  <1>1. PICK T2 \in [Threads -> SUBSET Nodes] : T2 = [T EXCEPT ![t] = S2]
    OBVIOUS
  <1>2. T2[t] = S2 /\ \A v \in Threads \ {t} : T2[v] = T[v]
    BY <1>1
  <1>3. \A v \in Threads \ {t} : Sealed(v, T2[v])' = Sealed(v, T[v])
    BY <1>2, HeldFrame
  <1>4. Sealed(t, T2[t])' = Sealed(t, S2)'
    BY <1>2
  <1>5. pc'[u] = pc[u] /\ node'[u] = node[u] /\ seen'[u] = seen[u]
    BY DEF Kept
  <1>6. ASSUME pc[u] \in {"readNext", "popCas"}
        PROVE  \A v \in Threads : node[u] \notin Sealed(v, T2[v])'
    BY <1>3, <1>4, <1>6 DEF Reading
  <1>. QED
    BY <1>1, <1>5, <1>6 DEF Reading

\* Everything a step of t has to show.
LEMMA ShapeMove ==
    ASSUME NEW t \in Threads, Kept(t), Pointers,
           NEW P \in SUBSET Nodes, NEW T \in [Threads -> SUBSET Nodes], Shape(P, T),
           NEW P2 \in SUBSET Nodes, NEW S2 \in SUBSET Nodes,
           Seg(chain', next', head', Null), List(next', pendingList', P2, Null),
           Local(t, S2)',
           Writes(t, T[t]),
           Placed(t, P, T[t], P2, S2),
           Reading(t, [T EXCEPT ![t] = S2])', ReadersSafe(t, S2)
    PROVE  ShapeInv'
  <1>1. Apart(P2, [T EXCEPT ![t] = S2])'
    BY ApartMove DEF Shape
  <1>2. \A u \in Threads \ {t} : Local(u, T[u])'
    <2>1. \A u \in Threads \ {t} : \A n \in Held(u, T[u]) : next'[n] = next[n]
      BY DEF Shape, Apart, Held, Writes
    <2>2. \A u \in Threads \ {t} : Local(u, T[u])
      BY DEF Shape
    <2>. QED
      BY <2>1, <2>2, LocalFrame
  <1>3. \A u \in Threads \ {t} : Reading(u, [T EXCEPT ![t] = S2])'
    <2>1. \A u \in Threads \ {t} : Reading(u, T)
      BY DEF Shape
    <2>. QED
      BY <2>1, ReadingFrame DEF ReadersSafe
  <1>4. PICK T2 \in [Threads -> SUBSET Nodes] : T2 = [T EXCEPT ![t] = S2]
    OBVIOUS
  <1>5. T2[t] = S2 /\ \A u \in Threads \ {t} : T2[u] = T[u]
    BY <1>4
  <1>6. \A u \in Threads : Local(u, T2[u])'
    BY <1>2, <1>5
  <1>7. \A u \in Threads : Reading(u, T2)'
    BY <1>3, <1>4
  <1>8. Apart(P2, T2)'
    BY <1>1, <1>4
  <1>9. Shape(P2, T2)'
    BY <1>6, <1>7, <1>8 DEF Shape
  <1>. QED
    BY <1>9 DEF ShapeInv

\* The lists of the pool are not touched by a step that writes only nodes that
\* t holds, or that nobody has.
LEMMA ListsFrame ==
    ASSUME NEW t \in Threads, NEW P, NEW T, Shape(P, T),
           Writes(t, T[t])
    PROVE  Seg(chain, next', head, Null) /\ List(next', pendingList, P, Null)
  <1>1. \A n \in Linked : n \in Nodes /\ n \in allocated /\ n \notin Held(t, T[t])
    <2>1. \A n \in Linked : n \in Nodes
      BY ElementOfSeq DEF Shape, Seg, Linked, Elements
    <2>. QED
      BY <2>1 DEF Shape, Apart
  <1>2. \A n \in P : n \in Nodes /\ n \in allocated /\ n \notin Held(t, T[t])
    BY DEF Shape, Apart
  <1>3. \A n \in Elements(chain) : next'[n] = next[n]
    BY <1>1 DEF Linked, Writes
  <1>4. \A n \in P : next'[n] = next[n]
    BY <1>2 DEF Writes
  <1>5. Seg(chain, next, head, Null) /\ List(next, pendingList, P, Null)
    BY DEF Shape
  <1>. QED
    BY <1>3, <1>4, <1>5, SegFrame, ListFrame

\* A step that leaves every node where it is.
LEMMA ShapeStay ==
    ASSUME NEW t \in Threads, Kept(t), Pointers,
           NEW P \in SUBSET Nodes, NEW T \in [Threads -> SUBSET Nodes], Shape(P, T),
           NEW S2 \in SUBSET Nodes,
           head' = head, pendingList' = pendingList, chain' = chain,
           allocated' = allocated,
           \A n \in Nodes : next'[n] # next[n] => n \in Held(t, T[t]),
           Held(t, S2)' = Held(t, T[t]), Local(t, S2)',
           Reading(t, [T EXCEPT ![t] = S2])',
           \A u \in Threads \ {t} :
               pc[u] \in {"readNext", "popCas"} => node[u] \notin Sealed(t, S2)'
    PROVE  ShapeInv'
  <1>1. Linked' = Linked
    BY DEF Linked
  <1>2. \A n \in Nodes :
            /\ n \in Linked => n \notin P /\ n \notin Held(t, T[t])
            /\ n \in P => n \notin Held(t, T[t])
            /\ n \in Linked \/ n \in P \/ n \in Held(t, T[t]) => n \in allocated
    BY DEF Shape, Apart
  <1>3. Writes(t, T[t])
    BY DEF Writes
  <1>4. Seg(chain', next', head', Null) /\ List(next', pendingList', P, Null)
    BY <1>3, ListsFrame
  <1>5. ASSUME NEW u \in Threads \ {t}, pc[u] \in {"readNext", "popCas"}
        PROVE  /\ node[u] \in allocated'
               /\ node[u] \in Linked' =>
                      node[u] \in Linked /\ next'[node[u]] = next[node[u]]
    <2>1. node[u] \in Nodes
      BY <1>5 DEF Pointers
    <2>2. node[u] \in allocated
      BY <1>5 DEF Shape, Reading
    <2>. QED
      BY <1>1, <1>2, <2>1, <2>2
  <1>6. ReadersSafe(t, S2)
    BY <1>5 DEF ReadersSafe
  <1>7. Placed(t, P, T[t], P, S2)
    BY <1>1, <1>2 DEF Placed
  <1>. QED
    BY <1>3, <1>4, <1>6, <1>7, ShapeMove

-----------------------------------------------------------------------------
(* One lemma per action: where the nodes are then.                         *)

\* A thread that has no node has no list.
LEMMA HasNothing ==
    ASSUME NEW t, NEW S, Local(t, S), ~HasNode(t)
    PROVE  S = {} /\ Held(t, S) = {} /\ Sealed(t, S) = {}
  BY DEF Local, HasNode, HasList, Held, Sealed

\* A step of a thread that has no node before and none after.
LEMMA ShapeIdle ==
    ASSUME NEW t \in Threads, Kept(t), Pointers,
           NEW P \in SUBSET Nodes, NEW T \in [Threads -> SUBSET Nodes], Shape(P, T),
           UNCHANGED <<head, pendingList, chain, allocated, next>>,
           ~HasNode(t), ~HasNode(t)',
           Reading(t, [T EXCEPT ![t] = {}])'
    PROVE  ShapeInv'
  <1>1. T[t] = {} /\ Held(t, T[t]) = {}
    BY HasNothing DEF Shape
  <1>2. Held(t, {})' = {} /\ Sealed(t, {})' = {} /\ Local(t, {})'
    BY DEF Held, Sealed, Local, HasNode, HasList
  <1>3. {} \in SUBSET Nodes /\ Held(t, {})' = Held(t, T[t])
    BY <1>1, <1>2
  <1>. QED
    BY <1>2, <1>3, ShapeStay

LEMMA ShapeTryPop ==
    ASSUME TypeInv, Pointers,
           NEW P \in SUBSET Nodes, NEW T \in [Threads -> SUBSET Nodes], Shape(P, T),
           NEW t \in Threads, TryPop(t)
    PROVE  ShapeInv'
  <1>1. Kept(t) /\ ~HasNode(t) /\ ~HasNode(t)'
    BY DEF TryPop, Goto, locals, Kept, HasNode, TypeInv
  <1>2. Reading(t, [T EXCEPT ![t] = {}])'
    BY DEF TryPop, Goto, Reading, TypeInv
  <1>3. UNCHANGED <<head, pendingList, chain, allocated, next>>
    BY DEF TryPop
  <1>. QED
    BY <1>1, <1>2, <1>3, ShapeIdle

LEMMA ShapeLeave ==
    ASSUME TypeInv, Pointers,
           NEW P \in SUBSET Nodes, NEW T \in [Threads -> SUBSET Nodes], Shape(P, T),
           NEW t \in Threads, LeaveEmpty(t) \/ Leave(t)
    PROVE  ShapeInv'
  <1>1. Kept(t) /\ ~HasNode(t) /\ ~HasNode(t)'
    BY DEF LeaveEmpty, Leave, Return, Goto, Kept, HasNode, TypeInv
  <1>2. Reading(t, [T EXCEPT ![t] = {}])'
    BY DEF LeaveEmpty, Leave, Return, Goto, Reading, TypeInv
  <1>3. UNCHANGED <<head, pendingList, chain, allocated, next>>
    BY DEF LeaveEmpty, Leave
  <1>. QED
    BY <1>1, <1>2, <1>3, ShapeIdle

LEMMA ShapeSeeHead ==
    ASSUME TypeInv, Pointers,
           NEW P \in SUBSET Nodes, NEW T \in [Threads -> SUBSET Nodes], Shape(P, T),
           NEW t \in Threads, SeeHead(t, "loadHead") \/ SeeHead(t, "popCas")
    PROVE  ShapeInv'
  <1>1. Kept(t) /\ ~HasNode(t) /\ ~HasNode(t)'
    BY DEF SeeHead, Goto, Kept, HasNode, TypeInv
  <1>2. UNCHANGED <<head, pendingList, chain, allocated, next>>
    BY DEF SeeHead
  <1>3. PICK T2 \in [Threads -> SUBSET Nodes] : T2 = [T EXCEPT ![t] = {}]
    OBVIOUS
  <1>4. T2[t] = {} /\ \A v \in Threads \ {t} : T2[v] = T[v]
    BY <1>3
  <1>5. ASSUME head # Null
        PROVE  head \in Nodes /\ head \in allocated /\ head \in Linked
    <2>1. head \in Nodes /\ 1 \in 1..Len(chain) /\ head = chain[1]
      <3>1. chain # <<>> /\ head = chain[1] /\ chain \in Seq(Nodes)
        BY <1>5 DEF Shape, Seg
      <3>2. Len(chain) \in Nat \ {0}
        BY <3>1, EmptySeq
      <3>. QED
        BY <3>1, <3>2, ElementOfSeq
    <2>2. head \in Linked
      BY <2>1 DEF Linked, Elements
    <2>. QED
      BY <2>1, <2>2 DEF Shape, Apart
  <1>6. ASSUME head # Null, NEW v \in Threads
        PROVE  head \notin Sealed(v, T2[v])'
    <2>1. CASE v = t
      <3>1. Sealed(t, {})' = {}
        BY <1>1 DEF HasNode, Sealed
      <3>. QED
        BY <1>4, <2>1, <3>1
    <2>2. CASE v # t
      <3>1. Sealed(v, T2[v])' = Sealed(v, T[v])
        BY <1>1, <1>4, <2>2, HeldFrame
      <3>2. head \notin Held(v, T[v])
        BY <1>5, <1>6 DEF Shape, Apart
      <3>. QED
        BY <3>1, <3>2, SealedHeld
    <2>. QED
      BY <2>1, <2>2
  <1>7. Reading(t, T2)'
    <2>1. /\ node'[t] = head /\ allocated' = allocated
          /\ pc'[t] = IF head = Null THEN "leaveEmpty" ELSE "readNext"
      BY DEF SeeHead, Goto, TypeInv
    <2>. QED
      BY <1>5, <1>6, <2>1 DEF Reading
  <1>. QED
    BY <1>1, <1>2, <1>3, <1>7, ShapeIdle

LEMMA ShapeReadNext ==
    ASSUME TypeInv, Pointers,
           NEW P \in SUBSET Nodes, NEW T \in [Threads -> SUBSET Nodes], Shape(P, T),
           NEW t \in Threads, ReadNext(t)
    PROVE  ShapeInv'
  <1>1. Kept(t) /\ ~HasNode(t) /\ ~HasNode(t)'
    BY DEF ReadNext, Goto, Kept, HasNode, TypeInv
  <1>2. UNCHANGED <<head, pendingList, chain, allocated, next>>
    BY DEF ReadNext
  <1>3. PICK T2 \in [Threads -> SUBSET Nodes] : T2 = [T EXCEPT ![t] = {}]
    OBVIOUS
  <1>4. T2[t] = {} /\ \A v \in Threads \ {t} : T2[v] = T[v]
    BY <1>3
  <1>5. /\ pc[t] = "readNext" /\ node'[t] = node[t] /\ seen'[t] = next[node[t]]
        /\ next' = next /\ allocated' = allocated
    BY DEF ReadNext, Goto, TypeInv
  <1>6. node[t] \in allocated /\ \A v \in Threads : node[t] \notin Sealed(v, T[v])
    BY <1>5 DEF Shape, Reading
  <1>7. ASSUME NEW v \in Threads PROVE node'[t] \notin Sealed(v, T2[v])'
    <2>1. CASE v = t
      <3>1. Sealed(t, {})' = {}
        BY <1>1 DEF HasNode, Sealed
      <3>. QED
        BY <1>4, <2>1, <3>1
    <2>2. CASE v # t
      <3>1. Sealed(v, T2[v])' = Sealed(v, T[v])
        BY <1>1, <1>4, <2>2, HeldFrame
      <3>. QED
        BY <1>5, <1>6, <3>1
    <2>. QED
      BY <2>1, <2>2
  <1>8. Reading(t, T2)'
    BY <1>5, <1>6, <1>7 DEF Reading
  <1>. QED
    BY <1>1, <1>2, <1>3, <1>8, ShapeIdle

LEMMA ShapePushCasFails ==
    ASSUME TypeInv, Pointers,
           NEW P \in SUBSET Nodes, NEW T \in [Threads -> SUBSET Nodes], Shape(P, T),
           NEW t \in Threads, PushCasFails(t)
    PROVE  ShapeInv'
  <1>1. /\ pc[t] = "pushCas" /\ pc' = pc /\ node' = node /\ seen' = seen
        /\ first' = first /\ last' = last
        /\ head' = head /\ pendingList' = pendingList /\ chain' = chain
        /\ allocated' = allocated
        /\ next' = [next EXCEPT ![node[t]] = head]
    BY DEF PushCasFails, locals
  <1>2. T[t] = {}
    BY <1>1 DEF Shape, Local, HasList
  <1>3. Kept(t) /\ Held(t, {})' = Held(t, T[t]) /\ Sealed(t, {})' = Sealed(t, T[t])
    BY <1>1, <1>2 DEF Kept, Held, Sealed, HasNode
  <1>4. Local(t, {})' /\ Reading(t, [T EXCEPT ![t] = {}])'
    BY <1>1 DEF Local, HasList, Reading
  <1>5. \A n \in Nodes : next'[n] # next[n] => n \in Held(t, T[t])
    BY <1>1 DEF TypeInv, Held, HasNode
  <1>6. \A u \in Threads \ {t} :
            pc[u] \in {"readNext", "popCas"} => node[u] \notin Sealed(t, {})'
    BY <1>3 DEF Shape, Reading
  <1>7. {} \in SUBSET Nodes
    OBVIOUS
  <1>. QED
    BY <1>1, <1>3, <1>4, <1>5, <1>6, <1>7, ShapeStay

LEMMA ShapeTryDelete ==
    ASSUME TypeInv, Pointers, CountInv,
           NEW P \in SUBSET Nodes, NEW T \in [Threads -> SUBSET Nodes], Shape(P, T),
           NEW t \in Threads, TryDelete(t)
    PROVE  ShapeInv'
  <1>1. /\ pc[t] = "count" /\ pc'[t] = IF popCount = 1 THEN "exchange" ELSE "chainLoad"
        /\ node' = node /\ next' = next
        /\ popCount # 1 => first'[t] = node[t] /\ last'[t] = node[t]
        /\ head' = head /\ pendingList' = pendingList /\ chain' = chain
        /\ allocated' = allocated
    BY DEF TryDelete, Goto, TypeInv
  <1>2. T[t] = {} /\ node[t] \in Nodes /\ next[node[t]] # node[t]
    BY <1>1 DEF Shape, Local, HasList, Pointers
  <1>3. Kept(t)
    BY DEF TryDelete, Goto, TypeInv, Kept
  <1>4. \A n \in Nodes : next'[n] # next[n] => n \in Held(t, T[t])
    BY <1>1
  <1>5. \A S : Reading(t, [T EXCEPT ![t] = S])'
    BY <1>1 DEF Reading
  <1>6. CASE popCount = 1
    <2>1. {} \in SUBSET Nodes /\ Held(t, {})' = Held(t, T[t])
      BY <1>1, <1>2, <1>6 DEF Held, HasNode
    <2>2. Local(t, {})'
      BY <1>1, <1>6 DEF Local, HasList
    <2>3. \A u \in Threads \ {t} : pc[u] \notin {"readNext", "popCas"}
      <3>1. t \in Counted
        BY <1>1 DEF Counted
      <3>2. \A u \in Threads : pc[u] \in {"readNext", "popCas"} => u \in Counted
        BY DEF Counted
      <3>. QED
        BY <1>6, <3>1, <3>2, CountedAlone
    <2>. QED
      BY <1>1, <1>3, <1>4, <1>5, <2>1, <2>2, <2>3, ShapeStay
  <1>7. CASE popCount # 1
    <2>1. PICK S2 \in SUBSET Nodes : S2 = {node[t]}
      BY <1>2
    <2>2. Held(t, S2)' = Held(t, T[t]) /\ Sealed(t, S2)' = {}
      BY <1>1, <1>2, <1>7, <2>1 DEF Held, Sealed, HasNode
    <2>3. Local(t, S2)'
      <3>1. List(next, node[t], S2, next[node[t]])
        BY <1>2, <2>1, ListOne
      <3>. QED
        BY <1>1, <1>2, <1>7, <2>1, <3>1 DEF Local, HasList
    <2>. QED
      BY <1>1, <1>3, <1>4, <1>5, <2>2, <2>3, ShapeStay
  <1>. QED
    BY <1>6, <1>7

LEMMA ShapeDecrement ==
    ASSUME TypeInv, Pointers, CountInv,
           NEW P \in SUBSET Nodes, NEW T \in [Threads -> SUBSET Nodes], Shape(P, T),
           NEW t \in Threads, Decrement(t)
    PROVE  ShapeInv'
  <1>1. /\ pc[t] = "decrement"
        /\ pc'[t] = IF popCount = 1 THEN "deleteNodes"
                    ELSE IF first[t] # Null THEN "findLast" ELSE "delete"
        /\ node' = node /\ next' = next /\ first' = first /\ last' = last
        /\ head' = head /\ pendingList' = pendingList /\ chain' = chain
        /\ allocated' = allocated
    BY DEF Decrement, Goto, TypeInv, locals
  <1>2. /\ node[t] \in Nodes /\ last[t] = first[t] /\ node[t] \notin T[t]
        /\ List(next, first[t], T[t], Null)
    BY <1>1 DEF Shape, Local, Pointers
  <1>3. first[t] = Null => T[t] = {}
    BY <1>2, StackAssumption, ListHead
  <1>4. first[t] # Null => first[t] \in T[t]
    BY <1>2, ListHead
  <1>5. PICK S2 \in SUBSET Nodes : S2 = T[t]
    OBVIOUS
  <1>6. Kept(t) /\ Held(t, S2)' = Held(t, T[t])
    BY <1>1, <1>5 DEF Decrement, Goto, TypeInv, locals, Kept, Held, HasNode
  <1>7. Local(t, S2)'
    BY <1>1, <1>2, <1>3, <1>4, <1>5 DEF Local, HasList
  <1>8. Reading(t, [T EXCEPT ![t] = S2])'
    BY <1>1 DEF Reading
  <1>9. ASSUME NEW u \in Threads \ {t}, pc[u] \in {"readNext", "popCas"}
        PROVE  node[u] \notin Sealed(t, S2)'
    <2>1. CASE popCount = 1
      <3>1. t \in Counted /\ u \in Counted
        BY <1>1, <1>9 DEF Counted
      <3>. QED
        BY <2>1, <3>1, CountedAlone
    <2>2. CASE popCount # 1
      <3>1. Sealed(t, S2)' = Sealed(t, T[t])
        BY <1>1, <1>5, <2>2 DEF Sealed, HasNode
      <3>. QED
        BY <1>9, <3>1 DEF Shape, Reading
    <2>. QED
      BY <2>1, <2>2
  <1>10. \A n \in Nodes : next'[n] # next[n] => n \in Held(t, T[t])
    BY <1>1
  <1>. QED
    BY <1>1, <1>6, <1>7, <1>8, <1>9, <1>10, ShapeStay

LEMMA ShapeFindLast ==
    ASSUME TypeInv, Pointers,
           NEW P \in SUBSET Nodes, NEW T \in [Threads -> SUBSET Nodes], Shape(P, T),
           NEW t \in Threads, FindLast(t)
    PROVE  ShapeInv'
  <1>1. /\ pc[t] = "findLast"
        /\ pc'[t] = IF next[last[t]] = Null THEN "chainLoad" ELSE "findLast"
        /\ last'[t] = IF next[last[t]] = Null THEN last[t] ELSE next[last[t]]
        /\ node' = node /\ next' = next /\ first' = first
        /\ head' = head /\ pendingList' = pendingList /\ chain' = chain
        /\ allocated' = allocated
    BY DEF FindLast, Goto, TypeInv
  <1>2. /\ node[t] \notin T[t] /\ List(next, first[t], T[t], Null) /\ last[t] \in T[t]
    BY <1>1 DEF Shape, Local
  <1>3. T[t] \subseteq Nodes /\ Null \notin T[t] /\ first[t] \in T[t]
    BY <1>2, StackAssumption, ListHead
  <1>4. next[last[t]] \in T[t] \cup {Null}
    BY <1>2, ListNext
  <1>5. PICK S2 \in SUBSET Nodes : S2 = T[t]
    OBVIOUS
  <1>6. Kept(t) /\ Held(t, S2)' = Held(t, T[t]) /\ Sealed(t, S2)' = Sealed(t, T[t])
    <2>1. Kept(t)
      BY DEF FindLast, Goto, TypeInv, Kept
    <2>2. first[t] # node[t]
      BY <1>2, <1>3
    <2>. QED
      BY <1>1, <1>5, <2>1, <2>2 DEF Held, Sealed, HasNode
  <1>7. Local(t, S2)'
    BY <1>1, <1>2, <1>3, <1>4, <1>5 DEF Local, HasList
  <1>8. Reading(t, [T EXCEPT ![t] = S2])'
    BY <1>1 DEF Reading
  <1>9. \A u \in Threads \ {t} :
            pc[u] \in {"readNext", "popCas"} => node[u] \notin Sealed(t, S2)'
    BY <1>6 DEF Shape, Reading
  <1>10. \A n \in Nodes : next'[n] # next[n] => n \in Held(t, T[t])
    BY <1>1
  <1>. QED
    BY <1>1, <1>6, <1>7, <1>8, <1>9, <1>10, ShapeStay

LEMMA ShapeLink ==
    ASSUME TypeInv, Pointers,
           NEW P \in SUBSET Nodes, NEW T \in [Threads -> SUBSET Nodes], Shape(P, T),
           NEW t \in Threads, ChainLoad(t) \/ ChainCasFails(t)
    PROVE  ShapeInv'
  <1>1. /\ pc[t] \in {"chainLoad", "chainCas"} /\ pc'[t] = "chainCas"
        /\ node' = node /\ first' = first /\ last' = last
        /\ head' = head /\ pendingList' = pendingList /\ chain' = chain
        /\ allocated' = allocated
        /\ next' = [next EXCEPT ![last[t]] = pendingList]
    BY DEF ChainLoad, ChainCasFails, Goto, TypeInv, locals
  <1>2. PICK S2 \in SUBSET Nodes : S2 = T[t]
    OBVIOUS
  <1>3. /\ last[t] \in S2 /\ next[last[t]] \notin S2
        /\ List(next, first[t], S2, next[last[t]])
        /\ IF first[t] = node[t] THEN S2 = {node[t]} ELSE node[t] \notin S2
    BY <1>1, <1>2 DEF Shape, Local
  <1>4. next'[last[t]] = pendingList /\ \A n \in S2 \ {last[t]} : next'[n] = next[n]
    BY <1>1, <1>3 DEF TypeInv
  <1>5. pendingList \notin S2
    <2>1. pendingList \in P \cup {Null}
      BY ListHead DEF Shape
    <2>2. \A n \in S2 : n \in Nodes /\ n \in Held(t, T[t])
      BY <1>2 DEF Held
    <2>. QED
      BY <2>1, <2>2, StackAssumption DEF Shape, Apart
  <1>6. List(next', first[t], S2, pendingList)
    <2>1. PICK e : e = next[last[t]]
      OBVIOUS
    <2>2. List(next, first[t], S2, e) /\ e \notin S2
      BY <1>3, <2>1
    <2>. QED
      BY <1>3, <1>4, <2>1, <2>2, ListRelink
  <1>7. Local(t, S2)'
    BY <1>1, <1>3, <1>4, <1>5, <1>6 DEF Local, HasList
  <1>8. Kept(t) /\ Held(t, S2)' = Held(t, T[t]) /\ Sealed(t, S2)' = Sealed(t, T[t])
    <2>1. Kept(t)
      BY DEF ChainLoad, ChainCasFails, Goto, TypeInv, locals, Kept
    <2>. QED
      BY <1>1, <1>2, <2>1 DEF Held, Sealed, HasNode
  <1>9. Reading(t, [T EXCEPT ![t] = S2])'
    BY <1>1 DEF Reading
  <1>10. \A u \in Threads \ {t} :
            pc[u] \in {"readNext", "popCas"} => node[u] \notin Sealed(t, S2)'
    BY <1>8 DEF Shape, Reading
  <1>11. \A n \in Nodes : next'[n] # next[n] => n \in Held(t, T[t])
    BY <1>1, <1>2, <1>3 DEF TypeInv, Held
  <1>. QED
    BY <1>1, <1>7, <1>8, <1>9, <1>10, <1>11, ShapeStay

LEMMA ShapePush ==
    ASSUME TypeInv, Pointers,
           NEW P \in SUBSET Nodes, NEW T \in [Threads -> SUBSET Nodes], Shape(P, T),
           NEW t \in Threads, NEW b \in Blocks, Push(t, b)
    PROVE  ShapeInv'
  <1>1. PICK n \in Nodes \ allocated :
            /\ allocated' = allocated \cup {n} /\ node' = [node EXCEPT ![t] = n]
            /\ next' = [next EXCEPT ![n] = Null]
    BY DEF Push
  <1>2. /\ pc[t] = "idle" /\ pc'[t] = "pushCas" /\ node'[t] = n
        /\ head' = head /\ pendingList' = pendingList /\ chain' = chain
    BY <1>1 DEF Push, Goto, TypeInv
  <1>3. Kept(t)
    BY <1>1 DEF Push, Goto, TypeInv, Kept
  <1>4. T[t] = {} /\ Held(t, T[t]) = {}
    BY <1>2, HasNothing DEF Shape, HasNode
  <1>0. PICK S2 \in SUBSET Nodes : S2 = {}
    OBVIOUS
  <1>5. Held(t, S2)' = {n} /\ Sealed(t, S2)' = {n}
    BY <1>2, <1>0 DEF Held, Sealed, HasNode
  <1>6. Local(t, S2)' /\ Reading(t, [T EXCEPT ![t] = S2])'
    BY <1>0, <1>2 DEF Local, HasList, Reading
  <1>7. Writes(t, T[t])
    BY <1>1 DEF Writes, TypeInv
  <1>8. Seg(chain', next', head', Null) /\ List(next', pendingList', P, Null)
    BY <1>2, <1>7, ListsFrame
  <1>9. Linked' = Linked
    BY <1>2 DEF Linked
  <1>10. \A m \in Nodes :
             /\ m \in Linked => m \notin P
             /\ m \in Linked \/ m \in P => m \in allocated
    BY DEF Shape, Apart
  <1>11. Placed(t, P, T[t], P, S2)
    BY <1>1, <1>4, <1>5, <1>9, <1>10 DEF Placed
  <1>12. ReadersSafe(t, S2)
    <2>1. \A u \in Threads : pc[u] \in {"readNext", "popCas"} =>
              node[u] \in allocated /\ node[u] \in Nodes
      BY DEF Shape, Reading, Pointers
    <2>. QED
      BY <1>1, <1>4, <1>5, <1>7, <1>9, <2>1 DEF ReadersSafe, Writes
  <1>. QED
    BY <1>3, <1>5, <1>6, <1>7, <1>8, <1>11, <1>12, ShapeMove

LEMMA ShapePushCas ==
    ASSUME TypeInv, Pointers,
           NEW P \in SUBSET Nodes, NEW T \in [Threads -> SUBSET Nodes], Shape(P, T),
           NEW t \in Threads, PushCas(t)
    PROVE  ShapeInv'
  <1>1. /\ pc[t] = "pushCas" /\ pc'[t] = "idle"
        /\ head = next[node[t]] /\ head' = node[t] /\ chain' = <<node[t]>> \o chain
        /\ pendingList' = pendingList /\ next' = next /\ allocated' = allocated
    BY DEF PushCas, Return, Goto, TypeInv
  <1>2. PICK n \in Nodes : n = node[t]
    BY <1>1 DEF Pointers
  <1>3. Kept(t)
    BY DEF PushCas, Return, Goto, TypeInv, Kept
  <1>4. T[t] = {} /\ Held(t, T[t]) = {n}
    BY <1>1, <1>2 DEF Shape, Local, HasList, Held, HasNode
  <1>0. PICK S2 \in SUBSET Nodes : S2 = {}
    OBVIOUS
  <1>5. Held(t, S2)' = {} /\ Sealed(t, S2)' = {}
    BY <1>1, <1>0 DEF Held, Sealed, HasNode
  <1>6. Local(t, S2)' /\ Reading(t, [T EXCEPT ![t] = S2])'
    BY <1>0, <1>1 DEF Local, HasList, Reading
  <1>7. n \notin Linked /\ n \notin P /\ n \in allocated
    BY <1>4 DEF Shape, Apart
  <1>8. Seg(chain', next, n, Null) /\ Elements(chain') = {n} \cup Elements(chain)
    <2>1. Seg(chain, next, next[n], Null) /\ n \notin Elements(chain)
      BY <1>1, <1>2, <1>7 DEF Shape, Linked
    <2>2. /\ Seg(<<n>> \o chain, next, n, Null)
          /\ Elements(<<n>> \o chain) = {n} \cup Elements(chain)
      BY <2>1, SegPush
    <2>. QED
      BY <1>1, <1>2, <2>2
  <1>9. Seg(chain', next', head', Null) /\ List(next', pendingList', P, Null)
    BY <1>1, <1>2, <1>8 DEF Shape
  <1>10. Linked' = {n} \cup Linked
    BY <1>8 DEF Linked
  <1>11. \A m \in Nodes :
             /\ m \in Linked => m \notin P
             /\ m \in Linked \/ m \in P => m \in allocated
    BY DEF Shape, Apart
  <1>12. Placed(t, P, T[t], P, S2)
    BY <1>1, <1>4, <1>5, <1>7, <1>10, <1>11 DEF Placed
  <1>13. ReadersSafe(t, S2)
    <2>1. n \in Sealed(t, T[t])
      BY <1>1, <1>2 DEF Sealed, HasNode
    <2>2. \A u \in Threads : pc[u] \in {"readNext", "popCas"} =>
              node[u] \in allocated /\ node[u] # n
      BY <2>1 DEF Shape, Reading
    <2>. QED
      BY <1>1, <1>5, <1>10, <2>2 DEF ReadersSafe
  <1>14. Writes(t, T[t])
    BY <1>1 DEF Writes
  <1>. QED
    BY <1>3, <1>5, <1>6, <1>9, <1>12, <1>13, <1>14, ShapeMove

\* The node of the compare-exchange is the top of the stack, and nobody has
\* written its next since it was read.
LEMMA PopTop ==
    ASSUME TypeInv, Pointers, NEW P, NEW T, Shape(P, T), NEW t \in Threads, PopCas(t)
    PROVE  /\ node[t] \in Nodes /\ head = node[t] /\ head' = next[node[t]]
           /\ chain # <<>> /\ chain[1] = node[t] /\ chain' = Tail(chain)
           /\ Seg(Tail(chain), next, next[node[t]], Null)
           /\ Elements(Tail(chain)) = Elements(chain) \ {node[t]}
           /\ node[t] \in Elements(chain)
           /\ next[node[t]] # node[t]
  <1>1. pc[t] = "popCas" /\ head = node[t] /\ head' = seen[t]
    BY DEF PopCas, Goto
  <1>2. PICK h \in Nodes : h = head
    BY <1>1 DEF Pointers
  <1>3. Seg(chain, next, h, Null) /\ Null \notin Nodes
    BY <1>2, StackAssumption DEF Shape
  <1>4. /\ chain # <<>> /\ h = chain[1] /\ Seg(Tail(chain), next, next[h], Null)
        /\ Elements(Tail(chain)) = Elements(chain) \ {h} /\ h \in Elements(chain)
    BY <1>3, SegPop
  <1>5. seen[t] = next[h]
    BY <1>1, <1>2, <1>4 DEF Shape, Reading, Linked
  <1>6. next[h] # h
    <2>1. Tail(chain) \in Seq(Nodes)
      BY <1>4 DEF Seg
    <2>2. PICK S : S = Elements(chain) \ {h}
      OBVIOUS
    <2>3. List(next, next[h], S, Null)
      BY <1>4, <2>1, <2>2 DEF List
    <2>4. next[h] = Null \/ next[h] \in S
      BY <2>3, ListHead
    <2>. QED
      BY <1>3, <2>2, <2>4
  <1>7. chain' = Tail(chain)
    BY <1>4 DEF PopCas
  <1>. QED
    BY <1>1, <1>2, <1>4, <1>5, <1>6, <1>7

LEMMA ShapePopCas ==
    ASSUME TypeInv, Pointers,
           NEW P \in SUBSET Nodes, NEW T \in [Threads -> SUBSET Nodes], Shape(P, T),
           NEW t \in Threads, PopCas(t)
    PROVE  ShapeInv'
  <1>1. /\ pc[t] = "popCas" /\ pc'[t] = "count" /\ node' = node
        /\ pendingList' = pendingList /\ next' = next /\ allocated' = allocated
    BY DEF PopCas, Goto, TypeInv, locals
  <1>2. PICK n \in Nodes : n = node[t]
    BY <1>1 DEF Pointers
  <1>3. Kept(t)
    BY DEF PopCas, Goto, TypeInv, Kept, locals
  <1>4. T[t] = {} /\ Held(t, T[t]) = {}
    BY <1>1, HasNothing DEF Shape, HasNode
  <1>0. PICK S2 \in SUBSET Nodes : S2 = {}
    OBVIOUS
  <1>5. Held(t, S2)' = {n} /\ Sealed(t, S2)' = {}
    BY <1>1, <1>2, <1>0 DEF Held, Sealed, HasNode
  <1>6. /\ head' = next[n] /\ Seg(chain', next, next[n], Null) /\ next[n] # n
        /\ Linked' = Linked \ {n} /\ n \in Linked
    BY <1>2, PopTop DEF Linked
  <1>7. Local(t, S2)' /\ Reading(t, [T EXCEPT ![t] = S2])'
    BY <1>0, <1>1, <1>2, <1>6 DEF Local, HasList, Reading
  <1>8. Seg(chain', next', head', Null) /\ List(next', pendingList', P, Null)
    BY <1>1, <1>6 DEF Shape
  <1>9. \A m \in Nodes :
             /\ m \in Linked => m \notin P
             /\ m \in Linked \/ m \in P => m \in allocated
    BY DEF Shape, Apart
  <1>10. Placed(t, P, T[t], P, S2)
    BY <1>1, <1>4, <1>5, <1>6, <1>9 DEF Placed
  <1>11. ReadersSafe(t, S2)
    <2>1. \A u \in Threads : pc[u] \in {"readNext", "popCas"} => node[u] \in allocated
      BY DEF Shape, Reading
    <2>. QED
      BY <1>1, <1>5, <1>6, <2>1 DEF ReadersSafe
  <1>12. Writes(t, T[t])
    BY <1>1 DEF Writes
  <1>. QED
    BY <1>3, <1>5, <1>7, <1>8, <1>10, <1>11, <1>12, ShapeMove

LEMMA ShapeExchange ==
    ASSUME TypeInv, Pointers,
           NEW P \in SUBSET Nodes, NEW T \in [Threads -> SUBSET Nodes], Shape(P, T),
           NEW t \in Threads, Exchange(t)
    PROVE  ShapeInv'
  <1>1. /\ pc[t] = "exchange" /\ pc'[t] = "decrement" /\ node' = node
        /\ first'[t] = pendingList /\ last'[t] = pendingList
        /\ head' = head /\ pendingList' = Null /\ chain' = chain
        /\ next' = next /\ allocated' = allocated
    BY DEF Exchange, Goto, TypeInv
  <1>2. PICK n \in Nodes : n = node[t]
    BY <1>1 DEF Pointers
  <1>3. Kept(t)
    BY DEF Exchange, Goto, TypeInv, Kept
  <1>4. T[t] = {} /\ Held(t, T[t]) = {n} /\ Sealed(t, T[t]) = {n}
    BY <1>1, <1>2 DEF Shape, Local, HasList, Held, Sealed, HasNode
  <1>5. Held(t, P)' = {n} \cup P /\ Sealed(t, P)' = {n}
    BY <1>1, <1>2 DEF Held, Sealed, HasNode
  <1>6. PICK P2 \in SUBSET Nodes : P2 = {}
    OBVIOUS
  <1>7. n \notin Linked /\ n \notin P
    BY <1>4 DEF Shape, Apart
  <1>8. List(next, pendingList, P, Null)
    BY DEF Shape
  <1>9. Local(t, P)' /\ Reading(t, [T EXCEPT ![t] = P])'
    BY <1>1, <1>2, <1>7, <1>8 DEF Local, HasList, Reading
  <1>10. Seg(chain', next', head', Null) /\ List(next', pendingList', P2, Null)
    BY <1>1, <1>6, ListEmpty DEF Shape
  <1>11. Linked' = Linked
    BY <1>1 DEF Linked
  <1>12. \A m \in Nodes :
             /\ m \in Linked => m \notin P
             /\ m \in Linked \/ m \in P \/ m = n => m \in allocated
    BY <1>4 DEF Shape, Apart
  <1>13. Placed(t, P, T[t], P2, P)
    BY <1>1, <1>4, <1>5, <1>6, <1>7, <1>11, <1>12 DEF Placed
  <1>14. ReadersSafe(t, P)
    BY <1>1, <1>4, <1>5, <1>11 DEF ReadersSafe, Shape, Reading
  <1>15. Writes(t, T[t])
    BY <1>1 DEF Writes
  <1>. QED
    BY <1>3, <1>9, <1>10, <1>13, <1>14, <1>15, ShapeMove

LEMMA ShapeDeleteNodes ==
    ASSUME TypeInv, Pointers,
           NEW P \in SUBSET Nodes, NEW T \in [Threads -> SUBSET Nodes], Shape(P, T),
           NEW t \in Threads, DeleteNodes(t)
    PROVE  ShapeInv'
  <1>1. /\ pc[t] = "deleteNodes" /\ node' = node /\ next' = next
        /\ pc'[t] = IF first[t] = Null THEN "delete" ELSE "deleteNodes"
        /\ head' = head /\ pendingList' = pendingList /\ chain' = chain
    BY DEF DeleteNodes, Goto, TypeInv
  <1>2. List(next, first[t], T[t], Null) /\ node[t] \notin T[t]
    BY <1>1 DEF Shape, Local
  <1>3. PICK n \in Nodes : n = node[t]
    BY <1>1 DEF Pointers
  <1>4. Kept(t)
    BY DEF DeleteNodes, Goto, TypeInv, Kept
  <1>5. \A S : Reading(t, [T EXCEPT ![t] = S])'
    BY <1>1 DEF Reading
  <1>6. CASE first[t] = Null
    <2>1. PICK S2 \in SUBSET Nodes : S2 = {}
      OBVIOUS
    <2>2. T[t] = S2 /\ allocated' = allocated
      BY <1>2, <1>6, <2>1, StackAssumption, ListHead DEF DeleteNodes
    <2>3. Held(t, S2)' = Held(t, T[t]) /\ Sealed(t, S2)' = Sealed(t, T[t])
      BY <1>1, <1>6, <2>1, <2>2 DEF Held, Sealed, HasNode
    <2>4. Local(t, S2)'
      BY <1>1, <1>6, <2>1 DEF Local, HasList
    <2>5. \A u \in Threads \ {t} :
              pc[u] \in {"readNext", "popCas"} => node[u] \notin Sealed(t, S2)'
      BY <2>3 DEF Shape, Reading
    <2>6. \A m \in Nodes : next'[m] # next[m] => m \in Held(t, T[t])
      BY <1>1
    <2>. QED
      BY <1>1, <1>4, <1>5, <2>2, <2>3, <2>4, <2>5, <2>6, ShapeStay
  <1>7. CASE first[t] # Null
    <2>1. PICK f \in Nodes : f = first[t]
      BY <1>7 DEF TypeInv, NodePtr
    <2>2. allocated' = allocated \ {f} /\ first'[t] = next[f]
      BY <1>7, <2>1 DEF DeleteNodes, TypeInv
    <2>3. PICK S2 \in SUBSET Nodes : S2 = T[t] \ {f}
      OBVIOUS
    <2>4. f \in T[t] /\ List(next, next[f], S2, Null)
      BY <1>2, <2>1, <2>3, StackAssumption, ListPop
    <2>5. /\ Held(t, T[t]) = {n} \cup T[t] /\ Sealed(t, T[t]) = {n} \cup T[t]
          /\ Held(t, S2)' = {n} \cup S2 /\ Sealed(t, S2)' = {n} \cup S2
      BY <1>1, <1>3, <1>7 DEF Held, Sealed, HasNode
    <2>6. Local(t, S2)'
      BY <1>1, <1>2, <1>7, <2>2, <2>3, <2>4 DEF Local, HasList
    <2>7. Linked' = Linked
      BY <1>1 DEF Linked
    <2>8. \A m \in Nodes :
             /\ m \in Linked => m \notin P
             /\ m \in Linked \/ m \in P => m \in allocated
             /\ m \in {n} \cup T[t] => m \in allocated /\ m \notin Linked /\ m \notin P
      BY <2>5 DEF Shape, Apart
    <2>9. Placed(t, P, T[t], P, S2)
      BY <1>2, <1>3, <2>2, <2>3, <2>4, <2>5, <2>7, <2>8 DEF Placed
    <2>10. ReadersSafe(t, S2)
      <3>1. \A u \in Threads : pc[u] \in {"readNext", "popCas"} =>
                node[u] \in allocated /\ node[u] # n /\ node[u] \notin T[t]
        BY <2>5 DEF Shape, Reading
      <3>. QED
        BY <1>1, <2>2, <2>3, <2>4, <2>5, <2>7, <3>1 DEF ReadersSafe
    <2>11. Writes(t, T[t])
      BY <1>1 DEF Writes
    <2>12. Seg(chain', next', head', Null) /\ List(next', pendingList', P, Null)
      BY <1>1 DEF Shape
    <2>. QED
      BY <1>4, <1>5, <2>6, <2>9, <2>10, <2>11, <2>12, ShapeMove
  <1>. QED
    BY <1>6, <1>7

LEMMA ShapeChainCas ==
    ASSUME TypeInv, Pointers,
           NEW P \in SUBSET Nodes, NEW T \in [Threads -> SUBSET Nodes], Shape(P, T),
           NEW t \in Threads, ChainCas(t)
    PROVE  ShapeInv'
  <1>1. /\ pc[t] = "chainCas" /\ pc'[t] = IF first[t] = node[t] THEN "leave" ELSE "delete"
        /\ pendingList = next[last[t]] /\ pendingList' = first[t]
        /\ node' = node /\ next' = next /\ first' = first
        /\ head' = head /\ chain' = chain /\ allocated' = allocated
    BY DEF ChainCas, Goto, TypeInv, locals
  <1>2. PICK n \in Nodes : n = node[t]
    BY <1>1 DEF Pointers
  <1>3. Kept(t)
    BY DEF ChainCas, Goto, TypeInv, Kept, locals
  <1>4. PICK S \in SUBSET Nodes : S = T[t]
    OBVIOUS
  <1>5. /\ List(next, first[t], S, pendingList)
        /\ IF first[t] = n THEN S = {n} ELSE n \notin S
    BY <1>1, <1>2, <1>4 DEF Shape, Local
  <1>6. Held(t, S) = {n} \cup S /\ Sealed(t, S) = IF first[t] = n THEN {} ELSE {n}
    BY <1>1, <1>2 DEF Held, Sealed, HasNode
  <1>7. PICK S2 \in SUBSET Nodes : S2 = {}
    OBVIOUS
  <1>8. /\ Held(t, S2)' = IF first[t] = n THEN {} ELSE {n}
        /\ Sealed(t, S2)' = IF first[t] = n THEN {} ELSE {n}
    BY <1>1, <1>2, <1>7 DEF Held, Sealed, HasNode
  <1>9. Local(t, S2)' /\ Reading(t, [T EXCEPT ![t] = S2])'
    BY <1>1, <1>7 DEF Local, HasList, Reading
  <1>10. \A m \in Nodes :
             /\ m \in Linked => m \notin P
             /\ m \in Linked \/ m \in P => m \in allocated
             /\ m \in {n} \cup S => m \in allocated /\ m \notin Linked /\ m \notin P
    BY <1>4, <1>6 DEF Shape, Apart
  <1>11. PICK P2 \in SUBSET Nodes : P2 = S \cup P
    OBVIOUS
  <1>12. List(next, first[t], P2, Null)
    <2>1. List(next, pendingList, P, Null) /\ S \cap P = {}
      BY <1>10 DEF Shape
    <2>. QED
      BY <1>5, <1>11, <2>1, ListConcat
  <1>13. Seg(chain', next', head', Null) /\ List(next', pendingList', P2, Null)
    BY <1>1, <1>12 DEF Shape
  <1>14. Linked' = Linked
    BY <1>1 DEF Linked
  <1>15. Placed(t, P, S, P2, S2)
    <2>1. CASE first[t] = n
      BY <1>1, <1>5, <1>6, <1>8, <1>10, <1>11, <1>14, <2>1 DEF Placed
    <2>2. CASE first[t] # n
      BY <1>1, <1>5, <1>6, <1>8, <1>10, <1>11, <1>14, <2>2 DEF Placed
    <2>. QED
      BY <2>1, <2>2
  <1>16. ReadersSafe(t, S2)
    BY <1>1, <1>4, <1>6, <1>8, <1>14 DEF ReadersSafe, Shape, Reading
  <1>17. Writes(t, S)
    BY <1>1 DEF Writes
  <1>. QED
    BY <1>3, <1>4, <1>9, <1>13, <1>15, <1>16, <1>17, ShapeMove

LEMMA ShapeDelete ==
    ASSUME TypeInv, Pointers,
           NEW P \in SUBSET Nodes, NEW T \in [Threads -> SUBSET Nodes], Shape(P, T),
           NEW t \in Threads, Delete(t)
    PROVE  ShapeInv'
  <1>1. /\ pc[t] = "delete" /\ pc'[t] = "idle" /\ next' = next
        /\ head' = head /\ pendingList' = pendingList /\ chain' = chain
        /\ allocated' = allocated \ {node[t]}
    BY DEF Delete, Return, Goto, TypeInv
  <1>2. PICK n \in Nodes : n = node[t]
    BY <1>1 DEF Pointers
  <1>3. Kept(t)
    BY DEF Delete, Return, Goto, TypeInv, Kept
  <1>4. T[t] = {} /\ Held(t, T[t]) = {n} /\ Sealed(t, T[t]) = {n}
    BY <1>1, <1>2 DEF Shape, Local, HasList, Held, Sealed, HasNode
  <1>5. PICK S2 \in SUBSET Nodes : S2 = {}
    OBVIOUS
  <1>6. Held(t, S2)' = {} /\ Sealed(t, S2)' = {}
    BY <1>1, <1>5 DEF Held, Sealed, HasNode
  <1>7. Local(t, S2)' /\ Reading(t, [T EXCEPT ![t] = S2])'
    BY <1>1, <1>5 DEF Local, HasList, Reading
  <1>8. Linked' = Linked
    BY <1>1 DEF Linked
  <1>9. \A m \in Nodes :
            /\ m \in Linked => m \notin P
            /\ m \in Linked \/ m \in P => m \in allocated /\ m # n
    BY <1>4 DEF Shape, Apart
  <1>10. Placed(t, P, T[t], P, S2)
    BY <1>1, <1>2, <1>4, <1>6, <1>8, <1>9 DEF Placed
  <1>11. ReadersSafe(t, S2)
    BY <1>1, <1>2, <1>4, <1>6, <1>8 DEF ReadersSafe, Shape, Reading
  <1>12. Writes(t, T[t])
    BY <1>1 DEF Writes
  <1>13. Seg(chain', next', head', Null) /\ List(next', pendingList', P, Null)
    BY <1>1 DEF Shape
  <1>. QED
    BY <1>3, <1>7, <1>10, <1>11, <1>12, <1>13, ShapeMove

LEMMA ShapeInit == Init => ShapeInv
  <1> SUFFICES ASSUME Init PROVE ShapeInv
    OBVIOUS
  <1>1. PICK P \in SUBSET Nodes : P = {}
    OBVIOUS
  <1>2. PICK T \in [Threads -> SUBSET Nodes] : T = [t \in Threads |-> {}]
    <2>1. [t \in Threads |-> {}] \in [Threads -> SUBSET Nodes]
      OBVIOUS
    <2>. QED
      BY <2>1
  <1>3. /\ chain = <<>> /\ head = Null /\ pendingList = Null /\ allocated = {}
        /\ \A t \in Threads : pc[t] = "idle" /\ T[t] = {}
    BY <1>2 DEF Init
  <1>4. Seg(chain, next, head, Null) /\ Elements(chain) = {}
    <2>1. <<>> \in Seq(Nodes) /\ Len(<<>>) = 0
      BY EmptySeq
    <2>. QED
      BY <1>3, <2>1 DEF Seg, Elements
  <1>5. List(next, pendingList, P, Null)
    BY <1>1, <1>3, ListEmpty
  <1>6. \A t \in Threads : Local(t, T[t]) /\ Held(t, T[t]) = {}
    BY <1>3 DEF Local, HasList, Held, HasNode
  <1>7. Apart(P, T)
    BY <1>1, <1>3, <1>4, <1>6 DEF Apart, Linked
  <1>8. \A u \in Threads : Reading(u, T)
    BY <1>3 DEF Reading
  <1>. QED
    BY <1>4, <1>5, <1>6, <1>7, <1>8 DEF ShapeInv, Shape

LEMMA ShapeStep ==
    TypeInv /\ Pointers /\ CountInv /\ ShapeInv /\ [Next]_vars => ShapeInv'
  <1> SUFFICES ASSUME TypeInv, Pointers, CountInv, ShapeInv, [Next]_vars PROVE ShapeInv'
    OBVIOUS
  <1>1. PICK P \in SUBSET Nodes, T \in [Threads -> SUBSET Nodes] : Shape(P, T)
    BY DEF ShapeInv
  <1>2. CASE UNCHANGED vars
    <2>1. Linked' = Linked
      BY <1>2 DEF vars, Linked
    <2>2. \A t \in Threads :
              /\ Held(t, T[t])' = Held(t, T[t]) /\ Sealed(t, T[t])' = Sealed(t, T[t])
      BY <1>2 DEF vars, locals, Held, Sealed, HasNode
    <2>3. \A t \in Threads : Local(t, T[t])'
      BY <1>1, <1>2 DEF vars, locals, Shape, Local, HasList
    <2>4. \A t \in Threads : Reading(t, T)'
      BY <1>1, <1>2, <2>1, <2>2 DEF vars, locals, Shape, Reading
    <2>5. Apart(P, T)'
      BY <1>1, <1>2, <2>1, <2>2 DEF vars, Shape, Apart
    <2>6. Seg(chain', next', head', Null) /\ List(next', pendingList', P, Null)
      BY <1>1, <1>2 DEF vars, Shape
    <2>7. Shape(P, T)'
      BY <2>3, <2>4, <2>5, <2>6 DEF Shape
    <2>. QED
      BY <2>7 DEF ShapeInv
  <1>3. ASSUME NEW t \in Threads, NEW b \in Blocks, Push(t, b) PROVE ShapeInv'
    BY <1>1, <1>3, ShapePush
  <1>4. ASSUME NEW t \in Threads, TryPop(t) PROVE ShapeInv'
    BY <1>1, <1>4, ShapeTryPop
  <1>5. ASSUME NEW t \in Threads, Step(t) PROVE ShapeInv'
    <2>1. CASE PushCas(t) \/ PushCasFails(t) \/ PopCas(t)
      BY <1>1, <2>1, ShapePushCas, ShapePushCasFails, ShapePopCas
    <2>2. CASE LoadHead(t) \/ PopCasFails(t) \/ ReadNext(t)
      BY <1>1, <2>2, ShapeSeeHead, ShapeReadNext DEF LoadHead, PopCasFails
    <2>3. CASE LeaveEmpty(t) \/ Leave(t) \/ Delete(t)
      BY <1>1, <2>3, ShapeLeave, ShapeDelete
    <2>4. CASE TryDelete(t) \/ Exchange(t) \/ Decrement(t)
      BY <1>1, <2>4, ShapeTryDelete, ShapeExchange, ShapeDecrement
    <2>5. CASE DeleteNodes(t) \/ FindLast(t) \/ ChainCas(t)
      BY <1>1, <2>5, ShapeDeleteNodes, ShapeFindLast, ShapeChainCas
    <2>6. CASE ChainLoad(t) \/ ChainCasFails(t)
      BY <1>1, <2>6, ShapeLink
    <2>. QED
      BY <1>5, <2>1, <2>2, <2>3, <2>4, <2>5, <2>6 DEF Step
  <1>. QED
    BY <1>2, <1>3, <1>4, <1>5 DEF Next

LEMMA ShapeFirst == ShapeInv => OtherFirst
  <1> SUFFICES ASSUME ShapeInv, NEW t \in Threads, pc[t] = "findLast"
               PROVE  first[t] # node[t]
    BY DEF OtherFirst
  <1>1. PICK P \in SUBSET Nodes, T \in [Threads -> SUBSET Nodes] : Shape(P, T)
    BY DEF ShapeInv
  <1>2. List(next, first[t], T[t], Null) /\ node[t] \notin T[t] /\ last[t] \in T[t]
    BY <1>1 DEF Shape, Local
  <1>3. first[t] \in T[t]
    BY <1>2, ListHead
  <1>. QED
    BY <1>2, <1>3

\* The invariant.
PlaceInv == TypeInv /\ Pointers /\ CountInv /\ ShapeInv

LEMMA PlaceInvariant == Spec => []PlaceInv
  <1>1. Init => PlaceInv
    BY TypeInit, CountInit, ShapeInit DEF PlaceInv
  <1>2. PlaceInv /\ [Next]_vars => PlaceInv'
    BY TypeStep, CountStep, ShapeStep, ShapeFirst DEF PlaceInv
  <1>. QED
    BY <1>1, <1>2, PTL DEF Spec

-----------------------------------------------------------------------------
(* No node is used after it has been deleted.                              *)

LEMMA SafeNodes == PlaceInv => NoUseAfterFree
  <1> SUFFICES ASSUME PlaceInv, NEW t \in Threads
      PROVE  /\ pc[t] \in {"pushCas", "readNext", "popCas", "count", "delete"} =>
                    node[t] \in allocated
             /\ pc[t] = "deleteNodes" => first[t] \in allocated \cup {Null}
             /\ pc[t] \in {"findLast", "chainLoad", "chainCas"} =>
                    last[t] \in allocated
    BY DEF NoUseAfterFree
  <1>1. PICK P \in SUBSET Nodes, T \in [Threads -> SUBSET Nodes] : Shape(P, T)
    BY DEF PlaceInv, ShapeInv
  <1>2. \A n \in Held(t, T[t]) : n \in allocated
    BY <1>1 DEF Shape, Apart, Held
  <1>3. HasNode(t) => node[t] \in allocated
    BY <1>2 DEF PlaceInv, Pointers, Held, HasNode
  <1>4. \A n \in T[t] : n \in allocated
    BY <1>2 DEF Held
  <1>5. pc[t] \in {"readNext", "popCas"} => node[t] \in allocated
    BY <1>1 DEF Shape, Reading
  <1>6. pc[t] = "deleteNodes" => first[t] \in T[t] \cup {Null}
    <2>1. pc[t] = "deleteNodes" => List(next, first[t], T[t], Null)
      BY <1>1 DEF Shape, Local
    <2>. QED
      BY <2>1, ListHead
  <1>7. pc[t] \in {"findLast", "chainLoad", "chainCas"} => last[t] \in T[t]
    BY <1>1 DEF Shape, Local
  <1>. QED
    BY <1>3, <1>4, <1>5, <1>6, <1>7 DEF HasNode

\* A node that a thread of Push, of TryPop or of TryDelete is about to read, to
\* write or to delete has not been deleted; nor has the one that the exchange of
\* TryPop compares _head with, so that it cannot be a new node at its address.
THEOREM NodesSafe == Spec => []NoUseAfterFree
  BY PlaceInvariant, SafeNodes, PTL

-----------------------------------------------------------------------------
(* Every node is accounted for.                                            *)

LEMMA Smallest ==
    ASSUME NEW S \in SUBSET Nat, S # {}
    PROVE  \E m \in S : \A k \in S : m <= k
  <1> DEFINE R == OpToRel(<, Nat)
  <1>1. IsWellFoundedOn(R, Nat)
    BY NatLessThanWellFounded, Zenon
  <1>2. \A k, m \in Nat : <<k, m>> \in R <=> k < m
    BY DEF OpToRel
  <1> HIDE DEF R
  <1>3. PICK m \in S : \A k \in S : ~(<<k, m>> \in R)
    BY <1>1, WFMin
  <1>4. \A k \in S : ~(k < m) /\ k \in Nat /\ m \in Nat
    BY <1>2, <1>3
  <1>. QED
    BY <1>4

\* The closure NodesFrom takes is the set of the nodes of the list.
LEMMA NodesFromList ==
    ASSUME NEW S, NEW h, NEW e, NEW end, List(next, h, S, e),
           (end = Null /\ e = Null) \/ (end \in S /\ next[end] = e /\ e \notin S)
    PROVE  NodesFrom(h, end) = S
  <1>1. PICK s \in Seq(Nodes) : Seg(s, next, h, e) /\ Elements(s) = S
    BY DEF List
  <1>2. PICK n \in Nat : n = Len(s)
    BY LenProperties
  <1>3. /\ \A i \in 1..n : s[i] \in S /\ s[i] \in Nodes
        /\ \A i \in 1..(n - 1) : i \in 1..n /\ i + 1 \in 1..n /\ i # n /\ n \in 1..n
        /\ \A x \in S : \E i \in 1..n : s[i] = x
    BY <1>1, <1>2, ElementOfSeq DEF Elements
  <1>4. /\ \A i, k \in 1..n : s[i] = s[k] => i = k
        /\ \A i \in 1..(n - 1) : next[s[i]] = s[i + 1]
        /\ S # {} => h = s[1] /\ 1 \in 1..n
        /\ S = {} => h = e
    <2>1. S # {} => s # <<>> /\ 1 \in 1..n
      BY <1>2, <1>3
    <2>2. S = {} => s = <<>>
      <3>1. s # <<>> => n # 0
        BY <1>2, EmptySeq
      <3>. QED
        BY <1>2, <1>3, <3>1
    <2>. QED
      BY <1>1, <1>2, <2>1, <2>2 DEF Seg
  <1>5. \A i \in 1..(n - 1) : s[i] # end
    <2>1. CASE end = Null
      BY <1>3, <2>1, StackAssumption
    <2>2. CASE end \in S /\ next[end] = e /\ e \notin S
      <3>1. PICK k \in 1..n : s[k] = end
        BY <1>3, <2>2
      <3>2. k = n
        BY <1>1, <1>2, <2>2, <3>1, SegNext
      <3>. QED
        BY <1>3, <1>4, <3>1, <3>2
    <2>. QED
      BY <2>1, <2>2
  <1>6. \A x \in S \ {end} : next[x] \in S \cup {Null}
    <2>1. CASE end = Null /\ e = Null
      BY <2>1, ListNext
    <2>2. CASE end \in S /\ next[end] = e /\ e \notin S
      <3> SUFFICES ASSUME NEW x \in S \ {end} PROVE next[x] \in S
        OBVIOUS
      <3>1. PICK i \in 1..n, k \in 1..n : s[i] = x /\ s[k] = end
        BY <1>3, <2>2
      <3>2. k = n
        BY <1>1, <1>2, <2>2, <3>1, SegNext
      <3>3. i # n
        BY <3>1, <3>2
      <3>4. i \in 1..(n - 1)
        BY <3>3
      <3>. QED
        BY <1>3, <1>4, <3>1, <3>4
    <2>. QED
      BY <2>1, <2>2
  <1>7. h \in S \cup {Null}
    BY <1>3, <1>4
  <1>8. S \in SUBSET Nodes
    BY <1>3
  <1>9. \A x \in NodesFrom(h, end) : x \in S
    BY <1>6, <1>7, <1>8 DEF NodesFrom
  <1>10. ASSUME NEW C \in SUBSET Nodes, h \in C \cup {Null},
                \A x \in C \ {end} : next[x] \in C \cup {Null}
         PROVE  \A i \in 1..n : s[i] \in C
    <2> DEFINE B == {i \in 1..n : s[i] \notin C}
    <2> SUFFICES ASSUME B # {} PROVE FALSE
      OBVIOUS
    <2>1. B \in SUBSET Nat
      OBVIOUS
    <2>2. PICK i \in B : \A k \in B : i <= k
      BY <2>1, Smallest
    <2>3. i \in 1..n /\ s[i] \notin C /\ s[i] \in Nodes
      BY <1>3, <2>2
    <2>4. CASE i = 1
      BY <1>3, <1>4, <1>10, <2>3, <2>4, StackAssumption
    <2>5. CASE i # 1
      <3>1. PICK k \in 1..(n - 1) : i = k + 1
        <4>1. i - 1 \in 1..(n - 1) /\ i = (i - 1) + 1
          BY <2>3, <2>5
        <4>. QED
          BY <4>1
      <3>2. k \notin B
        BY <2>2, <3>1
      <3>3. s[k] \in C \ {end}
        BY <1>3, <1>5, <3>1, <3>2
      <3>4. next[s[k]] = s[i]
        BY <1>4, <3>1
      <3>5. s[i] \in C \cup {Null}
        BY <1>10, <3>3, <3>4
      <3>. QED
        BY <2>3, <3>5, StackAssumption
    <2>. QED
      BY <2>4, <2>5
  <1>11. \A x \in S : x \in NodesFrom(h, end)
    BY <1>3, <1>10 DEF NodesFrom
  <1>. QED
    BY <1>9, <1>11

LEMMA Accounted == PlaceInv => NodesAccounted
  <1> SUFFICES ASSUME PlaceInv PROVE NodesAccounted
    OBVIOUS
  <1>1. PICK P \in SUBSET Nodes, T \in [Threads -> SUBSET Nodes] : Shape(P, T)
    BY DEF PlaceInv, ShapeInv
  <1>2. chain \in Seq(Nodes) /\ Linked \subseteq Nodes
    BY <1>1, ElementOfSeq DEF Shape, Seg, Linked, Elements
  <1>3. NodesFrom(head, Null) = Linked
    <2>1. List(next, head, Linked, Null)
      BY <1>1, <1>2 DEF Shape, List, Linked
    <2>. QED
      BY <2>1, NodesFromList
  <1>4. NodesFrom(pendingList, Null) = P
    BY <1>1, NodesFromList DEF Shape
  <1>5. ASSUME NEW t \in Threads PROVE Owned(t) = Held(t, T[t])
    <2>1. Local(t, T[t]) /\ T[t] \in SUBSET Nodes
      BY <1>1 DEF Shape
    <2>2. pc[t] \in Labels /\ (HasNode(t) => node[t] \in Nodes)
      BY DEF PlaceInv, TypeInv, Pointers, HasNode
    <2>3. CASE pc[t] \in {"pushCas", "count", "exchange", "delete"}
      <3>1. Owned(t) = {node[t]} /\ T[t] = {}
        BY <2>1, <2>3 DEF Owned, Local, HasList
      <3>. QED
        BY <2>2, <2>3, <3>1 DEF Held, HasNode
    <2>4. CASE pc[t] \in {"decrement", "deleteNodes", "findLast"}
      <3>1. NodesFrom(first[t], Null) = T[t]
        BY <2>1, <2>4, NodesFromList DEF Local
      <3>2. Owned(t) = {node[t]} \cup T[t]
        BY <2>4, <3>1 DEF Owned
      <3>. QED
        BY <2>1, <2>2, <2>4, <3>2 DEF Held, HasNode
    <2>5. CASE pc[t] \in {"chainLoad", "chainCas"}
      <3>1. NodesFrom(first[t], last[t]) = T[t]
        BY <2>1, <2>5, NodesFromList DEF Local
      <3>2. Owned(t) = {node[t]} \cup T[t]
        BY <2>5, <3>1 DEF Owned
      <3>. QED
        BY <2>1, <2>2, <2>5, <3>2 DEF Held, HasNode
    <2>6. CASE pc[t] \in {"idle", "loadHead", "readNext", "popCas", "leaveEmpty", "leave"}
      <3>1. Owned(t) = {}
        BY <2>6 DEF Owned
      <3>2. Held(t, T[t]) = {}
        BY <2>1, <2>6, HasNothing DEF HasNode
      <3>. QED
        BY <3>1, <3>2
    <2>. QED
      BY <2>2, <2>3, <2>4, <2>5, <2>6 DEF Labels
  <1>6. \A t \in Threads : \A n \in Held(t, T[t]) : n \notin Linked \cup P
    BY <1>1 DEF Shape, Apart
  <1>7. \A t, u \in Threads : t # u => Held(t, T[t]) \cap Held(u, T[u]) = {}
    BY <1>1 DEF Shape, Apart
  <1>8. allocated = Linked \cup P \cup UNION {Owned(t) : t \in Threads}
    <2>1. \A n \in Nodes :
              n \in allocated <=>
                  n \in Linked \/ n \in P \/ \E t \in Threads : n \in Owned(t)
      BY <1>1, <1>5 DEF Shape, Apart
    <2>2. allocated \subseteq Nodes /\ P \subseteq Nodes
          /\ \A t \in Threads : Owned(t) \subseteq Nodes
      BY <1>5 DEF PlaceInv, TypeInv, Held
    <2>. QED
      BY <1>2, <2>1, <2>2
  <1>9. Linked \cap P = {}
    BY <1>1 DEF Shape, Apart
  <1>. QED
    BY <1>3, <1>4, <1>5, <1>6, <1>7, <1>8, <1>9 DEF NodesAccounted

\* Every node the heap has handed out is in the stack, in _pendingList or with
\* one thread, and in one of these places only: whatever the threads of Push,
\* TryPop and TryDelete do, none is lost and none is deleted twice.
THEOREM NodesKept == Spec => []NodesAccounted
  BY PlaceInvariant, Accounted, PTL

-----------------------------------------------------------------------------
(* Blocks.                                                                 *)

\* t has a node whose block is neither in use nor in the stack: it has made the
\* node and not linked it, or taken it and not read it.
Carries(t) == pc[t] \in {"pushCas", "count"}

\* The nodes whose block is free.
Full ==
    {n \in Nodes : n \in Linked \/ \E t \in Threads : Carries(t) /\ n = node[t]}

\* A block is in use, or in one of these nodes, or malloc still has it.
DataInv ==
    /\ inUse \in SUBSET Blocks /\ inUse \cap unused = {}
    /\ \A n \in Full : data[n] \in Blocks /\ data[n] \notin inUse /\ data[n] \notin unused
    /\ \A n, m \in Full : data[n] = data[m] => n = m

LEMMA FullPlaces ==
    ASSUME PlaceInv
    PROVE  /\ chain \in Seq(Nodes)
           /\ \A n \in Linked : n \in Nodes /\ n \in allocated
           /\ \A n \in Full : n \in allocated
           /\ \A t \in Threads : Carries(t) =>
                  /\ node[t] \in Nodes /\ node[t] \notin Linked
                  /\ \A u \in Threads \ {t} : Carries(u) => node[u] # node[t]
  <1>1. PICK P \in SUBSET Nodes, T \in [Threads -> SUBSET Nodes] : Shape(P, T)
    BY DEF PlaceInv, ShapeInv
  <1>2. chain \in Seq(Nodes) /\ \A n \in Linked : n \in Nodes
    BY <1>1, ElementOfSeq DEF Shape, Seg, Linked, Elements
  <1>3. \A t \in Threads : Carries(t) => node[t] \in Nodes /\ node[t] \in Held(t, T[t])
    BY DEF PlaceInv, Pointers, Carries, Held, HasNode
  <1>4. /\ \A n \in Linked : n \in allocated
        /\ \A t \in Threads : \A n \in Held(t, T[t]) : n \in allocated /\ n \notin Linked
        /\ \A t, u \in Threads : t # u => \A n \in Held(t, T[t]) : n \notin Held(u, T[u])
    BY <1>1, <1>2 DEF Shape, Apart, Held
  <1>5. \A n \in Full : n \in allocated
    BY <1>3, <1>4 DEF Full
  <1>6. \A t \in Threads : Carries(t) =>
            /\ node[t] \in Nodes /\ node[t] \notin Linked
            /\ \A u \in Threads \ {t} : Carries(u) => node[u] # node[t]
    BY <1>3, <1>4
  <1>. QED
    BY <1>2, <1>4, <1>5, <1>6

LEMMA DataInit == Init => DataInv
  <1> SUFFICES ASSUME Init PROVE DataInv
    OBVIOUS
  <1>1. chain = <<>> /\ Len(<<>>) = 0 /\ \A t \in Threads : pc[t] = "idle"
    BY EmptySeq DEF Init
  <1>2. Linked = {}
    BY <1>1 DEF Linked, Elements
  <1>3. Full = {}
    BY <1>1, <1>2 DEF Full, Carries
  <1>. QED
    BY <1>3 DEF Init, DataInv

\* No free node more, and the block of each is the same.
LEMMA DataFrame ==
    ASSUME DataInv, Full' \subseteq Full, data' = data,
           inUse' = inUse, unused' = unused
    PROVE  DataInv'
  BY DEF DataInv

\* The free nodes after a step of t.
LEMMA FullStep ==
    ASSUME NEW t \in Threads, Kept(t)
    PROVE  Full' = {n \in Nodes :
                       \/ n \in Linked'
                       \/ \E u \in Threads \ {t} : Carries(u) /\ n = node[u]
                       \/ Carries(t)' /\ n = node'[t]}
  <1>1. \A u \in Threads \ {t} : Carries(u)' = Carries(u) /\ node'[u] = node[u]
    BY DEF Kept, Carries
  <1>2. \A n \in Nodes :
            n \in Full' <=> \/ n \in Linked'
                            \/ \E u \in Threads : Carries(u)' /\ n = node'[u]
    BY DEF Full
  <1>3. Full' \subseteq Nodes
    BY DEF Full
  <1>. QED
    BY <1>1, <1>2, <1>3

LEMMA DataStep == PlaceInv /\ DataInv /\ [Next]_vars => DataInv'
  <1> SUFFICES ASSUME PlaceInv, DataInv, [Next]_vars PROVE DataInv'
    OBVIOUS
  <1>0. TypeInv /\ Pointers
    BY DEF PlaceInv
  <1>p. PICK P \in SUBSET Nodes, T \in [Threads -> SUBSET Nodes] : Shape(P, T)
    BY DEF PlaceInv, ShapeInv
  <1>1. CASE UNCHANGED vars
    <2>1. Full' = Full
      BY <1>1 DEF vars, locals, Full, Linked, Carries
    <2>. QED
      BY <1>1, <2>1, DataFrame DEF vars, blockVars
  <1>2. ASSUME NEW t \in Threads, NEW b \in Blocks, Push(t, b) PROVE DataInv'
    <2>1. PICK n \in Nodes \ allocated :
              node' = [node EXCEPT ![t] = n] /\ data' = [data EXCEPT ![n] = b]
      BY <1>2 DEF Push
    <2>2. /\ b \in inUse /\ inUse' = inUse \ {b} /\ unused' = unused /\ Linked' = Linked
          /\ pc[t] = "idle"
      BY <1>2 DEF Push, Goto, Linked
    <2>3. Kept(t)
      BY <1>0, <1>2, <2>1 DEF Push, Goto, TypeInv, Kept
    <2>4. \A m \in Full' : m \in Full \/ m = n
      <3>1. ~Carries(t) /\ node'[t] = n
        BY <1>0, <2>1, <2>2 DEF Carries, TypeInv
      <3>. QED
        BY <2>2, <2>3, <3>1, FullStep DEF Full
    <2>5. \A m \in Full : m \in Nodes /\ m # n /\ data'[m] = data[m]
      BY <1>0, <2>1, FullPlaces DEF TypeInv, Full
    <2>6. data'[n] = b
      BY <1>0, <2>1 DEF TypeInv
    <2>7. \A m \in Full : data[m] # b
      BY <2>2 DEF DataInv
    <2>. QED
      BY <2>2, <2>4, <2>5, <2>6, <2>7 DEF DataInv
  <1>3. ASSUME NEW t \in Threads, PushCas(t) PROVE DataInv'
    <2>1. /\ chain' = <<node[t]>> \o chain /\ data' = data /\ pc[t] = "pushCas"
          /\ pc'[t] = "idle" /\ inUse' = inUse /\ unused' = unused
      BY <1>0, <1>3 DEF PushCas, Return, Goto, blockVars, TypeInv
    <2>2. node[t] \in Nodes /\ chain \in Seq(Nodes)
      BY <1>0, <2>1, FullPlaces DEF Pointers
    <2>3. Linked' = {node[t]} \cup Linked
      <3>0. <<node[t]>> \in Seq(Nodes)
        BY <2>2
      <3>1. PICK n \in Nodes, one \in Seq(Nodes) : n = node[t] /\ one = <<n>>
        BY <2>2, <3>0
      <3>2. Len(one) = 1 /\ one[1] = n
        BY <3>1
      <3>3. Elements(one) = {n}
        BY <3>2 DEF Elements
      <3>4. Elements(one \o chain) = Elements(one) \cup Elements(chain)
        BY <2>2, ElementsConcat
      <3>. QED
        BY <2>1, <3>1, <3>3, <3>4 DEF Linked
    <2>4. Kept(t)
      BY <1>0, <1>3 DEF PushCas, Return, Goto, TypeInv, Kept
    <2>5. Full' \subseteq Full
      BY <2>1, <2>3, <2>4, FullStep DEF Full, Carries
    <2>. QED
      BY <2>1, <2>5, DataFrame
  <1>4. ASSUME NEW t \in Threads, PopCas(t) PROVE DataInv'
    <2>1. /\ data' = data /\ pc'[t] = "count" /\ node'[t] = node[t]
          /\ inUse' = inUse /\ unused' = unused
      BY <1>0, <1>4 DEF PopCas, Goto, blockVars, locals, TypeInv
    <2>2. Linked' = Linked \ {node[t]} /\ node[t] \in Linked
      BY <1>0, <1>p, <1>4, PopTop DEF Linked
    <2>3. Kept(t)
      BY <1>0, <1>4 DEF PopCas, Goto, TypeInv, locals, Kept
    <2>4. Full' \subseteq Full
      BY <2>1, <2>2, <2>3, FullStep DEF Full
    <2>. QED
      BY <2>1, <2>4, DataFrame
  <1>5. ASSUME NEW t \in Threads, LeaveEmpty(t) PROVE DataInv'
    <2>1. data' = data /\ Linked' = Linked /\ Malloc /\ pc'[t] = "idle"
      BY <1>0, <1>5 DEF LeaveEmpty, Return, Goto, Linked, TypeInv
    <2>2. Kept(t)
      BY <1>0, <1>5 DEF LeaveEmpty, Return, Goto, TypeInv, Kept
    <2>3. Full' \subseteq Full
      BY <2>1, <2>2, FullStep DEF Full, Carries
    <2>4. CASE UNCHANGED blockVars
      BY <2>1, <2>3, <2>4, DataFrame DEF blockVars
    <2>5. ASSUME NEW b \in unused, unused' = unused \ {b}, inUse' = inUse \cup {b}
          PROVE  DataInv'
      BY <1>0, <2>1, <2>3, <2>5 DEF DataInv, TypeInv
    <2>. QED
      BY <2>1, <2>4, <2>5 DEF Malloc
  <1>6. ASSUME NEW t \in Threads, TryDelete(t) PROVE DataInv'
    <2>1. /\ data' = data /\ Linked' = Linked /\ unused' = unused
          /\ inUse' = inUse \cup {data[node[t]]}
          /\ pc[t] = "count" /\ pc'[t] \notin {"pushCas", "count"}
      BY <1>0, <1>6 DEF TryDelete, Goto, Linked, TypeInv
    <2>2. Kept(t)
      BY <1>0, <1>6 DEF TryDelete, Goto, TypeInv, Kept
    <2>3. /\ Carries(t) /\ node[t] \in Nodes /\ node[t] \in Full
          /\ node[t] \notin Linked
          /\ \A u \in Threads \ {t} : Carries(u) => node[u] # node[t]
      BY <1>0, <2>1, FullPlaces DEF Carries, Full
    <2>4. Full' \subseteq Full \ {node[t]}
      BY <2>1, <2>2, <2>3, FullStep DEF Full, Carries
    <2>. QED
      BY <2>1, <2>3, <2>4 DEF DataInv
  <1>7. ASSUME NEW t \in Threads, Kept(t), Linked' = Linked, data' = data,
               inUse' = inUse, unused' = unused, Carries(t)' = Carries(t),
               Carries(t) => node'[t] = node[t]
        PROVE  DataInv'
    <2>1. Full' \subseteq Full
      BY <1>7, FullStep DEF Full
    <2>. QED
      BY <1>7, <2>1, DataFrame
  <1>8. ASSUME NEW t \in Threads,
               \/ TryPop(t) \/ PushCasFails(t) \/ LoadHead(t) \/ ReadNext(t)
               \/ PopCasFails(t) \/ Leave(t) \/ Delete(t)
        PROVE  DataInv'
    <2>1. /\ Kept(t) /\ Linked' = Linked /\ data' = data
          /\ inUse' = inUse /\ unused' = unused /\ Carries(t)' = Carries(t)
          /\ Carries(t) => node'[t] = node[t]
      BY <1>0, <1>8
      DEF TryPop, PushCasFails, LoadHead, ReadNext, PopCasFails, SeeHead, Leave, Delete,
          Return, Goto, TypeInv, Linked, Carries, Kept, blockVars, locals
    <2>. QED
      BY <1>7, <2>1
  <1>9. ASSUME NEW t \in Threads,
               \/ Exchange(t) \/ Decrement(t) \/ DeleteNodes(t) \/ FindLast(t)
               \/ ChainLoad(t) \/ ChainCas(t) \/ ChainCasFails(t)
        PROVE  DataInv'
    <2>1. /\ Kept(t) /\ Linked' = Linked /\ data' = data
          /\ inUse' = inUse /\ unused' = unused /\ Carries(t)' = Carries(t)
          /\ Carries(t) => node'[t] = node[t]
      BY <1>0, <1>9
      DEF Exchange, Decrement, DeleteNodes, FindLast, ChainLoad, ChainCas, ChainCasFails,
          Goto, TypeInv, Linked, Carries, Kept, blockVars, locals
    <2>. QED
      BY <1>7, <2>1
  <1>. QED
    BY <1>1, <1>2, <1>3, <1>4, <1>5, <1>6, <1>8, <1>9 DEF Next, Step

LEMMA DataInvariant == Spec => [](PlaceInv /\ DataInv)
  <1>1. Init => DataInv
    BY DataInit
  <1>2. PlaceInv /\ DataInv /\ [Next]_vars => DataInv'
    BY DataStep
  <1>. QED
    BY <1>1, <1>2, PlaceInvariant, PTL DEF Spec

\* The type invariant: _popCount is a number of threads, and what TryPop reads
\* from the node it has taken is a block.
THEOREM TypeCorrect == Spec => []TypeOK
  <1>1. PlaceInv /\ DataInv => TypeOK
    <2> SUFFICES ASSUME PlaceInv, DataInv PROVE TypeOK
      OBVIOUS
    <2>1. popCount \in 0..Cardinality(Threads)
      BY CountedFinite DEF PlaceInv, CountInv
    <2>2. chain \in Seq(Nodes)
      BY FullPlaces
    <2>. QED
      BY <2>1, <2>2 DEF PlaceInv, TypeInv, DataInv, TypeOK
  <1>. QED
    BY <1>1, DataInvariant, PTL

-----------------------------------------------------------------------------
(* The abstract pool.                                                      *)

\* The blocks of the stack, from the top.
LEMMA PooledSeq ==
    ASSUME PlaceInv, DataInv
    PROVE  /\ Pooled \in Seq(Blocks) /\ Len(Pooled) = Len(chain)
           /\ \A i \in 1..Len(chain) : Pooled[i] = data[chain[i]]
           /\ \A i \in 1..Len(chain) : chain[i] \in Full
  <1>1. chain \in Seq(Nodes)
    BY FullPlaces
  <1>2. PICK n \in Nat : n = Len(chain) /\ DOMAIN chain = 1..n
    BY <1>1, LenProperties
  <1>3. \A i \in 1..n : chain[i] \in Full
    BY <1>1, <1>2, ElementOfSeq DEF Full, Linked, Elements
  <1>4. Pooled = [i \in 1..n |-> data[chain[i]]]
    BY <1>2 DEF Pooled
  <1>5. \A i \in 1..n : data[chain[i]] \in Blocks
    BY <1>3 DEF DataInv
  <1>6. Pooled \in [1..n -> Blocks]
    BY <1>4, <1>5
  <1>7. Pooled \in Seq(Blocks) /\ Len(Pooled) = n
    BY <1>6, SeqDef, LenProperties
  <1>. QED
    BY <1>2, <1>3, <1>4, <1>7

LEMMA TakenOutIs ==
    \A b : b \in TakenOut <=> b \in inUse \/ \E t \in Threads : Carries(t) /\ b = data[node[t]]
  <1>1. \A t \in Threads : \A b : b \in Carried(t) <=> Carries(t) /\ b = data[node[t]]
    BY DEF Carried, Carries
  <1>. QED
    BY <1>1 DEF TakenOut

LEMMA TakenOutStep ==
    ASSUME NEW t \in Threads, Kept(t)
    PROVE  \A b : b \in TakenOut' <=>
               \/ b \in inUse'
               \/ \E u \in Threads \ {t} : Carries(u) /\ b = data'[node[u]]
               \/ Carries(t)' /\ b = data'[node'[t]]
  <1>1. \A u \in Threads \ {t} : Carries(u)' = Carries(u) /\ node'[u] = node[u]
    BY DEF Kept, Carries
  <1>2. \A b : b \in TakenOut' <=>
            b \in inUse' \/ \E u \in Threads : Carries(u)' /\ b = data'[node'[u]]
    <2>1. \A u \in Threads : \A b :
              b \in Carried(u)' <=> Carries(u)' /\ b = data'[node'[u]]
      BY DEF Carried, Carries
    <2>. QED
      BY <2>1 DEF TakenOut
  <1>. QED
    BY <1>1, <1>2

LEMMA AskingStep ==
    ASSUME NEW t \in Threads, Kept(t)
    PROVE  /\ Asking' = [Asking EXCEPT ![t] = Asking'[t]]
           /\ Asking[t] = CASE pc[t] \in {"loadHead", "readNext", "popCas"} -> "yes"
                            [] pc[t] = "leaveEmpty" -> "empty"
                            [] OTHER -> "no"
           /\ Asking'[t] = CASE pc'[t] \in {"loadHead", "readNext", "popCas"} -> "yes"
                             [] pc'[t] = "leaveEmpty" -> "empty"
                             [] OTHER -> "no"
  BY DEF Asking, Kept

\* A step that the users of the pool do not see.
LEMMA AskingSame ==
    ASSUME NEW t \in Threads, Kept(t), Asking'[t] = Asking[t]
    PROVE  Asking' = Asking
  BY DEF Asking, Kept

LEMMA PoolInit == Init => Pool!Init
  <1> SUFFICES ASSUME Init PROVE Pool!Init
    OBVIOUS
  <1>1. chain = <<>> /\ inUse = {} /\ \A t \in Threads : pc[t] = "idle"
    BY DEF Init
  <1>2. Pooled = <<>>
    BY <1>1 DEF Pooled
  <1>3. TakenOut = {}
    <2>1. \A b : b \notin TakenOut
      BY <1>1, TakenOutIs DEF Carries
    <2>. QED
      BY <2>1
  <1>4. Asking = [t \in Threads |-> "no"]
    BY <1>1 DEF Asking
  <1>. QED
    BY <1>2, <1>3, <1>4 DEF Pool!Init

\* A step that leaves the stack, the blocks and what t carries alone.
LEMMA PoolSame ==
    ASSUME NEW t \in Threads, Kept(t), chain' = chain, data' = data, inUse' = inUse,
           \/ Carries(t) /\ Carries(t)' /\ node'[t] = node[t]
           \/ ~Carries(t) /\ ~Carries(t)'
    PROVE  Pooled' = Pooled /\ TakenOut' = TakenOut
  <1>1. Pooled' = Pooled
    BY DEF Pooled
  <1>2. \A b : b \in TakenOut' <=> b \in TakenOut
    <2>1. \A b : b \in TakenOut' <=>
               \/ b \in inUse
               \/ \E u \in Threads \ {t} : Carries(u) /\ b = data[node[u]]
               \/ Carries(t) /\ b = data[node[t]]
      BY TakenOutStep
    <2>. QED
      BY <2>1, TakenOutIs
  <1>. QED
    BY <1>1, <1>2

LEMMA PoolPush ==
    ASSUME PlaceInv, DataInv, NEW t \in Threads, NEW b \in Blocks, Push(t, b)
    PROVE  Pooled' = Pooled /\ TakenOut' = TakenOut /\ Asking' = Asking
  <1>0. TypeInv
    BY DEF PlaceInv
  <1>1. PICK n \in Nodes \ allocated :
            node' = [node EXCEPT ![t] = n] /\ data' = [data EXCEPT ![n] = b]
    BY DEF Push
  <1>2. /\ b \in inUse /\ inUse' = inUse \ {b} /\ chain' = chain
        /\ pc[t] = "idle" /\ pc'[t] = "pushCas" /\ node'[t] = n /\ data'[n] = b
    BY <1>0, <1>1 DEF Push, Goto, TypeInv
  <1>3. Kept(t)
    BY <1>0, <1>1 DEF Push, Goto, TypeInv, Kept
  <1>4. \A m \in Full : m \in Nodes /\ m # n /\ data'[m] = data[m] /\ data[m] # b
    <2>1. \A m \in Full : m \in allocated /\ data[m] \notin inUse
      BY FullPlaces DEF DataInv
    <2>. QED
      BY <1>0, <1>1, <1>2, <2>1 DEF TypeInv, Full
  <1>5. Pooled' = Pooled
    <2>1. DOMAIN chain = 1..Len(chain)
      BY FullPlaces, LenProperties
    <2>2. \A i \in DOMAIN chain : data'[chain[i]] = data[chain[i]]
      BY <1>4, <2>1, PooledSeq
    <2>. QED
      BY <1>2, <2>2 DEF Pooled
  <1>6. \A u \in Threads : Carries(u) => node[u] \in Full
    BY FullPlaces DEF Full
  <1>7. \A x : x \in TakenOut' <=> x \in TakenOut
    <2>1. ~Carries(t) /\ Carries(t)'
      BY <1>2 DEF Carries
    <2>2. \A x : x \in TakenOut' <=>
               \/ x \in inUse \ {b}
               \/ \E u \in Threads \ {t} : Carries(u) /\ x = data[node[u]]
               \/ x = b
      BY <1>2, <1>3, <1>4, <1>6, <2>1, TakenOutStep
    <2>. QED
      BY <1>2, <2>1, <2>2, TakenOutIs
  <1>8. Asking' = Asking
    BY <1>2, <1>3, AskingStep, AskingSame
  <1>. QED
    BY <1>5, <1>7, <1>8

LEMMA PoolPushCas ==
    ASSUME PlaceInv, DataInv, NEW t \in Threads, PushCas(t)
    PROVE  \E b \in Blocks : Pool!Return(b)
  <1>0. TypeInv
    BY DEF PlaceInv
  <1>1. /\ chain' = <<node[t]>> \o chain /\ data' = data /\ inUse' = inUse
        /\ pc[t] = "pushCas" /\ pc'[t] = "idle"
    BY <1>0 DEF PushCas, Return, Goto, blockVars, TypeInv
  <1>2. Kept(t)
    BY <1>0 DEF PushCas, Return, Goto, TypeInv, Kept
  <1>3. PICK n \in Nodes : n = node[t]
    BY <1>1, FullPlaces DEF Carries
  <1>4. PICK b \in Blocks : b = data[n]
    BY <1>1, <1>3 DEF Full, Carries, DataInv
  <1>5. n \in Full /\ Carries(t) /\ ~Carries(t)'
    BY <1>1, <1>3 DEF Full, Carries
  <1>6. b \in TakenOut
    BY <1>3, <1>4, <1>5, TakenOutIs
  <1>7. TakenOut' = TakenOut \ {b}
    <2>1. \A u \in Threads \ {t} : Carries(u) => data[node[u]] # b
      BY <1>3, <1>4, <1>5, FullPlaces DEF Full, DataInv
    <2>2. b \notin inUse
      BY <1>4, <1>5 DEF DataInv
    <2>3. \A x : x \in TakenOut' <=>
               x \in inUse \/ \E u \in Threads \ {t} : Carries(u) /\ x = data[node[u]]
      BY <1>1, <1>2, <1>5, TakenOutStep
    <2>4. \A x : x \in TakenOut <=>
               \/ x \in inUse \/ x = b
               \/ \E u \in Threads \ {t} : Carries(u) /\ x = data[node[u]]
      BY <1>3, <1>4, <1>5, TakenOutIs
    <2>. QED
      BY <2>1, <2>2, <2>3, <2>4
  <1>8. Pooled' = <<b>> \o Pooled
    <2>1. PICK s \in Seq(Nodes), k \in Nat : s = chain /\ k = Len(s)
      <3>1. chain \in Seq(Nodes)
        BY FullPlaces
      <3>. QED
        BY <3>1, LenProperties
    <2>2. PICK s2 \in Seq(Nodes) : s2 = <<n>> \o s
      <3>1. <<n>> \in Seq(Nodes)
        OBVIOUS
      <3>. QED
        BY <3>1, ConcatProperties
    <2>3. PICK q \in Seq(Blocks) : q = Pooled
      BY PooledSeq
    <2>4. Len(q) = k /\ \A i \in 1..k : q[i] = data[s[i]]
      BY <2>1, <2>3, PooledSeq
    <2>5. PICK q2 \in Seq(Blocks) : q2 = <<b>> \o q
      <3>1. <<b>> \in Seq(Blocks)
        OBVIOUS
      <3>. QED
        BY <3>1, ConcatProperties
    <2>6. /\ Len(s2) = k + 1 /\ DOMAIN s2 = 1..(k + 1)
          /\ \A i \in 1..(k + 1) : s2[i] = IF i = 1 THEN n ELSE s[i - 1]
      BY <2>1, <2>2
    <2>7. /\ Len(q2) = k + 1 /\ DOMAIN q2 = 1..(k + 1)
          /\ \A i \in 1..(k + 1) : q2[i] = IF i = 1 THEN b ELSE q[i - 1]
      BY <2>4, <2>5
    <2>8. \A i \in 1..(k + 1) : i # 1 => i - 1 \in 1..k
      BY <2>1
    <2>9. ASSUME NEW i \in 1..(k + 1) PROVE q2[i] = data[s2[i]]
      <3>1. CASE i = 1
        BY <1>4, <2>6, <2>7, <3>1
      <3>2. CASE i # 1
        <4>1. PICK j \in 1..k : j = i - 1
          BY <2>8, <3>2
        <4>2. q2[i] = q[j] /\ s2[i] = s[j]
          BY <2>6, <2>7, <3>2, <4>1
        <4>. QED
          BY <2>4, <4>2
      <3>. QED
        BY <3>1, <3>2
    <2>10. q2 = [i \in 1..(k + 1) |-> q2[i]]
      BY <2>5, <2>7
    <2>11. Pooled' = [i \in 1..(k + 1) |-> data[s2[i]]]
      BY <1>1, <1>3, <2>1, <2>2, <2>6 DEF Pooled
    <2>. QED
      BY <2>3, <2>5, <2>9, <2>10, <2>11
  <1>9. Asking' = Asking
    BY <1>1, <1>2, AskingStep, AskingSame
  <1>. QED
    BY <1>6, <1>7, <1>8, <1>9 DEF Pool!Return

LEMMA PoolPopCas ==
    ASSUME PlaceInv, DataInv, NEW t \in Threads, PopCas(t)
    PROVE  Pool!Take(t)
  <1>0. TypeInv /\ Pointers
    BY DEF PlaceInv
  <1>1. PICK P \in SUBSET Nodes, T \in [Threads -> SUBSET Nodes] : Shape(P, T)
    BY DEF PlaceInv, ShapeInv
  <1>2. /\ pc[t] = "popCas" /\ pc'[t] = "count" /\ node' = node /\ data' = data
        /\ inUse' = inUse
    BY <1>0 DEF PopCas, Goto, TypeInv, locals, blockVars
  <1>3. Kept(t)
    BY <1>0 DEF PopCas, Goto, TypeInv, Kept, locals
  <1>4. chain # <<>> /\ chain[1] = node[t] /\ chain' = Tail(chain)
    BY <1>0, <1>1, PopTop
  <1>5. PICK s \in Seq(Nodes), k \in Nat : s = chain /\ k + 1 = Len(s)
    <2>1. chain \in Seq(Nodes) /\ Len(chain) \in Nat \ {0}
      BY <1>4, FullPlaces, EmptySeq
    <2>2. Len(chain) - 1 \in Nat /\ (Len(chain) - 1) + 1 = Len(chain)
      BY <2>1
    <2>. QED
      BY <2>1, <2>2
  <1>6. PICK q \in Seq(Blocks) : q = Pooled
    BY PooledSeq
  <1>7. Len(q) = k + 1 /\ \A i \in 1..(k + 1) : q[i] = data[s[i]] /\ s[i] \in Full
    BY <1>5, <1>6, PooledSeq
  <1>8. PICK b \in Blocks : b = q[1]
    BY <1>7, ElementOfSeq
  <1>9. Pooled # <<>> /\ Head(Pooled) = b /\ b = data[node[t]]
    BY <1>4, <1>5, <1>6, <1>7, <1>8
  <1>10. Pooled' = Tail(Pooled)
    <2>1. PICK s2 \in Seq(Nodes) : s2 = Tail(s)
      BY <1>4, <1>5, HeadTailProperties
    <2>2. Len(s2) = k /\ DOMAIN s2 = 1..k /\ \A i \in 1..k : s2[i] = s[i + 1]
      BY <1>5, <2>1
    <2>3. PICK q2 \in Seq(Blocks) : q2 = Tail(q)
      BY <1>6, <1>9, HeadTailProperties
    <2>4. Len(q2) = k /\ DOMAIN q2 = 1..k /\ \A i \in 1..k : q2[i] = q[i + 1]
      BY <1>7, <2>3
    <2>5. \A i \in 1..k : i + 1 \in 1..(k + 1)
      OBVIOUS
    <2>6. \A i \in 1..k : q2[i] = data[s2[i]]
      BY <1>7, <2>2, <2>4, <2>5
    <2>7. q2 = [i \in 1..k |-> q2[i]]
      <3>1. q2 \in [1..k -> Blocks]
        BY <2>4, LenProperties
      <3>. QED
        BY <3>1
    <2>8. Pooled' = [i \in 1..k |-> data[s2[i]]]
      BY <1>2, <1>4, <1>5, <2>1, <2>2 DEF Pooled
    <2>. QED
      BY <1>6, <2>3, <2>6, <2>7, <2>8
  <1>11. TakenOut' = TakenOut \cup {Head(Pooled)}
    <2>1. ~Carries(t) /\ Carries(t)'
      BY <1>2 DEF Carries
    <2>2. \A x : x \in TakenOut' <=>
               \/ x \in inUse \/ x = b
               \/ \E u \in Threads \ {t} : Carries(u) /\ x = data[node[u]]
      BY <1>2, <1>3, <1>9, <2>1, TakenOutStep
    <2>3. \A x : x \in TakenOut <=>
               x \in inUse \/ \E u \in Threads \ {t} : Carries(u) /\ x = data[node[u]]
      BY <2>1, TakenOutIs
    <2>. QED
      BY <1>9, <2>2, <2>3
  <1>12. Asking[t] = "yes" /\ Asking' = [Asking EXCEPT ![t] = "no"]
    BY <1>2, <1>3, AskingStep
  <1>. QED
    BY <1>9, <1>10, <1>11, <1>12 DEF Pool!Take

LEMMA PoolSeeHead ==
    ASSUME PlaceInv, NEW t \in Threads, SeeHead(t, "loadHead") \/ SeeHead(t, "popCas")
    PROVE  Pool!FindNone(t) \/ UNCHANGED <<Pooled, TakenOut, Asking>>
  <1>0. TypeInv
    BY DEF PlaceInv
  <1>1. /\ pc[t] \in {"loadHead", "popCas"}
        /\ pc'[t] = IF head = Null THEN "leaveEmpty" ELSE "readNext"
        /\ chain' = chain /\ data' = data /\ inUse' = inUse
    BY <1>0 DEF SeeHead, Goto, blockVars, TypeInv
  <1>2. Kept(t)
    BY <1>0 DEF SeeHead, Goto, TypeInv, Kept
  <1>3. Pooled' = Pooled /\ TakenOut' = TakenOut
    <2>1. ~Carries(t) /\ ~Carries(t)'
      BY <1>1 DEF Carries
    <2>. QED
      BY <1>1, <1>2, <2>1, PoolSame
  <1>4. CASE head = Null
    <2>1. Pooled = <<>>
      <3>1. PICK P \in SUBSET Nodes, T \in [Threads -> SUBSET Nodes] : Shape(P, T)
        BY DEF PlaceInv, ShapeInv
      <3>2. chain = <<>>
        <4> SUFFICES ASSUME chain # <<>> PROVE FALSE
          OBVIOUS
        <4>1. head = chain[1] /\ chain \in Seq(Nodes)
          BY <3>1 DEF Shape, Seg
        <4>2. 1 \in 1..Len(chain)
          BY <4>1, EmptySeq
        <4>3. chain[1] \in Nodes
          BY <4>1, <4>2, ElementOfSeq
        <4>. QED
          BY <1>4, <4>1, <4>3, StackAssumption
      <3>. QED
        BY <3>2 DEF Pooled
    <2>2. Asking[t] = "yes" /\ Asking' = [Asking EXCEPT ![t] = "empty"]
      BY <1>1, <1>2, <1>4, AskingStep
    <2>. QED
      BY <1>3, <2>1, <2>2 DEF Pool!FindNone
  <1>5. CASE head # Null
    <2>1. Asking' = Asking
      BY <1>1, <1>2, <1>5, AskingStep, AskingSame
    <2>. QED
      BY <1>3, <2>1
  <1>. QED
    BY <1>4, <1>5

LEMMA PoolLeaveEmpty ==
    ASSUME PlaceInv, DataInv, NEW t \in Threads, LeaveEmpty(t)
    PROVE  Pool!Malloc(t)
  <1>0. TypeInv
    BY DEF PlaceInv
  <1>1. /\ pc[t] = "leaveEmpty" /\ pc'[t] = "idle" /\ chain' = chain /\ data' = data
        /\ Malloc
    BY <1>0 DEF LeaveEmpty, Return, Goto, TypeInv
  <1>2. Kept(t)
    BY <1>0 DEF LeaveEmpty, Return, Goto, TypeInv, Kept
  <1>3. ~Carries(t) /\ ~Carries(t)'
    BY <1>1 DEF Carries
  <1>4. Pooled' = Pooled
    BY <1>1 DEF Pooled
  <1>5. Asking[t] = "empty" /\ Asking' = [Asking EXCEPT ![t] = "no"]
    BY <1>1, <1>2, AskingStep
  <1>6. CASE UNCHANGED blockVars
    <2>1. TakenOut' = TakenOut
      BY <1>1, <1>2, <1>3, <1>6, PoolSame DEF blockVars
    <2>. QED
      BY <1>4, <1>5, <2>1 DEF Pool!Malloc
  <1>7. ASSUME NEW b \in unused, inUse' = inUse \cup {b}
        PROVE  Pool!Malloc(t)
    <2>1. TakenOut' = TakenOut \cup {b}
      <3>1. \A x : x \in TakenOut' <=>
                 \/ x \in inUse \cup {b}
                 \/ \E u \in Threads \ {t} : Carries(u) /\ x = data[node[u]]
        BY <1>1, <1>2, <1>3, <1>7, TakenOutStep
      <3>2. \A x : x \in TakenOut <=>
                 x \in inUse \/ \E u \in Threads \ {t} : Carries(u) /\ x = data[node[u]]
        BY <1>3, TakenOutIs
      <3>. QED
        BY <3>1, <3>2
    <2>2. b \notin TakenOut
      <3>1. \A u \in Threads : Carries(u) => data[node[u]] # b
        BY <1>7, FullPlaces DEF Full, DataInv
      <3>. QED
        BY <1>7, <3>1, TakenOutIs DEF DataInv
    <2>3. b \notin Pool!Range(Pooled)
      <3>1. PICK q \in Seq(Blocks), k \in Nat : q = Pooled /\ k = Len(q)
        BY PooledSeq, LenProperties
      <3>2. DOMAIN q = 1..k /\ k = Len(chain)
        BY <3>1, PooledSeq, LenProperties
      <3>3. \A i \in 1..k : q[i] = data[chain[i]] /\ chain[i] \in Full
        BY <3>1, <3>2, PooledSeq
      <3>4. \A i \in 1..k : q[i] # b
        BY <1>7, <3>3 DEF DataInv
      <3>. QED
        BY <3>1, <3>2, <3>4 DEF Pool!Range
    <2>4. b \in Blocks
      BY <1>0, <1>7 DEF TypeInv
    <2>5. b \in Blocks \ (TakenOut \cup Pool!Range(Pooled))
      BY <2>2, <2>3, <2>4
    <2>. QED
      BY <1>4, <1>5, <2>1, <2>5 DEF Pool!Malloc
  <1>. QED
    BY <1>1, <1>6, <1>7 DEF Malloc

LEMMA PoolTryDelete ==
    ASSUME PlaceInv, NEW t \in Threads, TryDelete(t)
    PROVE  Pooled' = Pooled /\ TakenOut' = TakenOut /\ Asking' = Asking
  <1>0. TypeInv
    BY DEF PlaceInv
  <1>1. /\ pc[t] = "count" /\ pc'[t] \in {"exchange", "chainLoad"}
        /\ chain' = chain /\ data' = data /\ inUse' = inUse \cup {data[node[t]]}
    BY <1>0 DEF TryDelete, Goto, TypeInv
  <1>2. Kept(t)
    BY <1>0 DEF TryDelete, Goto, TypeInv, Kept
  <1>3. Carries(t) /\ ~Carries(t)'
    BY <1>1 DEF Carries
  <1>4. \A x : x \in TakenOut' <=> x \in TakenOut
    <2>1. \A x : x \in TakenOut' <=>
              \/ x \in inUse \/ x = data[node[t]]
              \/ \E u \in Threads \ {t} : Carries(u) /\ x = data[node[u]]
      BY <1>1, <1>2, <1>3, TakenOutStep
    <2>. QED
      BY <1>3, <2>1, TakenOutIs
  <1>5. Pooled' = Pooled
    BY <1>1 DEF Pooled
  <1>6. Asking' = Asking
    BY <1>1, <1>2, AskingStep, AskingSame
  <1>. QED
    BY <1>4, <1>5, <1>6

LEMMA PoolStep ==
    PlaceInv /\ DataInv /\ [Next]_vars => [Pool!Next]_<<Pooled, TakenOut, Asking>>
  <1> SUFFICES ASSUME PlaceInv, DataInv, [Next]_vars
               PROVE  Pool!Next \/ UNCHANGED <<Pooled, TakenOut, Asking>>
    OBVIOUS
  <1>0. TypeInv
    BY DEF PlaceInv
  <1>1. CASE UNCHANGED vars
    BY <1>1 DEF vars, locals, blockVars, Pooled, TakenOut, Asking, Carried
  <1>2. ASSUME NEW t \in Threads, NEW b \in Blocks, Push(t, b)
        PROVE  UNCHANGED <<Pooled, TakenOut, Asking>>
    BY <1>2, PoolPush
  <1>3. ASSUME NEW t \in Threads, TryPop(t) PROVE Pool!Ask(t)
    <2>1. Kept(t) /\ pc[t] = "idle" /\ pc'[t] = "loadHead"
      BY <1>0, <1>3 DEF TryPop, Goto, locals, Kept, TypeInv
    <2>2. Pooled' = Pooled /\ TakenOut' = TakenOut
      <3>1. ~Carries(t) /\ ~Carries(t)'
        BY <2>1 DEF Carries
      <3>. QED
        BY <1>3, <2>1, <3>1, PoolSame DEF TryPop, blockVars
    <2>3. Asking[t] = "no" /\ Asking' = [Asking EXCEPT ![t] = "yes"]
      BY <2>1, AskingStep
    <2>. QED
      BY <2>2, <2>3 DEF Pool!Ask
  <1>4. ASSUME NEW t \in Threads,
               PushCasFails(t) \/ ReadNext(t) \/ Leave(t) \/ Delete(t)
        PROVE  UNCHANGED <<Pooled, TakenOut, Asking>>
    <2>1. /\ Kept(t) /\ chain' = chain /\ data' = data /\ inUse' = inUse
          /\ \/ Carries(t) /\ Carries(t)' /\ node'[t] = node[t]
             \/ ~Carries(t) /\ ~Carries(t)'
      BY <1>0, <1>4
      DEF PushCasFails, ReadNext, Leave, Delete, Return, Goto, TypeInv, Carries, Kept,
          blockVars, locals
    <2>2. \/ pc[t] = "pushCas" /\ pc'[t] = "pushCas"
          \/ pc[t] = "readNext" /\ pc'[t] = "popCas"
          \/ pc[t] \in {"leave", "delete"} /\ pc'[t] = "idle"
      BY <1>0, <1>4 DEF PushCasFails, ReadNext, Leave, Delete, Return, Goto, TypeInv
    <2>3. Asking'[t] = Asking[t]
      BY <2>1, <2>2, AskingStep
    <2>4. Pooled' = Pooled /\ TakenOut' = TakenOut
      BY <2>1, PoolSame
    <2>5. Asking' = Asking
      BY <2>1, <2>3, AskingSame
    <2>. QED
      BY <2>4, <2>5
  <1>5. ASSUME NEW t \in Threads,
               \/ Exchange(t) \/ Decrement(t) \/ DeleteNodes(t) \/ FindLast(t)
               \/ ChainLoad(t) \/ ChainCas(t) \/ ChainCasFails(t)
        PROVE  UNCHANGED <<Pooled, TakenOut, Asking>>
    <2>1. /\ Kept(t) /\ chain' = chain /\ data' = data /\ inUse' = inUse
          /\ \/ Carries(t) /\ Carries(t)' /\ node'[t] = node[t]
             \/ ~Carries(t) /\ ~Carries(t)'
      BY <1>0, <1>5
      DEF Exchange, Decrement, DeleteNodes, FindLast, ChainLoad, ChainCas, ChainCasFails,
          Goto, TypeInv, Carries, Kept, blockVars, locals
    <2>2. /\ pc[t] \in {"exchange", "decrement", "deleteNodes", "findLast", "chainLoad",
                        "chainCas"}
          /\ pc'[t] \in {"decrement", "deleteNodes", "findLast", "chainLoad", "chainCas",
                         "leave", "delete"}
      BY <1>0, <1>5
      DEF Exchange, Decrement, DeleteNodes, FindLast, ChainLoad, ChainCas, ChainCasFails,
          Goto, TypeInv
    <2>3. Asking'[t] = Asking[t]
      BY <2>1, <2>2, AskingStep
    <2>4. Pooled' = Pooled /\ TakenOut' = TakenOut
      BY <2>1, PoolSame
    <2>5. Asking' = Asking
      BY <2>1, <2>3, AskingSame
    <2>. QED
      BY <2>4, <2>5
  <1>6. ASSUME NEW t \in Threads, Step(t)
        PROVE  Pool!Next \/ UNCHANGED <<Pooled, TakenOut, Asking>>
    <2>1. CASE PushCas(t)
      BY <2>1, PoolPushCas DEF Pool!Next
    <2>2. CASE PopCas(t)
      BY <2>2, PoolPopCas DEF Pool!Next
    <2>3. CASE LoadHead(t) \/ PopCasFails(t)
      BY <2>3, PoolSeeHead DEF LoadHead, PopCasFails, Pool!Next
    <2>4. CASE LeaveEmpty(t)
      BY <2>4, PoolLeaveEmpty DEF Pool!Next
    <2>5. CASE TryDelete(t)
      BY <2>5, PoolTryDelete
    <2>. QED
      BY <1>4, <1>5, <1>6, <2>1, <2>2, <2>3, <2>4, <2>5 DEF Step
  <1>. QED
    BY <1>1, <1>2, <1>3, <1>6 DEF Next, Pool!Next

\* MemoryPool with this stack is the abstract pool: no block has two users,
\* none of those that came back is lost, the last one that came back is handed
\* out first, and TryPop returns false only if the stack was empty.
THEOREM StackIsPool == Spec => ImplementsPool
  <1>1. Init => Pool!Init
    BY PoolInit
  <1>2. PlaceInv /\ DataInv /\ [Next]_vars => [Pool!Next]_<<Pooled, TakenOut, Asking>>
    BY PoolStep
  <1>. QED
    BY <1>1, <1>2, DataInvariant, PTL DEF Spec, ImplementsPool, Pool!Spec
=============================================================================
