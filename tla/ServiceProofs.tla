---------------------------- MODULE ServiceProofs ----------------------------
(***************************************************************************)
(* Theorems about Service, for any sets of workers, accept events and      *)
(* sessions.                                                               *)
(***************************************************************************)
EXTENDS Service, TLAPS, SequenceTheorems

Queued == kernel \cup Range(port) \cup Range(cq)

\* A request is with the kernel, in a queue, or in the batch of one worker.
OnePlace ==
    \A w \in Workers :
        /\ IsInjective(batch[w])
        /\ Range(batch[w]) \cap Queued = {}
        /\ \A v \in Workers \ {w} : Range(batch[w]) \cap Range(batch[v]) = {}

\* One worker at most was told of the RIO queue and has not come to it.
NotifyOnce ==
    /\ Notify \in Range(port) => useRIO
    /\ \A w \in Workers :
           pc[w] = "dequeue" =>
               /\ useRIO /\ ~armed /\ Notify \notin Range(port)
               /\ \A v \in Workers : pc[v] = "dequeue" => v = w

Accepting(w) == pc[w] \in {"registerRecv", "registerAccept"}

\* What the label of a worker says of its batch.
LocalInv ==
    \A w \in Workers :
        /\ pc[w] \in {"wait", "dequeue"} <=> batch[w] = <<>>
        /\ Accepting(w) => Head(batch[w])[1] = "accept"
        /\ pc[w] = "registerRecv" => "recv" \notin owner[accepted[Subject(w)]]

\* The session of an accept is nobody else's, and untouched until the accept
\* is processed.
AcceptInv ==
    /\ IsInjective(accepted)
    /\ \A e \in AcceptEvents :
           \/ \E w \in Workers : Accepting(w) /\ Subject(w) = e
           \/ /\ owner[accepted[e]] = {}
              /\ accepted[e] \notin sessions \cup managed

DisconnectInv == \A s \in connected : "disconnect" \notin owner[s]

IInv == /\ TypeOK
        /\ OnePlace
        /\ NotifyOnce
        /\ LocalInv
        /\ AcceptInv
        /\ DisconnectInv
        /\ CompletionsKeepSession

-----------------------------------------------------------------------------
(* Sequences *)

LEMMA RangeFacts ==
    ASSUME NEW S, NEW s \in Seq(S)
    PROVE  Range(s) \subseteq S
  BY DEF Range

LEMMA AppendFacts ==
    ASSUME NEW S, NEW s \in Seq(S), NEW x \in S
    PROVE  /\ Append(s, x) \in Seq(S)
           /\ Range(Append(s, x)) = Range(s) \cup {x}
           /\ IsInjective(s) /\ x \notin Range(s) => IsInjective(Append(s, x))
  <1>1. /\ Len(s) \in Nat
        /\ DOMAIN s = 1..Len(s)
        /\ Append(s, x) \in Seq(S)
        /\ DOMAIN Append(s, x) = 1..(Len(s) + 1)
        /\ \A i \in 1..Len(s) : Append(s, x)[i] = s[i]
        /\ Append(s, x)[Len(s) + 1] = x
    OBVIOUS
  <1>2. Range(Append(s, x)) = Range(s) \cup {x}
    <2>1. \A i \in 1..(Len(s) + 1) : i \in 1..Len(s) \/ i = Len(s) + 1
      BY <1>1
    <2>. QED
      BY <1>1, <2>1 DEF Range
  <1>3. IsInjective(s) /\ x \notin Range(s) => IsInjective(Append(s, x))
    BY <1>1 DEF Range, IsInjective
  <1>. QED
    BY <1>1, <1>2, <1>3

LEMMA TailFacts ==
    ASSUME NEW S, NEW s \in Seq(S), s # <<>>
    PROVE  /\ Head(s) \in S /\ Head(s) \in Range(s)
           /\ Tail(s) \in Seq(S)
           /\ Range(Tail(s)) \subseteq Range(s)
           /\ Range(s) = Range(Tail(s)) \cup {Head(s)}
           /\ Len(s) = 1 <=> Tail(s) = <<>>
           /\ IsInjective(s) => /\ IsInjective(Tail(s))
                                /\ Head(s) \notin Range(Tail(s))
  <1>1. /\ Len(s) \in Nat \ {0}
        /\ DOMAIN s = 1..Len(s)
        /\ Head(s) = s[1] /\ Head(s) \in S
        /\ Tail(s) \in Seq(S)
        /\ Len(Tail(s)) = Len(s) - 1
        /\ DOMAIN Tail(s) = 1..(Len(s) - 1)
        /\ \A i \in 1..(Len(s) - 1) : Tail(s)[i] = s[i + 1]
    BY HeadTailProperties, EmptySeq, LenProperties
  <1>2. Range(s) = Range(Tail(s)) \cup {Head(s)}
    <2>1. \A i \in 1..Len(s) : i = 1 \/ (i - 1 \in 1..(Len(s) - 1) /\ i = (i - 1) + 1)
      BY <1>1
    <2>2. \A i \in 1..(Len(s) - 1) : i + 1 \in 1..Len(s)
      BY <1>1
    <2>3. ASSUME NEW x \in Range(s), x # Head(s)
          PROVE  x \in Range(Tail(s))
      <3>1. PICK i \in 1..Len(s) : x = s[i]
        BY <1>1 DEF Range
      <3>2. i - 1 \in 1..(Len(s) - 1) /\ Tail(s)[i - 1] = s[i]
        BY <1>1, <2>1, <2>3, <3>1
      <3>. QED
        BY <1>1, <3>1, <3>2 DEF Range
    <2>4. Range(Tail(s)) \subseteq Range(s) /\ Head(s) \in Range(s)
      BY <1>1, <2>2 DEF Range
    <2>. QED
      BY <2>3, <2>4
  <1>3. IsInjective(s) => IsInjective(Tail(s)) /\ Head(s) \notin Range(Tail(s))
    BY <1>1 DEF Range, IsInjective
  <1>4. Len(s) = 1 <=> Tail(s) = <<>>
    <2>1. Tail(s) # <<>> => Len(Tail(s)) # 0
      BY <1>1, EmptySeq
    <2>2. Tail(s) = <<>> => Len(Tail(s)) = 0
      BY EmptySeq
    <2>. QED
      BY <1>1, <2>1, <2>2
  <1>. QED
    BY <1>1, <1>2, <1>3, <1>4

LEMMA SplitFacts ==
    ASSUME NEW S, NEW s \in Seq(S), NEW n \in 0..Len(s)
    PROVE  LET a == SubSeq(s, 1, n)
               b == SubSeq(s, n + 1, Len(s))
           IN /\ a \in Seq(S) /\ b \in Seq(S)
              /\ a = <<>> <=> n = 0
              /\ Range(a) \subseteq Range(s) /\ Range(b) \subseteq Range(s)
              /\ IsInjective(s) => /\ IsInjective(a) /\ IsInjective(b)
                                   /\ Range(a) \cap Range(b) = {}
  <1> DEFINE a == SubSeq(s, 1, n)
             b == SubSeq(s, n + 1, Len(s))
  <1>1. Len(s) \in Nat /\ DOMAIN s = 1..Len(s) /\ \A i \in 1..Len(s) : s[i] \in S
    BY LenProperties
  <1>2. /\ a \in Seq(S) /\ Len(a) = n
        /\ \A i \in 1..n : a[i] = s[i]
    <2>1. \A i \in 1..n : s[i] \in S
      BY <1>1
    <2>. QED
      BY <1>1, <2>1, SubSeqProperties
  <1>3. /\ b \in Seq(S) /\ Len(b) = Len(s) - n
        /\ \A i \in 1..(Len(s) - n) : b[i] = s[n + i]
    <2>1. n + 1 \in Int /\ \A i \in (n + 1)..Len(s) : s[i] \in S
      BY <1>1
    <2>2. /\ b \in Seq(S)
          /\ Len(b) = IF n + 1 <= Len(s) THEN Len(s) - (n + 1) + 1 ELSE 0
          /\ \A i \in 1..(Len(s) - (n + 1) + 1) : b[i] = s[(n + 1) + i - 1]
      BY <1>1, <2>1, SubSeqProperties
    <2> HIDE DEF b
    <2>3. Len(b) = Len(s) - n
      <3>1. n + 1 <= Len(s) \/ n = Len(s)
        <4>1. n \in Nat /\ Len(s) \in Nat /\ n <= Len(s)
          BY <1>1
        <4>. QED
          BY <4>1
      <3>2. CASE n + 1 <= Len(s)
        <4>1. Len(s) - (n + 1) + 1 = Len(s) - n
          BY <1>1
        <4>. QED
          BY <2>2, <3>2, <4>1
      <3>3. CASE n = Len(s)
        <4>1. ~(n + 1 <= Len(s)) /\ Len(s) - n = 0
          BY <1>1, <3>3
        <4>. QED
          BY <2>2, <4>1
      <3>. QED
        BY <3>1, <3>2, <3>3
    <2>4. ASSUME NEW i \in 1..(Len(s) - n)
          PROVE  b[i] = s[n + i]
      <3>1. i \in 1..(Len(s) - (n + 1) + 1) /\ (n + 1) + i - 1 = n + i
        BY <1>1
      <3>. QED
        BY <2>2, <3>1
    <2>. QED
      BY <2>2, <2>3, <2>4
  <1>4. DOMAIN a = 1..n /\ DOMAIN b = 1..(Len(s) - n)
    BY <1>2, <1>3, LenProperties
  <1>5. a = <<>> <=> n = 0
    BY <1>2, EmptySeq
  <1> HIDE DEF a, b
  <1>6. Range(a) \subseteq Range(s) /\ Range(b) \subseteq Range(s)
    <2>1. \A i \in 1..n : i \in 1..Len(s)
      BY <1>1
    <2>2. \A i \in 1..(Len(s) - n) : n + i \in 1..Len(s)
      BY <1>1
    <2>. QED
      BY <1>1, <1>2, <1>3, <1>4, <2>1, <2>2 DEF Range
  <1>7. IsInjective(s) => /\ IsInjective(a) /\ IsInjective(b)
                          /\ Range(a) \cap Range(b) = {}
    <2> SUFFICES ASSUME IsInjective(s)
                 PROVE  /\ IsInjective(a) /\ IsInjective(b)
                        /\ Range(a) \cap Range(b) = {}
      OBVIOUS
    <2>1. \A i, j \in 1..Len(s) : s[i] = s[j] => i = j
      BY <1>1 DEF IsInjective
    <2>2. IsInjective(a)
      BY <1>1, <1>2, <1>4, <2>1 DEF IsInjective
    <2>3. IsInjective(b)
      <3> SUFFICES ASSUME NEW i \in 1..(Len(s) - n), NEW j \in 1..(Len(s) - n),
                          b[i] = b[j]
                   PROVE  i = j
        BY <1>4 DEF IsInjective
      <3>1. s[n + i] = s[n + j] /\ n + i \in 1..Len(s) /\ n + j \in 1..Len(s)
        BY <1>1, <1>3
      <3>. QED
        BY <2>1, <3>1
    <2>4. ASSUME NEW i \in 1..n, NEW j \in 1..(Len(s) - n), a[i] = b[j]
          PROVE  FALSE
      <3>1. i \in 1..Len(s) /\ n + j \in 1..Len(s) /\ i # n + j
        BY <1>1
      <3>2. s[i] = s[n + j]
        BY <1>2, <1>3, <2>4
      <3>. QED
        BY <2>1, <3>1, <3>2
    <2>. QED
      BY <1>4, <2>2, <2>3, <2>4 DEF Range
  <1>. QED
    BY <1>2, <1>3, <1>5, <1>6, <1>7 DEF a, b

LEMMA SmallFacts ==
    ASSUME NEW S
    PROVE  /\ <<>> \in Seq(S) /\ Range(<<>>) = {} /\ IsInjective(<<>>)
           /\ \A x \in S : /\ <<x>> \in Seq(S) /\ <<x>> # <<>> /\ Head(<<x>>) = x
                           /\ Range(<<x>>) = {x} /\ IsInjective(<<x>>)
  BY DEF Range, IsInjective

\* A request is a pair; a notification is none.
LEMMA RequestFacts ==
    /\ Notify \notin Requests
    /\ \A r \in Requests :
           /\ r = <<r[1], r[2]>>
           /\ r[1] = "accept" => r[2] \in AcceptEvents
           /\ r[1] # "accept" => r[1] \in Kinds /\ r[2] \in Sessions
  BY DEF Requests, Notify, Kinds

-----------------------------------------------------------------------------
(* A request of a session, by a step that leaves its events the owners o *)

Effect(s, k, o) ==
    /\ connected' \in {connected, connected \ {s}}
    /\ \E K \in SUBSET {k, "disconnect"} :
           /\ kernel' = kernel \cup {<<j, s>> : j \in K}
           /\ "disconnect" \in K => s \in connected /\ s \notin connected'
           /\ \E L \in SUBSET {k, "disconnect"} :
                  /\ K \subseteq L
                  /\ "disconnect" \in L => "disconnect" \in K
                  /\ owner' = [owner EXCEPT ![s] = o \cup L]

LEMMA DisconnectEffect ==
    ASSUME NEW s \in Sessions, NEW k \in Kinds, NEW o \in SUBSET Kinds,
           Disconnect(s, o)
    PROVE  Effect(s, k, o)
  <1>1. CASE kernel' = kernel \cup {<<"disconnect", s>>}
    <2>1. CASE s \in connected /\ owner' = [owner EXCEPT ![s] = o \cup {"disconnect"}]
      <3>1. kernel' = kernel \cup {<<j, s>> : j \in {"disconnect"}}
        BY <1>1
      <3>2. connected' = connected \ {s}
        BY <2>1 DEF Disconnect
      <3>. QED
        BY <2>1, <3>1, <3>2 DEF Effect
    <2>2. CASE ~(s \in connected /\ owner' = [owner EXCEPT ![s] = o \cup {"disconnect"}])
      <3>1. kernel' = kernel /\ owner' = [owner EXCEPT ![s] = o \cup {}]
        BY <2>2 DEF Disconnect
      <3>2. kernel' = kernel \cup {<<j, s>> : j \in {}}
        BY <3>1
      <3>3. connected' \in {connected, connected \ {s}}
        BY DEF Disconnect
      <3>. QED
        BY <3>1, <3>2, <3>3 DEF Effect
    <2>. QED
      BY <2>1, <2>2
  <1>2. CASE kernel' # kernel \cup {<<"disconnect", s>>}
    <2>1. kernel' = kernel /\ owner' = [owner EXCEPT ![s] = o \cup {}]
      BY <1>2 DEF Disconnect
    <2>2. kernel' = kernel \cup {<<j, s>> : j \in {}}
      BY <2>1
    <2>3. connected' \in {connected, connected \ {s}}
      BY DEF Disconnect
    <2>. QED
      BY <2>1, <2>2, <2>3 DEF Effect
  <1>. QED
    BY <1>1, <1>2

LEMMA RegisterEffect ==
    ASSUME NEW s \in Sessions, NEW k \in Kinds, NEW o \in SUBSET Kinds,
           k # "disconnect", Register(s, k, o)
    PROVE  Effect(s, k, o)
  <1>1. CASE Disconnect(s, o)
    BY <1>1, DisconnectEffect
  <1>2. CASE /\ kernel' = kernel \cup {<<k, s>>}
             /\ owner' = [owner EXCEPT ![s] = o \cup {k}]
             /\ connected' = connected
    <2>1. kernel' = kernel \cup {<<j, s>> : j \in {k}}
      BY <1>2
    <2>. QED
      BY <1>2, <2>1 DEF Effect
  <1>3. CASE kernel' = kernel /\ owner' = [owner EXCEPT ![s] = o] /\ connected' = connected
    <2>1. kernel' = kernel \cup {<<j, s>> : j \in {}} /\ o \cup {} = o
      BY <1>3
    <2>. QED
      BY <1>3, <2>1 DEF Effect
  <1>. QED
    BY <1>1, <1>2, <1>3 DEF Register

LEMMA RegisterSendEffect ==
    ASSUME NEW s \in Sessions, NEW o \in SUBSET Kinds, RegisterSend(s, o)
    PROVE  Effect(s, "send", o)
  <1>1. CASE Register(s, "send", o)
    BY <1>1, RegisterEffect DEF Kinds
  <1>2. CASE ~Register(s, "send", o)
    <2>1. /\ kernel' = kernel \cup {<<j, s>> : j \in {"disconnect"}}
          /\ s \in connected /\ connected' = connected \ {s}
          /\ owner' = [owner EXCEPT ![s] = o \cup {"send", "disconnect"}]
      BY <1>2 DEF RegisterSend
    <2>. QED
      BY <2>1 DEF Effect
  <1>. QED
    BY <1>1, <1>2

LEMMA EffectFacts ==
    ASSUME TypeOK, NEW s \in Sessions, NEW k \in {"recv", "send"},
           NEW o \in SUBSET Kinds, Effect(s, k, o)
    PROVE  /\ connected' \subseteq connected
           /\ owner' \in [Sessions -> SUBSET Kinds]
           /\ \A u \in Sessions : u # s => owner'[u] = owner[u]
           /\ o \subseteq owner'[s]
           /\ owner'[s] \subseteq o \cup {k, "disconnect"}
           /\ kernel \subseteq kernel'
           /\ kernel' \subseteq kernel \cup {<<k, s>>, <<"disconnect", s>>}
           /\ \A j \in Kinds : <<j, s>> \in kernel' =>
                                   <<j, s>> \in kernel \/ j \in owner'[s]
           /\ <<"disconnect", s>> \in kernel' =>
                  <<"disconnect", s>> \in kernel \/ s \in connected
           /\ s \in connected' /\ "disconnect" \in owner'[s] => "disconnect" \in o
  <1>1. PICK K \in SUBSET {k, "disconnect"}, L \in SUBSET {k, "disconnect"} :
           /\ kernel' = kernel \cup {<<j, s>> : j \in K}
           /\ "disconnect" \in K => s \in connected /\ s \notin connected'
           /\ K \subseteq L
           /\ "disconnect" \in L => "disconnect" \in K
           /\ owner' = [owner EXCEPT ![s] = o \cup L]
    BY DEF Effect
  <1>2. connected' \subseteq connected
    BY DEF Effect
  <1>3. /\ owner' \in [Sessions -> SUBSET Kinds]
        /\ \A u \in Sessions : u # s => owner'[u] = owner[u]
        /\ owner'[s] = o \cup L
    <2>1. o \cup L \in SUBSET Kinds
      BY DEF Kinds
    <2>. QED
      BY <1>1, <2>1 DEF TypeOK
  <1>4. /\ kernel \subseteq kernel'
        /\ kernel' \subseteq kernel \cup {<<k, s>>, <<"disconnect", s>>}
    BY <1>1
  <1>5. \A j \in Kinds : <<j, s>> \in kernel' => <<j, s>> \in kernel \/ j \in K
    BY <1>1
  <1>. QED
    BY <1>1, <1>2, <1>3, <1>4, <1>5

\* The session s, which no accept waits with, makes a request of kind k at
\* most, that is nowhere, and may begin to disconnect.
SessionStep(s, k, o) ==
    /\ Effect(s, k, o)
    /\ o \subseteq owner[s] /\ owner[s] \subseteq o \cup {k}
    /\ <<k, s>> \notin Queued
    /\ \A w \in Workers : /\ IsInjective(batch'[w])
                          /\ Range(batch'[w]) \subseteq Range(batch[w]) \ {<<k, s>>}
    /\ batch' \in [Workers -> Seq(Requests)]
    /\ pc' \in [Workers -> {"wait", "dequeue", "dispatch",
                            "registerRecv", "registerAccept"}]
    /\ UNCHANGED <<useRIO, accepted, sessions, managed, port, cq, armed>>

LEMMA SessionStepKeeps ==
    ASSUME IInv, NEW s \in Sessions, NEW k \in {"recv", "send"},
           NEW o \in SUBSET Kinds, SessionStep(s, k, o)
    PROVE  /\ TypeOK' /\ OnePlace' /\ DisconnectInv' /\ CompletionsKeepSession'
           /\ \A u \in Sessions : u # s => owner'[u] = owner[u]
           /\ owner'[s] \subseteq o \cup {k, "disconnect"}
  <1> USE DEF IInv
  <1>1. k \in Kinds /\ "disconnect" \in Kinds /\ k # "disconnect"
    BY DEF Kinds
  <1>2. /\ connected' \subseteq connected
        /\ owner' \in [Sessions -> SUBSET Kinds]
        /\ \A u \in Sessions : u # s => owner'[u] = owner[u]
        /\ o \subseteq owner'[s]
        /\ owner'[s] \subseteq o \cup {k, "disconnect"}
        /\ kernel \subseteq kernel'
        /\ kernel' \subseteq kernel \cup {<<k, s>>, <<"disconnect", s>>}
        /\ \A j \in Kinds : <<j, s>> \in kernel' =>
                                <<j, s>> \in kernel \/ j \in owner'[s]
        /\ <<"disconnect", s>> \in kernel' =>
               <<"disconnect", s>> \in kernel \/ s \in connected
        /\ s \in connected' /\ "disconnect" \in owner'[s] => "disconnect" \in o
    BY EffectFacts DEF SessionStep
  <1>3. /\ o \subseteq owner[s] /\ owner[s] \subseteq o \cup {k}
        /\ <<k, s>> \notin Queued
        /\ port' = port /\ cq' = cq /\ armed' = armed /\ useRIO' = useRIO
        /\ sessions' = sessions /\ managed' = managed /\ accepted' = accepted
        /\ \A w \in Workers :
               /\ IsInjective(batch'[w])
               /\ Range(batch'[w]) \subseteq Range(batch[w]) \ {<<k, s>>}
    BY DEF SessionStep
  <1>4. s \in connected => "disconnect" \notin owner[s]
    BY DEF DisconnectInv
  \* What is new with the kernel was nowhere.
  <1>5. ASSUME NEW r \in kernel', r \notin kernel
        PROVE  /\ r \notin Range(port) \cup Range(cq)
               /\ \A w \in Workers : r \notin Range(batch'[w])
    <2>1. CASE r = <<k, s>>
      BY <1>3, <2>1 DEF Queued
    <2>2. CASE r = <<"disconnect", s>>
      <3>1. "disconnect" \notin owner[s]
        BY <1>2, <1>4, <1>5, <2>2
      <3>2. /\ r \notin Range(port) \cup Range(cq)
            /\ \A w \in Workers : r \notin Range(batch[w])
        BY <1>1, <2>2, <3>1 DEF CompletionsKeepSession
      <3>. QED
        BY <1>3, <3>2
    <2>. QED
      BY <1>2, <1>5, <2>1, <2>2
  <1>6. TypeOK'
    <2>1. <<k, s>> \in Requests /\ <<"disconnect", s>> \in Requests
      BY <1>1 DEF Requests
    <2>2. kernel' \subseteq Requests
      BY <1>2, <2>1 DEF TypeOK
    <2>3. connected' \subseteq sessions' /\ sessions' \cup managed' \subseteq Sessions
      BY <1>2, <1>3 DEF TypeOK
    <2>4. kernel' \cap (Range(port) \cup Range(cq)) = {}
      BY <1>5 DEF TypeOK
    <2>. QED
      BY <1>2, <1>3, <2>2, <2>3, <2>4 DEF TypeOK, SessionStep
  <1>7. OnePlace'
    <2>1. ASSUME NEW w \in Workers
          PROVE  Range(batch'[w]) \cap (kernel' \cup Range(port) \cup Range(cq)) = {}
      BY <1>3, <1>5 DEF OnePlace, Queued
    <2>2. ASSUME NEW w \in Workers, NEW v \in Workers \ {w}
          PROVE  Range(batch'[w]) \cap Range(batch'[v]) = {}
      BY <1>3 DEF OnePlace
    <2>. QED
      BY <1>3, <2>1, <2>2 DEF OnePlace, Queued
  <1>8. DisconnectInv'
    BY <1>2, <1>3 DEF DisconnectInv, TypeOK
  <1>9. CompletionsKeepSession'
    <2> SUFFICES ASSUME NEW j \in Kinds, NEW u \in Sessions,
                        \/ <<j, u>> \in kernel' \cup Range(port) \cup Range(cq)
                        \/ \E w \in Workers : <<j, u>> \in Range(batch'[w])
                 PROVE  j \in owner'[u]
      BY <1>3 DEF CompletionsKeepSession
    <2>1. CASE \/ <<j, u>> \in kernel \cup Range(port) \cup Range(cq)
               \/ \E w \in Workers : <<j, u>> \in Range(batch'[w])
      <3>1. j \in owner[u]
        BY <1>3, <2>1 DEF CompletionsKeepSession
      <3>2. CASE u # s
        BY <1>2, <3>1, <3>2
      <3>3. CASE u = s
        <4>1. j # k
          BY <1>3, <2>1, <3>3 DEF Queued
        <4>. QED
          BY <1>2, <1>3, <3>1, <3>3, <4>1
      <3>. QED
        BY <3>2, <3>3
    <2>2. CASE <<j, u>> \in kernel' /\ <<j, u>> \notin kernel
      <3>1. u = s
        BY <1>2, <2>2
      <3>. QED
        BY <1>2, <2>2, <3>1
    <2>. QED
      BY <2>1, <2>2
  <1>. QED
    BY <1>2, <1>6, <1>7, <1>8, <1>9

\* AcceptInv survives a step that gives no new owner to the events of a session
\* an accept waits with, and ends no accept.
LEMMA AcceptKept ==
    ASSUME AcceptInv, accepted \in [AcceptEvents -> Sessions],
           accepted' = accepted,
           sessions' \subseteq sessions, managed' \subseteq managed,
           \A w \in Workers : Accepting(w) =>
               /\ Accepting(w)' /\ Subject(w)' = Subject(w)
               /\ Subject(w) \in AcceptEvents,
           \A u \in Sessions :
               \/ owner'[u] \subseteq owner[u]
               \/ owner[u] # {} \/ u \in sessions \cup managed
               \/ \E w \in Workers : Accepting(w) /\ u = accepted[Subject(w)]
    PROVE  AcceptInv'
  <1>1. ASSUME NEW e \in AcceptEvents,
               ~\E w \in Workers : Accepting(w) /\ Subject(w) = e
        PROVE  owner'[accepted[e]] = {} /\ accepted[e] \notin sessions' \cup managed'
    <2>1. owner[accepted[e]] = {} /\ accepted[e] \notin sessions \cup managed
      BY <1>1 DEF AcceptInv
    <2>2. ~\E w \in Workers : Accepting(w) /\ accepted[e] = accepted[Subject(w)]
      BY <1>1 DEF AcceptInv, IsInjective
    <2>. QED
      BY <2>1, <2>2
  <1>. QED
    BY <1>1 DEF AcceptInv

-----------------------------------------------------------------------------
(* Workers *)

LEMMA HeadFacts ==
    ASSUME IInv, NEW w \in Workers, batch[w] # <<>>
    PROVE  /\ Head(batch[w]) \in Requests /\ Head(batch[w]) \in Range(batch[w])
           /\ Head(batch[w]) = <<Head(batch[w])[1], Subject(w)>>
           /\ Head(batch[w])[1] = "accept" => Subject(w) \in AcceptEvents
           /\ Head(batch[w])[1] # "accept" => /\ Head(batch[w])[1] \in Kinds
                                              /\ Subject(w) \in Sessions
           /\ Head(batch[w]) \notin Queued
           /\ \A v \in Workers \ {w} : Head(batch[w]) \notin Range(batch[v])
  <1>1. batch[w] \in Seq(Requests)
    BY DEF IInv, TypeOK
  <1>2. Head(batch[w]) \in Requests /\ Head(batch[w]) \in Range(batch[w])
    BY <1>1, TailFacts
  <1>. QED
    BY <1>2, RequestFacts DEF IInv, OnePlace, Subject

\* An accept is in the hands of one worker.
LEMMA AcceptingFacts ==
    ASSUME IInv, NEW w \in Workers, Accepting(w)
    PROVE  /\ batch[w] # <<>>
           /\ Head(batch[w]) = <<"accept", Subject(w)>>
           /\ Subject(w) \in AcceptEvents
           /\ \A v \in Workers :
                  Accepting(v) /\ Subject(v) = Subject(w) => v = w
  <1>1. ASSUME NEW v \in Workers, Accepting(v)
        PROVE  /\ batch[v] # <<>> /\ Subject(v) \in AcceptEvents
               /\ Head(batch[v]) = <<"accept", Subject(v)>>
    <2>1. batch[v] # <<>> /\ Head(batch[v])[1] = "accept"
      BY <1>1 DEF IInv, LocalInv, Accepting
    <2>. QED
      BY <2>1, HeadFacts
  <1>2. ASSUME NEW v \in Workers, Accepting(v), Subject(v) = Subject(w), v # w
        PROVE  FALSE
    <2>1. Head(batch[v]) \in Range(batch[v])
      BY <1>1, <1>2, HeadFacts
    <2>2. Head(batch[w]) \notin Range(batch[v])
      BY <1>1, <1>2, HeadFacts
    <2>. QED
      BY <1>1, <1>2, <2>1, <2>2
  <1>. QED
    BY <1>1, <1>2

\* A worker has done with the head of its batch.
LEMMA DispatchedFacts ==
    ASSUME IInv, NEW w \in Workers, NEW a \in {"dispatch", "registerAccept"},
           Dispatched(w, a)
    PROVE  /\ batch[w] # <<>>
           /\ pc' \in [Workers -> {"wait", "dequeue", "dispatch",
                                   "registerRecv", "registerAccept"}]
           /\ batch' \in [Workers -> Seq(Requests)]
           /\ \A v \in Workers \ {w} : pc'[v] = pc[v] /\ batch'[v] = batch[v]
           /\ pc[w] = a /\ pc'[w] \in {"wait", "dispatch"}
           /\ pc'[w] = "wait" <=> batch'[w] = <<>>
           /\ IsInjective(batch'[w])
           /\ Range(batch'[w]) \subseteq Range(batch[w]) \ {Head(batch[w])}
  <1>1. pc[w] = a /\ batch[w] # <<>>
    BY DEF IInv, LocalInv, Dispatched, Goto
  <1>2. batch[w] \in Seq(Requests) /\ batch \in [Workers -> Seq(Requests)]
        /\ pc \in [Workers -> {"wait", "dequeue", "dispatch",
                               "registerRecv", "registerAccept"}]
    BY DEF IInv, TypeOK
  <1>3. /\ Tail(batch[w]) \in Seq(Requests)
        /\ Len(batch[w]) = 1 <=> Tail(batch[w]) = <<>>
        /\ Range(Tail(batch[w])) \subseteq Range(batch[w])
        /\ IsInjective(batch[w]) => /\ IsInjective(Tail(batch[w]))
                                    /\ Head(batch[w]) \notin Range(Tail(batch[w]))
    BY <1>1, <1>2, TailFacts
  <1>4. /\ batch' = [batch EXCEPT ![w] = Tail(batch[w])]
        /\ pc' = [pc EXCEPT ![w] = IF Len(batch[w]) = 1 THEN "wait" ELSE "dispatch"]
    BY DEF Dispatched, Goto
  <1>5. batch'[w] = Tail(batch[w]) /\ batch' \in [Workers -> Seq(Requests)]
    BY <1>2, <1>3, <1>4
  <1>6. /\ pc' \in [Workers -> {"wait", "dequeue", "dispatch",
                                "registerRecv", "registerAccept"}]
        /\ pc'[w] \in {"wait", "dispatch"}
        /\ pc'[w] = "wait" <=> Len(batch[w]) = 1
    BY <1>2, <1>4
  <1>. QED
    BY <1>1, <1>2, <1>3, <1>4, <1>5, <1>6 DEF IInv, OnePlace

\* LocalInv survives a step of the worker w that gives no new owner to the
\* receive of a session whose accept another worker processes.
LEMMA LocalKept ==
    ASSUME LocalInv, NEW w \in Workers,
           \A v \in Workers \ {w} : pc'[v] = pc[v] /\ batch'[v] = batch[v],
           \A v \in Workers \ {w} :
               pc[v] = "registerRecv" =>
                   "recv" \notin owner'[accepted'[Subject(v)]],
           pc'[w] \in {"wait", "dequeue"} <=> batch'[w] = <<>>,
           Accepting(w)' => Head(batch'[w])[1] = "accept",
           pc'[w] = "registerRecv" =>
               "recv" \notin owner'[accepted'[Subject(w)']]
    PROVE  LocalInv'
  <1> SUFFICES ASSUME NEW v \in Workers
               PROVE  /\ pc'[v] \in {"wait", "dequeue"} <=> batch'[v] = <<>>
                      /\ Accepting(v)' => Head(batch'[v])[1] = "accept"
                      /\ pc'[v] = "registerRecv" =>
                             "recv" \notin owner'[accepted'[Subject(v)']]
    BY DEF LocalInv
  <1>1. CASE v = w
    BY <1>1
  <1>2. CASE v # w
    BY <1>2 DEF LocalInv, Accepting, Subject
  <1>. QED
    BY <1>1, <1>2

LEMMA NotifyKept ==
    ASSUME NotifyOnce, UNCHANGED <<useRIO, port, armed>>,
           \A v \in Workers : pc'[v] = "dequeue" => pc[v] = "dequeue"
    PROVE  NotifyOnce'
  BY DEF NotifyOnce

\* ProcessRecv and ProcessSend.
LEMMA CompletionKeeps ==
    ASSUME IInv, NEW w \in Workers, NEW k \in {"recv", "send"},
           NEW s, s = Subject(w), NEW o, o = owner[s] \ {k},
           Dispatches(w, k), Dispatched(w, "dispatch"), Effect(s, k, o),
           UNCHANGED <<useRIO, accepted, sessions, managed, port, cq, armed>>
    PROVE  IInv'
  <1>1. /\ batch[w] # <<>>
        /\ pc' \in [Workers -> {"wait", "dequeue", "dispatch",
                                "registerRecv", "registerAccept"}]
        /\ batch' \in [Workers -> Seq(Requests)]
        /\ \A v \in Workers \ {w} : pc'[v] = pc[v] /\ batch'[v] = batch[v]
        /\ pc[w] = "dispatch" /\ pc'[w] \in {"wait", "dispatch"}
        /\ pc'[w] = "wait" <=> batch'[w] = <<>>
        /\ IsInjective(batch'[w])
        /\ Range(batch'[w]) \subseteq Range(batch[w]) \ {Head(batch[w])}
    BY DispatchedFacts
  <1>2. /\ Head(batch[w]) = <<k, s>> /\ s \in Sessions /\ k \in Kinds
        /\ <<k, s>> \in Range(batch[w]) /\ <<k, s>> \notin Queued
        /\ \A v \in Workers \ {w} : <<k, s>> \notin Range(batch[v])
    <2>1. Head(batch[w])[1] = k /\ k # "accept" /\ k \in Kinds
      BY DEF Dispatches, Kinds
    <2>2. /\ Head(batch[w]) \in Range(batch[w])
          /\ Head(batch[w]) = <<Head(batch[w])[1], Subject(w)>>
          /\ Head(batch[w])[1] # "accept" => Subject(w) \in Sessions
          /\ Head(batch[w]) \notin Queued
          /\ \A v \in Workers \ {w} : Head(batch[w]) \notin Range(batch[v])
      BY <1>1, HeadFacts
    <2>3. Head(batch[w]) = <<k, s>>
      BY <2>1, <2>2
    <2>. QED
      BY <2>1, <2>2, <2>3
  <1>3. k \in owner[s]
    BY <1>2 DEF IInv, CompletionsKeepSession
  <1>4. o \in SUBSET Kinds
    BY <1>2 DEF IInv, TypeOK
  <1>5. SessionStep(s, k, o)
    BY <1>1, <1>2, <1>3 DEF SessionStep, IInv, OnePlace
  <1>6. /\ TypeOK' /\ OnePlace' /\ DisconnectInv' /\ CompletionsKeepSession'
        /\ \A u \in Sessions : u # s => owner'[u] = owner[u]
        /\ owner'[s] \subseteq o \cup {k, "disconnect"}
    BY <1>2, <1>4, <1>5, SessionStepKeeps
  <1>8. NotifyOnce'
    BY <1>1, NotifyKept DEF IInv
  <1>9. LocalInv'
    <2>2. ASSUME NEW v \in Workers \ {w}, pc[v] = "registerRecv"
          PROVE  "recv" \notin owner'[accepted'[Subject(v)]]
      <3>1. "recv" \notin owner[accepted[Subject(v)]]
        BY <2>2 DEF IInv, LocalInv
      <3>2. accepted[Subject(v)] \in Sessions
        BY <2>2, AcceptingFacts DEF Accepting, IInv, TypeOK
      <3>3. CASE accepted[Subject(v)] = s
        <4>1. k = "send" /\ "recv" \notin o
          BY <1>3, <3>1, <3>3
        <4>. QED
          BY <1>6, <3>3, <4>1
      <3>. QED
        BY <1>6, <3>1, <3>2, <3>3
    <2>. QED
      BY <1>1, <2>2, LocalKept DEF IInv, Accepting
  <1>10. AcceptInv'
    <2>1. ASSUME NEW v \in Workers, Accepting(v)
          PROVE  /\ Accepting(v)' /\ Subject(v)' = Subject(v)
                 /\ Subject(v) \in AcceptEvents
      <3>1. v # w
        BY <1>1, <2>1 DEF Accepting
      <3>. QED
        BY <1>1, <2>1, <3>1, AcceptingFacts DEF Accepting, Subject
    <2>2. \A u \in Sessions : owner'[u] \subseteq owner[u] \/ owner[u] # {}
      BY <1>3, <1>6
    <2>. QED
      BY <2>1, <2>2, AcceptKept DEF IInv, TypeOK
  <1>. QED
    BY <1>6, <1>8, <1>9, <1>10 DEF IInv

-----------------------------------------------------------------------------
(* The steps *)

LEMMA InitInv == Init => IInv
  <1> SUFFICES ASSUME Init PROVE IInv
    OBVIOUS
  <1>1. /\ <<>> \in Seq(Requests \cup {Notify}) /\ <<>> \in Seq(Requests)
        /\ Range(<<>>) = {} /\ IsInjective(<<>>)
    BY SmallFacts
  <1>2. accepted \in [AcceptEvents -> Sessions] /\ IsInjective(accepted)
    BY ServiceAssumption DEF Init
  <1>3. TypeOK
    BY <1>1, <1>2 DEF Init, TypeOK, Requests
  <1>4. OnePlace /\ NotifyOnce /\ LocalInv
    BY <1>1 DEF Init, OnePlace, NotifyOnce, LocalInv, Accepting
  <1>5. AcceptInv /\ DisconnectInv
    BY <1>2 DEF Init, AcceptInv, DisconnectInv
  <1>6. CompletionsKeepSession
    BY <1>1 DEF Init, CompletionsKeepSession, Kinds
  <1>. QED
    BY <1>3, <1>4, <1>5, <1>6 DEF IInv

\* A step of the kernel moves a request from kernel to port or cq.
LEMMA CompleteKeeps ==
    ASSUME IInv, NEW r \in Requests, Complete(r)
    PROVE  IInv'
  <1>1. /\ port \in Seq(Requests \cup {Notify}) /\ cq \in Seq(Requests)
        /\ IsInjective(port) /\ IsInjective(cq)
        /\ Range(port) \cap Range(cq) = {}
        /\ kernel \cap (Range(port) \cup Range(cq)) = {}
        /\ armed => useRIO /\ cq = <<>> /\ Notify \notin Range(port)
        /\ r \in kernel /\ kernel' = kernel \ {r}
        /\ Notify \notin Requests
    BY RequestFacts DEF IInv, TypeOK, Complete
  <1>2. /\ useRIO' = useRIO /\ accepted' = accepted /\ connected' = connected
        /\ owner' = owner /\ sessions' = sessions /\ managed' = managed
        /\ pc' = pc /\ batch' = batch /\ excused' = excused
    BY DEF Complete, workerVars
  <1>3. /\ port' \in Seq(Requests \cup {Notify}) /\ cq' \in Seq(Requests)
        /\ IsInjective(port') /\ IsInjective(cq')
        /\ Range(cq') \subseteq Range(cq) \cup {r}
        /\ Range(port') \subseteq Range(port) \cup {r, Notify}
        /\ Range(port') \cap Range(cq') = {}
        /\ armed' => armed /\ cq' = cq /\ Notify \notin Range(port')
        /\ Notify \in Range(port') => armed \/ Notify \in Range(port)
    <2>1. CASE useRIO /\ r[1] \in {"recv", "send"}
      <3>1. /\ cq' \in Seq(Requests) /\ Range(cq') = Range(cq) \cup {r}
            /\ IsInjective(cq')
        <4>1. cq' = Append(cq, r) /\ r \notin Range(cq)
          BY <1>1, <2>1 DEF Complete
        <4>. QED
          BY <1>1, <4>1, AppendFacts
      <3>2. CASE armed
        <4>1. port' = Append(port, Notify) /\ ~armed'
          BY <2>1, <3>2 DEF Complete
        <4>2. /\ port' \in Seq(Requests \cup {Notify})
              /\ Range(port') = Range(port) \cup {Notify} /\ IsInjective(port')
          BY <1>1, <3>2, <4>1, AppendFacts
        <4>3. Notify \notin Range(cq')
          BY <1>1, <3>1, <3>2, SmallFacts
        <4>. QED
          BY <1>1, <3>1, <3>2, <4>1, <4>2, <4>3
      <3>3. CASE ~armed
        <4>1. port' = port /\ armed' = FALSE
          BY <2>1, <3>3 DEF Complete
        <4>. QED
          BY <1>1, <3>1, <3>3, <4>1
      <3>. QED
        BY <3>2, <3>3
    <2>2. CASE ~(useRIO /\ r[1] \in {"recv", "send"})
      <3>1. port' = Append(port, r) /\ cq' = cq /\ armed' = armed
        BY <2>2 DEF Complete
      <3>2. /\ port' \in Seq(Requests \cup {Notify})
            /\ Range(port') = Range(port) \cup {r} /\ IsInjective(port')
        BY <1>1, <3>1, AppendFacts
      <3>. QED
        BY <1>1, <3>1, <3>2
    <2>. QED
      BY <2>1, <2>2
  <1>4. TypeOK'
    <2>1. armed' => useRIO' /\ cq' = <<>> /\ Notify \notin Range(port')
      BY <1>1, <1>2, <1>3
    <2>2. kernel' \cap (Range(port') \cup Range(cq')) = {}
      BY <1>1, <1>3 DEF IInv, TypeOK
    <2>. QED
      BY <1>1, <1>2, <1>3, <2>1, <2>2 DEF IInv, TypeOK
  <1>5. OnePlace'
    <2>1. \A w \in Workers : Notify \notin Range(batch[w])
      BY <1>1 DEF IInv, TypeOK, Range
    <2>. QED
      BY <1>1, <1>2, <1>3, <2>1 DEF IInv, OnePlace, Queued
  <1>6. NotifyOnce'
    BY <1>1, <1>2, <1>3 DEF IInv, NotifyOnce
  <1>7. LocalInv' /\ AcceptInv' /\ DisconnectInv'
    BY <1>2 DEF IInv, LocalInv, AcceptInv, DisconnectInv, Accepting, Subject
  <1>8. CompletionsKeepSession'
    <2>1. \A k \in Kinds, u \in Sessions : <<k, u>> # Notify
      BY DEF Notify
    <2>. QED
      BY <1>1, <1>2, <1>3, <2>1 DEF IInv, CompletionsKeepSession
  <1>. QED
    BY <1>4, <1>5, <1>6, <1>7, <1>8 DEF IInv

LEMMA SendKeeps ==
    ASSUME IInv, NEW s \in Sessions, Send(s)
    PROVE  IInv'
  <1>1. s \in managed /\ "send" \notin owner[s] /\ RegisterSend(s, owner[s])
    BY DEF Send
  <1>2. /\ useRIO' = useRIO /\ accepted' = accepted
        /\ sessions' = sessions /\ managed' = managed
        /\ port' = port /\ cq' = cq /\ armed' = armed
        /\ pc' = pc /\ batch' = batch
    BY DEF Send, workerVars
  <1>3. owner[s] \in SUBSET Kinds
    BY DEF IInv, TypeOK
  <1>4. Effect(s, "send", owner[s])
    BY <1>1, <1>3, RegisterSendEffect
  <1>5. /\ <<"send", s>> \notin Queued
        /\ \A w \in Workers : <<"send", s>> \notin Range(batch[w])
    BY <1>1 DEF IInv, CompletionsKeepSession, Queued, Kinds
  <1>6. SessionStep(s, "send", owner[s])
    BY <1>2, <1>4, <1>5 DEF SessionStep, IInv, OnePlace, TypeOK
  <1>7. /\ TypeOK' /\ OnePlace' /\ DisconnectInv' /\ CompletionsKeepSession'
        /\ \A u \in Sessions : u # s => owner'[u] = owner[u]
        /\ owner'[s] \subseteq owner[s] \cup {"send", "disconnect"}
    BY <1>3, <1>6, SessionStepKeeps
  <1>8. NotifyOnce'
    BY <1>2, NotifyKept DEF IInv
  <1>9. LocalInv'
    <2>1. ASSUME NEW v \in Workers, pc[v] = "registerRecv"
          PROVE  "recv" \notin owner'[accepted[Subject(v)]]
      <3>1. "recv" \notin owner[accepted[Subject(v)]]
        BY <2>1 DEF IInv, LocalInv
      <3>2. accepted[Subject(v)] \in Sessions
        BY <2>1, AcceptingFacts DEF Accepting, IInv, TypeOK
      <3>. QED
        BY <1>7, <3>1, <3>2
    <2>. QED
      BY <1>2, <2>1 DEF IInv, LocalInv, Accepting, Subject
  <1>10. AcceptInv'
    <2>1. \A w \in Workers : Accepting(w) =>
              /\ Accepting(w)' /\ Subject(w)' = Subject(w)
              /\ Subject(w) \in AcceptEvents
      BY <1>2, AcceptingFacts DEF Accepting, Subject
    <2>2. \A u \in Sessions : owner'[u] \subseteq owner[u] \/ u \in sessions \cup managed
      BY <1>1, <1>7
    <2>. QED
      BY <1>2, <2>1, <2>2, AcceptKept DEF IInv, TypeOK
  <1>. QED
    BY <1>7, <1>8, <1>9, <1>10 DEF IInv

\* A packet or a notification reaches a worker.
LEMMA GetQueuedKeeps ==
    ASSUME IInv, NEW w \in Workers, GetQueued(w)
    PROVE  IInv'
  <1> DEFINE Labels == {"wait", "dequeue", "dispatch",
                        "registerRecv", "registerAccept"}
  <1>1. /\ port \in Seq(Requests \cup {Notify}) /\ port # <<>>
        /\ IsInjective(port) /\ Range(port) \cap Range(cq) = {}
        /\ kernel \cap (Range(port) \cup Range(cq)) = {}
        /\ armed => useRIO /\ cq = <<>> /\ Notify \notin Range(port)
        /\ batch \in [Workers -> Seq(Requests)] /\ pc \in [Workers -> Labels]
        /\ pc[w] = "wait" /\ batch[w] = <<>>
    BY DEF IInv, TypeOK, LocalInv, GetQueued, Goto
  <1>2. /\ useRIO' = useRIO /\ accepted' = accepted /\ connected' = connected
        /\ owner' = owner /\ sessions' = sessions /\ managed' = managed
        /\ kernel' = kernel /\ cq' = cq /\ armed' = armed /\ port' = Tail(port)
    BY DEF GetQueued
  <1>3. /\ Head(port) \in Requests \cup {Notify} /\ Head(port) \in Range(port)
        /\ port' \in Seq(Requests \cup {Notify})
        /\ Range(port') \subseteq Range(port) \ {Head(port)}
        /\ IsInjective(port')
    BY <1>1, <1>2, TailFacts
  <1>4. /\ batch' \in [Workers -> Seq(Requests)] /\ pc' \in [Workers -> Labels]
        /\ \A v \in Workers \ {w} : pc'[v] = pc[v] /\ batch'[v] = batch[v]
        /\ pc'[w] = "dequeue" <=> Head(port) = Notify
        /\ pc'[w] \in {"dequeue", "dispatch"}
        /\ pc'[w] = "dequeue" <=> batch'[w] = <<>>
        /\ IsInjective(batch'[w])
        /\ Range(batch'[w]) \subseteq {Head(port)} \ {Notify}
    <2>1. CASE Head(port) = Notify
      <3>1. batch' = batch /\ pc' = [pc EXCEPT ![w] = "dequeue"]
        BY <2>1 DEF GetQueued, Goto
      <3>. QED
        BY <1>1, <2>1, <3>1, SmallFacts
    <2>2. CASE Head(port) # Notify
      <3>1. /\ batch' = [batch EXCEPT ![w] = <<Head(port)>>]
            /\ pc' = [pc EXCEPT ![w] = "dispatch"]
        BY <2>2 DEF GetQueued, Goto
      <3>2. /\ <<Head(port)>> \in Seq(Requests) /\ <<Head(port)>> # <<>>
            /\ Range(<<Head(port)>>) = {Head(port)} /\ IsInjective(<<Head(port)>>)
        BY <1>3, <2>2, SmallFacts
      <3>3. batch'[w] = <<Head(port)>> /\ batch' \in [Workers -> Seq(Requests)]
        BY <1>1, <3>1, <3>2
      <3>. QED
        BY <1>1, <2>2, <3>1, <3>2, <3>3
    <2>. QED
      BY <2>1, <2>2
  <1>5. TypeOK'
    BY <1>1, <1>2, <1>3, <1>4 DEF IInv, TypeOK
  <1>6. OnePlace'
    <2>1. \A v \in Workers : Head(port) \notin Range(batch[v])
      BY <1>3 DEF IInv, OnePlace, Queued
    <2>2. Head(port) \notin kernel \cup Range(cq) \cup Range(port')
      BY <1>1, <1>3
    <2>3. ASSUME NEW v \in Workers \ {w}
          PROVE  /\ IsInjective(batch'[v])
                 /\ Range(batch'[v]) \cap (kernel \cup Range(port') \cup Range(cq)) = {}
                 /\ Range(batch'[v]) \cap Range(batch'[w]) = {}
                 /\ \A u \in Workers \ {v, w} :
                        Range(batch'[v]) \cap Range(batch'[u]) = {}
      BY <1>3, <1>4, <2>1 DEF IInv, OnePlace, Queued
    <2>4. Range(batch'[w]) \cap (kernel \cup Range(port') \cup Range(cq)) = {}
      BY <1>4, <2>2
    <2>. QED
      BY <1>2, <1>4, <2>3, <2>4 DEF OnePlace, Queued
  <1>7. NotifyOnce'
    <2>1. ASSUME Head(port) = Notify
          PROVE  /\ ~armed /\ Notify \notin Range(port')
                 /\ \A v \in Workers : pc[v] # "dequeue"
      BY <1>1, <1>3, <2>1 DEF IInv, NotifyOnce
    <2>. QED
      BY <1>2, <1>3, <1>4, <2>1 DEF IInv, NotifyOnce
  <1>8. LocalInv'
    <2>1. \A v \in Workers \ {w} :
              pc[v] = "registerRecv" =>
                  "recv" \notin owner'[accepted'[Subject(v)]]
      BY <1>2 DEF IInv, LocalInv
    <2>2. ~Accepting(w)'
      BY <1>4 DEF Accepting
    <2>. QED
      BY <1>4, <2>1, <2>2, LocalKept DEF IInv, Accepting
  <1>9. AcceptInv'
    <2>1. \A v \in Workers : Accepting(v) =>
              /\ Accepting(v)' /\ Subject(v)' = Subject(v)
              /\ Subject(v) \in AcceptEvents
      BY <1>1, <1>4, AcceptingFacts DEF Accepting, Subject
    <2>. QED
      BY <1>2, <2>1, AcceptKept DEF IInv, TypeOK
  <1>10. DisconnectInv'
    BY <1>2 DEF IInv, DisconnectInv
  <1>11. CompletionsKeepSession'
    <2> SUFFICES ASSUME NEW j \in Kinds, NEW u \in Sessions,
                        \/ <<j, u>> \in kernel \cup Range(port') \cup Range(cq)
                        \/ \E v \in Workers : <<j, u>> \in Range(batch'[v])
                 PROVE  j \in owner[u]
      BY <1>2 DEF CompletionsKeepSession
    <2>1. ASSUME NEW v \in Workers, <<j, u>> \in Range(batch'[v])
          PROVE  <<j, u>> \in Range(batch[v]) \cup Range(port)
      <3>1. CASE v = w
        BY <1>3, <1>4, <2>1, <3>1
      <3>2. CASE v # w
        BY <1>4, <2>1, <3>2
      <3>. QED
        BY <3>1, <3>2
    <2>2. \/ <<j, u>> \in kernel \cup Range(port) \cup Range(cq)
          \/ \E v \in Workers : <<j, u>> \in Range(batch[v])
      BY <1>3, <2>1
    <2>. QED
      BY <2>2 DEF IInv, CompletionsKeepSession
  <1>. QED
    BY <1>5, <1>6, <1>7, <1>8, <1>9, <1>10, <1>11 DEF IInv

\* The batch comes from the RIO queue, and the queue is announced or armed.
LEMMA DequeueKeeps ==
    ASSUME IInv, NEW w \in Workers, Dequeue(w)
    PROVE  IInv'
  <1> DEFINE Labels == {"wait", "dequeue", "dispatch",
                        "registerRecv", "registerAccept"}
             n == IF Len(cq) < RIO_DISPATCH_RESULT_COUNT
                    THEN Len(cq) ELSE RIO_DISPATCH_RESULT_COUNT
  <1>1. /\ port \in Seq(Requests \cup {Notify}) /\ cq \in Seq(Requests)
        /\ IsInjective(port) /\ IsInjective(cq)
        /\ Range(port) \cap Range(cq) = {}
        /\ kernel \cap (Range(port) \cup Range(cq)) = {}
        /\ batch \in [Workers -> Seq(Requests)] /\ pc \in [Workers -> Labels]
        /\ pc[w] = "dequeue" /\ batch[w] = <<>>
        /\ ~armed /\ Notify \notin Range(port)
        /\ \A v \in Workers : pc[v] = "dequeue" => v = w
        /\ Notify \notin Requests
    BY RequestFacts DEF IInv, TypeOK, LocalInv, NotifyOnce, Dequeue, Goto
  <1>2. /\ useRIO' = useRIO /\ accepted' = accepted /\ connected' = connected
        /\ owner' = owner /\ sessions' = sessions /\ managed' = managed
        /\ kernel' = kernel
    BY DEF Dequeue
  <1>3. /\ pc' = [pc EXCEPT ![w] = IF n = 0 THEN "wait" ELSE "dispatch"]
        /\ batch' = [batch EXCEPT ![w] = SubSeq(cq, 1, n)]
        /\ cq' = SubSeq(cq, n + 1, Len(cq))
        /\ armed' = (cq' = <<>>)
        /\ port' = IF cq' = <<>> THEN port ELSE Append(port, Notify)
    BY DEF Dequeue, Goto
  <1>4. n \in 0..Len(cq)
    <2>1. Len(cq) \in Nat /\ RIO_DISPATCH_RESULT_COUNT \in Nat
      BY <1>1, ServiceAssumption
    <2>. QED
      BY <2>1
  <1> HIDE DEF n
  <1>5. /\ SubSeq(cq, 1, n) \in Seq(Requests) /\ cq' \in Seq(Requests)
        /\ SubSeq(cq, 1, n) = <<>> <=> n = 0
        /\ Range(SubSeq(cq, 1, n)) \subseteq Range(cq)
        /\ Range(cq') \subseteq Range(cq)
        /\ IsInjective(SubSeq(cq, 1, n)) /\ IsInjective(cq')
        /\ Range(SubSeq(cq, 1, n)) \cap Range(cq') = {}
    BY <1>1, <1>3, <1>4, SplitFacts
  <1>6. /\ batch' \in [Workers -> Seq(Requests)] /\ pc' \in [Workers -> Labels]
        /\ \A v \in Workers \ {w} : pc'[v] = pc[v] /\ batch'[v] = batch[v]
        /\ pc'[w] \in {"wait", "dispatch"}
        /\ pc'[w] = "wait" <=> batch'[w] = <<>>
        /\ batch'[w] = SubSeq(cq, 1, n)
    BY <1>1, <1>3, <1>5
  <1>7. /\ port' \in Seq(Requests \cup {Notify}) /\ IsInjective(port')
        /\ Range(port') \subseteq Range(port) \cup {Notify}
        /\ armed' => cq' = <<>> /\ Notify \notin Range(port')
    <2>1. CASE cq' = <<>>
      BY <1>1, <1>3, <2>1
    <2>2. CASE cq' # <<>>
      <3>1. port' = Append(port, Notify) /\ ~armed'
        BY <1>3, <2>2
      <3>. QED
        BY <1>1, <3>1, AppendFacts
    <2>. QED
      BY <2>1, <2>2
  <1>8. useRIO
    BY <1>1 DEF IInv, NotifyOnce
  <1>9. Notify \notin Range(cq')
    BY <1>1, <1>5, RangeFacts
  <1>10. TypeOK'
    <2>1. kernel \cap (Range(port') \cup Range(cq')) = {}
      BY <1>1, <1>5, <1>7 DEF IInv, TypeOK
    <2>2. Range(port') \cap Range(cq') = {}
      BY <1>1, <1>5, <1>7, <1>9
    <2>. QED
      BY <1>2, <1>5, <1>6, <1>7, <1>8, <2>1, <2>2 DEF IInv, TypeOK
  <1>11. OnePlace'
    <2>1. \A v \in Workers : Notify \notin Range(batch[v])
      BY <1>1 DEF Range
    <2>2. ASSUME NEW v \in Workers \ {w}
          PROVE  /\ IsInjective(batch'[v])
                 /\ Range(batch'[v]) \cap (kernel \cup Range(port') \cup Range(cq')) = {}
                 /\ Range(batch'[v]) \cap Range(batch'[w]) = {}
                 /\ \A u \in Workers \ {v, w} :
                        Range(batch'[v]) \cap Range(batch'[u]) = {}
      BY <1>5, <1>6, <1>7, <2>1 DEF IInv, OnePlace, Queued
    <2>3. Range(batch'[w]) \cap (kernel \cup Range(port') \cup Range(cq')) = {}
      <3>1. Notify \notin Range(batch'[w])
        BY <1>1, <1>5, <1>6 DEF Range
      <3>. QED
        BY <1>1, <1>5, <1>6, <1>7, <3>1
    <2>. QED
      BY <1>2, <1>5, <1>6, <2>2, <2>3 DEF OnePlace, Queued
  <1>12. NotifyOnce'
    BY <1>1, <1>2, <1>6, <1>8 DEF NotifyOnce
  <1>13. LocalInv'
    <2>1. \A v \in Workers \ {w} :
              pc[v] = "registerRecv" =>
                  "recv" \notin owner'[accepted'[Subject(v)]]
      BY <1>2 DEF IInv, LocalInv
    <2>2. ~Accepting(w)'
      BY <1>6 DEF Accepting
    <2>. QED
      BY <1>6, <2>1, <2>2, LocalKept DEF IInv, Accepting
  <1>14. AcceptInv'
    <2>1. \A v \in Workers : Accepting(v) =>
              /\ Accepting(v)' /\ Subject(v)' = Subject(v)
              /\ Subject(v) \in AcceptEvents
      BY <1>1, <1>6, AcceptingFacts DEF Accepting, Subject
    <2>. QED
      BY <1>2, <2>1, AcceptKept DEF IInv, TypeOK
  <1>15. DisconnectInv'
    BY <1>2 DEF IInv, DisconnectInv
  <1>16. CompletionsKeepSession'
    <2> SUFFICES ASSUME NEW j \in Kinds, NEW u \in Sessions,
                        \/ <<j, u>> \in kernel \cup Range(port') \cup Range(cq')
                        \/ \E v \in Workers : <<j, u>> \in Range(batch'[v])
                 PROVE  j \in owner[u]
      BY <1>2 DEF CompletionsKeepSession
    <2>1. <<j, u>> # Notify
      BY DEF Notify
    <2>2. \/ <<j, u>> \in kernel \cup Range(port) \cup Range(cq)
          \/ \E v \in Workers : <<j, u>> \in Range(batch[v])
      BY <1>5, <1>6, <1>7, <2>1
    <2>. QED
      BY <2>2 DEF IInv, CompletionsKeepSession
  <1>. QED
    BY <1>10, <1>11, <1>12, <1>13, <1>14, <1>15, <1>16 DEF IInv

LEMMA ProcessAcceptKeeps ==
    ASSUME IInv, NEW w \in Workers, ProcessAccept(w)
    PROVE  IInv'
  <1> DEFINE Labels == {"wait", "dequeue", "dispatch",
                        "registerRecv", "registerAccept"}
  <1>1. PICK e : e = Subject(w)
    OBVIOUS
  <1>2. PICK s : s = accepted[e]
    OBVIOUS
  <1>3. /\ pc[w] = "dispatch" /\ batch[w] # <<>>
        /\ Head(batch[w])[1] = "accept" /\ pc \in [Workers -> Labels]
    BY DEF IInv, TypeOK, LocalInv, ProcessAccept, Dispatches
  <1>4. /\ e \in AcceptEvents /\ s \in Sessions
        /\ \A v \in Workers : ~(Accepting(v) /\ Subject(v) = e)
    <2>1. e \in AcceptEvents
      BY <1>1, <1>3, HeadFacts
    <2>2. s \in Sessions
      BY <1>2, <2>1 DEF IInv, TypeOK
    <2>3. ASSUME NEW v \in Workers, Accepting(v), Subject(v) = e
          PROVE  FALSE
      <3>1. v # w
        BY <1>3, <2>3 DEF Accepting
      <3>2. batch[v] # <<>> /\ Head(batch[v]) = <<"accept", e>>
        BY <2>3, AcceptingFacts
      <3>3. Head(batch[w]) = <<"accept", e>>
        BY <1>1, <1>3, HeadFacts
      <3>4. Head(batch[v]) \in Range(batch[v])
        BY <3>2, HeadFacts
      <3>5. Head(batch[w]) \notin Range(batch[v])
        BY <1>3, <3>1, HeadFacts
      <3>. QED
        BY <3>2, <3>3, <3>4, <3>5
    <2>. QED
      BY <2>1, <2>2, <2>3
  <1>5. owner[s] = {} /\ s \notin sessions \cup managed
    BY <1>2, <1>4 DEF IInv, AcceptInv
  <1>6. /\ useRIO' = useRIO /\ accepted' = accepted /\ owner' = owner
        /\ kernel' = kernel /\ port' = port /\ cq' = cq /\ armed' = armed
        /\ batch' = batch
    BY DEF ProcessAccept, kernelVars
  <1>7. /\ pc' \in [Workers -> Labels] /\ Accepting(w)'
        /\ \A v \in Workers \ {w} : pc'[v] = pc[v]
    BY <1>3 DEF ProcessAccept, Goto, Accepting
  <1>8. /\ connected' \subseteq connected \cup {s}
        /\ \/ connected' = connected /\ sessions' = sessions /\ managed' = managed
           \/ sessions' = sessions \cup {s} /\ managed' = managed \cup {s}
    BY <1>1, <1>2 DEF ProcessAccept
  <1>9. TypeOK'
    BY <1>4, <1>6, <1>7, <1>8 DEF IInv, TypeOK
  <1>10. OnePlace' /\ CompletionsKeepSession'
    BY <1>6 DEF IInv, OnePlace, Queued, CompletionsKeepSession
  <1>11. NotifyOnce'
    <2>1. \A v \in Workers : pc'[v] = "dequeue" => pc[v] = "dequeue"
      BY <1>7 DEF Accepting
    <2>. QED
      BY <1>6, <2>1, NotifyKept DEF IInv
  <1>12. LocalInv'
    <2>1. \A v \in Workers \ {w} :
              pc[v] = "registerRecv" =>
                  "recv" \notin owner'[accepted'[Subject(v)]]
      BY <1>6 DEF IInv, LocalInv
    <2>2. "recv" \notin owner'[accepted'[Subject(w)']]
      BY <1>1, <1>2, <1>5, <1>6 DEF Subject
    <2>. QED
      BY <1>3, <1>6, <1>7, <2>1, <2>2, LocalKept DEF IInv, Accepting
  <1>13. AcceptInv'
    <2> SUFFICES ASSUME NEW f \in AcceptEvents,
                        ~\E v \in Workers : Accepting(v)' /\ Subject(v)' = f
                 PROVE  owner[accepted[f]] = {} /\ accepted[f] \notin sessions' \cup managed'
      BY <1>6 DEF IInv, AcceptInv
    <2>1. f # e
      BY <1>1, <1>6, <1>7 DEF Subject
    <2>2. ~\E v \in Workers : Accepting(v) /\ Subject(v) = f
      BY <1>3, <1>6, <1>7 DEF Accepting, Subject
    <2>3. owner[accepted[f]] = {} /\ accepted[f] \notin sessions \cup managed
      BY <2>2 DEF IInv, AcceptInv
    <2>4. accepted[f] # s
      BY <1>2, <1>4, <2>1 DEF IInv, AcceptInv, IsInjective, TypeOK
    <2>. QED
      BY <1>8, <2>3, <2>4
  <1>14. DisconnectInv'
    BY <1>5, <1>6, <1>8 DEF IInv, DisconnectInv
  <1>. QED
    BY <1>9, <1>10, <1>11, <1>12, <1>13, <1>14 DEF IInv

LEMMA RegisterRecvKeeps ==
    ASSUME IInv, NEW w \in Workers, RegisterRecv(w)
    PROVE  IInv'
  <1> DEFINE Labels == {"wait", "dequeue", "dispatch",
                        "registerRecv", "registerAccept"}
  <1>1. PICK s : s = accepted[Subject(w)]
    OBVIOUS
  <1>2. /\ pc[w] = "registerRecv" /\ Accepting(w) /\ pc \in [Workers -> Labels]
        /\ "recv" \notin owner[s]
    BY <1>1 DEF IInv, TypeOK, LocalInv, RegisterRecv, Goto, Accepting
  <1>3. s \in Sessions
    BY <1>1, <1>2, AcceptingFacts DEF IInv, TypeOK
  <1>4. /\ useRIO' = useRIO /\ accepted' = accepted
        /\ sessions' = sessions /\ managed' = managed
        /\ port' = port /\ cq' = cq /\ armed' = armed /\ batch' = batch
    BY DEF RegisterRecv
  <1>5. /\ pc' \in [Workers -> Labels] /\ pc'[w] = "registerAccept"
        /\ \A v \in Workers \ {w} : pc'[v] = pc[v]
    BY <1>2 DEF RegisterRecv, Goto
  <1>6. owner[s] \in SUBSET Kinds
    BY <1>3 DEF IInv, TypeOK
  <1>7. Effect(s, "recv", owner[s])
    <2>1. Register(s, "recv", owner[s])
      BY <1>1 DEF RegisterRecv
    <2>. QED
      BY <1>3, <1>6, <2>1, RegisterEffect DEF Kinds
  <1>8. /\ <<"recv", s>> \notin Queued
        /\ \A v \in Workers : <<"recv", s>> \notin Range(batch[v])
    BY <1>2, <1>3 DEF IInv, CompletionsKeepSession, Queued, Kinds
  <1>9. SessionStep(s, "recv", owner[s])
    BY <1>4, <1>5, <1>7, <1>8 DEF SessionStep, IInv, OnePlace, TypeOK
  <1>10. /\ TypeOK' /\ OnePlace' /\ DisconnectInv' /\ CompletionsKeepSession'
         /\ \A u \in Sessions : u # s => owner'[u] = owner[u]
    BY <1>3, <1>6, <1>9, SessionStepKeeps
  <1>11. NotifyOnce'
    BY <1>4, <1>5, NotifyKept DEF IInv
  <1>12. LocalInv'
    <2>1. ASSUME NEW v \in Workers \ {w}, pc[v] = "registerRecv"
          PROVE  "recv" \notin owner'[accepted'[Subject(v)]]
      <3>1. "recv" \notin owner[accepted[Subject(v)]]
        BY <2>1 DEF IInv, LocalInv
      <3>2. Subject(v) \in AcceptEvents /\ Subject(w) \in AcceptEvents
        BY <1>2, <2>1, AcceptingFacts DEF Accepting
      <3>3. Subject(v) # Subject(w)
        BY <1>2, <2>1, AcceptingFacts DEF Accepting
      <3>4. accepted[Subject(v)] # s /\ accepted[Subject(v)] \in Sessions
        BY <1>1, <3>2, <3>3 DEF IInv, AcceptInv, IsInjective, TypeOK
      <3>. QED
        BY <1>4, <1>10, <3>1, <3>4
    <2>2. batch[w] # <<>> /\ Head(batch[w])[1] = "accept"
      BY <1>2, AcceptingFacts
    <2>. QED
      BY <1>4, <1>5, <2>1, <2>2, LocalKept DEF IInv
  <1>13. AcceptInv'
    <2>1. \A v \in Workers : Accepting(v) =>
              /\ Accepting(v)' /\ Subject(v)' = Subject(v)
              /\ Subject(v) \in AcceptEvents
      BY <1>4, <1>5, AcceptingFacts DEF Accepting, Subject
    <2>2. \A u \in Sessions :
              \/ owner'[u] \subseteq owner[u]
              \/ \E v \in Workers : Accepting(v) /\ u = accepted[Subject(v)]
      BY <1>1, <1>2, <1>10
    <2>. QED
      BY <1>4, <2>1, <2>2, AcceptKept DEF IInv, TypeOK
  <1>. QED
    BY <1>10, <1>11, <1>12, <1>13 DEF IInv

LEMMA RegisterAcceptKeeps ==
    ASSUME IInv, NEW w \in Workers, RegisterAccept(w)
    PROVE  IInv'
  <1>1. PICK e : e = Subject(w)
    OBVIOUS
  <1>2. PICK s \in Fresh : accepted' = [accepted EXCEPT ![e] = s]
    BY <1>1 DEF RegisterAccept
  <1>3. /\ s \in Sessions /\ s \notin Range(accepted)
        /\ s \notin sessions \cup managed /\ owner[s] = {}
    BY <1>2 DEF Fresh, Alive
  <1>4. /\ pc[w] = "registerAccept" /\ Accepting(w)
        /\ Dispatched(w, "registerAccept")
    BY DEF RegisterAccept, Dispatched, Goto, Accepting
  <1>5. /\ batch[w] # <<>>
        /\ e \in AcceptEvents /\ Head(batch[w]) = <<"accept", e>>
        /\ \A v \in Workers : Accepting(v) /\ Subject(v) = e => v = w
    BY <1>1, <1>4, AcceptingFacts
  <1>6. /\ Head(batch[w]) \notin Queued
        /\ \A v \in Workers \ {w} : Head(batch[w]) \notin Range(batch[v])
    BY <1>5, HeadFacts
  <1>7. /\ pc' \in [Workers -> {"wait", "dequeue", "dispatch",
                                "registerRecv", "registerAccept"}]
        /\ batch' \in [Workers -> Seq(Requests)]
        /\ \A v \in Workers \ {w} : pc'[v] = pc[v] /\ batch'[v] = batch[v]
        /\ pc'[w] \in {"wait", "dispatch"}
        /\ pc'[w] = "wait" <=> batch'[w] = <<>>
        /\ IsInjective(batch'[w])
        /\ Range(batch'[w]) \subseteq Range(batch[w]) \ {Head(batch[w])}
    BY <1>4, DispatchedFacts
  <1>8. /\ useRIO' = useRIO /\ connected' = connected /\ owner' = owner
        /\ sessions' = sessions /\ managed' = managed
        /\ port' = port /\ cq' = cq /\ armed' = armed
        /\ kernel' = kernel \cup {<<"accept", e>>}
    BY <1>1 DEF RegisterAccept
  <1>9. /\ accepted \in [AcceptEvents -> Sessions] /\ IsInjective(accepted)
        /\ accepted' \in [AcceptEvents -> Sessions] /\ accepted'[e] = s
        /\ \A f \in AcceptEvents \ {e} : accepted'[f] = accepted[f]
    BY <1>2, <1>3, <1>5 DEF IInv, TypeOK, AcceptInv
  <1>10. TypeOK'
    <2>1. kernel' \subseteq Requests
      BY <1>5, <1>8 DEF IInv, TypeOK, Requests
    <2>2. kernel' \cap (Range(port) \cup Range(cq)) = {}
      BY <1>5, <1>6, <1>8 DEF IInv, TypeOK, Queued
    <2>. QED
      BY <1>7, <1>8, <1>9, <2>1, <2>2 DEF IInv, TypeOK
  <1>11. OnePlace'
    <2>1. \A v \in Workers : /\ Range(batch'[v]) \subseteq Range(batch[v])
                             /\ <<"accept", e>> \notin Range(batch'[v])
                             /\ IsInjective(batch'[v])
      BY <1>5, <1>6, <1>7 DEF IInv, OnePlace
    <2>2. Queued' = Queued \cup {<<"accept", e>>}
      BY <1>8 DEF Queued
    <2>. QED
      BY <2>1, <2>2 DEF IInv, OnePlace
  <1>12. NotifyOnce'
    <2>1. \A v \in Workers : pc'[v] = "dequeue" => pc[v] = "dequeue"
      BY <1>7
    <2>. QED
      BY <1>8, <2>1, NotifyKept DEF IInv
  <1>13. LocalInv'
    <2>1. ASSUME NEW v \in Workers \ {w}, pc[v] = "registerRecv"
          PROVE  "recv" \notin owner'[accepted'[Subject(v)]]
      <3>1. Subject(v) \in AcceptEvents \ {e}
        BY <1>5, <2>1, AcceptingFacts DEF Accepting
      <3>. QED
        BY <1>8, <1>9, <2>1, <3>1 DEF IInv, LocalInv
    <2>2. ~Accepting(w)'
      BY <1>7 DEF Accepting
    <2>. QED
      BY <1>7, <2>1, <2>2, LocalKept DEF IInv, Accepting
  <1>14. AcceptInv'
    <2>1. IsInjective(accepted')
      BY <1>3, <1>9 DEF IsInjective, Range
    <2>2. ASSUME NEW f \in AcceptEvents,
                 ~\E v \in Workers : Accepting(v)' /\ Subject(v)' = f
          PROVE  /\ owner[accepted'[f]] = {}
                 /\ accepted'[f] \notin sessions \cup managed
      <3>1. CASE f = e
        BY <1>3, <1>9, <3>1
      <3>2. CASE f # e
        <4>1. ~\E v \in Workers : Accepting(v) /\ Subject(v) = f
          BY <1>1, <1>7, <2>2, <3>2 DEF Accepting, Subject
        <4>. QED
          BY <1>9, <3>2, <4>1 DEF IInv, AcceptInv
      <3>. QED
        BY <3>1, <3>2
    <2>. QED
      BY <1>8, <2>1, <2>2 DEF AcceptInv
  <1>15. DisconnectInv'
    BY <1>8 DEF IInv, DisconnectInv
  <1>16. CompletionsKeepSession'
    <2>1. \A k \in Kinds, u \in Sessions : <<k, u>> # <<"accept", e>>
      BY DEF Kinds
    <2>2. \A v \in Workers : Range(batch'[v]) \subseteq Range(batch[v])
      BY <1>7
    <2>. QED
      BY <1>8, <2>1, <2>2 DEF IInv, CompletionsKeepSession
  <1>. QED
    BY <1>10, <1>11, <1>12, <1>13, <1>14, <1>15, <1>16 DEF IInv

LEMMA ProcessRecvKeeps ==
    ASSUME IInv, NEW w \in Workers, ProcessRecv(w)
    PROVE  IInv'
  <1>1. PICK s : s = Subject(w)
    OBVIOUS
  <1>2. PICK o : o = owner[s] \ {"recv"}
    OBVIOUS
  <1>3. /\ Dispatches(w, "recv") /\ Dispatched(w, "dispatch")
        /\ Disconnect(s, o) \/ Register(s, "recv", o)
        /\ UNCHANGED <<useRIO, accepted, sessions, managed, port, cq, armed>>
    BY <1>1, <1>2 DEF ProcessRecv
  <1>4. s \in Sessions
    <2>1. batch[w] # <<>> /\ Head(batch[w])[1] # "accept"
      BY <1>3, DispatchedFacts DEF Dispatches
    <2>. QED
      BY <1>1, <2>1, HeadFacts
  <1>5. o \in SUBSET Kinds /\ "recv" \in Kinds
    BY <1>2, <1>4 DEF IInv, TypeOK, Kinds
  <1>6. Effect(s, "recv", o)
    BY <1>3, <1>4, <1>5, DisconnectEffect, RegisterEffect
  <1>. QED
    BY <1>1, <1>2, <1>3, <1>6, CompletionKeeps

LEMMA ProcessSendKeeps ==
    ASSUME IInv, NEW w \in Workers, ProcessSend(w)
    PROVE  IInv'
  <1>1. PICK s : s = Subject(w)
    OBVIOUS
  <1>2. PICK o : o = owner[s] \ {"send"}
    OBVIOUS
  <1>3. /\ Dispatches(w, "send") /\ Dispatched(w, "dispatch")
        /\ \/ Disconnect(s, o) \/ RegisterSend(s, o)
           \/ /\ owner' = [owner EXCEPT ![s] = o]
              /\ UNCHANGED <<connected, kernel, excused>>
        /\ UNCHANGED <<useRIO, accepted, sessions, managed, port, cq, armed>>
    BY <1>1, <1>2 DEF ProcessSend
  <1>4. s \in Sessions
    <2>1. batch[w] # <<>> /\ Head(batch[w])[1] # "accept"
      BY <1>3, DispatchedFacts DEF Dispatches
    <2>. QED
      BY <1>1, <2>1, HeadFacts
  <1>5. o \in SUBSET Kinds /\ "send" \in Kinds
    BY <1>2, <1>4 DEF IInv, TypeOK, Kinds
  <1>6. Effect(s, "send", o)
    <2>1. CASE Disconnect(s, o) \/ RegisterSend(s, o)
      BY <1>4, <1>5, <2>1, DisconnectEffect, RegisterSendEffect
    <2>2. CASE /\ owner' = [owner EXCEPT ![s] = o]
               /\ UNCHANGED <<connected, kernel, excused>>
      <3>1. kernel' = kernel \cup {<<j, s>> : j \in {}} /\ o \cup {} = o
        BY <2>2
      <3>. QED
        BY <2>2, <3>1 DEF Effect
    <2>. QED
      BY <1>3, <2>1, <2>2
  <1>. QED
    BY <1>1, <1>2, <1>3, <1>6, CompletionKeeps

LEMMA ProcessDisconnectKeeps ==
    ASSUME IInv, NEW w \in Workers, ProcessDisconnect(w)
    PROVE  IInv'
  <1>1. PICK s : s = Subject(w)
    OBVIOUS
  <1>2. /\ Dispatches(w, "disconnect") /\ Dispatched(w, "dispatch")
        /\ owner' = [owner EXCEPT ![s] = owner[s] \ {"disconnect"}]
        /\ managed' = managed \ {s} /\ sessions' = sessions \ {s}
        /\ useRIO' = useRIO /\ accepted' = accepted /\ connected' = connected
        /\ kernel' = kernel /\ port' = port /\ cq' = cq /\ armed' = armed
    BY <1>1 DEF ProcessDisconnect, kernelVars
  <1>3. /\ batch[w] # <<>> /\ pc[w] = "dispatch"
        /\ pc' \in [Workers -> {"wait", "dequeue", "dispatch",
                                "registerRecv", "registerAccept"}]
        /\ batch' \in [Workers -> Seq(Requests)]
        /\ \A v \in Workers \ {w} : pc'[v] = pc[v] /\ batch'[v] = batch[v]
        /\ pc'[w] \in {"wait", "dispatch"}
        /\ pc'[w] = "wait" <=> batch'[w] = <<>>
        /\ IsInjective(batch'[w])
        /\ Range(batch'[w]) \subseteq Range(batch[w]) \ {Head(batch[w])}
    BY <1>2, DispatchedFacts
  <1>4. /\ s \in Sessions /\ Head(batch[w]) = <<"disconnect", s>>
        /\ Head(batch[w]) \in Range(batch[w]) /\ Head(batch[w]) \notin Queued
        /\ \A v \in Workers \ {w} : Head(batch[w]) \notin Range(batch[v])
    BY <1>1, <1>2, <1>3, HeadFacts DEF Dispatches
  <1>5. "disconnect" \in owner[s] /\ s \notin connected
    BY <1>4 DEF IInv, CompletionsKeepSession, DisconnectInv, Kinds
  <1>6. /\ owner' \in [Sessions -> SUBSET Kinds]
        /\ \A u \in Sessions : owner'[u] \subseteq owner[u]
        /\ \A u \in Sessions : u # s => owner'[u] = owner[u]
        /\ owner'[s] = owner[s] \ {"disconnect"}
    BY <1>2, <1>4 DEF IInv, TypeOK
  <1>7. TypeOK'
    BY <1>2, <1>3, <1>5, <1>6 DEF IInv, TypeOK
  <1>8. \A v \in Workers : /\ Range(batch'[v]) \subseteq Range(batch[v])
                           /\ <<"disconnect", s>> \notin Range(batch'[v])
                           /\ IsInjective(batch'[v])
    BY <1>3, <1>4 DEF IInv, OnePlace
  <1>9. OnePlace'
    <2>1. Queued' = Queued
      BY <1>2 DEF Queued
    <2>. QED
      BY <1>8, <2>1 DEF IInv, OnePlace
  <1>10. NotifyOnce'
    <2>1. \A v \in Workers : pc'[v] = "dequeue" => pc[v] = "dequeue"
      BY <1>3
    <2>. QED
      BY <1>2, <2>1, NotifyKept DEF IInv
  <1>11. LocalInv'
    <2>1. ASSUME NEW v \in Workers \ {w}, pc[v] = "registerRecv"
          PROVE  "recv" \notin owner'[accepted'[Subject(v)]]
      <3>1. accepted[Subject(v)] \in Sessions
        BY <2>1, AcceptingFacts DEF Accepting, IInv, TypeOK
      <3>. QED
        BY <1>2, <1>6, <2>1, <3>1 DEF IInv, LocalInv
    <2>2. ~Accepting(w)'
      BY <1>3 DEF Accepting
    <2>. QED
      BY <1>3, <2>1, <2>2, LocalKept DEF IInv, Accepting
  <1>12. AcceptInv'
    <2>1. \A v \in Workers : Accepting(v) =>
              /\ Accepting(v)' /\ Subject(v)' = Subject(v)
              /\ Subject(v) \in AcceptEvents
      BY <1>3, AcceptingFacts DEF Accepting, Subject
    <2>. QED
      BY <1>2, <1>6, <2>1, AcceptKept DEF IInv, TypeOK
  <1>13. DisconnectInv'
    BY <1>2, <1>5, <1>6 DEF IInv, DisconnectInv, TypeOK
  <1>14. CompletionsKeepSession'
    <2> SUFFICES ASSUME NEW k \in Kinds, NEW u \in Sessions,
                        \/ <<k, u>> \in kernel \cup Range(port) \cup Range(cq)
                        \/ \E v \in Workers : <<k, u>> \in Range(batch'[v])
                 PROVE  k \in owner'[u]
      BY <1>2 DEF CompletionsKeepSession
    <2>1. k \in owner[u]
      BY <1>8 DEF IInv, CompletionsKeepSession
    <2>2. ~(k = "disconnect" /\ u = s)
      BY <1>4, <1>8 DEF Queued
    <2>. QED
      BY <1>6, <2>1, <2>2
  <1>. QED
    BY <1>7, <1>9, <1>10, <1>11, <1>12, <1>13, <1>14 DEF IInv

LEMMA NextInv == IInv /\ [Next]_vars => IInv'
  <1> SUFFICES ASSUME IInv, [Next]_vars PROVE IInv'
    OBVIOUS
  <1>1. CASE UNCHANGED vars
    BY <1>1 DEF vars, kernelVars, workerVars, IInv, TypeOK, OnePlace, Queued,
                NotifyOnce, LocalInv, AcceptInv, DisconnectInv, Accepting,
                Subject, CompletionsKeepSession
  <1>2. ASSUME NEW w \in Workers, Work(w)
        PROVE  IInv'
    BY <1>2, GetQueuedKeeps, DequeueKeeps, ProcessAcceptKeeps,
       RegisterRecvKeeps, RegisterAcceptKeeps, ProcessRecvKeeps,
       ProcessSendKeeps, ProcessDisconnectKeeps DEF Work
  <1>3. ASSUME NEW w \in Workers, Timeout(w)
        PROVE  IInv'
    BY <1>1, <1>3 DEF Timeout
  <1>4. ASSUME NEW r \in Requests, Complete(r)
        PROVE  IInv'
    BY <1>4, CompleteKeeps
  <1>5. ASSUME NEW s \in Sessions, Send(s)
        PROVE  IInv'
    BY <1>5, SendKeeps
  <1>. QED
    BY <1>1, <1>2, <1>3, <1>4, <1>5 DEF Next

LEMMA Invariance == Spec => []IInv
  BY InitInv, NextInv, PTL DEF Spec

-----------------------------------------------------------------------------
\* A request or a notification is in one place only, whichever way it takes
\* from the kernel to a worker.
THEOREM TypeCorrect == Spec => []TypeOK
  <1>1. IInv => TypeOK
    BY DEF IInv
  <1>. QED
    BY <1>1, Invariance, PTL

\* Every completion finds its session alive: no session is destroyed while a
\* request of it is under way (Service.cpp, Session.cpp: the owners of events).
THEOREM SessionsOutliveRequests == Spec => []CompletionsKeepSession
  <1>1. IInv => CompletionsKeepSession
    BY DEF IInv
  <1>. QED
    BY <1>1, Invariance, PTL
=============================================================================
