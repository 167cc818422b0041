---------------------------- MODULE PacketsProofs ----------------------------
(***************************************************************************)
(* Theorems about Packets, for any numbers of threads, chunks and packets  *)
(* and any sizes.  What a thread has written into a SendBuffer stays there *)
(* until its last shared_ptr goes, and what the other side handles are the *)
(* packets that were sent, whole and in order, however the stream is cut   *)
(* into receives.  The first half of the module is about the sender        *)
(* (IInv), the second about the RecvBuffer, OnRecv, and the stream between *)
(* the two (SInv).                                                         *)
(***************************************************************************)
EXTENDS Packets, TLAPS, SequenceTheorems, FiniteSetTheorems,
        WellFoundedInduction

Live(b) == buffer[b].owner # NoChunk
Filling(t) == making[t] # NoPacket /\ ~made[t]
Underway == Range(sendQueue) \cup Range(inFlight)
Mine == Range(LSendBufferChunk) \ {NoChunk}

SenderTypeOK ==
    /\ LSendBufferChunk \in [Threads -> Chunks \cup {NoChunk}]
    /\ sendBufferChunks \in Seq(Chunks)
    /\ returning \subseteq Chunks
    /\ chunk \in [Chunks -> [bytes : [0..(SEND_BUFFER_CHUNK_SIZE - 1)
                                        -> (Packets \X Nat) \cup {NoByte}],
                             open : BOOLEAN,
                             usedSize : 0..SEND_BUFFER_CHUNK_SIZE]]
    /\ buffer \in [Packets -> [owner : Chunks \cup {NoChunk}, at : Nat,
                               allocSize : Nat]]
    /\ making \in [Threads -> Packets \cup {NoPacket}]
    /\ made \in [Threads -> BOOLEAN]
    /\ sendQueue \in Seq(Packets) /\ inFlight \in Seq(Packets)

\* A SendBuffer that lives is with one thread, or under way; and once only.
OneHolder ==
    /\ \A t \in Threads :
           /\ made[t] => making[t] # NoPacket
           /\ making[t] \notin Underway
           /\ \A u \in Threads :
                  making[t] = making[u] /\ making[t] # NoPacket => t = u
    /\ \A b \in Packets :
           /\ Live(b) <=> b \in Underway \/ \E t \in Threads : making[t] = b
           /\ Live(b) => b \in used /\ buffer[b].allocSize = Size[b]
    /\ Range(sendQueue) \cap Range(inFlight) = {}

\* A chunk is with one thread at most, or in the pool, or on its way there; a
\* SendBuffer that lives keeps it out of the pool.
ChunksApart ==
    /\ \A t, u \in Threads :
           LSendBufferChunk[t] = LSendBufferChunk[u] => 
               t = u \/ LSendBufferChunk[t] = NoChunk
    /\ IsInjective(sendBufferChunks)
    /\ Range(sendBufferChunks) \cap returning = {}
    /\ Owned(LSendBufferChunk, buffer)
           \cap (Range(sendBufferChunks) \cup returning) = {}

\* The SendBuffer a thread fills is at the end of what its chunk has given out.
FillingAtEnd ==
    \A t \in Threads : Filling(t) =>
        LET b == making[t]
            c == buffer[b].owner
        IN /\ c = LSendBufferChunk[t] /\ c # NoChunk
           /\ buffer[b].at = chunk[c].usedSize
           /\ buffer[b].at + Size[b] <= SEND_BUFFER_CHUNK_SIZE

\* A chunk is open while its thread fills a SendBuffer of it.
OpenInv ==
    \A c \in Chunks :
        chunk[c].open <=> \E t \in Threads : LSendBufferChunk[t] = c /\ Filling(t)

\* Every SendBuffer that was filled lies below the end of its chunk, and holds
\* the bytes of its packet.
BuffersIntact ==
    \A b \in Packets :
        Live(b) /\ (\A t \in Threads : making[t] = b => made[t]) =>
            /\ buffer[b].at + Size[b] <= chunk[buffer[b].owner].usedSize
            /\ Bytes(b) = PacketBytes(b)

IInv == /\ SenderTypeOK
        /\ OneHolder
        /\ ChunksApart
        /\ FillingAtEnd
        /\ OpenInv
        /\ BuffersIntact

-----------------------------------------------------------------------------
(* Sequences *)

LEMMA RangeFacts ==
    ASSUME NEW S, NEW s \in Seq(S)
    PROVE  Range(s) \subseteq S
  BY DEF Range

LEMMA AppendFacts ==
    ASSUME NEW S, NEW s \in Seq(S), NEW x \in S
    PROVE  /\ Append(s, x) \in Seq(S)
           /\ Range(Append(s, x)) = Range(s) \cup {x}
           /\ IsInjective(s) /\ x \notin Range(s) => IsInjective(Append(s, x))
  <1>1. /\ Len(s) \in Nat
        /\ DOMAIN s = 1..Len(s)
        /\ Append(s, x) \in Seq(S)
        /\ DOMAIN Append(s, x) = 1..(Len(s) + 1)
        /\ \A i \in 1..Len(s) : Append(s, x)[i] = s[i]
        /\ Append(s, x)[Len(s) + 1] = x
    OBVIOUS
  <1>2. Range(Append(s, x)) = Range(s) \cup {x}
    <2>1. \A i \in 1..(Len(s) + 1) : i \in 1..Len(s) \/ i = Len(s) + 1
      BY <1>1
    <2>. QED
      BY <1>1, <2>1 DEF Range
  <1>3. IsInjective(s) /\ x \notin Range(s) => IsInjective(Append(s, x))
    BY <1>1 DEF Range, IsInjective
  <1>. QED
    BY <1>1, <1>2, <1>3

LEMMA FrontFacts ==
    ASSUME NEW S, NEW s \in Seq(S), s # <<>>
    PROVE  /\ Last(s) \in S /\ Last(s) \in Range(s)
           /\ Front(s) \in Seq(S)
           /\ Range(Front(s)) \subseteq Range(s)
           /\ IsInjective(s) => /\ IsInjective(Front(s))
                                /\ Last(s) \notin Range(Front(s))
  <1>1. Len(s) \in Nat \ {0} /\ DOMAIN s = 1..Len(s) /\ \A i \in 1..Len(s) : s[i] \in S
    BY EmptySeq, LenProperties
  <1>2. /\ Front(s) \in Seq(S)
        /\ DOMAIN Front(s) = 1..(Len(s) - 1)
        /\ \A i \in 1..(Len(s) - 1) : Front(s)[i] = s[i]
    <2>1. \A i \in 1..(Len(s) - 1) : s[i] \in S
      BY <1>1
    <2>2. /\ Front(s) \in Seq(S)
          /\ Len(Front(s)) = IF 1 <= Len(s) - 1 THEN Len(s) - 1 - 1 + 1 ELSE 0
          /\ \A i \in 1..(Len(s) - 1 - 1 + 1) : Front(s)[i] = s[1 + i - 1]
      BY <1>1, <2>1, SubSeqProperties DEF Front
    <2>3. Len(Front(s)) = Len(s) - 1
      <3>1. CASE Len(s) = 1
        BY <2>2, <3>1
      <3>2. CASE Len(s) # 1
        <4>1. 1 <= Len(s) - 1 /\ Len(s) - 1 - 1 + 1 = Len(s) - 1
          BY <1>1, <3>2
        <4>. QED
          BY <2>2, <4>1
      <3>. QED
        BY <3>1, <3>2
    <2>4. ASSUME NEW i \in 1..(Len(s) - 1)
          PROVE  Front(s)[i] = s[i]
      <3>1. i \in 1..(Len(s) - 1 - 1 + 1) /\ 1 + i - 1 = i
        BY <1>1
      <3>. QED
        BY <2>2, <3>1
    <2>. QED
      BY <2>2, <2>3, <2>4, LenProperties
  <1>3. Last(s) = s[Len(s)] /\ Len(s) \in 1..Len(s)
    BY <1>1 DEF Last
  <1>4. \A i \in 1..(Len(s) - 1) : i \in 1..Len(s) /\ i # Len(s)
    <2>1. \A m \in Nat \ {0} : \A i \in 1..(m - 1) : i \in 1..m /\ i # m
      OBVIOUS
    <2>. QED
      BY <1>1, <2>1
  <1>5. Range(Front(s)) \subseteq Range(s) /\ Last(s) \in Range(s) /\ Last(s) \in S
    BY <1>1, <1>2, <1>3, <1>4 DEF Range
  <1>6. ASSUME IsInjective(s)
        PROVE  IsInjective(Front(s)) /\ Last(s) \notin Range(Front(s))
    <2>1. \A i, j \in 1..Len(s) : s[i] = s[j] => i = j
      BY <1>1, <1>6 DEF IsInjective
    <2>. QED
      BY <1>2, <1>3, <1>4, <2>1 DEF IsInjective, Range
  <1>. QED
    BY <1>2, <1>5, <1>6

-----------------------------------------------------------------------------
(* Chunks *)

LEMMA OwnedFacts ==
    ASSUME NEW l \in [Threads -> Chunks \cup {NoChunk}], NEW b,
           \A p \in Packets : b[p].owner \in Chunks \cup {NoChunk}
    PROVE  /\ Owned(l, b) \subseteq Chunks
           /\ \A c : c \in Owned(l, b) <=>
                  /\ c # NoChunk
                  /\ (\E t \in Threads : l[t] = c) \/ (\E p \in Packets : b[p].owner = c)
  BY DEF Owned, Range, Packets

\* What Pop gives is nobody's.
LEMMA PopFacts ==
    ASSUME SenderTypeOK, ChunksApart, NEW c \in Chunks, Pop(c)
    PROVE  /\ c \notin Owned(LSendBufferChunk, buffer)
           /\ c \notin returning /\ c \notin Range(sendBufferChunks')
           /\ sendBufferChunks' \in Seq(Chunks) /\ IsInjective(sendBufferChunks')
           /\ Range(sendBufferChunks') \subseteq Range(sendBufferChunks)
  <1>1. sendBufferChunks \in Seq(Chunks)
    BY DEF SenderTypeOK
  <1>2. CASE sendBufferChunks # <<>>
    <2>1. c = Last(sendBufferChunks) /\ sendBufferChunks' = Front(sendBufferChunks)
      BY <1>2 DEF Pop
    <2>2. /\ c \in Range(sendBufferChunks) /\ sendBufferChunks' \in Seq(Chunks)
          /\ Range(sendBufferChunks') \subseteq Range(sendBufferChunks)
          /\ IsInjective(sendBufferChunks') /\ c \notin Range(sendBufferChunks')
      BY <1>1, <1>2, <2>1, FrontFacts DEF ChunksApart
    <2>. QED
      BY <2>2 DEF ChunksApart
  <1>3. CASE sendBufferChunks = <<>>
    <2>1. /\ c \notin returning \cup Owned(LSendBufferChunk, buffer)
          /\ sendBufferChunks' = sendBufferChunks
      BY <1>3 DEF Pop
    <2>2. Range(sendBufferChunks) = {}
      BY <1>3 DEF Range
    <2>. QED
      BY <1>1, <2>1, <2>2 DEF ChunksApart
  <1>. QED
    BY <1>2, <1>3

\* Whatever becomes unowned is on its way to the pool.
LEMMA ReturnFacts ==
    ASSUME SenderTypeOK, ChunksApart, Return,
           NEW N, N \cap returning = {}, N \cap Range(sendBufferChunks') = {},
           Owned(LSendBufferChunk', buffer')
               \subseteq Owned(LSendBufferChunk, buffer) \cup N,
           Range(sendBufferChunks') \subseteq Range(sendBufferChunks)
    PROVE  /\ returning' \subseteq Chunks
           /\ Range(sendBufferChunks') \cap returning' = {}
           /\ Owned(LSendBufferChunk', buffer')
                  \cap (Range(sendBufferChunks') \cup returning') = {}
  <1>1. Owned(LSendBufferChunk, buffer) \subseteq Chunks
    BY OwnedFacts DEF SenderTypeOK
  <1>. QED
    BY <1>1 DEF Return, ChunksApart, SenderTypeOK

\* The last shared_ptrs to bs go.
LEMMA ReleaseFacts ==
    ASSUME SenderTypeOK, ChunksApart, NEW bs, Release(bs)
    PROVE  /\ buffer' \in [Packets -> [owner : Chunks \cup {NoChunk}, at : Nat,
                                       allocSize : Nat]]
           /\ \A b \in Packets : /\ b \in bs => buffer'[b].owner = NoChunk
                                 /\ b \notin bs => buffer'[b] = buffer[b]
           /\ LSendBufferChunk' = LSendBufferChunk
           /\ sendBufferChunks' = sendBufferChunks /\ chunk' = chunk
           /\ returning' \subseteq Chunks
           /\ ChunksApart'
  <1>1. /\ buffer' = [b \in Packets |-> IF b \in bs THEN NoBuffer ELSE buffer[b]]
        /\ LSendBufferChunk' = LSendBufferChunk
        /\ sendBufferChunks' = sendBufferChunks /\ chunk' = chunk /\ Return
    BY DEF Release, Packets
  <1>2. /\ buffer' \in [Packets -> [owner : Chunks \cup {NoChunk}, at : Nat,
                                    allocSize : Nat]]
        /\ \A b \in Packets : /\ b \in bs => buffer'[b].owner = NoChunk
                              /\ b \notin bs => buffer'[b] = buffer[b]
    BY <1>1 DEF SenderTypeOK, NoBuffer
  <1>3. Owned(LSendBufferChunk', buffer') \subseteq Owned(LSendBufferChunk, buffer)
    <2> PICK l, b2 : l = LSendBufferChunk' /\ b2 = buffer'
      OBVIOUS
    <2>0. /\ l \in [Threads -> Chunks \cup {NoChunk}]
          /\ \A p \in Packets : b2[p].owner \in Chunks \cup {NoChunk}
      BY <1>1, <1>2 DEF SenderTypeOK
    <2>1. ASSUME NEW c \in Owned(LSendBufferChunk', buffer')
          PROVE  c \in Owned(LSendBufferChunk, buffer)
      <3>1. /\ c # NoChunk
            /\ \/ \E t \in Threads : LSendBufferChunk[t] = c
               \/ \E p \in Packets : buffer'[p].owner = c
        <4>1. c \in Owned(l, b2)
          BY <2>1
        <4>2. /\ c # NoChunk
              /\ (\E t \in Threads : l[t] = c) \/ (\E p \in Packets : b2[p].owner = c)
          BY <2>0, <4>1, OwnedFacts
        <4>. QED
          BY <1>1, <4>2
      <3>2. \/ \E t \in Threads : LSendBufferChunk[t] = c
            \/ \E p \in Packets : buffer[p].owner = c
        BY <1>2, <3>1
      <3>. QED
        BY <3>1, <3>2, OwnedFacts DEF SenderTypeOK
    <2>. QED
      BY <2>1
  <1>4. /\ returning' \subseteq Chunks
        /\ Range(sendBufferChunks') \cap returning' = {}
        /\ Owned(LSendBufferChunk', buffer')
               \cap (Range(sendBufferChunks') \cup returning') = {}
    <2>1. /\ {} \cap returning = {} /\ {} \cap Range(sendBufferChunks') = {}
          /\ Owned(LSendBufferChunk', buffer')
                 \subseteq Owned(LSendBufferChunk, buffer) \cup {}
          /\ Range(sendBufferChunks') \subseteq Range(sendBufferChunks)
      BY <1>1, <1>3
    <2>. QED
      BY <1>1, <2>1, ReturnFacts
  <1>. QED
    BY <1>1, <1>2, <1>4 DEF ChunksApart

-----------------------------------------------------------------------------
(* The steps *)

LEMMA SizeFacts ==
    /\ SEND_BUFFER_CHUNK_SIZE \in Nat /\ NoChunk \notin Chunks
    /\ NoPacket \notin Packets
    /\ \A p \in Packets : Size[p] \in Nat \ {0} /\ Size[p] <= SEND_BUFFER_CHUNK_SIZE
  BY SendBufferAssumption, PacketsAssumption DEF NoPacket

LEMMA InitInv == Init => IInv
  <1> SUFFICES ASSUME Init PROVE IInv
    OBVIOUS
  <1>1. Range(<<>>) = {} /\ IsInjective(<<>>)
    BY DEF Range, IsInjective
  <1>2. SenderTypeOK
    BY SizeFacts DEF Init, SendBufferInit, SenderTypeOK, NoBuffer, Packets
  <1>3. \A b \in Packets : ~Live(b)
    BY DEF Init, SendBufferInit, Live, NoBuffer, Packets
  <1>4. OneHolder
    BY <1>1, <1>3, SizeFacts DEF Init, OneHolder, Underway
  <1>5. ChunksApart
    <2>1. Owned(LSendBufferChunk, buffer) = {}
      BY DEF Init, SendBufferInit, Owned, Range, NoBuffer, Packets
    <2>. QED
      BY <1>1, <2>1 DEF Init, SendBufferInit, ChunksApart
  <1>6. FillingAtEnd /\ OpenInv
    BY DEF Init, SendBufferInit, FillingAtEnd, OpenInv, Filling
  <1>7. BuffersIntact
    BY <1>3 DEF BuffersIntact
  <1>. QED
    BY <1>2, <1>4, <1>5, <1>6, <1>7 DEF IInv

\* What OpenHere and OpenAnother have in common: the SendBuffer p is cut off
\* the end of the chunk c, which is t's.
OpenEffect(t, p, c) ==
    /\ LSendBufferChunk' = [LSendBufferChunk EXCEPT ![t] = c]
    /\ chunk' = [chunk EXCEPT ![c] = [@ EXCEPT !.open = TRUE,
                                               !.usedSize = chunk'[c].usedSize]]
    /\ chunk'[c].usedSize \in 0..SEND_BUFFER_CHUNK_SIZE
    /\ chunk'[c].usedSize + Size[p] <= SEND_BUFFER_CHUNK_SIZE
    /\ \A b \in Packets :
           buffer[b].owner = c => chunk'[c].usedSize = chunk[c].usedSize
    /\ buffer' = [buffer EXCEPT ![p] =
                     [owner |-> c, at |-> chunk'[c].usedSize,
                      allocSize |-> Size[p]]]
    /\ sendBufferChunks' \in Seq(Chunks) /\ returning' \subseteq Chunks
    /\ ChunksApart'

LEMMA OpenHereEffect ==
    ASSUME IInv, NEW t \in Threads, NEW p \in Packets, ~Live(p),
           OpenHere(t, p, Size[p])
    PROVE  LSendBufferChunk[t] \in Chunks /\ OpenEffect(t, p, LSendBufferChunk[t])
  <1>1. PICK c : c = LSendBufferChunk[t]
    OBVIOUS
  <1>2. /\ c \in Chunks
        /\ chunk[c].usedSize + Size[p] <= SEND_BUFFER_CHUNK_SIZE
        /\ chunk' = [chunk EXCEPT ![c].open = TRUE]
        /\ buffer' = [buffer EXCEPT ![p] =
                         [owner |-> c, at |-> chunk[c].usedSize,
                          allocSize |-> Size[p]]]
        /\ LSendBufferChunk' = LSendBufferChunk
        /\ sendBufferChunks' = sendBufferChunks /\ returning' = returning
    <2>1. /\ c # NoChunk /\ FreeSize(c) >= Size[p]
          /\ chunk' = [chunk EXCEPT ![c].open = TRUE]
          /\ buffer' = [buffer EXCEPT ![p] =
                           [owner |-> c, at |-> chunk[c].usedSize,
                            allocSize |-> Size[p]]]
          /\ LSendBufferChunk' = LSendBufferChunk
          /\ sendBufferChunks' = sendBufferChunks /\ returning' = returning
      BY <1>1 DEF OpenHere
    <2>2. c \in Chunks
      BY <1>1, <2>1 DEF IInv, SenderTypeOK
    <2>3. chunk[c].usedSize \in Nat
      BY <2>2, SizeFacts DEF IInv, SenderTypeOK
    <2>. QED
      BY <2>1, <2>2, <2>3, SizeFacts DEF FreeSize
  <1>3. /\ chunk'[c].usedSize = chunk[c].usedSize
        /\ chunk[c].usedSize \in 0..SEND_BUFFER_CHUNK_SIZE
        /\ chunk' = [chunk EXCEPT ![c] = [@ EXCEPT !.open = TRUE,
                                                   !.usedSize = chunk[c].usedSize]]
    BY <1>2 DEF IInv, SenderTypeOK
  <1>4. LSendBufferChunk' = [LSendBufferChunk EXCEPT ![t] = c]
    BY <1>1, <1>2 DEF IInv, SenderTypeOK
  <1>5. Owned(LSendBufferChunk', buffer') = Owned(LSendBufferChunk, buffer)
    <2>1. PICK b2 : b2 = buffer'
      OBVIOUS
    <2>2. /\ \A q \in Packets : b2[q].owner \in Chunks \cup {NoChunk}
          /\ b2[p].owner = c /\ buffer[p].owner = NoChunk
          /\ \A q \in Packets \ {p} : b2[q].owner = buffer[q].owner
          /\ \A q \in Packets : buffer[q].owner \in Chunks \cup {NoChunk}
          /\ LSendBufferChunk \in [Threads -> Chunks \cup {NoChunk}]
      BY <1>2, <2>1 DEF IInv, SenderTypeOK, Live
    <2>3. \A d : d \in Owned(LSendBufferChunk, b2) <=>
                     d \in Owned(LSendBufferChunk, buffer)
      <3>1. \A d : d \in Owned(LSendBufferChunk, b2) <=>
                /\ d # NoChunk
                /\ \/ \E u \in Threads : LSendBufferChunk[u] = d
                   \/ \E q \in Packets : b2[q].owner = d
        BY <2>2, OwnedFacts
      <3>2. \A d : d \in Owned(LSendBufferChunk, buffer) <=>
                /\ d # NoChunk
                /\ \/ \E u \in Threads : LSendBufferChunk[u] = d
                   \/ \E q \in Packets : buffer[q].owner = d
        BY <2>2, OwnedFacts
      <3>. QED
        BY <1>1, <2>2, <3>1, <3>2
    <2>. QED
      BY <1>2, <2>1, <2>3
  <1>6. ChunksApart'
    BY <1>2, <1>5 DEF IInv, ChunksApart
  <1>. QED
    BY <1>1, <1>2, <1>3, <1>4, <1>6 DEF OpenEffect, IInv, SenderTypeOK

LEMMA OpenAnotherEffect ==
    ASSUME IInv, NEW t \in Threads, NEW p \in Packets, ~Live(p),
           OpenAnother(t, p, Size[p])
    PROVE  \E c \in Chunks : OpenEffect(t, p, c)
  <1>1. PICK c \in Chunks :
           /\ Pop(c)
           /\ LSendBufferChunk' = [LSendBufferChunk EXCEPT ![t] = c]
           /\ chunk' = [chunk EXCEPT ![c].open = TRUE, ![c].usedSize = 0]
           /\ buffer' = [buffer EXCEPT ![p] =
                            [owner |-> c, at |-> 0, allocSize |-> Size[p]]]
    BY DEF OpenAnother
  <1>2. /\ c \notin Owned(LSendBufferChunk, buffer)
        /\ c \notin returning /\ c \notin Range(sendBufferChunks')
        /\ sendBufferChunks' \in Seq(Chunks) /\ IsInjective(sendBufferChunks')
        /\ Range(sendBufferChunks') \subseteq Range(sendBufferChunks)
    BY <1>1, PopFacts DEF IInv
  <1>3. /\ \A q \in Packets : buffer[q].owner \in Chunks \cup {NoChunk}
        /\ LSendBufferChunk \in [Threads -> Chunks \cup {NoChunk}]
        /\ c # NoChunk
    BY SizeFacts DEF IInv, SenderTypeOK
  <1>4. /\ \A u \in Threads : LSendBufferChunk[u] # c
        /\ \A q \in Packets : buffer[q].owner # c
    BY <1>2, <1>3, OwnedFacts
  <1>5. /\ chunk'[c].usedSize = 0
        /\ chunk' = [chunk EXCEPT ![c] = [@ EXCEPT !.open = TRUE, !.usedSize = 0]]
    BY <1>1 DEF IInv, SenderTypeOK
  <1>6. Owned(LSendBufferChunk', buffer') \subseteq
            Owned(LSendBufferChunk, buffer) \cup {c}
    <2>1. PICK l, b2 : l = LSendBufferChunk' /\ b2 = buffer'
      OBVIOUS
    <2>2. /\ l \in [Threads -> Chunks \cup {NoChunk}]
          /\ \A q \in Packets : b2[q].owner \in Chunks \cup {NoChunk}
          /\ \A u \in Threads : l[u] = c \/ l[u] = LSendBufferChunk[u]
          /\ \A q \in Packets : b2[q].owner = c \/ b2[q].owner = buffer[q].owner
      BY <1>1, <1>3, <2>1 DEF IInv, SenderTypeOK
    <2>3. \A d : d \in Owned(l, b2) <=>
              /\ d # NoChunk
              /\ (\E u \in Threads : l[u] = d) \/ (\E q \in Packets : b2[q].owner = d)
      BY <2>2, OwnedFacts
    <2>4. \A d : d \in Owned(LSendBufferChunk, buffer) <=>
              /\ d # NoChunk
              /\ \/ \E u \in Threads : LSendBufferChunk[u] = d
                 \/ \E q \in Packets : buffer[q].owner = d
      BY <1>3, OwnedFacts
    <2>5. Owned(l, b2) \subseteq Owned(LSendBufferChunk, buffer) \cup {c}
      BY <2>2, <2>3, <2>4
    <2>. QED
      BY <2>1, <2>5
  <1>7. /\ returning' \subseteq Chunks
        /\ Range(sendBufferChunks') \cap returning' = {}
        /\ Owned(LSendBufferChunk', buffer')
               \cap (Range(sendBufferChunks') \cup returning') = {}
    <2>1. Return
      BY DEF OpenAnother
    <2>2. {c} \cap returning = {} /\ {c} \cap Range(sendBufferChunks') = {}
      BY <1>2
    <2>. QED
      BY <1>2, <1>6, <2>1, <2>2, ReturnFacts DEF IInv
  <1>8. \A u, v \in Threads :
            LSendBufferChunk'[u] = LSendBufferChunk'[v] =>
                u = v \/ LSendBufferChunk'[u] = NoChunk
    BY <1>1, <1>3, <1>4 DEF IInv, ChunksApart
  <1>9. ChunksApart'
    BY <1>2, <1>7, <1>8 DEF ChunksApart
  <1>10. /\ chunk'[c].usedSize \in 0..SEND_BUFFER_CHUNK_SIZE
         /\ chunk'[c].usedSize + Size[p] <= SEND_BUFFER_CHUNK_SIZE
    <2>1. /\ 0 \in 0..SEND_BUFFER_CHUNK_SIZE
          /\ 0 + Size[p] <= SEND_BUFFER_CHUNK_SIZE
      BY SizeFacts
    <2>. QED
      BY <1>5, <2>1
  <1>11. /\ chunk' = [chunk EXCEPT ![c] = [@ EXCEPT !.open = TRUE,
                                                    !.usedSize = chunk'[c].usedSize]]
         /\ buffer' = [buffer EXCEPT ![p] =
                          [owner |-> c, at |-> chunk'[c].usedSize,
                           allocSize |-> Size[p]]]
    BY <1>1, <1>5
  <1>. QED
    BY <1>1, <1>2, <1>4, <1>7, <1>9, <1>10, <1>11 DEF OpenEffect

LEMMA OpenKeeps ==
    ASSUME IInv, NEW t \in Threads, NEW p \in Packets, Open(t, p)
    PROVE  IInv'
  <1>1. /\ making[t] = NoPacket /\ p \notin used
        /\ OpenHere(t, p, Size[p]) \/ OpenAnother(t, p, Size[p])
        /\ making' = [making EXCEPT ![t] = p] /\ made' = made
        /\ used' = used \cup {p} /\ sendQueue' = sendQueue /\ inFlight' = inFlight
    BY DEF Open
  <1>2. /\ ~Live(p) /\ p \notin Underway /\ \A u \in Threads : making[u] # p
        /\ ~made[t]
    BY <1>1 DEF IInv, OneHolder
  <1>3. PICK c \in Chunks : OpenEffect(t, p, c)
    BY <1>1, <1>2, OpenHereEffect, OpenAnotherEffect
  <1>4. PICK n \in 0..SEND_BUFFER_CHUNK_SIZE :
           /\ n + Size[p] <= SEND_BUFFER_CHUNK_SIZE
           /\ LSendBufferChunk' = [LSendBufferChunk EXCEPT ![t] = c]
           /\ chunk' = [chunk EXCEPT ![c] = [@ EXCEPT !.open = TRUE, !.usedSize = n]]
           /\ \A b \in Packets : buffer[b].owner = c => n = chunk[c].usedSize
           /\ buffer' = [buffer EXCEPT ![p] =
                            [owner |-> c, at |-> n, allocSize |-> Size[p]]]
           /\ sendBufferChunks' \in Seq(Chunks) /\ returning' \subseteq Chunks
           /\ ChunksApart'
    BY <1>3 DEF OpenEffect
  <1>5. SenderTypeOK
    BY DEF IInv
  <1>6. n \in Nat /\ c # NoChunk /\ Size[p] \in Nat /\ p # NoPacket
    BY SizeFacts
  <1>7. /\ chunk'[c].usedSize = n /\ chunk'[c].open = TRUE
        /\ chunk'[c].bytes = chunk[c].bytes
        /\ \A d \in Chunks \ {c} : chunk'[d] = chunk[d]
        /\ buffer'[p] = [owner |-> c, at |-> n, allocSize |-> Size[p]]
        /\ \A b \in Packets \ {p} : buffer'[b] = buffer[b]
        /\ LSendBufferChunk'[t] = c
        /\ \A u \in Threads \ {t} : LSendBufferChunk'[u] = LSendBufferChunk[u]
        /\ making'[t] = p
        /\ \A u \in Threads \ {t} : making'[u] = making[u]
    BY <1>1, <1>4, <1>5 DEF SenderTypeOK
  <1>8. SenderTypeOK'
    BY <1>1, <1>4, <1>5, <1>6 DEF SenderTypeOK
  <1>9. OneHolder'
    <2>1. ASSUME NEW u \in Threads
          PROVE  /\ made'[u] => making'[u] # NoPacket
                 /\ making'[u] \notin Underway'
                 /\ \A v \in Threads :
                        making'[u] = making'[v] /\ making'[u] # NoPacket => u = v
      BY <1>1, <1>2, <1>6, <1>7 DEF IInv, OneHolder, Underway
    <2>2. ASSUME NEW b \in Packets
          PROVE  /\ Live(b)' <=> b \in Underway' \/ \E u \in Threads : making'[u] = b
                 /\ Live(b)' => b \in used' /\ buffer'[b].allocSize = Size[b]
      <3>1. CASE b = p
        BY <1>1, <1>6, <1>7, <3>1 DEF Live
      <3>2. CASE b # p
        <4>1. (\E u \in Threads : making'[u] = b) <=> \E u \in Threads : making[u] = b
          BY <1>1, <1>7, <3>2, SizeFacts
        <4>. QED
          BY <1>1, <1>7, <3>2, <4>1 DEF IInv, OneHolder, Underway, Live
      <3>. QED
        BY <3>1, <3>2
    <2>. QED
      BY <1>1, <2>1, <2>2 DEF OneHolder, IInv
  <1>10. \A u \in Threads \ {t} : LSendBufferChunk'[u] # c
    BY <1>4, <1>6, <1>7 DEF ChunksApart
  <1>11. Filling(t)' /\ ~Filling(t) /\ \A u \in Threads \ {t} : Filling(u)' <=> Filling(u)
    BY <1>1, <1>2, <1>6, <1>7 DEF Filling
  <1>12. FillingAtEnd'
    <2> SUFFICES ASSUME NEW u \in Threads, Filling(u)'
                 PROVE  /\ buffer'[making'[u]].owner = LSendBufferChunk'[u]
                        /\ buffer'[making'[u]].owner # NoChunk
                        /\ buffer'[making'[u]].at =
                               chunk'[buffer'[making'[u]].owner].usedSize
                        /\ buffer'[making'[u]].at + Size[making'[u]]
                               <= SEND_BUFFER_CHUNK_SIZE
      BY DEF FillingAtEnd
    <2>1. CASE u = t
      BY <1>4, <1>6, <1>7, <2>1
    <2>2. CASE u # t
      <3>1. making'[u] = making[u] /\ making[u] \in Packets \ {p} /\ Filling(u)
        BY <1>2, <1>5, <1>7, <1>11, <2>2 DEF Filling, SenderTypeOK
      <3>2. LSendBufferChunk[u] \in Chunks \ {c}
        <4>1. LSendBufferChunk[u] # NoChunk
          BY <3>1 DEF IInv, FillingAtEnd
        <4>2. LSendBufferChunk[u] \in Chunks \cup {NoChunk}
          BY <1>5 DEF SenderTypeOK
        <4>3. LSendBufferChunk[u] # c
          BY <1>7, <1>10, <2>2
        <4>. QED
          BY <4>1, <4>2, <4>3
      <3>. QED
        BY <1>7, <2>2, <3>1, <3>2 DEF IInv, FillingAtEnd
    <2>. QED
      BY <2>1, <2>2
  <1>13. OpenInv'
    <2> SUFFICES ASSUME NEW d \in Chunks
                 PROVE  chunk'[d].open <=>
                            \E u \in Threads : LSendBufferChunk'[u] = d /\ Filling(u)'
      BY DEF OpenInv
    <2>1. CASE d = c
      BY <1>7, <1>11, <2>1
    <2>2. CASE d # c
      BY <1>7, <1>11, <2>2 DEF IInv, OpenInv
    <2>. QED
      BY <2>1, <2>2
  <1>14. BuffersIntact'
    <2> SUFFICES ASSUME NEW b \in Packets, Live(b)',
                        \A u \in Threads : making'[u] = b => made'[u]
                 PROVE  /\ buffer'[b].at + Size[b] <= chunk'[buffer'[b].owner].usedSize
                        /\ Bytes(b)' = PacketBytes(b)
      BY DEF BuffersIntact, PacketBytes
    <2>1. b # p
      BY <1>1, <1>2, <1>7
    <2>2. Live(b) /\ \A u \in Threads : making[u] = b => made[u]
      BY <1>1, <1>7, <2>1, SizeFacts DEF Live
    <2>3. /\ buffer[b].at + Size[b] <= chunk[buffer[b].owner].usedSize
          /\ Bytes(b) = PacketBytes(b)
      BY <2>2 DEF IInv, BuffersIntact
    <2>4. buffer[b].owner \in Chunks
      BY <1>5, <2>2 DEF SenderTypeOK, Live
    <2>5. /\ chunk'[buffer[b].owner].bytes = chunk[buffer[b].owner].bytes
          /\ chunk'[buffer[b].owner].usedSize = chunk[buffer[b].owner].usedSize
      BY <1>4, <1>7, <2>4
    <2>6. buffer'[b] = buffer[b]
      BY <1>7, <2>1
    <2>. QED
      BY <2>3, <2>5, <2>6 DEF Bytes
  <1>. QED
    BY <1>4, <1>8, <1>9, <1>12, <1>13, <1>14 DEF IInv

\* Close writes the packet behind everything the chunk has given out.
LEMMA SerializeKeeps ==
    ASSUME IInv, NEW t \in Threads, Serialize(t)
    PROVE  IInv'
  <1>1. PICK p, c, at : p = making[t] /\ c = buffer[p].owner /\ at = buffer[p].at
    OBVIOUS
  <1>2. /\ p # NoPacket /\ made[t] = FALSE /\ Filling(t)
        /\ Close(p, PacketBytes(p))
        /\ made' = [made EXCEPT ![t] = TRUE] /\ making' = making
        /\ used' = used /\ sendQueue' = sendQueue /\ inFlight' = inFlight
    BY <1>1 DEF Serialize, Filling, IInv, SenderTypeOK
  <1>3. SenderTypeOK
    BY DEF IInv
  <1>4. /\ p \in Packets /\ c = LSendBufferChunk[t] /\ c \in Chunks
        /\ at \in Nat /\ at = chunk[c].usedSize
        /\ at + Size[p] <= SEND_BUFFER_CHUNK_SIZE
    <2>1. p \in Packets
      BY <1>1, <1>2, <1>3 DEF SenderTypeOK
    <2>2. /\ c = LSendBufferChunk[t] /\ c # NoChunk /\ at = chunk[c].usedSize
          /\ at + Size[p] <= SEND_BUFFER_CHUNK_SIZE
      BY <1>1, <1>2 DEF IInv, FillingAtEnd
    <2>3. c \in Chunks /\ at \in Nat
      BY <1>1, <1>3, <2>1, <2>2 DEF SenderTypeOK
    <2>. QED
      BY <2>1, <2>2, <2>3
  <1>5. /\ Size[p] \in Nat \ {0} /\ SEND_BUFFER_CHUNK_SIZE \in Nat
        /\ DOMAIN PacketBytes(p) = 1..Size[p] /\ Len(PacketBytes(p)) = Size[p]
        /\ \A k \in 1..Size[p] : PacketBytes(p)[k] = <<p, k>>
    BY <1>4, SizeFacts DEF PacketBytes
  <1>6. PICK bytes :
           /\ bytes = [i \in 0..(SEND_BUFFER_CHUNK_SIZE - 1) |->
                          IF i - at + 1 \in 1..Size[p]
                            THEN <<p, i - at + 1>> ELSE chunk[c].bytes[i]]
           /\ chunk' = [chunk EXCEPT ![c] = [bytes |-> bytes, open |-> FALSE,
                                             usedSize |-> at + Size[p]]]
           /\ LSendBufferChunk' = LSendBufferChunk /\ buffer' = buffer
           /\ sendBufferChunks' = sendBufferChunks /\ returning' = returning
    <2>1. /\ chunk' = [chunk EXCEPT
                 ![c].bytes = [i \in DOMAIN @ |->
                                  IF i - at + 1 \in DOMAIN PacketBytes(p)
                                    THEN PacketBytes(p)[i - at + 1] ELSE @[i]],
                 ![c].open = FALSE,
                 ![c].usedSize = @ + Len(PacketBytes(p))]
          /\ LSendBufferChunk' = LSendBufferChunk /\ buffer' = buffer
          /\ sendBufferChunks' = sendBufferChunks /\ returning' = returning
      BY <1>1, <1>2 DEF Close
    <2>2. PICK bytes :
             bytes = [i \in 0..(SEND_BUFFER_CHUNK_SIZE - 1) |->
                          IF i - at + 1 \in 1..Size[p]
                            THEN <<p, i - at + 1>> ELSE chunk[c].bytes[i]]
      OBVIOUS
    <2>3. /\ DOMAIN chunk[c].bytes = 0..(SEND_BUFFER_CHUNK_SIZE - 1)
          /\ chunk[c] = [bytes |-> chunk[c].bytes, open |-> chunk[c].open,
                         usedSize |-> at]
      BY <1>3, <1>4 DEF SenderTypeOK
    <2>4. [i \in DOMAIN chunk[c].bytes |->
              IF i - at + 1 \in DOMAIN PacketBytes(p)
                THEN PacketBytes(p)[i - at + 1] ELSE chunk[c].bytes[i]] = bytes
      BY <1>5, <2>2, <2>3
    <2>5. chunk' = [chunk EXCEPT ![c].bytes = bytes, ![c].open = FALSE,
                                 ![c].usedSize = at + Size[p]]
      BY <1>4, <1>5, <2>1, <2>4
    <2>6. chunk' = [chunk EXCEPT ![c] = [bytes |-> bytes, open |-> FALSE,
                                         usedSize |-> at + Size[p]]]
      <3>1. /\ DOMAIN chunk = Chunks /\ DOMAIN chunk' = Chunks
            /\ chunk' = [d \in Chunks |-> chunk'[d]]
            /\ \A d \in Chunks \ {c} : chunk'[d] = chunk[d]
        BY <1>3, <2>5 DEF SenderTypeOK
      <3>2. chunk'[c] = [[[chunk[c] EXCEPT !.bytes = bytes] EXCEPT !.open = FALSE]
                            EXCEPT !.usedSize = at + Size[p]]
        BY <1>4, <2>5, <3>1
      <3>3. chunk'[c] = [bytes |-> bytes, open |-> FALSE, usedSize |-> at + Size[p]]
        BY <2>3, <3>2
      <3>. QED
        BY <1>4, <3>1, <3>3
    <2>. QED
      BY <2>1, <2>2, <2>6
  <1>7. /\ chunk'[c].bytes = bytes /\ chunk'[c].open = FALSE
        /\ chunk'[c].usedSize = at + Size[p]
        /\ \A d \in Chunks \ {c} : chunk'[d] = chunk[d]
        /\ made'[t] = TRUE
        /\ \A u \in Threads \ {t} : made'[u] = made[u]
    BY <1>2, <1>3, <1>4, <1>6 DEF SenderTypeOK
  <1>8. \A u \in Threads \ {t} : making[u] # p /\ LSendBufferChunk[u] # c
    BY <1>1, <1>2, <1>4, SizeFacts DEF IInv, OneHolder, ChunksApart
  <1>9. SenderTypeOK'
    <2>1. bytes \in [0..(SEND_BUFFER_CHUNK_SIZE - 1) -> (Packets \X Nat) \cup {NoByte}]
      <3>1. ASSUME NEW i \in 0..(SEND_BUFFER_CHUNK_SIZE - 1)
            PROVE  bytes[i] \in (Packets \X Nat) \cup {NoByte}
        <4>1. CASE i - at + 1 \in 1..Size[p]
          <5>1. bytes[i] = <<p, i - at + 1>> /\ i - at + 1 \in Nat
            BY <1>5, <1>6, <4>1
          <5>. QED
            BY <1>4, <5>1
        <4>2. CASE i - at + 1 \notin 1..Size[p]
          <5>1. bytes[i] = chunk[c].bytes[i]
            BY <1>6, <4>2
          <5>2. chunk[c].bytes \in [0..(SEND_BUFFER_CHUNK_SIZE - 1)
                                       -> (Packets \X Nat) \cup {NoByte}]
            BY <1>3, <1>4 DEF SenderTypeOK
          <5>. QED
            BY <5>1, <5>2
        <4>. QED
          BY <4>1, <4>2
      <3>. QED
        BY <1>6, <3>1
    <2>2. at + Size[p] \in 0..SEND_BUFFER_CHUNK_SIZE
      BY <1>4, <1>5
    <2>. QED
      BY <1>2, <1>3, <1>6, <2>1, <2>2 DEF SenderTypeOK
  <1>10. \A b : Live(b)' <=> Live(b)
    BY <1>6 DEF Live
  <1>11. OneHolder'
    BY <1>1, <1>2, <1>6, <1>7, <1>10 DEF IInv, OneHolder, Underway
  <1>12. ChunksApart'
    BY <1>6 DEF IInv, ChunksApart
  <1>13. ~Filling(t)' /\ \A u \in Threads \ {t} : Filling(u)' <=> Filling(u)
    BY <1>2, <1>7 DEF Filling
  <1>14. FillingAtEnd'
    <2> SUFFICES ASSUME NEW u \in Threads, Filling(u)'
                 PROVE  /\ buffer'[making'[u]].owner = LSendBufferChunk'[u]
                        /\ buffer'[making'[u]].owner # NoChunk
                        /\ buffer'[making'[u]].at =
                               chunk'[buffer'[making'[u]].owner].usedSize
                        /\ buffer'[making'[u]].at + Size[making'[u]]
                               <= SEND_BUFFER_CHUNK_SIZE
      BY DEF FillingAtEnd
    <2>1. u # t /\ Filling(u)
      BY <1>13
    <2>2. /\ buffer[making[u]].owner = LSendBufferChunk[u]
          /\ LSendBufferChunk[u] # NoChunk
          /\ buffer[making[u]].at = chunk[LSendBufferChunk[u]].usedSize
          /\ buffer[making[u]].at + Size[making[u]] <= SEND_BUFFER_CHUNK_SIZE
      BY <2>1 DEF IInv, FillingAtEnd
    <2>3. LSendBufferChunk[u] \in Chunks \ {c}
      BY <1>3, <1>8, <2>1, <2>2 DEF SenderTypeOK
    <2>4. /\ making' = making /\ buffer' = buffer
          /\ LSendBufferChunk' = LSendBufferChunk
          /\ chunk'[LSendBufferChunk[u]] = chunk[LSendBufferChunk[u]]
      BY <1>2, <1>6, <1>7, <2>3
    <2>. QED
      BY <2>2, <2>4
  <1>15. OpenInv'
    <2> SUFFICES ASSUME NEW d \in Chunks
                 PROVE  chunk'[d].open <=>
                            \E u \in Threads : LSendBufferChunk'[u] = d /\ Filling(u)'
      BY DEF OpenInv
    <2>0. LSendBufferChunk' = LSendBufferChunk
      BY <1>6
    <2>1. CASE d = c
      <3>1. chunk'[d].open = FALSE
        BY <1>7, <2>1
      <3>2. \A u \in Threads : LSendBufferChunk'[u] = d => ~Filling(u)'
        BY <1>8, <1>13, <2>0, <2>1
      <3>. QED
        BY <3>1, <3>2
    <2>2. CASE d # c
      <3>1. chunk'[d].open = chunk[d].open
        BY <1>7, <2>2
      <3>2. \A u \in Threads : LSendBufferChunk'[u] = d =>
                                    (Filling(u)' <=> Filling(u))
        BY <1>4, <1>13, <2>0, <2>2
      <3>3. chunk[d].open <=>
                \E u \in Threads : LSendBufferChunk[u] = d /\ Filling(u)
        BY DEF IInv, OpenInv
      <3>. QED
        BY <2>0, <3>1, <3>2, <3>3
    <2>. QED
      BY <2>1, <2>2
  <1>16. BuffersIntact'
    <2> SUFFICES ASSUME NEW b \in Packets, Live(b)',
                        \A u \in Threads : making'[u] = b => made'[u]
                 PROVE  /\ buffer'[b].at + Size[b] <= chunk'[buffer'[b].owner].usedSize
                        /\ Bytes(b)' = PacketBytes(b)
      BY DEF BuffersIntact, PacketBytes
    <2>0. /\ buffer[b].owner \in Chunks /\ buffer[b].at \in Nat
          /\ buffer[b].allocSize = Size[b] /\ Size[b] \in Nat \ {0}
      BY <1>3, <1>10, SizeFacts DEF SenderTypeOK, IInv, OneHolder, Live
    <2>1. Bytes(b)' = [k \in 1..Size[b] |->
                          chunk'[buffer[b].owner].bytes[buffer[b].at + k - 1]]
      BY <1>6, <2>0 DEF Bytes
    <2>2. CASE b = p
      <3>1. Bytes(b)' = [k \in 1..Size[p] |-> bytes[at + k - 1]]
        BY <1>1, <1>7, <2>1, <2>2
      <3>2. ASSUME NEW k \in 1..Size[p]
            PROVE  bytes[at + k - 1] = <<p, k>>
        <4>1. /\ at + k - 1 \in 0..(SEND_BUFFER_CHUNK_SIZE - 1)
              /\ (at + k - 1) - at + 1 = k
          <5>1. \A a, z, n \in Nat :
                    a + z <= n /\ k \in 1..z =>
                        a + k - 1 \in 0..(n - 1) /\ (a + k - 1) - a + 1 = k
            OBVIOUS
          <5>. QED
            BY <1>4, <1>5, <5>1
        <4>2. bytes[at + k - 1] = <<p, (at + k - 1) - at + 1>>
          BY <1>6, <4>1
        <4>. QED
          BY <4>1, <4>2
      <3>3. Bytes(b)' = PacketBytes(b)
        BY <2>2, <3>1, <3>2 DEF PacketBytes
      <3>4. /\ buffer'[b].at = at /\ buffer'[b].owner = c
            /\ chunk'[c].usedSize = at + Size[b]
        BY <1>1, <1>6, <1>7, <2>2
      <3>5. at + Size[b] <= at + Size[b]
        BY <1>4, <2>0
      <3>. QED
        BY <3>3, <3>4, <3>5
    <2>3. CASE b # p
      <3>1. \A u \in Threads : making[u] = b => made[u]
        BY <1>1, <1>2, <1>7, <2>3
      <3>2. /\ buffer[b].at + Size[b] <= chunk[buffer[b].owner].usedSize
            /\ Bytes(b) = PacketBytes(b)
        BY <1>10, <3>1 DEF IInv, BuffersIntact
      <3>3. CASE buffer[b].owner # c
        <4>1. chunk'[buffer[b].owner] = chunk[buffer[b].owner]
          BY <1>7, <2>0, <3>3
        <4>2. Bytes(b)' = Bytes(b)
          BY <2>0, <2>1, <4>1 DEF Bytes
        <4>. QED
          BY <1>6, <3>2, <4>1, <4>2
      <3>4. CASE buffer[b].owner = c
        <4>1. buffer[b].at + Size[b] <= at
          <5>1. chunk[buffer[b].owner].usedSize = at
            BY <1>4, <3>4
          <5>. QED
            BY <3>2, <5>1
        <4>2. ASSUME NEW k \in 1..Size[b]
              PROVE  bytes[buffer[b].at + k - 1] = chunk[c].bytes[buffer[b].at + k - 1]
          <5>1. /\ buffer[b].at + k - 1 \in 0..(SEND_BUFFER_CHUNK_SIZE - 1)
                /\ (buffer[b].at + k - 1) - at + 1 \notin 1..Size[p]
            <6>1. \A x, a, z, y, n \in Nat : 
                      x + z <= a /\ a + y <= n /\ k \in 1..z =>
                          x + k - 1 \in 0..(n - 1) /\ (x + k - 1) - a + 1 \notin 1..y
              OBVIOUS
            <6>. QED
              BY <1>4, <1>5, <2>0, <4>1, <6>1
          <5>. QED
            BY <1>6, <5>1
        <4>3. Bytes(b)' = Bytes(b)
          BY <1>7, <2>0, <2>1, <3>4, <4>2 DEF Bytes
        <4>4. buffer[b].at + Size[b] <= at + Size[p]
          BY <1>4, <1>5, <2>0, <4>1
        <4>. QED
          BY <1>6, <1>7, <3>2, <3>4, <4>3, <4>4
      <3>. QED
        BY <3>3, <3>4
    <2>. QED
      BY <2>2, <2>3
  <1>. QED
    BY <1>9, <1>11, <1>12, <1>14, <1>15, <1>16 DEF IInv

-----------------------------------------------------------------------------
(* Steps that write no chunk *)

\* They keep what was filled, as long as they leave the SendBuffers that live.
LEMMA QuietKeeps ==
    ASSUME IInv, SenderTypeOK', OneHolder', ChunksApart',
           chunk' = chunk, LSendBufferChunk' = LSendBufferChunk,
           \A b \in Packets : Live(b)' => Live(b) /\ buffer'[b] = buffer[b],
           \A t \in Threads : Filling(t)' <=> Filling(t),
           \A t \in Threads : Filling(t) => making'[t] = making[t],
           \A b \in Packets :
               Live(b)' /\ (\A t \in Threads : making'[t] = b => made'[t]) =>
                   \A t \in Threads : making[t] = b => made[t]
    PROVE  IInv'
  <1>1. FillingAtEnd'
    <2> SUFFICES ASSUME NEW u \in Threads, Filling(u)'
                 PROVE  /\ buffer'[making'[u]].owner = LSendBufferChunk'[u]
                        /\ buffer'[making'[u]].owner # NoChunk
                        /\ buffer'[making'[u]].at =
                               chunk'[buffer'[making'[u]].owner].usedSize
                        /\ buffer'[making'[u]].at + Size[making'[u]]
                               <= SEND_BUFFER_CHUNK_SIZE
      BY DEF FillingAtEnd
    <2>1. Filling(u) /\ making'[u] = making[u]
      OBVIOUS
    <2>2. making[u] \in Packets
      BY <2>1 DEF Filling, IInv, SenderTypeOK
    <2>3. Live(making[u])'
      <3>1. PICK p \in Packets : p = making[u]
        BY <2>2
      <3>2. making'[u] = p
        BY <2>1, <3>1
      <3>3. Live(p)'
        BY <3>2 DEF OneHolder
      <3>4. buffer'[p].owner # NoChunk
        BY <3>3 DEF Live
      <3>5. buffer'[making'[u]].owner # NoChunk
        BY <3>2, <3>4
      <3>. QED
        BY <3>5 DEF Live
    <2>4. buffer'[making[u]] = buffer[making[u]]
      <3>1. PICK p \in Packets : p = making[u]
        BY <2>2
      <3>2. making'[u] = p
        BY <2>1, <3>1
      <3>3. Live(p)'
        BY <3>2 DEF OneHolder
      <3>. QED
        BY <3>1, <3>3
    <2>5. /\ buffer[making[u]].owner = LSendBufferChunk[u]
          /\ buffer[making[u]].owner # NoChunk
          /\ buffer[making[u]].at = chunk[buffer[making[u]].owner].usedSize
          /\ buffer[making[u]].at + Size[making[u]] <= SEND_BUFFER_CHUNK_SIZE
      BY <2>1 DEF IInv, FillingAtEnd
    <2>. QED
      BY <2>1, <2>4, <2>5
  <1>2. OpenInv'
    BY DEF IInv, OpenInv
  <1>3. BuffersIntact'
    <2> SUFFICES ASSUME NEW b \in Packets, Live(b)',
                        \A u \in Threads : making'[u] = b => made'[u]
                 PROVE  /\ buffer'[b].at + Size[b] <= chunk'[buffer'[b].owner].usedSize
                        /\ Bytes(b)' = PacketBytes(b)
      BY DEF BuffersIntact, PacketBytes
    <2>1. /\ Live(b) /\ buffer'[b] = buffer[b]
          /\ \A u \in Threads : making[u] = b => made[u]
      OBVIOUS
    <2>2. /\ buffer[b].at + Size[b] <= chunk[buffer[b].owner].usedSize
          /\ Bytes(b) = PacketBytes(b)
      BY <2>1 DEF IInv, BuffersIntact
    <2>3. Bytes(b)' = Bytes(b)
      BY <2>1 DEF Bytes
    <2>. QED
      BY <2>1, <2>2, <2>3
  <1>. QED
    BY <1>1, <1>2, <1>3 DEF IInv

\* The thread t gives the packet p away; the others keep theirs.
HandedOver(t, p) ==
    /\ p \in Packets /\ p \notin Underway
    /\ making' \in [Threads -> Packets \cup {NoPacket}]
    /\ made' \in [Threads -> BOOLEAN]
    /\ making'[t] = NoPacket /\ made'[t] = FALSE
    /\ \A u \in Threads \ {t} : making'[u] = making[u] /\ made'[u] = made[u]
                                /\ making[u] # p
    /\ \A u \in Threads : Filling(u)' <=> Filling(u)
    /\ \A u \in Threads : Filling(u) => making'[u] = making[u]
    /\ \A b \in Packets \ {p} :
           (\E u \in Threads : making'[u] = b) <=> \E u \in Threads : making[u] = b
    /\ \A b \in Packets :
           (\A u \in Threads : making'[u] = b => made'[u]) =>
               \A u \in Threads : making[u] = b => made[u]

LEMMA HandOver ==
    ASSUME IInv, NEW t \in Threads, NEW p, p = making[t], made[t],
           making' = [making EXCEPT ![t] = NoPacket],
           made' = [made EXCEPT ![t] = FALSE]
    PROVE  HandedOver(t, p)
  <1>1. SenderTypeOK /\ OneHolder
    BY DEF IInv
  <1>2. p \in Packets /\ p \notin Underway /\ ~Filling(t)
    BY <1>1 DEF SenderTypeOK, OneHolder, Filling
  <1>3. /\ making' \in [Threads -> Packets \cup {NoPacket}]
        /\ made' \in [Threads -> BOOLEAN]
        /\ making'[t] = NoPacket /\ made'[t] = FALSE
        /\ \A u \in Threads \ {t} : making'[u] = making[u] /\ made'[u] = made[u]
    BY <1>1 DEF SenderTypeOK
  <1>4. \A u \in Threads \ {t} : making[u] # p
    BY <1>1, <1>2, SizeFacts DEF OneHolder
  <1>5. \A u \in Threads : Filling(u)' <=> Filling(u)
    BY <1>2, <1>3 DEF Filling
  <1>6. \A b \in Packets \ {p} :
            (\E u \in Threads : making'[u] = b) <=> \E u \in Threads : making[u] = b
    BY <1>3, SizeFacts
  <1>7. \A u \in Threads : Filling(u) => making'[u] = making[u]
    BY <1>2, <1>3
  <1>8. ASSUME NEW b \in Packets, \A u \in Threads : making'[u] = b => made'[u],
               NEW u \in Threads, making[u] = b
        PROVE  made[u]
    BY <1>3, <1>8
  <1>. QED
    BY <1>2, <1>3, <1>4, <1>5, <1>6, <1>7, <1>8 DEF HandedOver

LEMMA SendKeeps ==
    ASSUME IInv, NEW t \in Threads, Send(t)
    PROVE  IInv'
  <1>1. /\ made[t] /\ sendQueue' = Append(sendQueue, making[t])
        /\ making' = [making EXCEPT ![t] = NoPacket]
        /\ made' = [made EXCEPT ![t] = FALSE]
        /\ LSendBufferChunk' = LSendBufferChunk
        /\ sendBufferChunks' = sendBufferChunks /\ returning' = returning
        /\ chunk' = chunk /\ buffer' = buffer
        /\ inFlight' = inFlight /\ used' = used
    BY DEF Send, chunkVars
  <1>2. SenderTypeOK /\ OneHolder
    BY DEF IInv
  <1>3. PICK p : p = making[t]
    OBVIOUS
  <1>4. HandedOver(t, p)
    BY <1>1, <1>3, HandOver
  <1>. USE DEF HandedOver
  <1>5. sendQueue' \in Seq(Packets) /\ Range(sendQueue') = Range(sendQueue) \cup {p}
    <2>1. sendQueue \in Seq(Packets)
      BY <1>2 DEF SenderTypeOK
    <2>2. /\ Append(sendQueue, p) \in Seq(Packets)
          /\ Range(Append(sendQueue, p)) = Range(sendQueue) \cup {p}
      BY <1>4, <2>1, AppendFacts
    <2>. QED
      BY <1>1, <1>3, <2>2
  <1>6. SenderTypeOK'
    BY <1>1, <1>2, <1>4, <1>5 DEF SenderTypeOK
  <1>7. Underway' = Underway \cup {p}
    BY <1>1, <1>5 DEF Underway
  <1>8. \A b : Live(b)' <=> Live(b)
    BY <1>1 DEF Live
  <1>9. OneHolder'
    <2>1. ASSUME NEW u \in Threads
          PROVE  /\ made'[u] => making'[u] # NoPacket
                 /\ making'[u] \notin Underway'
                 /\ \A v \in Threads :
                        making'[u] = making'[v] /\ making'[u] # NoPacket => u = v
      <3>1. NoPacket \notin Underway /\ NoPacket # p
        BY <1>2, <1>4, SizeFacts, RangeFacts DEF Underway, SenderTypeOK
      <3>. QED
        BY <1>2, <1>4, <1>7, <3>1 DEF OneHolder
    <2>2. ASSUME NEW b \in Packets
          PROVE  /\ Live(b)' <=> b \in Underway' \/ \E u \in Threads : making'[u] = b
                 /\ Live(b)' => b \in used' /\ buffer'[b].allocSize = Size[b]
      <3>1. CASE b = p
        BY <1>1, <1>2, <1>3, <1>4, <1>7, <1>8, <3>1 DEF OneHolder
      <3>2. CASE b # p
        BY <1>1, <1>2, <1>4, <1>7, <1>8, <3>2 DEF OneHolder
      <3>. QED
        BY <3>1, <3>2
    <2>3. Range(sendQueue') \cap Range(inFlight') = {}
      BY <1>1, <1>2, <1>4, <1>5 DEF OneHolder, Underway
    <2>. QED
      BY <2>1, <2>2, <2>3 DEF OneHolder
  <1>10. ChunksApart'
    BY <1>1 DEF IInv, ChunksApart
  <1>11. \A b \in Packets : Live(b)' => Live(b) /\ buffer'[b] = buffer[b]
    BY <1>1, <1>8
  <1>. QED
    BY <1>1, <1>4, <1>6, <1>9, <1>10, <1>11, QuietKeeps

LEMMA DiscardKeeps ==
    ASSUME IInv, NEW t \in Threads, Discard(t)
    PROVE  IInv'
  <1>1. /\ made[t] /\ Release({making[t]})
        /\ making' = [making EXCEPT ![t] = NoPacket]
        /\ made' = [made EXCEPT ![t] = FALSE]
        /\ sendQueue' = sendQueue /\ inFlight' = inFlight /\ used' = used
    BY DEF Discard
  <1>2. SenderTypeOK /\ OneHolder /\ ChunksApart
    BY DEF IInv
  <1>3. PICK p : p = making[t]
    OBVIOUS
  <1>4. HandedOver(t, p)
    BY <1>1, <1>3, HandOver
  <1>. USE DEF HandedOver
  <1>5. /\ buffer' \in [Packets -> [owner : Chunks \cup {NoChunk}, at : Nat,
                                    allocSize : Nat]]
        /\ \A b \in Packets : /\ b = p => buffer'[b].owner = NoChunk
                              /\ b # p => buffer'[b] = buffer[b]
        /\ LSendBufferChunk' = LSendBufferChunk
        /\ sendBufferChunks' = sendBufferChunks /\ chunk' = chunk
        /\ returning' \subseteq Chunks
        /\ ChunksApart'
    <2>1. \A b : (b \in {making[t]} <=> b = p)
      BY <1>3
    <2>. QED
      BY <1>1, <1>2, <2>1, ReleaseFacts
  <1>6. SenderTypeOK'
    BY <1>1, <1>2, <1>4, <1>5 DEF SenderTypeOK
  <1>7. Underway' = Underway
    BY <1>1 DEF Underway
  <1>8. \A b \in Packets : Live(b)' <=> Live(b) /\ b # p
    BY <1>5 DEF Live
  <1>9. OneHolder'
    <2>1. ASSUME NEW u \in Threads
          PROVE  /\ made'[u] => making'[u] # NoPacket
                 /\ making'[u] \notin Underway'
                 /\ \A v \in Threads :
                        making'[u] = making'[v] /\ making'[u] # NoPacket => u = v
      <3>1. NoPacket \notin Underway
        BY <1>2, SizeFacts, RangeFacts DEF Underway, SenderTypeOK
      <3>. QED
        BY <1>2, <1>4, <1>7, <3>1 DEF OneHolder
    <2>2. ASSUME NEW b \in Packets
          PROVE  /\ Live(b)' <=> b \in Underway' \/ \E u \in Threads : making'[u] = b
                 /\ Live(b)' => b \in used' /\ buffer'[b].allocSize = Size[b]
      <3>1. CASE b = p
        BY <1>4, <1>7, <1>8, <3>1, SizeFacts
      <3>2. CASE b # p
        BY <1>1, <1>2, <1>4, <1>5, <1>7, <1>8, <3>2 DEF OneHolder
      <3>. QED
        BY <3>1, <3>2
    <2>3. Range(sendQueue') \cap Range(inFlight') = {}
      BY <1>1, <1>2 DEF OneHolder
    <2>. QED
      BY <2>1, <2>2, <2>3 DEF OneHolder
  <1>10. \A b \in Packets : Live(b)' => Live(b) /\ buffer'[b] = buffer[b]
    BY <1>5, <1>8
  <1>. QED
    BY <1>4, <1>5, <1>6, <1>9, <1>10, QuietKeeps

LEMMA RegisterSendKeeps ==
    ASSUME IInv, RegisterSend
    PROVE  IInv'
  <1>1. /\ inFlight = <<>> /\ inFlight' = sendQueue /\ sendQueue' = <<>>
        /\ LSendBufferChunk' = LSendBufferChunk
        /\ sendBufferChunks' = sendBufferChunks /\ returning' = returning
        /\ chunk' = chunk /\ buffer' = buffer
        /\ making' = making /\ made' = made /\ used' = used
    BY DEF RegisterSend, chunkVars
  <1>2. SenderTypeOK'
    BY <1>1 DEF IInv, SenderTypeOK
  <1>3. Underway' = Underway
    <2>1. Underway' = Range(sendQueue') \cup Range(inFlight')
      BY DEF Underway
    <2>. QED
      BY <1>1, <2>1 DEF Underway
  <1>4. \A b : Live(b)' <=> Live(b)
    BY <1>1 DEF Live
  <1>5. OneHolder'
    <2>1. Range(<<>>) = {}
      BY DEF Range
    <2>2. Range(sendQueue') \cap Range(inFlight') = {}
      BY <1>1, <2>1
    <2>. QED
      BY <1>1, <1>3, <1>4, <2>2 DEF IInv, OneHolder
  <1>6. ChunksApart'
    BY <1>1 DEF IInv, ChunksApart
  <1>7. \A t \in Threads : Filling(t)' <=> Filling(t)
    BY <1>1 DEF Filling
  <1>. QED
    BY <1>1, <1>2, <1>4, <1>5, <1>6, <1>7, QuietKeeps

LEMMA ProcessSendKeeps ==
    ASSUME IInv, ProcessSend
    PROVE  IInv'
  <1>1. /\ Release(Range(inFlight)) /\ inFlight' = <<>> /\ sendQueue' = sendQueue
        /\ making' = making /\ made' = made /\ used' = used
    BY DEF ProcessSend
  <1>2. SenderTypeOK /\ OneHolder /\ ChunksApart
    BY DEF IInv
  <1>3. /\ buffer' \in [Packets -> [owner : Chunks \cup {NoChunk}, at : Nat,
                                    allocSize : Nat]]
        /\ \A b \in Packets : /\ b \in Range(inFlight) => buffer'[b].owner = NoChunk
                              /\ b \notin Range(inFlight) => buffer'[b] = buffer[b]
        /\ LSendBufferChunk' = LSendBufferChunk
        /\ sendBufferChunks' = sendBufferChunks /\ chunk' = chunk
        /\ returning' \subseteq Chunks
        /\ ChunksApart'
    BY <1>1, <1>2, ReleaseFacts
  <1>4. SenderTypeOK'
    BY <1>1, <1>2, <1>3 DEF SenderTypeOK
  <1>5. /\ Range(inFlight') = {} /\ Range(sendQueue') = Range(sendQueue)
        /\ Underway' = Range(sendQueue)
    <2>1. Range(<<>>) = {}
      BY DEF Range
    <2>2. Underway' = Range(sendQueue') \cup Range(inFlight')
      BY DEF Underway
    <2>. QED
      BY <1>1, <2>1, <2>2
  <1>6. \A b \in Packets : Live(b)' <=> Live(b) /\ b \notin Range(inFlight)
    BY <1>3 DEF Live
  <1>7. OneHolder'
    <2>1. \A t \in Threads :
             /\ made'[t] => making'[t] # NoPacket
             /\ making'[t] \notin Underway'
             /\ \A u \in Threads :
                    making'[t] = making'[u] /\ making'[t] # NoPacket => t = u
      BY <1>1, <1>2, <1>5 DEF OneHolder, Underway
    <2>2. ASSUME NEW b \in Packets
          PROVE  /\ Live(b)' <=> b \in Underway' \/ \E t \in Threads : making'[t] = b
                 /\ Live(b)' => b \in used' /\ buffer'[b].allocSize = Size[b]
      <3>1. CASE b \in Range(inFlight)
        BY <1>1, <1>2, <1>5, <1>6, <3>1 DEF OneHolder, Underway
      <3>2. CASE b \notin Range(inFlight)
        BY <1>1, <1>2, <1>3, <1>5, <1>6, <3>2 DEF OneHolder, Underway
      <3>. QED
        BY <3>1, <3>2
    <2>. QED
      BY <1>5, <2>1, <2>2 DEF OneHolder
  <1>8. \A b \in Packets : Live(b)' => Live(b) /\ buffer'[b] = buffer[b]
    BY <1>3, <1>6
  <1>9. \A t \in Threads : Filling(t)' <=> Filling(t)
    BY <1>1 DEF Filling
  <1>. QED
    BY <1>1, <1>3, <1>4, <1>7, <1>8, <1>9, QuietKeeps

LEMMA DeleterKeeps ==
    ASSUME IInv, Deleter
    PROVE  IInv'
  <1>1. PICK c \in Chunks :
           /\ c \in returning /\ returning' = returning \ {c}
           /\ sendBufferChunks' = Append(sendBufferChunks, c)
           /\ LSendBufferChunk' = LSendBufferChunk /\ chunk' = chunk
           /\ buffer' = buffer
           /\ making' = making /\ made' = made /\ used' = used
           /\ sendQueue' = sendQueue /\ inFlight' = inFlight
    BY DEF Deleter, PushGlobal
  <1>2. SenderTypeOK /\ ChunksApart
    BY DEF IInv
  <1>3. /\ sendBufferChunks' \in Seq(Chunks)
        /\ Range(sendBufferChunks') = Range(sendBufferChunks) \cup {c}
        /\ IsInjective(sendBufferChunks')
    <2>1. /\ sendBufferChunks \in Seq(Chunks) /\ IsInjective(sendBufferChunks)
          /\ c \notin Range(sendBufferChunks)
      BY <1>1, <1>2 DEF SenderTypeOK, ChunksApart
    <2>. QED
      BY <1>1, <2>1, AppendFacts
  <1>4. SenderTypeOK'
    BY <1>1, <1>2, <1>3 DEF SenderTypeOK
  <1>5. Owned(LSendBufferChunk', buffer') = Owned(LSendBufferChunk, buffer)
    BY <1>1
  <1>6. ChunksApart'
    BY <1>1, <1>2, <1>3, <1>5 DEF ChunksApart
  <1>7. OneHolder'
    BY <1>1 DEF IInv, OneHolder, Underway, Live
  <1>8. \A b \in Packets : Live(b)' => Live(b) /\ buffer'[b] = buffer[b]
    BY <1>1 DEF Live
  <1>9. \A t \in Threads : Filling(t)' <=> Filling(t)
    BY <1>1 DEF Filling
  <1>. QED
    BY <1>1, <1>4, <1>6, <1>7, <1>8, <1>9, QuietKeeps

LEMMA OthersKeep ==
    ASSUME IInv, UNCHANGED <<sendVars, inFlight>>
    PROVE  IInv'
  <1>1. /\ LSendBufferChunk' = LSendBufferChunk /\ chunk' = chunk
        /\ sendBufferChunks' = sendBufferChunks /\ returning' = returning
        /\ buffer' = buffer
        /\ making' = making /\ made' = made /\ used' = used
        /\ sendQueue' = sendQueue /\ inFlight' = inFlight
    BY DEF sendVars, chunkVars
  <1>2. SenderTypeOK' /\ OneHolder' /\ ChunksApart'
    BY <1>1 DEF IInv, SenderTypeOK, OneHolder, ChunksApart, Underway, Live
  <1>3. \A b \in Packets : Live(b)' => Live(b) /\ buffer'[b] = buffer[b]
    BY <1>1 DEF Live
  <1>4. \A t \in Threads : Filling(t)' <=> Filling(t)
    BY <1>1 DEF Filling
  <1>. QED
    BY <1>1, <1>2, <1>3, <1>4, QuietKeeps

LEMMA NextInv == IInv /\ [Next]_vars => IInv'
  <1> SUFFICES ASSUME IInv, [Next]_vars PROVE IInv'
    OBVIOUS
  <1>1. ASSUME NEW t \in Threads, NEW p \in Packets, Open(t, p) PROVE IInv'
    BY <1>1, OpenKeeps
  <1>2. ASSUME NEW t \in Threads, Serialize(t) PROVE IInv'
    BY <1>2, SerializeKeeps
  <1>3. ASSUME NEW t \in Threads, Send(t) PROVE IInv'
    BY <1>3, SendKeeps
  <1>4. ASSUME NEW t \in Threads, Discard(t) PROVE IInv'
    BY <1>4, DiscardKeeps
  <1>5. CASE RegisterSend
    BY <1>5, RegisterSendKeeps
  <1>6. CASE ProcessSend
    BY <1>6, ProcessSendKeeps
  <1>7. CASE Deleter
    BY <1>7, DeleterKeeps
  <1>8. CASE ProcessRecv
    BY <1>8, OthersKeep DEF ProcessRecv
  <1>9. CASE UNCHANGED vars
    BY <1>9, OthersKeep DEF vars
  <1>. QED
    BY <1>1, <1>2, <1>3, <1>4, <1>5, <1>6, <1>7, <1>8, <1>9 DEF Next

LEMMA Invariance == Spec => []IInv
  BY InitInv, NextInv, PTL DEF Spec

-----------------------------------------------------------------------------
(* The RecvBuffer *)

\* The cursors are where OnWrite and OnRead leave them.
IsRecvBuffer(rb) ==
    /\ rb = [bytes |-> rb.bytes, readPos |-> rb.readPos, writePos |-> rb.writePos]
    /\ DOMAIN rb.bytes = 0..(RB!Capacity - 1)
    /\ rb.writePos \in 0..RB!Capacity
    /\ rb.readPos \in 0..rb.writePos

\* The move to the front, with the bytes it loses.
LEMMA MovedToFrontFacts ==
    ASSUME NEW rb, IsRecvBuffer(rb), NEW lost
    PROVE  LET new == RB!MovedToFront(rb, lost)
           IN /\ new.readPos = 0 /\ new.writePos = RB!DataSize(rb)
              /\ RB!DataSize(new) = RB!DataSize(rb)
              /\ IsRecvBuffer(new)
              /\ lost = {} => RB!Data(new) = RB!Data(rb)
  <1> DEFINE new == RB!MovedToFront(rb, lost)
  <1>1. /\ BufferSize \in Nat \ {0} /\ RB!Capacity \in Nat
        /\ DOMAIN rb.bytes = 0..(RB!Capacity - 1)
        /\ rb.readPos \in Nat /\ rb.writePos \in Nat
        /\ rb.readPos <= rb.writePos /\ rb.writePos <= RB!Capacity
    BY PacketsAssumption DEF IsRecvBuffer, RB!Capacity, RB!BUFFER_COUNT
  <1>2. RB!DataSize(rb) \in 0..RB!Capacity
    BY <1>1 DEF RB!DataSize
  <1>3. /\ new.readPos = 0 /\ new.writePos = RB!DataSize(rb)
        /\ new = [bytes |-> new.bytes, readPos |-> new.readPos,
                  writePos |-> new.writePos]
        /\ DOMAIN new.bytes = 0..(RB!Capacity - 1)
        /\ \A i \in 0..(RB!Capacity - 1) :
               i < RB!DataSize(rb) /\ i \notin lost => new.bytes[i] = rb.bytes[rb.readPos + i]
    BY <1>1, <1>2 DEF RB!MovedToFront
  <1> HIDE DEF new
  <1>4. RB!DataSize(new) = RB!DataSize(rb)
    BY <1>2, <1>3 DEF RB!DataSize
  <1>5. IsRecvBuffer(new)
    BY <1>1, <1>2, <1>3 DEF IsRecvBuffer
  <1>6. ASSUME lost = {}
        PROVE  RB!Data(new) = RB!Data(rb)
    <2>1. ASSUME NEW k \in 1..RB!DataSize(rb)
          PROVE  new.bytes[new.readPos + k - 1] = rb.bytes[rb.readPos + k - 1]
      <3>1. k - 1 \in 0..(RB!Capacity - 1) /\ k - 1 < RB!DataSize(rb)
        BY <1>1, <1>2
      <3>2. new.bytes[k - 1] = rb.bytes[rb.readPos + (k - 1)]
        BY <1>3, <1>6, <3>1
      <3>3. rb.readPos + (k - 1) = rb.readPos + k - 1 /\ 0 + k - 1 = k - 1
        BY <1>1, <1>2
      <3>. QED
        BY <1>3, <3>2, <3>3
    <2>. QED
      BY <1>4, <2>1 DEF RB!Data
  <1>. QED
    BY <1>3, <1>4, <1>5, <1>6 DEF new

-----------------------------------------------------------------------------
\* After Clean the next receive finds the room the constructor was asked for,
\* whatever was received and read before, as long as what is left to read is
\* no more than that (RecvBuffer.cpp:14-29).
THEOREM CleanLeavesRoom ==
    ASSUME NEW rb, IsRecvBuffer(rb), RB!DataSize(rb) <= BufferSize,
           NEW new \in RB!Clean(rb)
    PROVE  IsRecvBuffer(new) /\ RB!FreeSize(new) >= BufferSize
  <1>1. /\ BufferSize \in Nat \ {0} /\ RB!Capacity = 2 * BufferSize
        /\ rb.writePos \in Nat /\ rb.readPos \in Nat
        /\ rb.readPos <= rb.writePos /\ rb.writePos <= RB!Capacity
        /\ RB!DataSize(rb) \in Nat
    BY PacketsAssumption DEF IsRecvBuffer, RB!Capacity, RB!BUFFER_COUNT, RB!DataSize
  <1>2. CASE RB!DataSize(rb) = 0
    <2>1. new = [rb EXCEPT !.readPos = 0, !.writePos = 0]
      BY <1>2 DEF RB!Clean
    <2>2. /\ new.bytes = rb.bytes /\ new.readPos = 0 /\ new.writePos = 0
          /\ new = [bytes |-> new.bytes, readPos |-> new.readPos,
                    writePos |-> new.writePos]
      BY <2>1 DEF IsRecvBuffer
    <2>. QED
      BY <1>1, <2>2 DEF IsRecvBuffer, RB!FreeSize
  <1>3. CASE RB!DataSize(rb) # 0 /\ RB!FreeSize(rb) < BufferSize
    <2>1. PICK lost : new = RB!MovedToFront(rb, lost)
      BY <1>3 DEF RB!Clean
    <2>2. IsRecvBuffer(new) /\ new.writePos = RB!DataSize(rb)
      BY <2>1, MovedToFrontFacts
    <2>. QED
      BY <1>1, <2>2 DEF RB!FreeSize
  <1>4. CASE RB!DataSize(rb) # 0 /\ ~(RB!FreeSize(rb) < BufferSize)
    <2>1. new = rb
      BY <1>4 DEF RB!Clean
    <2>. QED
      BY <1>1, <1>4, <2>1 DEF RB!FreeSize
  <1>. QED
    BY <1>2, <1>3, <1>4

\* Clean keeps every byte that is left to read, if that is no more than half of
\* the room: the memcpy then never moves the data over itself.
THEOREM CleanKeepsData ==
    ASSUME NEW rb, IsRecvBuffer(rb), 2 * RB!DataSize(rb) <= BufferSize + 1,
           NEW new \in RB!Clean(rb)
    PROVE  RB!Data(new) = RB!Data(rb)
  <1>1. /\ BufferSize \in Nat \ {0} /\ RB!Capacity = 2 * BufferSize
        /\ rb.writePos \in Nat /\ rb.readPos \in Nat
        /\ rb.readPos <= rb.writePos /\ rb.writePos <= RB!Capacity
        /\ RB!DataSize(rb) = rb.writePos - rb.readPos
    BY PacketsAssumption DEF IsRecvBuffer, RB!Capacity, RB!BUFFER_COUNT, RB!DataSize
  <1>2. CASE RB!DataSize(rb) = 0
    <2>1. new = [rb EXCEPT !.readPos = 0, !.writePos = 0]
      BY <1>2 DEF RB!Clean
    <2>2. new.readPos = 0 /\ new.writePos = 0
      BY <2>1 DEF IsRecvBuffer
    <2>3. 1..RB!DataSize(new) = {} /\ 1..RB!DataSize(rb) = {}
      BY <1>2, <2>2 DEF RB!DataSize
    <2>. QED
      BY <2>3 DEF RB!Data
  <1>3. CASE RB!DataSize(rb) # 0 /\ RB!FreeSize(rb) < BufferSize
    <2>1. RB!DataSize(rb) - rb.readPos - 1 < 0
      BY <1>1, <1>3 DEF RB!FreeSize
    <2>2. 0..(RB!DataSize(rb) - rb.readPos - 1) = {}
      BY <1>1, <2>1
    <2>3. new = RB!MovedToFront(rb, {})
      BY <1>3, <2>2 DEF RB!Clean
    <2>. QED
      BY <2>3, MovedToFrontFacts
  <1>4. CASE RB!DataSize(rb) # 0 /\ ~(RB!FreeSize(rb) < BufferSize)
    BY <1>4 DEF RB!Clean
  <1>. QED
    BY <1>2, <1>3, <1>4

-----------------------------------------------------------------------------
(* OnRecv *)

\* A set of naturals that has any has a smallest one.
LEMMA Smallest ==
    ASSUME NEW S \in SUBSET Nat, S # {}
    PROVE  \E m \in S : \A k \in S : m <= k
  <1> DEFINE R == OpToRel(<, Nat)
  <1>1. IsWellFoundedOn(R, Nat)
    BY NatLessThanWellFounded, Zenon
  <1>2. \A k, m \in Nat : <<k, m>> \in R <=> k < m
    BY DEF OpToRel
  <1> HIDE DEF R
  <1>3. PICK m \in S : \A k \in S : ~(<<k, m>> \in R)
    BY <1>1, WFMin
  <1>4. \A k \in S : ~(k < m) /\ k \in Nat /\ m \in Nat
    BY <1>2, <1>3
  <1>. QED
    BY <1>4

\* A set that has 0, and the successor of each of its numbers, has them all.
LEMMA NatSetInduction ==
    ASSUME NEW S, 0 \in S, \A n \in Nat : n \in S => n + 1 \in S
    PROVE  Nat \subseteq S
  <1> SUFFICES ASSUME Nat \ S # {}
               PROVE  FALSE
    OBVIOUS
  <1>1. PICK m \in Nat \ S : \A k \in Nat \ S : m <= k
    BY Smallest
  <1>2. m - 1 \in Nat /\ m - 1 \notin Nat \ S
    BY <1>1
  <1>. QED
    BY <1>1, <1>2

\* e holds where each packet of q begins, in the bytes of them all.
Offsets(q, e) ==
    /\ e \in [0..Len(q) -> Nat]
    /\ e[0] = 0
    /\ \A i \in 1..Len(q) : e[i] = e[i - 1] + Size[q[i]]
    /\ \A i, j \in 0..Len(q) : i <= j => e[i] <= e[j]

\* The first of these bytes are data.
Frames(q, e, data) ==
    \A i \in 1..Len(q) : \A k \in 1..Size[q[i]] :
        e[i - 1] + k <= Len(data) => data[e[i - 1] + k] = <<q[i], k>>

\* A packet has its header, and fits into a chunk.
LEMMA SizeRange ==
    ASSUME NEW p \in Packets
    PROVE  /\ Size[p] \in Nat /\ HeaderSize \in Nat \ {0}
           /\ HeaderSize <= Size[p] /\ Size[p] >= 1
  <1>1. /\ Size[p] \in HeaderSize..SEND_BUFFER_CHUNK_SIZE
        /\ HeaderSize \in Nat \ {0} /\ SEND_BUFFER_CHUNK_SIZE \in Nat
    BY PacketsAssumption, SendBufferAssumption
  <1>. QED
    BY <1>1

Prepend(x, r) == [r EXCEPT !.packets = x \o @]

\* One turn of the loop of OnRecv, given what the turns after it return.
Turn(data, rest, i) ==
    LET dataSize == Len(data) - i IN
    IF dataSize < HeaderSize \/ dataSize < SizeAt(data, i)
      THEN [processLen |-> i, packets |-> <<>>]
      ELSE LET size == SizeAt(data, i) IN
           Prepend(<<SubSeq(data, i + 1, i + size)>>, rest[i + size])

\* The loop ends: each turn passes a header at least.
LEMMA TurnsEnd ==
    ASSUME NEW S, NEW data \in Seq(S)
    PROVE  \E rest : rest = [i \in 0..Len(data) |-> Turn(data, rest, i)]
  <1> DEFINE N == Len(data)
             From(n) == {i \in 0..N : N - i <= n}
             Is(rest, n) == \A i \in From(n) : rest[i] = Turn(data, rest, i)
             T == {n \in Nat : \E rest : Is(rest, n)}
  <1>1. N \in Nat
    BY LenProperties
  <1>s. \A i \in 0..N : SizeAt(data, i) \in Nat /\ SizeAt(data, i) >= 1
    <2>1. HeaderSize \in Nat \ {0}
      BY PacketsAssumption
    <2>2. \A i \in 0..N : \/ SizeAt(data, i) = HeaderSize
                          \/ \E p \in Packets : SizeAt(data, i) = Size[p]
      BY DEF SizeAt
    <2>. QED
      BY <2>1, <2>2, SizeRange
  <1> HIDE DEF N
  \* A turn looks at later turns only.
  <1>2. ASSUME NEW r1, NEW r2, NEW i \in 0..N,
               \A j \in 0..N : j > i => r1[j] = r2[j]
        PROVE  Turn(data, r1, i) = Turn(data, r2, i)
    <2>1. CASE N - i < HeaderSize \/ N - i < SizeAt(data, i)
      BY <2>1 DEF Turn, N
    <2>2. CASE ~(N - i < HeaderSize \/ N - i < SizeAt(data, i))
      <3>1. i + SizeAt(data, i) \in 0..N /\ i + SizeAt(data, i) > i
        BY <1>1, <1>s, <2>2
      <3>2. r1[i + SizeAt(data, i)] = r2[i + SizeAt(data, i)]
        BY <1>2, <3>1
      <3>. QED
        BY <3>2 DEF Turn
    <2>. QED
      BY <2>1, <2>2
  <1>3. 0 \in T
    <2> DEFINE r0 == [i \in 0..N |-> i]
               r == [i \in 0..N |-> Turn(data, r0, i)]
    <2>1. \A i \in From(0) : i = N
      BY <1>1
    <2>2. Turn(data, r, N) = Turn(data, r0, N)
      <3>1. N \in 0..N /\ \A j \in 0..N : ~(j > N)
        BY <1>1
      <3> HIDE DEF r, r0
      <3>. QED
        BY <1>2, <3>1
    <2>3. Is(r, 0)
      <3>1. N \in 0..N
        BY <1>1
      <3>2. r[N] = Turn(data, r, N)
        BY <2>2, <3>1
      <3> HIDE DEF r
      <3>. QED
        BY <2>1, <3>2
    <2>. QED
      BY <2>3
  <1>4. ASSUME NEW n \in Nat, n \in T
        PROVE  n + 1 \in T
    <2>1. PICK r : Is(r, n)
      BY <1>4
    <2> DEFINE r2 == [i \in 0..N |-> IF i \in From(n) THEN r[i] ELSE Turn(data, r, i)]
    <2>2. ASSUME NEW i \in From(n + 1)
          PROVE  r2[i] = Turn(data, r2, i)
      <3>1. \A j \in 0..N : j > i => j \in From(n) /\ r2[j] = r[j]
        BY <1>1
      <3>2. i \in 0..N
        OBVIOUS
      <3>3. r2[i] = Turn(data, r, i)
        BY <2>1, <3>2
      <3> HIDE DEF r2
      <3>4. Turn(data, r2, i) = Turn(data, r, i)
        BY <1>2, <3>1, <3>2
      <3>. QED
        BY <3>3, <3>4
    <2> HIDE DEF r2
    <2>. QED
      BY <2>2
  <1>5. N \in T
    <2> HIDE DEF T
    <2>1. Nat \subseteq T
      BY <1>3, <1>4, NatSetInduction
    <2>. QED
      BY <1>1, <2>1
  <1>6. PICK r : Is(r, N)
    BY <1>5
  <1> DEFINE rest == [i \in 0..N |-> r[i]]
  <1>7. \A i \in 0..N : r[i] = Turn(data, r, i)
    BY <1>1, <1>6
  <1>8. \A i \in 0..N : Turn(data, r, i) = Turn(data, rest, i)
    <2>1. \A j \in 0..N : rest[j] = r[j]
      OBVIOUS
    <2> HIDE DEF rest
    <2>. QED
      BY <1>2, <2>1
  <1>9. rest = [i \in 0..N |-> Turn(data, rest, i)]
    <2>1. \A i \in 0..N : rest[i] = Turn(data, rest, i)
      BY <1>7, <1>8
    <2>2. rest = [i \in 0..N |-> rest[i]]
      OBVIOUS
    <2> HIDE DEF rest
    <2>. QED
      BY <2>1, <2>2
  <1>. QED
    BY <1>9 DEF N

\* OnRecv returns what the turn at 0 does; each is one step from a later one.
LEMMA OnRecvTurns ==
    ASSUME NEW S, NEW data \in Seq(S)
    PROVE  \E rest : /\ \A i \in 0..Len(data) : rest[i] = Turn(data, rest, i)
                     /\ OnRecv(data) = rest[0]
  <1> DEFINE rest == CHOOSE rest : rest = [i \in 0..Len(data) |-> Turn(data, rest, i)]
  <1>1. rest = [i \in 0..Len(data) |-> Turn(data, rest, i)]
    BY TurnsEnd
  <1>2. OnRecv(data) = rest[0]
    BY DEF OnRecv, Turn, Prepend
  <1> HIDE DEF rest
  <1>3. \A i \in 0..Len(data) : rest[i] = Turn(data, rest, i)
    BY <1>1
  <1>. QED
    BY <1>2, <1>3

\* The packets of q from the a-th, exclusively, to the m-th.
Between(q, a, m) == [i \in 1..(m - a) |-> PacketBytes(q[a + i])]

\* Between, one packet longer at its front.
LEMMA BetweenFacts ==
    ASSUME NEW q \in Seq(Packets), NEW m \in 0..Len(q)
    PROVE  /\ Between(q, m, m) = <<>>
           /\ \A a \in 0..m : a < m =>
                  Between(q, a, m)
                      = <<PacketBytes(q[a + 1])>> \o Between(q, a + 1, m)
  <1>0. Len(q) \in Nat /\ m \in Nat /\ m <= Len(q)
    BY LenProperties
  <1>1. Between(q, m, m) = <<>>
    <2>1. m - m = 0
      BY <1>0
    <2>. QED
      BY <2>1 DEF Between
  <1>2. ASSUME NEW a \in 0..m, a < m
        PROVE  Between(q, a, m)
                   = <<PacketBytes(q[a + 1])>> \o Between(q, a + 1, m)
    <2> DEFINE X == {PacketBytes(p) : p \in Packets}
               x == PacketBytes(q[a + 1])
               s == Between(q, a + 1, m)
               l == Between(q, a, m)
    <2>1. \A i \in 1..Len(q) : PacketBytes(q[i]) \in X
      BY ElementOfSeq
    <2>2. a \in Nat /\ a + 1 \in 1..Len(q) /\ m - a \in Nat /\ m - (a + 1) \in Nat
      BY <1>0, <1>2
    <2>3. l \in Seq(X) /\ Len(l) = m - a /\ \A i \in 1..(m - a) : l[i] = PacketBytes(q[a + i])
      <3>1. \A i \in 1..(m - a) : a + i \in 1..Len(q)
        BY <1>0, <2>2
      <3>2. \A i \in 1..(m - a) : PacketBytes(q[a + i]) \in X
        BY <2>1, <3>1
      <3> HIDE DEF X
      <3>3. l = [i \in 1..(m - a) |-> PacketBytes(q[a + i])]
        BY DEF Between
      <3> HIDE DEF l
      <3>. QED
        BY <2>2, <3>2, <3>3
    <2>4. /\ s \in Seq(X) /\ Len(s) = m - (a + 1)
          /\ \A i \in 1..(m - (a + 1)) : s[i] = PacketBytes(q[a + 1 + i])
      <3>1. \A i \in 1..(m - (a + 1)) : a + 1 + i \in 1..Len(q)
        BY <1>0, <2>2
      <3>2. \A i \in 1..(m - (a + 1)) : PacketBytes(q[a + 1 + i]) \in X
        BY <2>1, <3>1
      <3> HIDE DEF X
      <3>3. s = [i \in 1..(m - (a + 1)) |-> PacketBytes(q[a + 1 + i])]
        BY DEF Between
      <3> HIDE DEF s
      <3>. QED
        BY <2>2, <3>2, <3>3
    <2>5. <<x>> \in Seq(X) /\ Len(<<x>>) = 1 /\ <<x>>[1] = x
      BY <2>1, <2>2
    <2> HIDE DEF s, l, X, x
    <2>6. /\ <<x>> \o s \in Seq(X)
          /\ Len(<<x>> \o s) = 1 + Len(s)
          /\ \A i \in 1..(1 + Len(s)) :
                 (<<x>> \o s)[i] = IF i <= 1 THEN x ELSE s[i - 1]
      <3> PICK xs : xs = <<x>>
        OBVIOUS
      <3>1. xs \in Seq(X) /\ Len(xs) = 1 /\ xs[1] = x
        BY <2>5
      <3>2. /\ xs \o s \in Seq(X)
            /\ Len(xs \o s) = Len(xs) + Len(s)
            /\ \A i \in 1..(Len(xs) + Len(s)) :
                   (xs \o s)[i] = IF i <= Len(xs) THEN xs[i] ELSE s[i - Len(xs)]
        BY <2>4, <3>1, ConcatProperties
      <3>3. \A i \in 1..(1 + Len(s)) : i <= 1 => i = 1
        BY <2>2, <2>4
      <3>. QED
        BY <3>1, <3>2, <3>3
    <2>7. Len(<<x>> \o s) = Len(l)
      BY <2>2, <2>3, <2>4, <2>6
    <2>8. ASSUME NEW i \in 1..Len(l)
          PROVE  l[i] = (<<x>> \o s)[i]
      <3>1. i \in 1..(m - a) /\ i \in 1..(1 + Len(s))
        BY <2>2, <2>3, <2>4
      <3>2. CASE i = 1
        BY <2>3, <2>6, <3>1, <3>2 DEF x
      <3>3. CASE i # 1
        <4>1. i - 1 \in 1..(m - (a + 1)) /\ a + 1 + (i - 1) = a + i /\ ~(i <= 1)
          BY <2>2, <3>1, <3>3
        <4>. QED
          BY <2>3, <2>4, <2>6, <3>1, <4>1
      <3>. QED
        BY <3>2, <3>3
    <2>9. l = <<x>> \o s
      BY <2>3, <2>6, <2>7, <2>8, SeqEqual
    <2>. QED
      BY <2>9 DEF l, x, s
  <1>. QED
    BY <1>1, <1>2

\* As many packets of q as the first l bytes hold whole.
LEMMA WholePackets ==
    ASSUME NEW q \in Seq(Packets), NEW e, Offsets(q, e), NEW l \in Nat
    PROVE  \E m \in 0..Len(q) : e[m] <= l /\ (m < Len(q) => l < e[m + 1])
  <1>1. /\ Len(q) \in Nat /\ e[0] = 0
        /\ \A i \in 0..Len(q) : e[i] \in Nat
    BY LenProperties DEF Offsets
  <1>2. CASE e[Len(q)] <= l
    BY <1>1, <1>2
  <1>3. CASE ~(e[Len(q)] <= l)
    <2> DEFINE S == {i \in 0..Len(q) : e[i] > l}
    <2>1. Len(q) \in S /\ S \subseteq Nat
      BY <1>1, <1>3
    <2>2. PICK k \in S : \A i \in S : k <= i
      <3> HIDE DEF S
      <3>. QED
        BY <2>1, Smallest
    <2>3. k \in Nat /\ k <= Len(q) /\ e[k] > l /\ k # 0
      BY <1>1, <2>2
    <2>4. k - 1 \in 0..Len(q) /\ k - 1 + 1 = k
      BY <1>1, <2>3
    <2>5. e[k - 1] <= l
      <3>1. k - 1 \notin S
        BY <2>2, <2>3
      <3>. QED
        BY <1>1, <2>4, <3>1
    <2>. QED
      BY <1>1, <2>3, <2>4, <2>5
  <1>. QED
    BY <1>2, <1>3

\* The header that is read where a packet begins is its own.
LEMMA SizeAtBorder ==
    ASSUME NEW q \in Seq(Packets), NEW e, Offsets(q, e), NEW data, Len(data) \in Nat,
           Frames(q, e, data), NEW a \in Nat, a < Len(q), e[a] < Len(data)
    PROVE  SizeAt(data, e[a]) = Size[q[a + 1]]
  <1>1. a + 1 \in 1..Len(q) /\ a + 1 - 1 = a /\ a \in 0..Len(q)
    BY LenProperties
  <1>2. q[a + 1] \in Packets /\ e[a] \in Nat
    BY <1>1, ElementOfSeq DEF Offsets
  <1>3. 1 \in 1..Size[q[a + 1]]
    BY <1>2, SizeRange
  <1>4. e[a] + 1 <= Len(data)
    BY <1>2
  <1>5. data[e[a] + 1] = <<q[a + 1], 1>>
    BY <1>1, <1>3, <1>4 DEF Frames
  <1>. QED
    BY <1>2, <1>5 DEF SizeAt

\* What a turn adds to the result of the turns after it.
LEMMA PacketsPrepended ==
    ASSUME NEW l, NEW k, NEW r, r = [processLen |-> l, packets |-> k], NEW x
    PROVE  Prepend(x, r) = [processLen |-> l, packets |-> x \o k]
  <1>1. r.packets = k
    OBVIOUS
  <1>2. ASSUME NEW y
        PROVE  [r EXCEPT !.packets = y] = [processLen |-> l, packets |-> y]
    BY Z3
  <1>. QED
    BY <1>1, <1>2, Zenon DEF Prepend

\* All the bytes of p follow the first at of data.
HasPacket(data, at, p) ==
    /\ at + Size[p] <= Len(data)
    /\ \A k \in 1..Size[p] : data[at + k] = <<p, k>>

\* The slice handed to OnRecvPacket is the packet.
LEMMA SlicePacket ==
    ASSUME NEW S, NEW data \in Seq(S), NEW at \in Nat, NEW p \in Packets,
           HasPacket(data, at, p)
    PROVE  SubSeq(data, at + 1, at + Size[p]) = PacketBytes(p)
  <1> PICK size : size = Size[p]
    OBVIOUS
  <1>a. size \in Nat /\ at + size <= Len(data)
    BY SizeRange DEF HasPacket
  <1>b. \A k \in 1..size : data[at + k] = <<p, k>>
    BY DEF HasPacket
  <1>0. Len(data) \in Nat
    BY LenProperties
  <1> DEFINE l == at + 1
             n == at + size
             x == [k \in 1..size |-> <<p, k>>]
  <1>1. /\ l \in Int /\ n \in Int /\ n - l + 1 = size
        /\ (IF l <= n THEN n - l + 1 ELSE 0) = size
        /\ \A k \in 1..size : l + k - 1 = at + k
        /\ \A k \in l..n : k \in 1..Len(data)
        /\ \A k \in 1..size : at + k \in 1..Len(data)
    BY <1>0, <1>a
  <1>2. \A k \in 1..Len(data) : data[k] \in S
    BY ElementOfSeq
  <1>3. \A k \in 1..size : <<p, k>> \in S
    BY <1>1, <1>2, <1>b
  <1>4. x \in Seq(S) /\ Len(x) = size /\ \A k \in 1..size : x[k] = <<p, k>>
    BY <1>3, <1>a
  <1> HIDE DEF l, n, x
  <1>5. /\ SubSeq(data, l, n) \in Seq(S)
        /\ Len(SubSeq(data, l, n)) = IF l <= n THEN n - l + 1 ELSE 0
        /\ \A k \in 1..(n - l + 1) : SubSeq(data, l, n)[k] = data[l + k - 1]
    BY <1>1, <1>2, SubSeqProperties
  <1>6. \A k \in 1..size : SubSeq(data, l, n)[k] = x[k]
    BY <1>1, <1>4, <1>5, <1>b
  <1>7. SubSeq(data, l, n) = x
    BY <1>1, <1>4, <1>5, <1>6, SeqEqual
  <1>. QED
    BY <1>7 DEF l, n, x, PacketBytes

\* OnRecv hands out every packet that is there whole, and stops where the first
\* begins that is not.
LEMMA OnRecvWhole ==
    ASSUME NEW q \in Seq(Packets), NEW e, Offsets(q, e),
           NEW S, NEW data \in Seq(S), Frames(q, e, data), Len(data) <= e[Len(q)]
    PROVE  \E m \in 0..Len(q) :
               /\ OnRecv(data) = [processLen |-> e[m], packets |-> Between(q, 0, m)]
               /\ e[m] <= Len(data)
               /\ m < Len(q) => Len(data) - e[m] < Size[q[m + 1]]
  <1>1. Len(data) \in Nat /\ Len(q) \in Nat
    BY LenProperties
  <1>2. PICK m \in 0..Len(q) : /\ e[m] <= Len(data)
                               /\ m < Len(q) => Len(data) < e[m + 1]
    BY <1>1, WholePackets
  <1>3. PICK rest : /\ \A i \in 0..Len(data) : rest[i] = Turn(data, rest, i)
                    /\ OnRecv(data) = rest[0]
    BY OnRecvTurns
  <1>4. /\ \A i \in 0..Len(q) : e[i] \in Nat
        /\ \A i, j \in 0..Len(q) : i <= j => e[i] <= e[j]
        /\ \A i \in 0..Len(q) : i < Len(q) =>
               /\ q[i + 1] \in Packets
               /\ Size[q[i + 1]] \in Nat /\ HeaderSize <= Size[q[i + 1]]
               /\ e[i + 1] = e[i] + Size[q[i + 1]]
    <2>1. ASSUME NEW i \in 0..Len(q), i < Len(q)
          PROVE  /\ q[i + 1] \in Packets
                 /\ Size[q[i + 1]] \in Nat /\ HeaderSize <= Size[q[i + 1]]
                 /\ e[i + 1] = e[i] + Size[q[i + 1]]
      <3>1. i + 1 \in 1..Len(q) /\ i + 1 - 1 = i
        BY <1>1, <2>1
      <3>2. q[i + 1] \in Packets
        BY <3>1, ElementOfSeq
      <3>3. e[i + 1] = e[i + 1 - 1] + Size[q[i + 1]]
        BY <3>1 DEF Offsets
      <3>. QED
        BY <3>1, <3>2, <3>3, SizeRange
    <2>. QED
      BY <2>1 DEF Offsets
  <1>5. HeaderSize \in Nat \ {0}
    BY PacketsAssumption
  <1>6. m < Len(q) => Len(data) - e[m] < Size[q[m + 1]]
    <2> SUFFICES ASSUME m < Len(q) PROVE Len(data) - e[m] < Size[q[m + 1]]
      OBVIOUS
    <2>1. Len(data) < e[m] + Size[q[m + 1]] /\ e[m] \in Nat /\ Size[q[m + 1]] \in Nat
      BY <1>2, <1>4
    <2>. QED
      BY <1>1, <2>1
  <1>7. rest[e[m]] = [processLen |-> e[m], packets |-> <<>>]
    <2>1. e[m] \in 0..Len(data)
      BY <1>1, <1>2, <1>4
    <2>2. ASSUME ~(Len(data) - e[m] < HeaderSize)
          PROVE  Len(data) - e[m] < SizeAt(data, e[m])
      <3>1. e[m] < Len(data)
        BY <1>1, <1>5, <2>1, <2>2
      <3>2. m < Len(q)
        BY <1>1, <1>4, <2>1, <3>1
      <3>3. SizeAt(data, e[m]) = Size[q[m + 1]]
        BY <1>1, <3>1, <3>2, SizeAtBorder
      <3>. QED
        BY <1>6, <3>2, <3>3
    <2>3. Turn(data, rest, e[m]) = [processLen |-> e[m], packets |-> <<>>]
      BY <2>2 DEF Turn
    <2>. QED
      BY <1>3, <2>1, <2>3
  <1> DEFINE Done(a) ==
                 rest[e[a]] = [processLen |-> e[m], packets |-> Between(q, a, m)]
             T == {t \in Nat : t <= m => Done(m - t)}
  <1>8. 0 \in T
    <2>1. m - 0 = m
      BY <1>1
    <2>. QED
      BY <1>7, <2>1, BetweenFacts
  <1>9. ASSUME NEW t \in Nat, t \in T
        PROVE  t + 1 \in T
    <2> SUFFICES ASSUME t + 1 <= m
                 PROVE  Done(m - (t + 1))
      OBVIOUS
    <2> PICK a : a = m - (t + 1)
      OBVIOUS
    <2>1. a \in 0..m /\ a < m /\ a + 1 = m - t /\ a \in 0..Len(q) /\ a < Len(q)
          /\ a + 1 \in 0..Len(q) /\ a + 1 <= m
      BY <1>1
    <2>2. Done(a + 1)
      BY <1>9, <2>1
    <2>3. /\ e[a] \in Nat /\ e[a + 1] \in Nat /\ e[m] \in Nat
          /\ Size[q[a + 1]] \in Nat /\ HeaderSize <= Size[q[a + 1]]
          /\ e[a + 1] = e[a] + Size[q[a + 1]]
          /\ e[a + 1] <= e[m]
      BY <1>4, <2>1
    <2>4. e[a] \in 0..Len(data) /\ e[a] < Len(data)
      BY <1>1, <1>2, <1>5, <2>3
    <2>5. SizeAt(data, e[a]) = Size[q[a + 1]]
      BY <1>1, <2>1, <2>4, SizeAtBorder
    <2>6. ~(Len(data) - e[a] < HeaderSize) /\ ~(Len(data) - e[a] < Size[q[a + 1]])
      BY <1>1, <1>2, <1>5, <2>3
    <2>7. SubSeq(data, e[a] + 1, e[a] + Size[q[a + 1]]) = PacketBytes(q[a + 1])
      <3>1. e[a] + 1 \in Nat /\ e[a] + Size[q[a + 1]] \in Nat
            /\ e[a] + Size[q[a + 1]] - (e[a] + 1) + 1 = Size[q[a + 1]]
        BY <2>3
      <3>2. \A k \in 1..Size[q[a + 1]] :
               e[a] + k <= Len(data) /\ e[a] + 1 + k - 1 = e[a] + k
        <4>1. PICK z, b, n : z = Size[q[a + 1]] /\ b = e[a] /\ n = Len(data)
          OBVIOUS
        <4>2. z \in Nat /\ b \in Nat /\ n \in Nat /\ b + z <= n
          BY <1>1, <1>2, <2>3, <4>1
        <4>3. \A k \in 1..z : b + k <= n /\ b + 1 + k - 1 = b + k
          BY <4>2
        <4>. QED
          BY <4>1, <4>3
      <3>3. a + 1 \in 1..Len(q) /\ a + 1 - 1 = a
        BY <1>1, <2>1
      <3>4. \A k \in 1..Size[q[a + 1]] : data[e[a] + k] = <<q[a + 1], k>>
        <4> PICK i : i = a + 1
          OBVIOUS
        <4>1. i \in 1..Len(q) /\ i - 1 = a
          BY <3>3
        <4>2. \A k \in 1..Size[q[i]] : e[i - 1] + k <= Len(data)
          BY <3>2, <4>1
        <4>3. \A k \in 1..Size[q[i]] : data[e[i - 1] + k] = <<q[i], k>>
          BY <4>1, <4>2 DEF Frames
        <4>. QED
          BY <4>1, <4>3
      <3>5. e[a] + Size[q[a + 1]] <= Len(data)
        BY <1>1, <1>2, <2>3
      <3>. QED
        <4>1. HasPacket(data, e[a], q[a + 1])
          BY <3>4, <3>5 DEF HasPacket
        <4>2. q[a + 1] \in Packets /\ e[a] \in Nat
          BY <1>4, <2>1, <2>3
        <4>. QED
          BY <4>1, <4>2, SlicePacket
    <2>8. rest[e[a]] = Turn(data, rest, e[a])
      BY <1>3, <2>4
    <2>9. Turn(data, rest, e[a])
              = Prepend(<<PacketBytes(q[a + 1])>>, rest[e[a + 1]])
      BY <2>3, <2>5, <2>6, <2>7, Zenon DEF Turn
    <2>10. Prepend(<<PacketBytes(q[a + 1])>>, rest[e[a + 1]])
              = [processLen |-> e[m],
                 packets |-> <<PacketBytes(q[a + 1])>> \o Between(q, a + 1, m)]
      <3> PICK r, x : r = rest[e[a + 1]] /\ x = <<PacketBytes(q[a + 1])>>
        OBVIOUS
      <3> PICK l, k : l = e[m] /\ k = Between(q, a + 1, m)
        OBVIOUS
      <3>1. r = [processLen |-> l, packets |-> k]
        BY <2>2
      <3>2. Prepend(x, r) = [processLen |-> l, packets |-> x \o k]
        BY <3>1, PacketsPrepended
      <3>. QED
        BY <3>2
    <2>11. Between(q, a, m) = <<PacketBytes(q[a + 1])>> \o Between(q, a + 1, m)
      BY <2>1, BetweenFacts
    <2>. QED
      BY <2>8, <2>9, <2>10, <2>11
  <1>10. m \in T
    <2> HIDE DEF T
    <2>1. Nat \subseteq T
      BY <1>8, <1>9, NatSetInduction
    <2>. QED
      BY <1>1, <2>1
  <1>11. Done(0)
    <2>1. m - m = 0 /\ m \in Nat /\ m <= m
      BY <1>1
    <2>. QED
      BY <1>10, <2>1
  <1>12. OnRecv(data) = [processLen |-> e[m], packets |-> Between(q, 0, m)]
    <2>1. e[0] = 0
      BY DEF Offsets
    <2>. QED
      BY <1>3, <1>11, <2>1
  <1>. QED
    BY <1>2, <1>6, <1>12

-----------------------------------------------------------------------------
(* FlattenSeq *)

\* One step of the recursion of FlattenSeq.
Flat(s, f, i) == IF i = 1 THEN s[i] ELSE f[i - 1] \o s[i]

\* FlattenSeq is the last step of its recursion.
LEMMA FlattenSteps ==
    ASSUME NEW s, Len(s) \in Nat \ {0}
    PROVE  \E f : /\ \A i \in 1..Len(s) : f[i] = Flat(s, f, i)
                  /\ FlattenSeq(s) = f[Len(s)]
  <1> DEFINE N == Len(s)
             Is(f, n) == \A i \in 1..n : f[i] = Flat(s, f, i)
             T == {n \in Nat : \E f : Is(f, n)}
  <1>1. N \in Nat /\ N # 0
    OBVIOUS
  <1> HIDE DEF N
  <1>2. ASSUME NEW f, NEW g, NEW i \in Nat, i # 1 => f[i - 1] = g[i - 1]
        PROVE  Flat(s, f, i) = Flat(s, g, i)
    BY <1>2 DEF Flat
  <1>3. 0 \in T
    <2>1. \A f : Is(f, 0)
      OBVIOUS
    <2>. QED
      BY <2>1
  <1>4. ASSUME NEW n \in Nat, n \in T
        PROVE  n + 1 \in T
    <2>1. PICK f : Is(f, n)
      BY <1>4
    <2> DEFINE g == [i \in 1..(n + 1) |-> IF i \in 1..n THEN f[i] ELSE Flat(s, f, i)]
    <2>2. ASSUME NEW i \in 1..(n + 1)
          PROVE  g[i] = Flat(s, g, i)
      <3>1. i # 1 => i - 1 \in 1..n /\ i - 1 \in 1..(n + 1)
        OBVIOUS
      <3>2. i # 1 => g[i - 1] = f[i - 1]
        BY <3>1
      <3>3. g[i] = Flat(s, f, i)
        BY <2>1
      <3>4. i \in Nat
        OBVIOUS
      <3> HIDE DEF g
      <3>. QED
        BY <1>2, <3>2, <3>3, <3>4
    <2> HIDE DEF g
    <2>. QED
      BY <2>2
  <1>5. N \in T
    <2> HIDE DEF T
    <2>1. Nat \subseteq T
      BY <1>3, <1>4, NatSetInduction
    <2>. QED
      BY <1>1, <2>1
  <1>6. PICK f : Is(f, N)
    BY <1>5
  <1> DEFINE g == [i \in 1..N |-> f[i]]
  <1>7. g = [i \in 1..N |-> Flat(s, g, i)]
    <2>1. ASSUME NEW i \in 1..N
          PROVE  g[i] = Flat(s, g, i)
      <3>1. i \in Nat /\ (i # 1 => i - 1 \in 1..N)
        BY <1>1
      <3>2. i # 1 => g[i - 1] = f[i - 1]
        BY <3>1
      <3>3. g[i] = Flat(s, f, i)
        BY <1>6
      <3> HIDE DEF g
      <3>. QED
        BY <1>2, <3>1, <3>2, <3>3
    <2>2. g = [i \in 1..N |-> g[i]]
      OBVIOUS
    <2> HIDE DEF g
    <2>. QED
      BY <2>1, <2>2
  <1> HIDE DEF g
  <1> DEFINE flatten == CHOOSE h : h = [i \in 1..N |-> Flat(s, h, i)]
  <1>8. flatten = [i \in 1..N |-> Flat(s, flatten, i)]
    BY <1>7
  <1>9. FlattenSeq(s) = flatten[N]
    <2>1. Len(s) # 0
      OBVIOUS
    <2>. QED
      BY <2>1 DEF FlattenSeq, Flat, N
  <1> HIDE DEF flatten
  <1>10. \A i \in 1..N : flatten[i] = Flat(s, flatten, i)
    BY <1>8
  <1>. QED
    BY <1>9, <1>10 DEF N

\* data are the bytes of the first n packets of q.
Filled(q, e, n, data) ==
    /\ data \in Seq(Packets \X Nat) /\ Len(data) = e[n]
    /\ \A i \in 1..n : \A k \in 1..Size[q[i]] : data[e[i - 1] + k] = <<q[i], k>>

\* The bytes of a packet, as a sequence.
LEMMA PacketBytesFacts ==
    ASSUME NEW p \in Packets
    PROVE  /\ PacketBytes(p) \in Seq(Packets \X Nat)
           /\ Len(PacketBytes(p)) = Size[p]
           /\ \A k \in 1..Size[p] : PacketBytes(p)[k] = <<p, k>>
  <1>1. Size[p] \in Nat
    BY SizeRange
  <1>. QED
    BY <1>1 DEF PacketBytes

\* Concatenation of bytes, element by element.
LEMMA ConcatFacts ==
    ASSUME NEW s \in Seq(Packets \X Nat), NEW t \in Seq(Packets \X Nat)
    PROVE  /\ s \o t \in Seq(Packets \X Nat) /\ Len(s \o t) = Len(s) + Len(t)
           /\ \A i \in 1..Len(s) : (s \o t)[i] = s[i]
           /\ \A i \in 1..Len(t) : (s \o t)[Len(s) + i] = t[i]
  <1>1. Len(s) \in Nat /\ Len(t) \in Nat
    BY LenProperties
  <1>2. /\ s \o t \in Seq(Packets \X Nat) /\ Len(s \o t) = Len(s) + Len(t)
        /\ \A i \in 1..(Len(s) + Len(t)) :
               (s \o t)[i] = IF i <= Len(s) THEN s[i] ELSE t[i - Len(s)]
    BY ConcatProperties
  <1>3. \A i \in 1..Len(s) : i \in 1..(Len(s) + Len(t)) /\ i <= Len(s)
    BY <1>1
  <1>4. \A i \in 1..Len(t) : /\ Len(s) + i \in 1..(Len(s) + Len(t))
                             /\ ~(Len(s) + i <= Len(s)) /\ Len(s) + i - Len(s) = i
    BY <1>1
  <1>. QED
    BY <1>2, <1>3, <1>4

\* One more.
LEMMA FilledOnce ==
    ASSUME NEW q \in Seq(Packets), NEW e, Offsets(q, e),
           NEW a \in Nat, a < Len(q), NEW x, Filled(q, e, a, x)
    PROVE  Filled(q, e, a + 1, x \o PacketBytes(q[a + 1]))
  <1> DEFINE B == Packets \X Nat
  <1>0. PICK y, p, b : y = PacketBytes(p) /\ p = q[b] /\ b = a + 1
    OBVIOUS
  <1>1. /\ Len(q) \in Nat
        /\ b \in 1..Len(q) /\ b \in 0..Len(q) /\ a \in 0..Len(q) /\ b - 1 = a
    BY <1>0, LenProperties
  <1>2. p \in Packets
    BY <1>0, <1>1, ElementOfSeq
  <1>3. y \in Seq(B) /\ Len(y) = Size[p] /\ Size[p] \in Nat
        /\ \A k \in 1..Size[p] : y[k] = <<p, k>>
    BY <1>0, <1>2, PacketBytesFacts, SizeRange
  <1>4. x \in Seq(B) /\ Len(x) = e[a]
    BY DEF Filled
  <1> HIDE DEF B
  <1>5. /\ x \o y \in Seq(B)
        /\ Len(x \o y) = Len(x) + Len(y)
        /\ \A i \in 1..Len(x) : (x \o y)[i] = x[i]
        /\ \A i \in 1..Len(y) : (x \o y)[Len(x) + i] = y[i]
    BY <1>3, <1>4, ConcatFacts DEF B
  <1>6. /\ \A i \in 0..Len(q) : e[i] \in Nat
        /\ \A i, j \in 0..Len(q) : i <= j => e[i] <= e[j]
    BY DEF Offsets
  <1>7. e[b] = e[a] + Size[p]
    BY <1>0, <1>1 DEF Offsets
  <1>8. ASSUME NEW i \in 1..b, NEW k \in 1..Size[q[i]]
        PROVE  (x \o y)[e[i - 1] + k] = <<q[i], k>>
    <2>1. i \in 1..Len(q) /\ i - 1 \in 0..Len(q) /\ i \in 0..Len(q)
      BY <1>1
    <2>2. q[i] \in Packets
      BY <2>1, ElementOfSeq
    <2>3. Size[q[i]] \in Nat /\ e[i - 1] \in Nat /\ e[i] = e[i - 1] + Size[q[i]]
      BY <1>6, <2>1, <2>2, SizeRange DEF Offsets
    <2>4. k \in Nat /\ k >= 1 /\ k <= Size[q[i]]
      BY <2>3
    <2>w. PICK w, n : w = e[i - 1] + k /\ n = Len(x)
      OBVIOUS
    <2>5. n \in Nat /\ n = e[a] /\ w \in Nat
      BY <1>1, <1>4, <1>6, <2>3, <2>4, <2>w
    <2>6. CASE i = b
      <3>1. i - 1 = a /\ q[i] = p /\ k \in 1..Size[p]
        BY <1>0, <1>1, <2>6
      <3>2. w = n + k
        BY <2>5, <2>w, <3>1
      <3>3. w = Len(x) + k /\ k \in 1..Len(y)
        BY <1>3, <2>w, <3>1, <3>2
      <3>4. (x \o y)[w] = y[k]
        BY <1>5, <3>3
      <3>. QED
        BY <1>3, <2>w, <3>1, <3>4
    <2>7. CASE i # b
      <3>1. i \in 1..a
        BY <1>1, <2>7
      <3>2. e[i] <= e[a] /\ e[i] \in Nat /\ e[a] \in Nat
        BY <1>1, <1>6, <2>1, <3>1
      <3>3. w <= n /\ w >= 1
        <4>0. PICK l, m, c, d : l = e[a] /\ m = Size[q[i]] /\ c = e[i] /\ d = e[i - 1]
          OBVIOUS
        <4>1. /\ l \in Nat /\ m \in Nat /\ c \in Nat /\ d \in Nat
              /\ c = d + m /\ c <= l /\ k <= m /\ k \in Nat /\ k >= 1
              /\ w = d + k /\ n = l
          BY <2>3, <2>4, <2>5, <2>w, <3>2, <4>0
        <4>. QED
          BY <4>1
      <3>4. w \in 1..Len(x)
        BY <2>5, <2>w, <3>3
      <3>5. (x \o y)[w] = x[w]
        BY <1>5, <3>4
      <3>6. x[e[i - 1] + k] = <<q[i], k>>
        BY <3>1 DEF Filled
      <3>. QED
        BY <2>w, <3>5, <3>6
    <2>. QED
      BY <2>6, <2>7
  <1>9. Filled(q, e, b, x \o y)
    BY <1>3, <1>4, <1>5, <1>7, <1>8 DEF Filled, B
  <1>. QED
    BY <1>0, <1>9

\* What ProcessSend puts on the wire: the packets one after the other.
LEMMA FlattenPackets ==
    ASSUME NEW q \in Seq(Packets), NEW e, Offsets(q, e),
           NEW s, s = [i \in DOMAIN q |-> PacketBytes(q[i])]
    PROVE  Filled(q, e, Len(q), FlattenSeq(s))
  <1> DEFINE B == Packets \X Nat
             N == Len(q)
  <1>1. /\ N \in Nat /\ DOMAIN q = 1..N
        /\ \A i \in 1..N : q[i] \in Packets
    BY LenProperties, ElementOfSeq
  <1>2. /\ s = [i \in 1..N |-> PacketBytes(q[i])] /\ Len(s) = N
        /\ \A i \in 1..N : s[i] = PacketBytes(q[i])
    BY <1>1
  <1>3. ASSUME NEW i \in 1..N
        PROVE  /\ s[i] \in Seq(B) /\ Len(s[i]) = Size[q[i]] /\ Size[q[i]] \in Nat
               /\ \A k \in 1..Size[q[i]] : s[i][k] = <<q[i], k>>
    <2> PICK p : p = q[i]
      OBVIOUS
    <2>1. p \in Packets /\ Size[p] \in Nat
      BY <1>1, SizeRange
    <2>2. /\ PacketBytes(p) \in Seq(B) /\ Len(PacketBytes(p)) = Size[p]
          /\ \A k \in 1..Size[p] : PacketBytes(p)[k] = <<p, k>>
      BY <2>1 DEF PacketBytes
    <2>. QED
      BY <1>2, <2>1, <2>2
  <1> HIDE DEF B
  <1>4. /\ e[0] = 0 /\ \A i \in 0..N : e[i] \in Nat
        /\ \A i, j \in 0..N : i <= j => e[i] <= e[j]
    BY DEF Offsets
  <1>5. CASE N = 0
    <2>1. s = <<>> /\ FlattenSeq(s) = s
      BY <1>2, <1>5 DEF FlattenSeq
    <2>2. <<>> \in Seq(B) /\ Len(<<>>) = 0
      OBVIOUS
    <2>3. \A i \in 1..N : FALSE
      BY <1>5
    <2>. QED
      BY <1>4, <1>5, <2>1, <2>2, <2>3 DEF Filled, B
  <1>6. CASE N # 0
    <2>1. PICK f : /\ \A i \in 1..N : f[i] = Flat(s, f, i)
                   /\ FlattenSeq(s) = f[N]
      <3>1. Len(s) \in Nat \ {0}
        BY <1>1, <1>2, <1>6
      <3>2. PICK f : /\ \A i \in 1..Len(s) : f[i] = Flat(s, f, i)
                     /\ FlattenSeq(s) = f[Len(s)]
        BY <3>1, FlattenSteps
      <3>. QED
        BY <1>2, <3>2
    <2> DEFINE Good(t) ==
                   /\ f[t] \in Seq(B) /\ Len(f[t]) = e[t]
                   /\ \A i \in 1..t : \A k \in 1..Size[q[i]] :
                          f[t][e[i - 1] + k] = <<q[i], k>>
               T == {t \in Nat : t + 1 <= N => Good(t + 1)}
    <2>2. 0 \in T
      <3>1. 1 \in 1..N /\ 0 + 1 = 1 /\ 1 - 1 = 0
        BY <1>1, <1>6
      <3>2. f[1] = s[1] /\ s[1] \in Seq(B) /\ Len(s[1]) = Size[q[1]] /\ Size[q[1]] \in Nat
            /\ \A k \in 1..Size[q[1]] : s[1][k] = <<q[1], k>>
        BY <1>3, <2>1, <3>1 DEF Flat
      <3>3. e[1] = Size[q[1]]
        <4>1. e[1] = e[1 - 1] + Size[q[1]]
          BY <3>1 DEF Offsets
        <4>. QED
          BY <1>4, <3>1, <3>2, <4>1
      <3>4. ASSUME NEW i \in 1..1, NEW k \in 1..Size[q[i]]
            PROVE  f[1][e[i - 1] + k] = <<q[i], k>>
        <4>1. i = 1
          OBVIOUS
        <4>2. k \in 1..Size[q[1]] /\ k \in Nat /\ e[i - 1] + k = k
          BY <1>4, <3>1, <3>2, <4>1
        <4>. QED
          BY <3>2, <4>1, <4>2
      <3>5. Good(1)
        BY <3>2, <3>3, <3>4
      <3>. QED
        BY <3>1, <3>5
    <2>3. ASSUME NEW t \in Nat, t \in T
          PROVE  t + 1 \in T
      <3>0. t + 1 \in Nat
        OBVIOUS
      <3> SUFFICES ASSUME t + 1 + 1 <= N
                   PROVE  Good(t + 1 + 1)
        BY <3>0, Zenon
      <3> PICK a, b : a = t + 1 /\ b = t + 1 + 1
        OBVIOUS
      <3>1. a \in Nat /\ b \in 1..N /\ a \in 0..N /\ b # 1 /\ b - 1 = a /\ a <= N
        BY <1>1
      <3>2. Good(a)
        BY <2>3, <3>1
      <3>3. f[b] = f[a] \o PacketBytes(q[b])
        <4>1. f[b] = Flat(s, f, b)
          BY <2>1, <3>1
        <4>2. f[b] = f[a] \o s[b]
          BY <3>1, <4>1 DEF Flat
        <4>. QED
          BY <1>2, <3>1, <4>2
      <3> PICK x, y : x = f[a] /\ y = f[b]
        OBVIOUS
      <3>4. Filled(q, e, a, x)
        BY <3>2 DEF Filled, B
      <3>5. Filled(q, e, b, y)
        <4>1. a \in Nat /\ a < N /\ b = a + 1
          BY <1>1, <3>1
        <4>. QED
          BY <3>3, <3>4, <4>1, FilledOnce
      <3>6. Good(b)
        BY <3>5 DEF Filled, B
      <3>. QED
        BY <3>6
    <2>4. Good(N)
      <3>1. N - 1 \in Nat /\ N - 1 + 1 = N
        BY <1>1, <1>6
      <3>2. N - 1 \in T
        <4> HIDE DEF T
        <4>1. Nat \subseteq T
          BY <2>2, <2>3, NatSetInduction
        <4>. QED
          BY <3>1, <4>1
      <3>3. N - 1 + 1 <= N => Good(N - 1 + 1)
        BY <3>2
      <3>. QED
        BY <1>1, <3>1, <3>3
    <2>. QED
      BY <2>1, <2>4 DEF Filled, B
  <1>. QED
    BY <1>5, <1>6

-----------------------------------------------------------------------------
(* The bytes of a part of the packets *)

\* data are the bytes of the packets of s from the h-th, exclusively, to the
\* w-th; c holds where each packet begins in the bytes of them all.
Holds(s, c, h, w, data) ==
    /\ data \in Seq(Packets \X Nat)
    /\ Len(data) = c[w] - c[h]
    /\ \A i \in (h + 1)..w : \A k \in 1..Size[s[i]] :
           data[c[i - 1] - c[h] + k] = <<s[i], k>>

\* The offsets grow with the packets.
LEMMA OffsetsFacts ==
    ASSUME NEW s \in Seq(Packets), NEW c, Offsets(s, c)
    PROVE  /\ Len(s) \in Nat
           /\ \A i \in 0..Len(s) : c[i] \in Nat
           /\ \A i, j \in 0..Len(s) : i <= j => c[i] <= c[j]
           /\ \A i \in 1..Len(s) : /\ s[i] \in Packets
                                   /\ Size[s[i]] \in Nat
                                   /\ c[i] = c[i - 1] + Size[s[i]]
  BY LenProperties, ElementOfSeq, SizeRange DEF Offsets

\* The k-th byte of a packet that lies between a and b does so too.
LEMMA Within ==
    \A a, b, p, z, k \in Nat :
        a <= p /\ p + z <= b /\ 1 <= k /\ k <= z => p - a + k \in 1..(b - a)
  OBVIOUS

\* More packets behind.
LEMMA HoldsConcat ==
    ASSUME NEW s \in Seq(Packets), NEW c, Offsets(s, c),
           NEW h \in Nat, NEW w \in Nat, NEW v \in Nat,
           h <= w, w <= v, v <= Len(s),
           NEW x, Holds(s, c, h, w, x), NEW y, Holds(s, c, w, v, y)
    PROVE  Holds(s, c, h, v, x \o y)
  <1>1. /\ x \in Seq(Packets \X Nat) /\ y \in Seq(Packets \X Nat)
        /\ Len(x) = c[w] - c[h] /\ Len(y) = c[v] - c[w]
    BY DEF Holds
  <1>2. /\ Len(s) \in Nat
        /\ \A i \in 0..Len(s) : c[i] \in Nat
        /\ \A i, j \in 0..Len(s) : i <= j => c[i] <= c[j]
        /\ \A i \in 1..Len(s) : /\ s[i] \in Packets
                                /\ Size[s[i]] \in Nat
                                /\ c[i] = c[i - 1] + Size[s[i]]
    BY OffsetsFacts
  <1>3. /\ x \o y \in Seq(Packets \X Nat) /\ Len(x \o y) = Len(x) + Len(y)
        /\ \A i \in 1..Len(x) : (x \o y)[i] = x[i]
        /\ \A i \in 1..Len(y) : (x \o y)[Len(x) + i] = y[i]
    BY <1>1, ConcatFacts
  <1>4. /\ h \in 0..Len(s) /\ w \in 0..Len(s) /\ v \in 0..Len(s)
        /\ c[h] \in Nat /\ c[w] \in Nat /\ c[v] \in Nat
        /\ c[h] <= c[w] /\ c[w] <= c[v]
    BY <1>2
  <1>5. Len(x \o y) = c[v] - c[h]
    BY <1>1, <1>3, <1>4
  <1>6. ASSUME NEW i \in (h + 1)..v, NEW k \in 1..Size[s[i]]
        PROVE  (x \o y)[c[i - 1] - c[h] + k] = <<s[i], k>>
    <2>1. /\ i \in 1..Len(s) /\ i \in 0..Len(s) /\ i - 1 \in 0..Len(s) /\ h <= i - 1
      BY <1>2
    <2>2. /\ Size[s[i]] \in Nat /\ c[i] = c[i - 1] + Size[s[i]]
          /\ c[i - 1] \in Nat /\ c[i] \in Nat /\ c[h] <= c[i - 1]
      BY <1>2, <1>4, <2>1
    <2>3. k \in Nat /\ k >= 1 /\ k <= Size[s[i]]
      BY <2>2
    <2>4. CASE i <= w
      <3>1. i \in (h + 1)..w
        BY <2>4
      <3>2. x[c[i - 1] - c[h] + k] = <<s[i], k>>
        BY <3>1 DEF Holds
      <3>3. c[i] <= c[w]
        BY <1>2, <1>4, <2>1, <2>4
      <3>4. c[i - 1] - c[h] + k \in 1..Len(x)
        BY <1>1, <1>4, <2>2, <2>3, <3>3, Within
      <3>. QED
        BY <1>3, <3>2, <3>4
    <2>5. CASE ~(i <= w)
      <3>1. i \in (w + 1)..v /\ w <= i - 1
        BY <2>5
      <3>2. y[c[i - 1] - c[w] + k] = <<s[i], k>>
        BY <3>1 DEF Holds
      <3>3. c[i] <= c[v] /\ c[w] <= c[i - 1]
        BY <1>2, <1>4, <2>1, <3>1
      <3>4. c[i - 1] - c[w] + k \in 1..Len(y)
        BY <1>1, <1>4, <2>2, <2>3, <3>3, Within
      <3>5. Len(x) + (c[i - 1] - c[w] + k) = c[i - 1] - c[h] + k
        <4>1. PICK a, b, p, l : a = c[h] /\ b = c[w] /\ p = c[i - 1] /\ l = Len(x)
          OBVIOUS
        <4>2. a \in Nat /\ b \in Nat /\ p \in Nat /\ l = b - a
          BY <1>1, <1>4, <2>2, <4>1
        <4>3. l + (p - b + k) = p - a + k
          BY <2>3, <4>2
        <4>. QED
          BY <4>1, <4>3
      <3>6. (x \o y)[Len(x) + (c[i - 1] - c[w] + k)] = y[c[i - 1] - c[w] + k]
        BY <1>3, <3>4
      <3>. QED
        BY <3>2, <3>5, <3>6
    <2>. QED
      BY <2>4, <2>5
  <1>. QED
    BY <1>3, <1>5, <1>6 DEF Holds

\* Whole packets gone from the front.
LEMMA HoldsDrop ==
    ASSUME NEW s \in Seq(Packets), NEW c, Offsets(s, c),
           NEW h \in Nat, NEW g \in Nat, NEW w \in Nat,
           h <= g, g <= w, w <= Len(s),
           NEW x, Holds(s, c, h, w, x),
           NEW y \in Seq(Packets \X Nat), Len(y) = Len(x) - (c[g] - c[h]),
           \A i \in 1..Len(y) : y[i] = x[c[g] - c[h] + i]
    PROVE  Holds(s, c, g, w, y)
  <1>1. Len(x) = c[w] - c[h]
    BY DEF Holds
  <1>2. /\ Len(s) \in Nat
        /\ \A i \in 0..Len(s) : c[i] \in Nat
        /\ \A i, j \in 0..Len(s) : i <= j => c[i] <= c[j]
        /\ \A i \in 1..Len(s) : /\ s[i] \in Packets
                                /\ Size[s[i]] \in Nat
                                /\ c[i] = c[i - 1] + Size[s[i]]
    BY OffsetsFacts
  <1>4. /\ h \in 0..Len(s) /\ w \in 0..Len(s) /\ g \in 0..Len(s)
        /\ c[h] \in Nat /\ c[w] \in Nat /\ c[g] \in Nat
        /\ c[h] <= c[g] /\ c[g] <= c[w]
    BY <1>2
  <1>5. Len(y) = c[w] - c[g]
    BY <1>1, <1>4
  <1>6. ASSUME NEW i \in (g + 1)..w, NEW k \in 1..Size[s[i]]
        PROVE  y[c[i - 1] - c[g] + k] = <<s[i], k>>
    <2>1. /\ i \in 1..Len(s) /\ i \in 0..Len(s) /\ i - 1 \in 0..Len(s)
          /\ g <= i - 1 /\ i \in (h + 1)..w
      BY <1>2
    <2>2. /\ Size[s[i]] \in Nat /\ c[i] = c[i - 1] + Size[s[i]]
          /\ c[i - 1] \in Nat /\ c[i] \in Nat /\ c[g] <= c[i - 1] /\ c[i] <= c[w]
      BY <1>2, <1>4, <2>1
    <2>3. k \in Nat /\ k >= 1 /\ k <= Size[s[i]]
      BY <2>2
    <2>4. c[i - 1] - c[g] + k \in 1..Len(y)
      BY <1>5, <1>4, <2>2, <2>3, Within
    <2>5. c[g] - c[h] + (c[i - 1] - c[g] + k) = c[i - 1] - c[h] + k
      <3>1. PICK a, b, p : a = c[h] /\ b = c[g] /\ p = c[i - 1]
        OBVIOUS
      <3>2. a \in Nat /\ b \in Nat /\ p \in Nat
        BY <1>4, <2>2, <3>1
      <3>3. b - a + (p - b + k) = p - a + k
        BY <2>3, <3>2
      <3>. QED
        BY <3>1, <3>3
    <2>6. y[c[i - 1] - c[g] + k] = x[c[g] - c[h] + (c[i - 1] - c[g] + k)]
      BY <2>4
    <2>7. x[c[i - 1] - c[h] + k] = <<s[i], k>>
      BY <2>1 DEF Holds
    <2>. QED
      BY <2>5, <2>6, <2>7
  <1>. QED
    BY <1>5, <1>6 DEF Holds

\* Where the packets of a part of s begin in the bytes of that part.
From(c, h, n) == [i \in 0..n |-> c[h + i] - c[h]]

\* They are offsets of that part.
LEMMA OffsetsOfPart ==
    ASSUME NEW s \in Seq(Packets), NEW c, Offsets(s, c),
           NEW h \in Nat, NEW w \in Nat, h <= w, w <= Len(s),
           NEW q \in Seq(Packets), Len(q) = w - h,
           \A i \in 1..Len(q) : q[i] = s[h + i]
    PROVE  /\ Offsets(q, From(c, h, w - h))
           /\ \A x : Filled(q, From(c, h, w - h), w - h, x) => Holds(s, c, h, w, x)
           /\ \A x : Holds(s, c, h, w, x) => Frames(q, From(c, h, w - h), x)
  <1> DEFINE e == From(c, h, w - h)
  <1>1. /\ Len(s) \in Nat
        /\ \A i \in 0..Len(s) : c[i] \in Nat
        /\ \A i, j \in 0..Len(s) : i <= j => c[i] <= c[j]
        /\ \A i \in 1..Len(s) : /\ s[i] \in Packets
                                /\ Size[s[i]] \in Nat
                                /\ c[i] = c[i - 1] + Size[s[i]]
    BY OffsetsFacts
  <1>2. w - h \in Nat /\ h \in 0..Len(s) /\ h + 0 = h /\ w \in 0..Len(s)
        /\ h + (w - h) = w
    BY <1>1
  <1>3. DOMAIN e = 0..(w - h) /\ \A i \in 0..(w - h) : e[i] = c[h + i] - c[h]
    BY DEF From
  <1>4. \A i \in 0..(w - h) : h + i \in 0..Len(s) /\ h <= h + i
    BY <1>1
  <1>5. \A i \in 0..(w - h) : e[i] \in Nat
    <2>1. ASSUME NEW i \in 0..(w - h)
          PROVE  e[i] \in Nat
      <3>1. c[h + i] \in Nat /\ c[h] \in Nat /\ c[h] <= c[h + i]
        BY <1>1, <1>2, <1>4
      <3>. QED
        BY <1>3, <3>1
    <2>. QED
      BY <2>1
  <1>6. e \in [0..(w - h) -> Nat]
    <2>1. e = [i \in 0..(w - h) |-> e[i]]
      BY DEF From
    <2> HIDE DEF e
    <2>. QED
      BY <1>5, <2>1
  <1>7. e[0] = 0
    <2>1. 0 \in 0..(w - h) /\ c[h] \in Nat
      BY <1>1, <1>2
    <2>. QED
      BY <1>2, <1>3, <2>1
  <1>8. ASSUME NEW i \in 1..(w - h)
        PROVE  /\ i \in 0..(w - h) /\ i - 1 \in 0..(w - h)
               /\ h + i \in (h + 1)..w /\ h + i \in 1..Len(s)
               /\ e[i] = e[i - 1] + Size[q[i]]
               /\ e[i - 1] = c[h + i - 1] - c[h]
               /\ q[i] = s[h + i]
    <2>1. /\ i \in 0..(w - h) /\ i - 1 \in 0..(w - h)
          /\ h + i \in (h + 1)..w /\ h + i \in 1..Len(s)
          /\ h + i \in 0..Len(s) /\ h + (i - 1) \in 0..Len(s)
          /\ h + i - 1 = h + (i - 1)
      BY <1>1, <1>2
    <2>2. /\ Size[s[h + i]] \in Nat /\ c[h + i] = c[h + i - 1] + Size[s[h + i]]
          /\ c[h + (i - 1)] \in Nat /\ c[h] \in Nat
      <3>1. PICK j : j = h + i
        OBVIOUS
      <3>2. /\ j \in 1..Len(s) /\ j - 1 = h + (i - 1) /\ j - 1 \in 0..Len(s)
        BY <2>1, <3>1
      <3>3. /\ Size[s[j]] \in Nat /\ c[j] = c[j - 1] + Size[s[j]]
            /\ c[j - 1] \in Nat /\ c[h] \in Nat
        BY <1>1, <1>2, <3>2
      <3>. QED
        BY <3>1, <3>2, <3>3
    <2>3. e[i] = c[h + i] - c[h] /\ e[i - 1] = c[h + (i - 1)] - c[h]
      BY <1>3, <2>1
    <2>4. e[i] = e[i - 1] + Size[s[h + i]]
      <3> HIDE DEF e
      <3>1. PICK x, y, z, d : /\ x = c[h + i] /\ y = c[h + (i - 1)]
                              /\ z = Size[s[h + i]] /\ d = c[h]
        OBVIOUS
      <3>2. /\ x = y + z /\ y \in Nat /\ z \in Nat /\ d \in Nat
            /\ e[i] = x - d /\ e[i - 1] = y - d
        BY <2>1, <2>2, <2>3, <3>1
      <3>3. x - d = y - d + z
        BY <3>2
      <3>. QED
        BY <3>1, <3>2, <3>3
    <2>. QED
      BY <2>1, <2>3, <2>4
  <1>9. ASSUME NEW i \in 0..(w - h), NEW j \in 0..(w - h), i <= j
        PROVE  e[i] <= e[j]
    <2>1. h + i <= h + j
      BY <1>9
    <2>2. c[h + i] <= c[h + j] /\ c[h + i] \in Nat /\ c[h + j] \in Nat /\ c[h] \in Nat
      BY <1>1, <1>2, <1>4, <2>1
    <2>3. e[i] = c[h + i] - c[h] /\ e[j] = c[h + j] - c[h]
      BY <1>3
    <2> HIDE DEF e
    <2>. QED
      BY <2>2, <2>3
  <1> HIDE DEF e
  <1>10. Offsets(q, e)
    BY <1>6, <1>7, <1>8, <1>9 DEF Offsets
  <1>11. ASSUME NEW x, Filled(q, e, w - h, x)
         PROVE  Holds(s, c, h, w, x)
    <2>1. x \in Seq(Packets \X Nat) /\ Len(x) = c[w] - c[h]
      <3>1. w - h \in 0..(w - h)
        BY <1>2
      <3>2. e[w - h] = c[w] - c[h]
        BY <1>2, <1>3, <3>1
      <3>. QED
        BY <1>11, <3>2 DEF Filled
    <2>2. ASSUME NEW i \in (h + 1)..w, NEW k \in 1..Size[s[i]]
          PROVE  x[c[i - 1] - c[h] + k] = <<s[i], k>>
      <3>1. PICK j \in 1..(w - h) : i = h + j
        <4>1. i - h \in 1..(w - h) /\ i = h + (i - h)
          OBVIOUS
        <4>. QED
          BY <4>1
      <3>2. x[e[j - 1] + k] = <<q[j], k>>
        BY <1>8, <1>11, <3>1 DEF Filled
      <3>3. /\ e[j - 1] = c[i - 1] - c[h] /\ q[j] = s[i]
        <4>1. e[j - 1] = c[h + j - 1] - c[h] /\ q[j] = s[h + j]
          BY <1>8
        <4>. QED
          BY <3>1, <4>1
      <3>. QED
        BY <3>2, <3>3
    <2>. QED
      BY <2>1, <2>2 DEF Holds
  <1>12. ASSUME NEW x, Holds(s, c, h, w, x)
         PROVE  Frames(q, e, x)
    <2>1. ASSUME NEW i \in 1..Len(q), NEW k \in 1..Size[q[i]]
          PROVE  x[e[i - 1] + k] = <<q[i], k>>
      <3>1. i \in 1..(w - h)
        OBVIOUS
      <3>2. PICK j : j = h + i
        OBVIOUS
      <3>3. /\ j \in (h + 1)..w /\ e[i - 1] = c[j - 1] - c[h] /\ q[i] = s[j]
        BY <1>8, <3>1, <3>2
      <3>4. x[c[j - 1] - c[h] + k] = <<s[j], k>>
        BY <1>12, <3>3 DEF Holds
      <3>. QED
        BY <3>3, <3>4
    <2>. QED
      BY <2>1 DEF Frames
  <1>. QED
    BY <1>10, <1>11, <1>12 DEF e

-----------------------------------------------------------------------------
(* The RecvBuffer holds what was received *)

\* The cursors and the sizes computed from them, as naturals.
LEMMA CursorFacts ==
    ASSUME NEW rb, IsRecvBuffer(rb)
    PROVE  /\ BufferSize \in Nat /\ RB!Capacity = 2 * BufferSize /\ RB!Capacity \in Nat
           /\ rb.readPos \in Nat /\ rb.writePos \in Nat
           /\ rb.readPos <= rb.writePos /\ rb.writePos <= RB!Capacity
           /\ RB!DataSize(rb) \in Nat /\ RB!DataSize(rb) = rb.writePos - rb.readPos
           /\ RB!FreeSize(rb) \in Nat /\ RB!FreeSize(rb) = RB!Capacity - rb.writePos
           /\ DOMAIN RB!Data(rb) = 1..RB!DataSize(rb)
           /\ \A k \in 1..RB!DataSize(rb) : RB!Data(rb)[k] = rb.bytes[rb.readPos + k - 1]
  <1>1. /\ BufferSize \in Nat /\ RB!Capacity = 2 * BufferSize /\ RB!Capacity \in Nat
        /\ rb.readPos \in Nat /\ rb.writePos \in Nat
        /\ rb.readPos <= rb.writePos /\ rb.writePos <= RB!Capacity
    BY PacketsAssumption DEF IsRecvBuffer, RB!Capacity, RB!BUFFER_COUNT
  <1>. QED
    BY <1>1 DEF RB!DataSize, RB!FreeSize, RB!Data

\* Data, given the buffer's parts.
LEMMA BytesMoved ==
    ASSUME NEW rb, NEW b, NEW r, NEW w, rb = [bytes |-> b, readPos |-> r, writePos |-> w],
           NEW d
    PROVE  [rb EXCEPT !.bytes = d] = [bytes |-> d, readPos |-> r, writePos |-> w]
  BY Z3

\* OnWrite puts the data received behind the data that are there.
LEMMA OnWriteFacts ==
    ASSUME NEW rb, IsRecvBuffer(rb), NEW n \in Nat, n <= RB!FreeSize(rb),
           NEW data, DOMAIN data = 1..n, Len(data) = n
    PROVE  LET new == RB!OnWrite(rb, data)
           IN /\ IsRecvBuffer(new)
              /\ RB!DataSize(new) = RB!DataSize(rb) + n
              /\ \A k \in 1..RB!DataSize(rb) : RB!Data(new)[k] = RB!Data(rb)[k]
              /\ \A k \in 1..n : RB!Data(new)[RB!DataSize(rb) + k] = data[k]
  <1> DEFINE new == RB!OnWrite(rb, data)
  <1>1. /\ RB!Capacity \in Nat
        /\ rb.readPos \in Nat /\ rb.writePos \in Nat
        /\ rb.readPos <= rb.writePos /\ rb.writePos <= RB!Capacity
        /\ RB!DataSize(rb) \in Nat /\ RB!DataSize(rb) = rb.writePos - rb.readPos
        /\ RB!FreeSize(rb) = RB!Capacity - rb.writePos
        /\ \A k \in 1..RB!DataSize(rb) : RB!Data(rb)[k] = rb.bytes[rb.readPos + k - 1]
    BY CursorFacts
  <1>2. /\ rb = [bytes |-> rb.bytes, readPos |-> rb.readPos, writePos |-> rb.writePos]
        /\ DOMAIN rb.bytes = 0..(RB!Capacity - 1)
    BY DEF IsRecvBuffer
  <1>3. /\ new = [bytes |-> new.bytes, readPos |-> new.readPos, writePos |-> new.writePos]
        /\ new.readPos = rb.readPos /\ new.writePos = rb.writePos + n
        /\ DOMAIN new.bytes = 0..(RB!Capacity - 1)
        /\ \A i \in 0..(RB!Capacity - 1) :
               new.bytes[i] = IF i - rb.writePos + 1 \in 1..n
                                THEN data[i - rb.writePos + 1] ELSE rb.bytes[i]
    <2>1. PICK d : d = [i \in 0..(RB!Capacity - 1) |->
                           IF i - rb.writePos + 1 \in 1..n
                             THEN data[i - rb.writePos + 1] ELSE rb.bytes[i]]
      OBVIOUS
    <2>2. new = [rb EXCEPT !.bytes = d, !.writePos = rb.writePos + n]
      BY <1>2, <2>1 DEF RB!OnWrite
    <2>3. new = [bytes |-> d, readPos |-> rb.readPos, writePos |-> rb.writePos + n]
      <3>1. PICK r2 : r2 = [rb EXCEPT !.bytes = d]
        OBVIOUS
      <3>2. r2 = [bytes |-> d, readPos |-> rb.readPos, writePos |-> rb.writePos]
        BY <1>2, <3>1, BytesMoved, Zenon
      <3>3. PICK u, w, r : u = rb.writePos + n /\ w = rb.writePos /\ r = rb.readPos
        OBVIOUS
      <3>4. r2 = [bytes |-> d, readPos |-> r, writePos |-> w]
        BY <3>2, <3>3
      <3>5. [r2 EXCEPT !.writePos = u] = [bytes |-> d, readPos |-> r, writePos |-> u]
        BY <3>4, Z3
      <3>. QED
        BY <2>2, <3>1, <3>3, <3>5
    <2>. QED
      BY <2>1, <2>3
  <1> HIDE DEF new
  <1>4. new.writePos <= RB!Capacity
    BY <1>1, <1>3
  <1>5. IsRecvBuffer(new)
    BY <1>1, <1>3, <1>4 DEF IsRecvBuffer
  <1>6. /\ RB!DataSize(new) = RB!DataSize(rb) + n
        /\ \A k \in 1..RB!DataSize(new) : RB!Data(new)[k] = new.bytes[new.readPos + k - 1]
    <2>1. /\ RB!DataSize(new) = new.writePos - new.readPos
          /\ \A k \in 1..RB!DataSize(new) : RB!Data(new)[k] = new.bytes[new.readPos + k - 1]
      BY <1>5, CursorFacts
    <2>2. RB!DataSize(new) = RB!DataSize(rb) + n
      BY <1>1, <1>3, <2>1
    <2>. QED
      BY <2>1, <2>2
  <1>7. ASSUME NEW k \in 1..RB!DataSize(rb)
        PROVE  RB!Data(new)[k] = RB!Data(rb)[k]
    <2>1. PICK i : i = rb.readPos + k - 1
      OBVIOUS
    <2>2. /\ i \in 0..(RB!Capacity - 1) /\ ~(i - rb.writePos + 1 \in 1..n)
          /\ k \in 1..RB!DataSize(new)
      <3>1. PICK d, r, w, m, z : /\ d = RB!DataSize(rb) /\ r = rb.readPos /\ w = rb.writePos
                                 /\ m = RB!Capacity /\ z = RB!DataSize(new)
        OBVIOUS
      <3>2. /\ d \in Nat /\ r \in Nat /\ w \in Nat /\ m \in Nat /\ d = w - r
            /\ w <= m /\ z = d + n /\ i = r + k - 1 /\ k \in 1..d
        BY <1>1, <1>6, <2>1, <3>1
      <3>3. i \in 0..(m - 1) /\ ~(i - w + 1 \in 1..n) /\ k \in 1..z
        BY <3>2
      <3>. QED
        BY <3>1, <3>3
    <2>3. new.bytes[i] = rb.bytes[i]
      BY <1>3, <2>2
    <2>. QED
      BY <1>1, <1>3, <1>6, <2>1, <2>2, <2>3
  <1>8. ASSUME NEW k \in 1..n
        PROVE  RB!Data(new)[RB!DataSize(rb) + k] = data[k]
    <2>1. PICK i : i = rb.writePos + k - 1
      OBVIOUS
    <2>2. /\ i \in 0..(RB!Capacity - 1) /\ i - rb.writePos + 1 = k
          /\ RB!DataSize(rb) + k \in 1..RB!DataSize(new)
          /\ rb.readPos + (RB!DataSize(rb) + k) - 1 = i
      <3>1. PICK d, r, w, m, z : /\ d = RB!DataSize(rb) /\ r = rb.readPos /\ w = rb.writePos
                                 /\ m = RB!Capacity /\ z = RB!DataSize(new)
        OBVIOUS
      <3>2. /\ d \in Nat /\ r \in Nat /\ w \in Nat /\ m \in Nat /\ d = w - r
            /\ w + n <= m /\ z = d + n /\ i = w + k - 1
        BY <1>1, <1>6, <2>1, <3>1
      <3>3. /\ i \in 0..(m - 1) /\ i - w + 1 = k /\ d + k \in 1..z
            /\ r + (d + k) - 1 = i
        BY <3>2
      <3>. QED
        BY <3>1, <3>3
    <2>3. new.bytes[i] = data[k]
      BY <1>3, <2>2
    <2>. QED
      BY <1>3, <1>6, <2>2, <2>3
  <1>. QED
    BY <1>5, <1>6, <1>7, <1>8 DEF new

\* OnRead drops the data it passes.
LEMMA OnReadFacts ==
    ASSUME NEW rb, IsRecvBuffer(rb), NEW n \in 0..RB!DataSize(rb)
    PROVE  LET new == RB!OnRead(rb, n)
           IN /\ IsRecvBuffer(new)
              /\ RB!DataSize(new) = RB!DataSize(rb) - n
              /\ \A k \in 1..(RB!DataSize(rb) - n) :
                     RB!Data(new)[k] = RB!Data(rb)[n + k]
  <1> DEFINE new == RB!OnRead(rb, n)
  <1>1. /\ RB!Capacity \in Nat
        /\ rb.readPos \in Nat /\ rb.writePos \in Nat
        /\ rb.readPos <= rb.writePos /\ rb.writePos <= RB!Capacity
        /\ RB!DataSize(rb) \in Nat /\ RB!DataSize(rb) = rb.writePos - rb.readPos
        /\ \A k \in 1..RB!DataSize(rb) : RB!Data(rb)[k] = rb.bytes[rb.readPos + k - 1]
    BY CursorFacts
  <1>2. /\ rb = [bytes |-> rb.bytes, readPos |-> rb.readPos, writePos |-> rb.writePos]
        /\ DOMAIN rb.bytes = 0..(RB!Capacity - 1)
    BY DEF IsRecvBuffer
  <1>3. /\ new = [bytes |-> new.bytes, readPos |-> new.readPos, writePos |-> new.writePos]
        /\ new.readPos = rb.readPos + n /\ new.writePos = rb.writePos
        /\ new.bytes = rb.bytes
    BY <1>2 DEF RB!OnRead
  <1> HIDE DEF new
  <1>4. IsRecvBuffer(new)
    BY <1>1, <1>2, <1>3 DEF IsRecvBuffer
  <1>5. /\ RB!DataSize(new) = RB!DataSize(rb) - n
        /\ \A k \in 1..RB!DataSize(new) : RB!Data(new)[k] = new.bytes[new.readPos + k - 1]
    <2>1. /\ RB!DataSize(new) = new.writePos - new.readPos
          /\ \A k \in 1..RB!DataSize(new) : RB!Data(new)[k] = new.bytes[new.readPos + k - 1]
      BY <1>4, CursorFacts
    <2>2. RB!DataSize(new) = RB!DataSize(rb) - n
      BY <1>1, <1>3, <2>1
    <2>. QED
      BY <2>1, <2>2
  <1>6. ASSUME NEW k \in 1..(RB!DataSize(rb) - n)
        PROVE  RB!Data(new)[k] = RB!Data(rb)[n + k]
    <2>1. /\ k \in 1..RB!DataSize(new) /\ n + k \in 1..RB!DataSize(rb)
          /\ rb.readPos + n + k - 1 = rb.readPos + (n + k) - 1
      BY <1>1, <1>5
    <2>2. RB!Data(new)[k] = rb.bytes[rb.readPos + n + k - 1]
      BY <1>3, <1>5, <2>1
    <2>3. RB!Data(rb)[n + k] = rb.bytes[rb.readPos + (n + k) - 1]
      BY <1>1, <2>1
    <2>. QED
      BY <2>1, <2>2, <2>3
  <1>. QED
    BY <1>4, <1>5, <1>6 DEF new

\* The data as a sequence.
LEMMA DataIsSeq ==
    ASSUME NEW rb, IsRecvBuffer(rb), NEW S,
           \A k \in 1..RB!DataSize(rb) : RB!Data(rb)[k] \in S
    PROVE  RB!Data(rb) \in Seq(S) /\ Len(RB!Data(rb)) = RB!DataSize(rb)
  <1>1. /\ RB!DataSize(rb) \in Nat /\ DOMAIN RB!Data(rb) = 1..RB!DataSize(rb)
    BY CursorFacts
  <1>2. RB!Data(rb) = [k \in 1..RB!DataSize(rb) |-> rb.bytes[rb.readPos + k - 1]]
    BY DEF RB!Data
  <1>3. PICK d, n : d = RB!Data(rb) /\ n = RB!DataSize(rb)
    OBVIOUS
  <1>4. d = [k \in 1..n |-> d[k]] /\ n \in Nat /\ \A k \in 1..n : d[k] \in S
    BY <1>1, <1>2, <1>3
  <1>5. d \in Seq(S) /\ Len(d) = n
    BY <1>4
  <1>. QED
    BY <1>3, <1>5

-----------------------------------------------------------------------------
(* The stream *)

\* As many of the packets sent as the network has taken.
Wired == Len(sent) - Len(inFlight) - Len(sendQueue)
\* The bytes that were received but not handled, and those to be received.
Stream == RB!Data(recvBuffer) \o wire

\* The packets that wait or are in flight are the last ones sent.
QueuesInOrder ==
    /\ sent \in Seq(Packets)
    /\ Wired \in Nat
    /\ \A i \in 1..Len(inFlight) : inFlight[i] = sent[Wired + i]
    /\ \A i \in 1..Len(sendQueue) :
           sendQueue[i] = sent[Wired + Len(inFlight) + i]

\* The packets handled are the first ones sent.
HandledInOrder ==
    /\ handled \in Seq({PacketBytes(p) : p \in Packets})
    /\ Len(handled) <= Wired
    /\ \A i \in 1..Len(handled) : handled[i] = PacketBytes(sent[i])

\* OnRecv left less than a packet, and Clean left room for the rest.
ReceiverReady ==
    /\ IsRecvBuffer(recvBuffer)
    /\ RB!FreeSize(recvBuffer) >= BufferSize
    /\ \A k \in 1..RB!DataSize(recvBuffer) :
           RB!Data(recvBuffer)[k] \in Packets \X Nat
    /\ wire \in Seq(Packets \X Nat)
    /\ Len(handled) < Wired =>
           RB!DataSize(recvBuffer) < Size[sent[Len(handled) + 1]]

\* The stream is what lies between.
StreamInOrder ==
    \E c : Offsets(sent, c) /\ Holds(sent, c, Len(handled), Wired, Stream)

\* The invariant of the stream.  With IInv it is inductive.
SInv == /\ QueuesInOrder
        /\ HandledInOrder
        /\ ReceiverReady
        /\ StreamInOrder

LEMMA InitStream == Init => SInv
  <1> SUFFICES ASSUME Init PROVE SInv
    OBVIOUS
  <1>1. /\ sendQueue = <<>> /\ inFlight = <<>> /\ wire = <<>> /\ sent = <<>>
        /\ handled = <<>> /\ recvBuffer = RB!Empty
    BY DEF Init
  <1>2. Wired = 0 /\ Len(<<>>) = 0 /\ \A S : <<>> \in Seq(S)
    <2>1. Len(<<>>) = 0 /\ \A S : <<>> \in Seq(S)
      OBVIOUS
    <2>2. Wired = 0
      <3>1. Wired = Len(<<>>) - Len(<<>>) - Len(<<>>)
        BY <1>1 DEF Wired
      <3>2. PICK z : z = Len(<<>>)
        OBVIOUS
      <3>3. z = 0
        BY <2>1, <3>2
      <3>4. Wired = z - z - z
        BY <3>1, <3>2
      <3>. QED
        BY <3>3, <3>4
    <2>. QED
      BY <2>1, <2>2
  <1>3. /\ BufferSize \in Nat \ {0} /\ RB!Capacity = 2 * BufferSize
    BY PacketsAssumption DEF RB!Capacity, RB!BUFFER_COUNT
  <1>4. /\ IsRecvBuffer(recvBuffer) /\ RB!DataSize(recvBuffer) = 0
        /\ RB!FreeSize(recvBuffer) = 2 * BufferSize
    BY <1>1, <1>3 DEF RB!Empty, IsRecvBuffer, RB!DataSize, RB!FreeSize
  <1>5. QueuesInOrder /\ HandledInOrder
    BY <1>1, <1>2 DEF QueuesInOrder, HandledInOrder
  <1>6. ReceiverReady
    BY <1>1, <1>2, <1>3, <1>4 DEF ReceiverReady
  <1>7. Stream = <<>>
    <2>1. RB!Data(recvBuffer) \in Seq({}) /\ Len(RB!Data(recvBuffer)) = 0
      BY <1>4, DataIsSeq
    <2>2. RB!Data(recvBuffer) = <<>>
      BY <2>1, EmptySeq
    <2>3. <<>> \o <<>> = <<>>
      BY <1>2, ConcatEmptySeq
    <2>. QED
      BY <1>1, <2>2, <2>3 DEF Stream
  <1>8. StreamInOrder
    <2> DEFINE c == [i \in 0..0 |-> 0]
    <2>1. Offsets(sent, c)
      BY <1>1, <1>2 DEF Offsets
    <2>2. Holds(sent, c, 0, 0, <<>>)
      BY <1>2 DEF Holds
    <2> HIDE DEF c
    <2>. QED
      BY <1>1, <1>2, <1>7, <2>1, <2>2 DEF StreamInOrder
  <1>. QED
    BY <1>5, <1>6, <1>8 DEF SInv

\* Open, Serialize, Discard and Deleter leave the stream alone.
LEMMA StreamQuiet ==
    ASSUME SInv, UNCHANGED <<sendQueue, inFlight, wire, recvBuffer, sent, handled>>
    PROVE  SInv'
  <1>1. Wired' = Wired /\ Stream' = Stream
    BY DEF Wired, Stream
  <1>2. QueuesInOrder' /\ HandledInOrder' /\ ReceiverReady'
    BY <1>1 DEF SInv, QueuesInOrder, HandledInOrder, ReceiverReady
  <1>3. StreamInOrder'
    BY <1>1 DEF SInv, StreamInOrder
  <1>. QED
    BY <1>2, <1>3 DEF SInv

\* Send puts a packet at the end of what waits.
LEMMA SendStream ==
    ASSUME IInv, SInv, NEW t \in Threads, Send(t)
    PROVE  SInv'
  <1>1. PICK p : p = making[t]
    OBVIOUS
  <1>2. p \in Packets
    BY <1>1 DEF Send, IInv, OneHolder, SenderTypeOK
  <1>3. /\ sendQueue' = Append(sendQueue, p) /\ sent' = Append(sent, p)
        /\ inFlight' = inFlight /\ wire' = wire /\ recvBuffer' = recvBuffer
        /\ handled' = handled
    BY <1>1 DEF Send
  <1>4. /\ sendQueue \in Seq(Packets) /\ inFlight \in Seq(Packets) /\ sent \in Seq(Packets)
        /\ Len(sendQueue) \in Nat /\ Len(inFlight) \in Nat /\ Len(sent) \in Nat
        /\ Wired \in Nat /\ Wired = Len(sent) - Len(inFlight) - Len(sendQueue)
    BY LenProperties DEF IInv, SInv, SenderTypeOK, QueuesInOrder, Wired
  <1>5. /\ sent' \in Seq(Packets) /\ Len(sent') = Len(sent) + 1
        /\ \A i \in 1..Len(sent) : sent'[i] = sent[i]
        /\ sent'[Len(sent) + 1] = p
    BY <1>2, <1>3, <1>4, AppendProperties
  <1>6. /\ Len(sendQueue') = Len(sendQueue) + 1
        /\ \A i \in 1..Len(sendQueue) : sendQueue'[i] = sendQueue[i]
        /\ sendQueue'[Len(sendQueue) + 1] = p
    BY <1>2, <1>3, <1>4, AppendProperties
  <1>7. Wired' = Wired /\ Stream' = Stream
    <2>1. Wired' = Len(sent') - Len(inFlight') - Len(sendQueue')
      BY DEF Wired
    <2>. QED
      BY <1>3, <1>4, <1>5, <1>6, <2>1 DEF Stream
  <1>8. QueuesInOrder'
    <2>1. ASSUME NEW i \in 1..Len(inFlight)
          PROVE  inFlight[i] = sent'[Wired + i]
      <3>1. Wired + i \in 1..Len(sent)
        BY <1>4
      <3>. QED
        BY <1>5, <3>1 DEF SInv, QueuesInOrder
    <2>2. ASSUME NEW i \in 1..(Len(sendQueue) + 1)
          PROVE  sendQueue'[i] = sent'[Wired + Len(inFlight) + i]
      <3>1. CASE i \in 1..Len(sendQueue)
        <4>1. Wired + Len(inFlight) + i \in 1..Len(sent)
          BY <1>4, <3>1
        <4>. QED
          BY <1>5, <1>6, <3>1, <4>1 DEF SInv, QueuesInOrder
      <3>2. CASE i \notin 1..Len(sendQueue)
        <4>1. i = Len(sendQueue) + 1 /\ Wired + Len(inFlight) + i = Len(sent) + 1
          BY <1>4, <3>2
        <4>. QED
          BY <1>5, <1>6, <4>1
      <3>. QED
        BY <3>1, <3>2
    <2>. QED
      BY <1>3, <1>4, <1>5, <1>6, <1>7, <2>1, <2>2 DEF QueuesInOrder
  <1>9. HandledInOrder'
    <2>1. \A i \in 1..Len(handled) : i \in 1..Len(sent)
      <3>1. Len(handled) \in Nat /\ Len(handled) <= Wired
        BY LenProperties DEF SInv, HandledInOrder
      <3>. QED
        BY <1>4, <3>1
    <2>. QED
      BY <1>3, <1>5, <1>7, <2>1 DEF SInv, HandledInOrder
  <1>10. ReceiverReady'
    <2>1. Len(handled) < Wired => Len(handled) + 1 \in 1..Len(sent)
      <3>1. Len(handled) \in Nat
        BY LenProperties DEF SInv, HandledInOrder
      <3>. QED
        BY <1>4, <3>1
    <2>. QED
      BY <1>3, <1>5, <1>7, <2>1 DEF SInv, ReceiverReady
  <1>11. StreamInOrder'
    <2>0. Len(handled) \in Nat /\ Len(handled) <= Wired
      BY LenProperties DEF SInv, HandledInOrder
    <2>1. PICK c : Offsets(sent, c) /\ Holds(sent, c, Len(handled), Wired, Stream)
      BY DEF SInv, StreamInOrder
    <2>2. PICK n : n = Len(sent)
      OBVIOUS
    <2>3. /\ n \in Nat /\ c \in [0..n -> Nat] /\ c[0] = 0
          /\ \A i \in 1..n : c[i] = c[i - 1] + Size[sent[i]]
          /\ \A i, j \in 0..n : i <= j => c[i] <= c[j]
      BY <1>4, <2>1, <2>2 DEF Offsets
    <2> DEFINE d == [i \in 0..(n + 1) |-> IF i <= n THEN c[i] ELSE c[n] + Size[p]]
    <2>4. Size[p] \in Nat
      BY <1>2, SizeRange
    <2>5. /\ d \in [0..(n + 1) -> Nat]
          /\ \A i \in 0..n : d[i] = c[i]
          /\ d[n + 1] = c[n] + Size[p]
      BY <2>3, <2>4
    <2> HIDE DEF d
    <2>6. Offsets(sent', d)
      <3>1. d[0] = 0
        BY <2>3, <2>5
      <3>2. ASSUME NEW i \in 1..(n + 1)
            PROVE  d[i] = d[i - 1] + Size[sent'[i]]
        <4>1. CASE i <= n
          <5>1. i \in 1..n /\ i \in 0..n /\ i - 1 \in 0..n
            BY <2>3, <4>1
          <5>. QED
            BY <1>5, <2>2, <2>3, <2>5, <5>1
        <4>2. CASE ~(i <= n)
          <5>1. i = n + 1 /\ i - 1 = n /\ n \in 0..n
            BY <2>3, <4>2
          <5>. QED
            BY <1>5, <2>2, <2>5, <5>1
        <4>. QED
          BY <4>1, <4>2
      <3>3. ASSUME NEW i \in 0..(n + 1), NEW j \in 0..(n + 1), i <= j
            PROVE  d[i] <= d[j]
        <4>1. CASE j <= n
          <5>1. i \in 0..n /\ j \in 0..n
            BY <2>3, <3>3, <4>1
          <5>. QED
            BY <2>3, <2>5, <3>3, <5>1
        <4>2. CASE ~(j <= n)
          <5>1. j = n + 1 /\ n \in 0..n
            BY <2>3, <4>2
          <5>2. CASE i = j
            <6>1. d[i] \in Nat
              BY <2>5
            <6>. QED
              BY <5>2, <6>1
          <5>3. CASE i # j
            <6>1. i \in 0..n /\ i <= n
              BY <2>3, <3>3, <5>1, <5>3
            <6>2. c[i] <= c[n] /\ c[i] \in Nat /\ c[n] \in Nat
              BY <2>3, <5>1, <6>1
            <6>3. d[i] = c[i] /\ d[j] = c[n] + Size[p]
              BY <2>5, <5>1, <6>1
            <6>. QED
              BY <2>4, <6>2, <6>3
          <5>. QED
            BY <5>2, <5>3
        <4>. QED
          BY <4>1, <4>2
      <3>. QED
        BY <1>5, <2>2, <2>5, <3>1, <3>2, <3>3 DEF Offsets
    <2>7. Holds(sent', d, Len(handled), Wired, Stream)
      <3>1. Len(handled) \in 0..n /\ Wired \in 0..n
        BY <1>4, <2>0, <2>2
      <3>2. \A i \in (Len(handled) + 1)..Wired :
               i \in 1..Len(sent) /\ i - 1 \in 0..n
        BY <1>4, <2>0, <2>2
      <3>. QED
        <4>1. /\ Stream \in Seq(Packets \X Nat)
              /\ Len(Stream) = d[Wired] - d[Len(handled)]
          BY <2>1, <2>5, <3>1 DEF Holds
        <4>2. ASSUME NEW i \in (Len(handled) + 1)..Wired, NEW k \in 1..Size[sent'[i]]
              PROVE  Stream[d[i - 1] - d[Len(handled)] + k] = <<sent'[i], k>>
          <5>1. sent'[i] = sent[i] /\ d[i - 1] = c[i - 1] /\ d[Len(handled)] = c[Len(handled)]
            BY <1>5, <2>5, <3>1, <3>2
          <5>2. k \in 1..Size[sent[i]]
            BY <5>1
          <5>3. Stream[c[i - 1] - c[Len(handled)] + k] = <<sent[i], k>>
            BY <2>1, <5>2 DEF Holds
          <5>. QED
            BY <5>1, <5>3
        <4>. QED
          BY <4>1, <4>2 DEF Holds
    <2>. QED
      BY <1>3, <1>7, <2>6, <2>7 DEF StreamInOrder
  <1>. QED
    BY <1>8, <1>9, <1>10, <1>11 DEF SInv

\* RegisterSend posts all that waits.
LEMMA RegisterSendStream ==
    ASSUME IInv, SInv, RegisterSend
    PROVE  SInv'
  <1>1. /\ inFlight = <<>> /\ inFlight' = sendQueue /\ sendQueue' = <<>>
        /\ sent' = sent /\ wire' = wire /\ recvBuffer' = recvBuffer
        /\ handled' = handled
    BY DEF RegisterSend
  <1>2. /\ sendQueue \in Seq(Packets) /\ sent \in Seq(Packets)
        /\ Len(sendQueue) \in Nat /\ Len(sent) \in Nat
        /\ Len(<<>>) = 0 /\ Wired \in Nat
        /\ Wired = Len(sent) - Len(inFlight) - Len(sendQueue)
    BY LenProperties DEF IInv, SInv, SenderTypeOK, QueuesInOrder, Wired
  <1>3. Wired' = Wired /\ Stream' = Stream
    <2>1. Wired' = Len(sent') - Len(inFlight') - Len(sendQueue')
      BY DEF Wired
    <2>. QED
      BY <1>1, <1>2, <2>1 DEF Stream
  <1>4. QueuesInOrder'
    <2>1. ASSUME NEW i \in 1..Len(sendQueue)
          PROVE  sendQueue[i] = sent[Wired + i]
      <3>1. Wired + Len(inFlight) + i = Wired + i
        BY <1>1, <1>2
      <3>. QED
        BY <3>1 DEF SInv, QueuesInOrder
    <2>2. \A i \in 1..Len(<<>>) : FALSE
      BY <1>2
    <2>. QED
      BY <1>1, <1>2, <1>3, <2>1, <2>2 DEF QueuesInOrder
  <1>5. HandledInOrder' /\ ReceiverReady'
    BY <1>1, <1>3 DEF SInv, HandledInOrder, ReceiverReady
  <1>6. StreamInOrder'
    BY <1>1, <1>3 DEF SInv, StreamInOrder
  <1>. QED
    BY <1>4, <1>5, <1>6 DEF SInv

\* ProcessSend puts what SendBuffers hold, which are their packets, on the wire.
LEMMA ProcessSendStream ==
    ASSUME IInv, SInv, ProcessSend
    PROVE  SInv'
  <1>1. PICK s : s = [i \in DOMAIN inFlight |-> Bytes(inFlight[i])]
    OBVIOUS
  <1>2. /\ inFlight' = <<>> /\ sendQueue' = sendQueue
        /\ wire' = wire \o FlattenSeq(s)
        /\ sent' = sent /\ recvBuffer' = recvBuffer /\ handled' = handled
    BY <1>1 DEF ProcessSend
  <1>3. /\ inFlight \in Seq(Packets) /\ sendQueue \in Seq(Packets) /\ sent \in Seq(Packets)
        /\ Len(inFlight) \in Nat /\ Len(sendQueue) \in Nat /\ Len(sent) \in Nat
        /\ Len(<<>>) = 0 /\ Wired \in Nat
        /\ Wired = Len(sent) - Len(inFlight) - Len(sendQueue)
        /\ Len(handled) \in Nat /\ Len(handled) <= Wired
        /\ DOMAIN inFlight = 1..Len(inFlight)
    BY LenProperties
       DEF IInv, SInv, SenderTypeOK, QueuesInOrder, HandledInOrder, Wired
  \* What the kernel reads is what was serialized.
  <1>4. s = [i \in DOMAIN inFlight |-> PacketBytes(inFlight[i])]
    <2>1. ASSUME NEW i \in DOMAIN inFlight
          PROVE  Bytes(inFlight[i]) = PacketBytes(inFlight[i])
      <3>1. PICK b : b = inFlight[i]
        OBVIOUS
      <3>2. b \in Packets /\ b \in Underway
        BY <1>3, <3>1, ElementOfSeq DEF Underway, Range
      <3>3. Live(b) /\ \A t \in Threads : making[t] # b
        BY <3>2 DEF IInv, OneHolder
      <3>4. Bytes(b) = PacketBytes(b)
        BY <3>2, <3>3 DEF IInv, BuffersIntact
      <3>. QED
        BY <3>1, <3>4
    <2>. QED
      BY <1>1, <2>1
  <1>5. PICK c : Offsets(sent, c) /\ Holds(sent, c, Len(handled), Wired, Stream)
    BY DEF SInv, StreamInOrder
  <1>6. PICK h, w, v : h = Len(handled) /\ w = Wired /\ v = Wired + Len(inFlight)
    OBVIOUS
  <1>7. /\ h \in Nat /\ w \in Nat /\ v \in Nat /\ h <= w /\ w <= v /\ v <= Len(sent)
        /\ v - w = Len(inFlight)
    BY <1>3, <1>6
  <1>8. Wired' = v
    <2>1. Wired' = Len(sent') - Len(inFlight') - Len(sendQueue')
      BY DEF Wired
    <2>. QED
      BY <1>2, <1>3, <1>6, <2>1
  <1>9. Holds(sent, c, w, v, FlattenSeq(s))
    <2>1. PICK e : e = From(c, w, v - w)
      OBVIOUS
    <2>2. \A i \in 1..Len(inFlight) : inFlight[i] = sent[w + i]
      BY <1>6 DEF SInv, QueuesInOrder
    <2>3. /\ Offsets(inFlight, e)
          /\ \A x : Filled(inFlight, e, v - w, x) => Holds(sent, c, w, v, x)
      BY <1>3, <1>5, <1>7, <2>1, <2>2, OffsetsOfPart
    <2>4. Filled(inFlight, e, Len(inFlight), FlattenSeq(s))
      BY <1>3, <1>4, <2>3, FlattenPackets
    <2>. QED
      BY <1>7, <2>3, <2>4
  <1>10. /\ RB!Data(recvBuffer) \in Seq(Packets \X Nat) /\ wire \in Seq(Packets \X Nat)
         /\ FlattenSeq(s) \in Seq(Packets \X Nat)
    BY <1>9, DataIsSeq DEF SInv, ReceiverReady, Holds
  <1>11. Stream' = Stream \o FlattenSeq(s)
    BY <1>2, <1>10, ConcatAssociative DEF Stream
  <1>12. Holds(sent, c, h, v, Stream \o FlattenSeq(s))
    BY <1>3, <1>5, <1>6, <1>7, <1>9, HoldsConcat
  <1>13. StreamInOrder'
    BY <1>2, <1>5, <1>6, <1>8, <1>11, <1>12 DEF StreamInOrder
  <1>14. QueuesInOrder'
    <2>1. \A i \in 1..Len(sendQueue) : sendQueue[i] = sent[v + Len(<<>>) + i]
      <3>1. v + Len(<<>>) = Wired + Len(inFlight)
        BY <1>3, <1>6, <1>7
      <3>. QED
        BY <3>1 DEF SInv, QueuesInOrder
    <2>2. \A i \in 1..Len(<<>>) : FALSE
      BY <1>3
    <2>. QED
      BY <1>2, <1>3, <1>7, <1>8, <2>1, <2>2 DEF QueuesInOrder
  <1>15. HandledInOrder'
    BY <1>2, <1>3, <1>6, <1>7, <1>8 DEF SInv, HandledInOrder
  <1>16. ReceiverReady'
    <2>1. wire' \in Seq(Packets \X Nat)
      BY <1>2, <1>10, ConcatFacts
    <2>2. ASSUME h < v
          PROVE  RB!DataSize(recvBuffer) < Size[sent[h + 1]]
      <3>1. CASE h < w
        BY <1>6, <3>1 DEF SInv, ReceiverReady
      <3>2. CASE ~(h < w)
        <4>1. h = w
          BY <1>7, <3>2
        <4>2. /\ Len(Stream) = c[w] - c[w]
              /\ Len(Stream) = Len(RB!Data(recvBuffer)) + Len(wire)
          BY <1>5, <1>6, <1>10, <4>1, ConcatFacts DEF Holds, Stream
        <4>3. c[w] \in Nat
          BY <1>3, <1>5, <1>7 DEF Offsets
        <4>4. /\ Len(RB!Data(recvBuffer)) = RB!DataSize(recvBuffer)
              /\ RB!DataSize(recvBuffer) \in Nat /\ Len(wire) \in Nat
          BY <1>10, DataIsSeq, CursorFacts, LenProperties DEF SInv, ReceiverReady
        <4>5. RB!DataSize(recvBuffer) = 0
          BY <4>2, <4>3, <4>4
        <4>6. h + 1 \in 1..Len(sent)
          BY <1>3, <1>7, <2>2
        <4>7. Size[sent[h + 1]] \in Nat /\ Size[sent[h + 1]] >= 1
          BY <1>3, <4>6, ElementOfSeq, SizeRange
        <4>. QED
          BY <4>5, <4>7
      <3>. QED
        BY <3>1, <3>2
    <2>. QED
      BY <1>2, <1>6, <1>8, <2>1, <2>2 DEF SInv, ReceiverReady
  <1>. QED
    BY <1>13, <1>14, <1>15, <1>16 DEF SInv

-----------------------------------------------------------------------------
(* A receive *)

\* A part of the bytes of the stream.
LEMMA PartFacts ==
    ASSUME NEW x \in Seq(Packets \X Nat), NEW a \in Nat, NEW b \in Nat,
           a <= b, b <= Len(x)
    PROVE  /\ SubSeq(x, a + 1, b) \in Seq(Packets \X Nat)
           /\ Len(SubSeq(x, a + 1, b)) = b - a
           /\ \A k \in 1..(b - a) : SubSeq(x, a + 1, b)[k] = x[a + k]
  <1>1. PICK m : m = a + 1
    OBVIOUS
  <1>2. /\ m \in Int /\ b \in Int /\ b - m + 1 = b - a
        /\ (IF m <= b THEN b - m + 1 ELSE 0) = b - a
        /\ \A k \in 1..(b - a) : m + k - 1 = a + k
    BY <1>1
  <1>3. \A k \in m..b : k \in 1..Len(x)
    BY <1>1, LenProperties
  <1>4. \A k \in m..b : x[k] \in Packets \X Nat
    BY <1>3, ElementOfSeq
  <1>5. /\ SubSeq(x, m, b) \in Seq(Packets \X Nat)
        /\ Len(SubSeq(x, m, b)) = IF m <= b THEN b - m + 1 ELSE 0
        /\ \A k \in 1..(b - m + 1) : SubSeq(x, m, b)[k] = x[m + k - 1]
    BY <1>2, <1>4, SubSeqProperties
  <1>. QED
    BY <1>1, <1>2, <1>5

\* One receive as ProcessRecv makes it: of the bytes wi the first n come in, rb
\* holds the packets after h, up to the w-th of s.
Receiving(s, c, h, w, rb, wi, n, written, result, rb2) ==
    /\ s \in Seq(Packets) /\ Offsets(s, c)
    /\ h \in Nat /\ w \in Nat /\ h <= w /\ w <= Len(s)
    /\ IsRecvBuffer(rb) /\ wi \in Seq(Packets \X Nat)
    /\ RB!Data(rb) \in Seq(Packets \X Nat)
    /\ Len(RB!Data(rb)) = RB!DataSize(rb)
    /\ Holds(s, c, h, w, RB!Data(rb) \o wi)
    /\ n \in 1..Len(wi) /\ n <= RB!FreeSize(rb)
    /\ written = RB!OnWrite(rb, SubSeq(wi, 1, n))
    /\ result = OnRecv(RB!Data(written))
    /\ rb2 \in RB!Clean(RB!OnRead(written, result.processLen))

\* What it leaves: the packets up to g were handed over, the rest is still there.
Received(s, c, h, w, wi, n, result, rb2) ==
    \E g \in Nat :
        /\ h <= g /\ g <= w
        /\ \E q \in Seq(Packets) :
               /\ g - h <= Len(q)
               /\ \A i \in 1..(g - h) : q[i] = s[h + i]
               /\ result.packets = Between(q, 0, g - h)
        /\ IsRecvBuffer(rb2) /\ RB!FreeSize(rb2) >= BufferSize
        /\ g < w => RB!DataSize(rb2) < Size[s[g + 1]]
        /\ RB!Data(rb2) \in Seq(Packets \X Nat)
        /\ SubSeq(wi, n + 1, Len(wi)) \in Seq(Packets \X Nat)
        /\ Holds(s, c, g, w, RB!Data(rb2) \o SubSeq(wi, n + 1, Len(wi)))

\* OnWrite adds the bytes that follow, OnRecv finds the borders of the packets
\* among them, and OnRead and Clean keep the rest.
LEMMA ReceiveFacts ==
    ASSUME NEW s, NEW c, NEW h, NEW w, NEW rb, NEW wi, NEW n, NEW written,
           NEW result, NEW rb2,
           Receiving(s, c, h, w, rb, wi, n, written, result, rb2)
    PROVE  Received(s, c, h, w, wi, n, result, rb2)
  <1>. /\ s \in Seq(Packets) /\ Offsets(s, c)
       /\ h \in Nat /\ w \in Nat /\ h <= w /\ w <= Len(s)
       /\ IsRecvBuffer(rb) /\ wi \in Seq(Packets \X Nat)
       /\ RB!Data(rb) \in Seq(Packets \X Nat)
       /\ Len(RB!Data(rb)) = RB!DataSize(rb)
       /\ Holds(s, c, h, w, RB!Data(rb) \o wi)
       /\ n \in 1..Len(wi) /\ n <= RB!FreeSize(rb)
       /\ written = RB!OnWrite(rb, SubSeq(wi, 1, n))
       /\ result = OnRecv(RB!Data(written))
       /\ rb2 \in RB!Clean(RB!OnRead(written, result.processLen))
    BY DEF Receiving
  <1>1. PICK old, d, x, nw :
            /\ old = RB!Data(rb) /\ d = RB!DataSize(rb) /\ x = old \o wi
            /\ nw = Len(wi)
    OBVIOUS
  <1>n. d \in Nat /\ nw \in Nat /\ n \in Nat /\ 1 <= n /\ n <= nw
    BY <1>1, CursorFacts, LenProperties
  <1>2. /\ old \in Seq(Packets \X Nat) /\ Len(old) = d
        /\ x \in Seq(Packets \X Nat) /\ Len(x) = d + nw
        /\ \A i \in 1..d : x[i] = old[i]
        /\ \A i \in 1..nw : x[d + i] = wi[i]
    <2>1. old \in Seq(Packets \X Nat) /\ Len(old) = d
      BY <1>1
    <2>2. /\ x \in Seq(Packets \X Nat) /\ Len(x) = Len(old) + Len(wi)
          /\ \A i \in 1..Len(old) : x[i] = old[i]
          /\ \A i \in 1..Len(wi) : x[Len(old) + i] = wi[i]
      BY <1>1, <2>1, ConcatFacts
    <2>. QED
      BY <1>1, <2>1, <2>2
  <1>h. Holds(s, c, h, w, x)
    BY <1>1
  \* The bytes that arrive, and those that do not.
  <1>3. PICK first, later :
           first = SubSeq(wi, 1, n) /\ later = SubSeq(wi, n + 1, Len(wi))
    OBVIOUS
  <1>4. /\ DOMAIN first = 1..n /\ Len(first) = n
        /\ \A k \in 1..n : first[k] = wi[k]
    <2>1. 0 \in Nat /\ 0 <= n /\ n <= Len(wi) /\ 0 + 1 = 1 /\ n - 0 = n
          /\ \A k \in 1..n : 0 + k = k
      BY <1>1, <1>n
    <2>2. /\ first \in Seq(Packets \X Nat) /\ Len(first) = n
          /\ \A k \in 1..n : first[k] = wi[0 + k]
      <3>1. /\ SubSeq(wi, 0 + 1, n) \in Seq(Packets \X Nat)
            /\ Len(SubSeq(wi, 0 + 1, n)) = n - 0
            /\ \A k \in 1..(n - 0) : SubSeq(wi, 0 + 1, n)[k] = wi[0 + k]
        BY <1>n, <2>1, PartFacts
      <3>. QED
        BY <1>3, <2>1, <3>1
    <2>. QED
      BY <2>1, <2>2, LenProperties
  <1>5. /\ later \in Seq(Packets \X Nat) /\ Len(later) = nw - n
        /\ \A k \in 1..(nw - n) : later[k] = wi[n + k]
    <2>1. /\ SubSeq(wi, n + 1, nw) \in Seq(Packets \X Nat)
          /\ Len(SubSeq(wi, n + 1, nw)) = nw - n
          /\ \A k \in 1..(nw - n) : SubSeq(wi, n + 1, nw)[k] = wi[n + k]
      <3>1. nw <= Len(wi)
        BY <1>1, <1>n
      <3>. QED
        BY <1>n, <3>1, PartFacts
    <2>. QED
      BY <1>1, <1>3, <2>1
  \* OnWrite
  <1>6. PICK data : data = RB!Data(written)
    OBVIOUS
  <1>7. /\ IsRecvBuffer(written) /\ RB!DataSize(written) = d + n
        /\ \A k \in 1..(d + n) : data[k] = x[k]
    <2>1. /\ IsRecvBuffer(written)
          /\ RB!DataSize(written) = RB!DataSize(rb) + n
          /\ \A k \in 1..RB!DataSize(rb) : RB!Data(written)[k] = RB!Data(rb)[k]
          /\ \A k \in 1..n : RB!Data(written)[RB!DataSize(rb) + k] = first[k]
      <3>1. written = RB!OnWrite(rb, first)
        BY <1>3
      <3>. QED
        BY <1>n, <1>4, <3>1, OnWriteFacts
    <2>2. ASSUME NEW k \in 1..(d + n)
          PROVE  data[k] = x[k]
      <3>1. CASE k <= d
        <4>1. k \in 1..d
          BY <1>n, <3>1
        <4>. QED
          BY <1>1, <1>2, <1>6, <2>1, <4>1
      <3>2. CASE ~(k <= d)
        <4>1. PICK j : j = k - d
          OBVIOUS
        <4>2. j \in 1..n /\ j \in 1..nw /\ k = d + j
          BY <1>n, <3>2, <4>1
        <4>3. data[d + j] = wi[j]
          BY <1>1, <1>4, <1>6, <2>1, <4>2
        <4>4. x[d + j] = wi[j]
          BY <1>2, <4>2
        <4>. QED
          BY <4>2, <4>3, <4>4
      <3>. QED
        BY <3>1, <3>2
    <2>. QED
      BY <1>1, <2>1, <2>2
  <1>8. data \in Seq(Packets \X Nat) /\ Len(data) = d + n
    <2>1. ASSUME NEW k \in 1..(d + n)
          PROVE  data[k] \in Packets \X Nat
      <3>1. k \in 1..(d + nw)
        BY <1>n
      <3>2. k \in 1..Len(x)
        BY <1>2, <3>1
      <3>. QED
        BY <1>2, <1>7, <3>2, ElementOfSeq
    <2>. QED
      BY <1>6, <1>7, <2>1, DataIsSeq
  \* OnRecv
  <1>9. PICK q, e : q = [i \in 1..(w - h) |-> s[h + i]] /\ e = From(c, h, w - h)
    OBVIOUS
  <1>10. /\ q \in Seq(Packets) /\ Len(q) = w - h /\ w - h \in Nat
         /\ \A i \in 1..(w - h) : q[i] = s[h + i]
    <2>1. w - h \in Nat /\ \A i \in 1..(w - h) : h + i \in 1..Len(s)
      BY LenProperties
    <2>2. \A i \in 1..(w - h) : s[h + i] \in Packets
      BY <2>1, ElementOfSeq
    <2>. QED
      BY <1>9, <2>1, <2>2
  <1>11. Offsets(q, e) /\ Frames(q, e, x)
    BY <1>h, <1>9, <1>10, OffsetsOfPart
  <1>12. /\ \A i \in 0..(w - h) : e[i] \in Nat /\ e[i] = c[h + i] - c[h]
         /\ e[w - h] = Len(x)
    <2>1. \A i \in 0..(w - h) : e[i] \in Nat
      BY <1>10, <1>11 DEF Offsets
    <2>2. \A i \in 0..(w - h) : e[i] = c[h + i] - c[h]
      BY <1>9 DEF From
    <2>3. w - h \in 0..(w - h) /\ h + (w - h) = w
      BY <1>10
    <2>. QED
      BY <1>h, <2>1, <2>2, <2>3 DEF Holds
  <1>13. Frames(q, e, data)
    <2>1. ASSUME NEW i \in 1..Len(q), NEW k \in 1..Size[q[i]],
                 e[i - 1] + k <= Len(data)
          PROVE  data[e[i - 1] + k] = <<q[i], k>>
      <3>1. i - 1 \in 0..(w - h) /\ q[i] \in Packets
        BY <1>10, ElementOfSeq
      <3>2. PICK z, u : z = Size[q[i]] /\ u = e[i - 1] + k
        OBVIOUS
      <3>a. z \in Nat
        BY <3>1, <3>2, SizeRange
      <3>b. k \in Nat /\ k >= 1
        BY <3>2, <3>a
      <3>c. u \in Nat /\ u >= 1
        <4>1. PICK v : v = e[i - 1]
          OBVIOUS
        <4>2. v \in Nat
          BY <1>12, <3>1, <4>1
        <4>3. u = v + k
          BY <3>2, <4>1
        <4>. QED
          BY <3>b, <4>2, <4>3
      <3>d. u <= d + n
        BY <1>8, <2>1, <3>2
      <3>e. u \in 1..(d + n) /\ u <= d + nw
        BY <1>n, <3>c, <3>d
      <3>3. e[i - 1] + k \in 1..(d + n) /\ e[i - 1] + k <= Len(x)
        BY <1>2, <3>2, <3>e
      <3>4. x[e[i - 1] + k] = <<q[i], k>>
        BY <1>11, <3>3 DEF Frames
      <3>. QED
        BY <1>7, <3>3, <3>4
    <2>. QED
      BY <2>1 DEF Frames
  <1>14. PICK m \in 0..Len(q) :
            /\ OnRecv(data) = [processLen |-> e[m], packets |-> Between(q, 0, m)]
            /\ e[m] <= Len(data)
            /\ m < Len(q) => Len(data) - e[m] < Size[q[m + 1]]
    <2>1. d + n <= d + nw
      BY <1>n
    <2>2. Len(data) <= e[Len(q)]
      BY <1>2, <1>8, <1>10, <1>12, <2>1
    <2>. QED
      BY <1>8, <1>10, <1>11, <1>13, <2>2, OnRecvWhole
  <1>15. PICK g, l : g = h + m /\ l = e[m]
    OBVIOUS
  <1>16. /\ g \in Nat /\ h <= g /\ g <= w /\ g - h = m
         /\ l \in Nat /\ l = c[g] - c[h] /\ l <= d + n
         /\ result.processLen = l /\ result.packets = Between(q, 0, m)
         /\ g < w => d + n - l < Size[s[g + 1]]
    <2>1. m \in 0..(w - h) /\ g \in Nat /\ h <= g /\ g <= w /\ g - h = m
      BY <1>10, <1>15
    <2>2. l \in Nat /\ l = c[g] - c[h] /\ l <= d + n
      <3>1. l \in Nat /\ l = c[h + m] - c[h]
        BY <1>12, <1>15, <2>1
      <3>2. l <= d + n
        BY <1>8, <1>14, <1>15
      <3>3. c[h + m] = c[g]
        BY <1>15
      <3>. QED
        BY <3>1, <3>2, <3>3
    <2>3. g < w => /\ m < Len(q) /\ m + 1 \in 1..(w - h) /\ h + (m + 1) = g + 1
      <3>1. m \in Nat /\ g = h + m
        BY <1>10, <1>15, <2>1
      <3>2. g < w => m < w - h
        BY <3>1
      <3>3. m < w - h => m + 1 \in 1..(w - h)
        BY <1>10, <3>1
      <3>4. h + (m + 1) = g + 1
        BY <3>1
      <3>. QED
        BY <1>10, <3>2, <3>3, <3>4
    <2>4. g < w => d + n - l < Size[s[g + 1]]
      <3> SUFFICES ASSUME g < w PROVE d + n - l < Size[s[g + 1]]
        OBVIOUS
      <3>1. q[m + 1] = s[g + 1]
        <4>1. q[m + 1] = s[h + (m + 1)]
          BY <1>10, <2>3
        <4>. QED
          BY <2>3, <4>1
      <3>2. Len(data) - e[m] < Size[q[m + 1]]
        BY <1>14, <2>3
      <3>3. Len(data) = d + n
        BY <1>8
      <3>4. d + n - l < Size[q[m + 1]]
        <4>1. PICK z, v : z = Size[q[m + 1]] /\ v = Len(data)
          OBVIOUS
        <4>2. v - l < z
          BY <1>15, <3>2, <4>1
        <4>3. v = d + n
          BY <3>3, <4>1
        <4>4. d + n - l < z
          BY <1>n, <2>2, <4>2, <4>3
        <4>. QED
          BY <4>1, <4>4
      <3>. QED
        BY <3>1, <3>4, Zenon
    <2>5. result.processLen = l /\ result.packets = Between(q, 0, m)
      BY <1>6, <1>14, <1>15
    <2>. QED
      BY <2>1, <2>2, <2>4, <2>5
  <1>l. l \in Nat /\ l <= d + n
    BY <1>16
  \* OnRead
  <1>17. PICK rb1 : rb1 = RB!OnRead(written, l)
    OBVIOUS
  <1>18. /\ IsRecvBuffer(rb1) /\ RB!DataSize(rb1) = d + n - l
         /\ \A k \in 1..(d + n - l) : RB!Data(rb1)[k] = data[l + k]
    <2>1. l \in 0..RB!DataSize(written)
      <3>1. l \in Nat /\ l <= d + n
        BY <1>16
      <3>2. l \in 0..(d + n)
        BY <1>n, <3>1
      <3>. QED
        BY <1>7, <3>2
    <2>2. /\ IsRecvBuffer(rb1)
          /\ RB!DataSize(rb1) = RB!DataSize(written) - l
          /\ \A k \in 1..(RB!DataSize(written) - l) :
                 RB!Data(rb1)[k] = RB!Data(written)[l + k]
      BY <1>7, <1>17, <2>1, OnReadFacts
    <2>3. RB!DataSize(written) = d + n
      BY <1>7
    <2>. QED
      <3>1. PICK u : u = RB!DataSize(written)
        OBVIOUS
      <3>2. u = d + n
        BY <2>3, <3>1
      <3>3. /\ IsRecvBuffer(rb1) /\ RB!DataSize(rb1) = u - l
            /\ \A k \in 1..(u - l) : RB!Data(rb1)[k] = data[l + k]
        BY <1>6, <2>2, <3>1
      <3>. QED
        BY <1>n, <1>l, <3>2, <3>3
  <1>19. d + n - l \in Nat
    BY <1>n, <1>l
  \* It leaves less than a packet.
  <1>20. 2 * (d + n - l) <= BufferSize + 1 /\ d + n - l <= BufferSize
    <2>1. BufferSize \in Nat \ {0}
      BY PacketsAssumption
    <2>2. CASE g < w
      <3>1. PICK p : p = s[g + 1]
        OBVIOUS
      <3>2. p \in Packets
        <4>1. g + 1 \in 1..Len(s)
          BY <1>16, <2>2, LenProperties
        <4>. QED
          BY <3>1, <4>1, ElementOfSeq
      <3>3. Size[p] \in Nat /\ 2 * (Size[p] - 1) <= BufferSize + 1
        BY <3>2, SizeRange, PacketsAssumption
      <3>4. PICK z, over : z = Size[p] /\ over = d + n - l
        OBVIOUS
      <3>5. over \in Nat /\ z \in Nat /\ 2 * (z - 1) <= BufferSize + 1
        BY <1>19, <3>3, <3>4
      <3>6. over < z
        BY <1>16, <2>2, <3>1, <3>4
      <3>7. 2 * over <= BufferSize + 1 /\ over <= BufferSize
        BY <2>1, <3>5, <3>6
      <3>. QED
        BY <3>4, <3>7
    <2>3. CASE ~(g < w)
      <3>1. g = w /\ m = w - h
        BY <1>16, <2>3
      <3>2. l = Len(x)
        BY <1>12, <1>15, <3>1
      <3>3. d + n - l = 0
        BY <1>2, <1>n, <1>l, <3>2
      <3>. QED
        BY <2>1, <3>3
    <2>. QED
      BY <2>2, <2>3
  \* Clean
  <1>21. rb2 \in RB!Clean(rb1)
    BY <1>16, <1>17
  <1>22. /\ IsRecvBuffer(rb2) /\ RB!FreeSize(rb2) >= BufferSize
         /\ RB!Data(rb2) = RB!Data(rb1)
    BY <1>18, <1>20, <1>21, CleanLeavesRoom, CleanKeepsData
  <1>23. RB!DataSize(rb2) = d + n - l
    <2>1. DOMAIN RB!Data(rb2) = 1..RB!DataSize(rb2) /\ RB!DataSize(rb2) \in Nat
      BY <1>22, CursorFacts
    <2>2. DOMAIN RB!Data(rb1) = 1..(d + n - l)
      BY <1>18, CursorFacts
    <2>3. \A i, j \in Nat : 1..i = 1..j => i = j
      <3>1. ASSUME NEW i \in Nat, NEW j \in Nat, 1..i = 1..j, i < j
            PROVE  FALSE
        <4>1. j \in 1..j /\ j \notin 1..i
          BY <3>1
        <4>. QED
          BY <3>1, <4>1
      <3>2. ASSUME NEW i \in Nat, NEW j \in Nat, 1..i = 1..j
            PROVE  i = j
        <4>1. i < j \/ j < i \/ i = j
          OBVIOUS
        <4>. QED
          BY <3>1, <3>2, <4>1
      <3>. QED
        BY <3>2
    <2>4. 1..RB!DataSize(rb2) = 1..(d + n - l)
      BY <1>22, <2>1, <2>2
    <2>. QED
      BY <1>19, <2>1, <2>3, <2>4
  <1>24. PICK left : left = RB!Data(rb2)
    OBVIOUS
  <1>25. /\ left \in Seq(Packets \X Nat) /\ Len(left) = d + n - l
         /\ \A k \in 1..(d + n - l) : left[k] = x[l + k]
    <2>1. ASSUME NEW k \in 1..(d + n - l)
          PROVE  left[k] = x[l + k] /\ left[k] \in Packets \X Nat
      <3>1. l + k \in 1..(d + n) /\ l + k \in 1..Len(x)
        <4>1. l + k \in 1..(d + n) /\ l + k \in 1..(d + nw)
          BY <1>n, <1>l
        <4>. QED
          BY <1>2, <4>1
      <3>2. left[k] = data[l + k]
        BY <1>18, <1>22, <1>24
      <3>3. data[l + k] = x[l + k]
        BY <1>7, <3>1
      <3>4. x[l + k] \in Packets \X Nat
        BY <1>2, <3>1, ElementOfSeq
      <3>. QED
        BY <3>2, <3>3, <3>4
    <2>. QED
      BY <1>22, <1>23, <1>24, <2>1, DataIsSeq
  \* What is left of the stream
  <1>26. /\ left \o later \in Seq(Packets \X Nat)
         /\ Len(left \o later) = Len(x) - (c[g] - c[h])
         /\ \A i \in 1..Len(left \o later) :
                (left \o later)[i] = x[c[g] - c[h] + i]
    <2>1. PICK y : y = left \o later
      OBVIOUS
    <2>2. /\ y \in Seq(Packets \X Nat) /\ Len(y) = Len(left) + Len(later)
          /\ \A i \in 1..Len(left) : y[i] = left[i]
          /\ \A i \in 1..Len(later) : y[Len(left) + i] = later[i]
      <3>1. left \in Seq(Packets \X Nat) /\ later \in Seq(Packets \X Nat)
        BY <1>5, <1>25
      <3>2. /\ left \o later \in Seq(Packets \X Nat)
            /\ Len(left \o later) = Len(left) + Len(later)
            /\ \A i \in 1..Len(left) : (left \o later)[i] = left[i]
            /\ \A i \in 1..Len(later) : (left \o later)[Len(left) + i] = later[i]
        BY <3>1, ConcatFacts
      <3>. QED
        BY <2>1, <3>2
    <2>3. Len(y) = d + nw - l /\ Len(x) - l = d + nw - l
      <3>1. Len(y) = d + n - l + (nw - n)
        BY <1>5, <1>25, <2>2
      <3>2. d + n - l + (nw - n) = d + nw - l
        BY <1>n, <1>l
      <3>3. Len(x) = d + nw
        BY <1>2
      <3>. QED
        <4>1. Len(y) = d + nw - l
          BY <3>1, <3>2
        <4>2. Len(x) - l = d + nw - l
          BY <1>n, <1>l, <3>3
        <4>. QED
          BY <4>1, <4>2
    <2>4. ASSUME NEW i \in 1..Len(y)
          PROVE  y[i] = x[l + i]
      <3>1. CASE i \in 1..(d + n - l)
        BY <1>25, <2>2, <3>1
      <3>2. CASE i \notin 1..(d + n - l)
        <4>1. PICK j : j = i - (d + n - l)
          OBVIOUS
        <4>a. i \in 1..(d + nw - l)
          BY <2>3
        <4>2. /\ j \in 1..(nw - n) /\ i = d + n - l + j
              /\ n + j \in 1..nw /\ d + (n + j) = l + i
          BY <1>n, <1>l, <3>2, <4>1, <4>a
        <4>3. y[i] = later[j]
          BY <1>5, <1>25, <2>2, <4>2
        <4>4. later[j] = wi[n + j]
          BY <1>5, <4>2
        <4>5. x[d + (n + j)] = wi[n + j]
          BY <1>2, <4>2
        <4>. QED
          BY <4>2, <4>3, <4>4, <4>5
      <3>. QED
        BY <3>1, <3>2
    <2>. QED
      BY <1>16, <2>1, <2>2, <2>3, <2>4
  <1>27. Holds(s, c, g, w, left \o later)
    BY <1>h, <1>16, <1>26, HoldsDrop
  <1>28. /\ g - h <= Len(q)
         /\ \A i \in 1..(g - h) : q[i] = s[h + i]
         /\ result.packets = Between(q, 0, g - h)
    <2>1. m <= w - h /\ \A i \in 1..m : i \in 1..(w - h)
      BY <1>10
    <2>. QED
      BY <1>10, <1>16, <2>1
  <1>29. g < w => RB!DataSize(rb2) < Size[s[g + 1]]
    BY <1>16, <1>23
  <1>30. /\ RB!Data(rb2) \in Seq(Packets \X Nat)
         /\ SubSeq(wi, n + 1, Len(wi)) \in Seq(Packets \X Nat)
         /\ Holds(s, c, g, w, RB!Data(rb2) \o SubSeq(wi, n + 1, Len(wi)))
    BY <1>3, <1>5, <1>24, <1>25, <1>27
  <1>31. g \in Nat /\ h <= g /\ g <= w
    BY <1>16
  <1>32. \E q2 \in Seq(Packets) :
            /\ g - h <= Len(q2)
            /\ \A i \in 1..(g - h) : q2[i] = s[h + i]
            /\ result.packets = Between(q2, 0, g - h)
    BY <1>10, <1>28, Zenon
  <1>. QED
    BY <1>22, <1>29, <1>30, <1>31, <1>32, Zenon DEF Received

\* What was handed over, as a sequence of packets.
LEMMA BetweenIsSeq ==
    ASSUME NEW q \in Seq(Packets), NEW m \in Nat, m <= Len(q)
    PROVE  /\ Between(q, 0, m) \in Seq({PacketBytes(p) : p \in Packets})
           /\ Len(Between(q, 0, m)) = m
           /\ \A i \in 1..m : Between(q, 0, m)[i] = PacketBytes(q[i])
  <1> DEFINE X == {PacketBytes(p) : p \in Packets}
             b == Between(q, 0, m)
  <1>1. \A i \in 1..m : q[i] \in Packets /\ 0 + i = i
    BY LenProperties, ElementOfSeq
  <1>2. \A i \in 1..m : PacketBytes(q[i]) \in X
    BY <1>1
  <1>3. b = [i \in 1..m |-> PacketBytes(q[i])]
    <2>1. m - 0 = m
      OBVIOUS
    <2>. QED
      BY <1>1, <2>1 DEF Between
  <1> HIDE DEF X, b
  <1>4. b \in Seq(X) /\ Len(b) = m /\ \A i \in 1..m : b[i] = PacketBytes(q[i])
    BY <1>2, <1>3
  <1>. QED
    BY <1>4 DEF X, b

\* ProcessRecv handles the packets that have become whole.
LEMMA ProcessRecvStream ==
    ASSUME IInv, SInv, ProcessRecv
    PROVE  SInv'
  <1>1. PICK n \in 1..Len(wire) :
           /\ n <= RB!FreeSize(recvBuffer)
           /\ LET written == RB!OnWrite(recvBuffer, SubSeq(wire, 1, n))
                  result == OnRecv(RB!Data(written))
              IN /\ recvBuffer' \in RB!Clean(RB!OnRead(written, result.processLen))
                 /\ handled' = handled \o result.packets
           /\ wire' = SubSeq(wire, n + 1, Len(wire))
           /\ UNCHANGED <<sendVars, inFlight>>
    BY DEF ProcessRecv
  <1>2. /\ sent' = sent /\ sendQueue' = sendQueue /\ inFlight' = inFlight
        /\ Wired' = Wired
    BY <1>1 DEF sendVars, Wired
  <1>3. PICK written, result, rb2 :
           /\ written = RB!OnWrite(recvBuffer, SubSeq(wire, 1, n))
           /\ result = OnRecv(RB!Data(written))
           /\ rb2 = recvBuffer'
    OBVIOUS
  <1>4. /\ rb2 \in RB!Clean(RB!OnRead(written, result.processLen))
        /\ handled' = handled \o result.packets
    BY <1>1, <1>3
  <1>5. PICK c : Offsets(sent, c) /\ Holds(sent, c, Len(handled), Wired, Stream)
    BY DEF SInv, StreamInOrder
  <1>6. /\ sent \in Seq(Packets) /\ Wired \in Nat /\ Len(handled) \in Nat
        /\ Len(handled) <= Wired /\ Wired <= Len(sent)
        /\ Len(sent) \in Nat
    <2>1. /\ sent \in Seq(Packets) /\ Wired \in Nat /\ Len(handled) \in Nat
          /\ Len(handled) <= Wired
          /\ inFlight \in Seq(Packets) /\ sendQueue \in Seq(Packets)
      BY LenProperties
         DEF SInv, QueuesInOrder, HandledInOrder, IInv, SenderTypeOK
    <2>2. Len(inFlight) \in Nat /\ Len(sendQueue) \in Nat /\ Len(sent) \in Nat
      BY <2>1, LenProperties
    <2>3. Wired <= Len(sent)
      BY <2>2 DEF Wired
    <2>. QED
      BY <2>1, <2>2, <2>3
  <1>7. /\ IsRecvBuffer(recvBuffer) /\ wire \in Seq(Packets \X Nat)
        /\ RB!Data(recvBuffer) \in Seq(Packets \X Nat)
        /\ Len(RB!Data(recvBuffer)) = RB!DataSize(recvBuffer)
    BY DataIsSeq DEF SInv, ReceiverReady
  <1>8. Holds(sent, c, Len(handled), Wired, RB!Data(recvBuffer) \o wire)
    BY <1>5 DEF Stream
  <1>9. PICK g \in Nat :
            /\ Len(handled) <= g /\ g <= Wired
            /\ \E q \in Seq(Packets) :
                   /\ g - Len(handled) <= Len(q)
                   /\ \A i \in 1..(g - Len(handled)) : q[i] = sent[Len(handled) + i]
                   /\ result.packets = Between(q, 0, g - Len(handled))
            /\ IsRecvBuffer(rb2) /\ RB!FreeSize(rb2) >= BufferSize
            /\ g < Wired => RB!DataSize(rb2) < Size[sent[g + 1]]
            /\ RB!Data(rb2) \in Seq(Packets \X Nat)
            /\ SubSeq(wire, n + 1, Len(wire)) \in Seq(Packets \X Nat)
            /\ Holds(sent, c, g, Wired, RB!Data(rb2) \o SubSeq(wire, n + 1, Len(wire)))
    <2>1. PICK s, h, w, rb, wi :
             /\ s = sent /\ h = Len(handled) /\ w = Wired
             /\ rb = recvBuffer /\ wi = wire
      OBVIOUS
    <2>2. /\ s \in Seq(Packets) /\ Offsets(s, c) /\ h \in Nat /\ w \in Nat
          /\ h <= w /\ w <= Len(s)
          /\ IsRecvBuffer(rb) /\ wi \in Seq(Packets \X Nat)
          /\ RB!Data(rb) \in Seq(Packets \X Nat)
          /\ Len(RB!Data(rb)) = RB!DataSize(rb)
          /\ Holds(s, c, h, w, RB!Data(rb) \o wi)
          /\ n \in 1..Len(wi) /\ n <= RB!FreeSize(rb)
          /\ written = RB!OnWrite(rb, SubSeq(wi, 1, n))
          /\ result = OnRecv(RB!Data(written))
          /\ rb2 \in RB!Clean(RB!OnRead(written, result.processLen))
      BY <1>1, <1>3, <1>4, <1>5, <1>6, <1>7, <1>8, <2>1
    <2>3. Receiving(s, c, h, w, rb, wi, n, written, result, rb2)
      BY <2>2 DEF Receiving
    <2>4. Received(s, c, h, w, wi, n, result, rb2)
      BY <2>3, ReceiveFacts
    <2>. QED
      BY <2>1, <2>4 DEF Received
  <1>10. PICK q \in Seq(Packets) :
            /\ g - Len(handled) <= Len(q)
            /\ \A i \in 1..(g - Len(handled)) : q[i] = sent[Len(handled) + i]
            /\ result.packets = Between(q, 0, g - Len(handled))
    BY <1>9
  <1>11. PICK h, m, new : h = Len(handled) /\ m = g - h /\ new = result.packets
    OBVIOUS
  <1>12. /\ h \in Nat /\ m \in Nat /\ g = h + m /\ m <= Len(q)
    BY <1>6, <1>9, <1>10, <1>11
  <1>13. /\ new \in Seq({PacketBytes(p) : p \in Packets}) /\ Len(new) = m
         /\ \A i \in 1..m : new[i] = PacketBytes(q[i])
    <2>1. new = Between(q, 0, m)
      BY <1>10, <1>11
    <2>. QED
      BY <1>12, <2>1, BetweenIsSeq
  <1>14. /\ handled' \in Seq({PacketBytes(p) : p \in Packets})
         /\ Len(handled') = g
         /\ \A i \in 1..g : handled'[i] = PacketBytes(sent[i])
    <2>1. PICK X, old : X = {PacketBytes(p) : p \in Packets} /\ old = handled
      OBVIOUS
    <2>2. old \in Seq(X) /\ new \in Seq(X) /\ handled' = old \o new
      BY <1>4, <1>11, <1>13, <2>1 DEF SInv, HandledInOrder
    <2>3. /\ old \o new \in Seq(X) /\ Len(old \o new) = Len(old) + Len(new)
          /\ \A i \in 1..(Len(old) + Len(new)) :
                (old \o new)[i] = IF i <= Len(old) THEN old[i] ELSE new[i - Len(old)]
      BY <2>2, ConcatProperties
    <2>4. Len(old) = h /\ Len(old) + Len(new) = g
      BY <1>11, <1>12, <1>13, <2>1
    <2>5. ASSUME NEW i \in 1..g
          PROVE  (old \o new)[i] = PacketBytes(sent[i])
      <3>1. CASE i <= h
        <4>1. i \in 1..Len(handled)
          BY <1>11, <1>12, <3>1
        <4>2. handled[i] = PacketBytes(sent[i])
          BY <4>1 DEF SInv, HandledInOrder
        <4>. QED
          BY <2>1, <2>3, <2>4, <3>1, <4>2
      <3>2. CASE ~(i <= h)
        <4>1. i - h \in 1..m /\ h + (i - h) = i
          BY <1>12, <3>2
        <4>2. q[i - h] = sent[h + (i - h)]
          BY <1>10, <1>11, <4>1
        <4>3. new[i - h] = PacketBytes(sent[i])
          BY <1>13, <4>1, <4>2
        <4>. QED
          BY <2>3, <2>4, <3>2, <4>3
      <3>. QED
        BY <3>1, <3>2
    <2>. QED
      BY <2>1, <2>2, <2>3, <2>4, <2>5
  <1>15. QueuesInOrder'
    BY <1>2 DEF SInv, QueuesInOrder
  <1>16. HandledInOrder'
    BY <1>2, <1>9, <1>14 DEF HandledInOrder
  <1>17. ReceiverReady'
    <2>1. recvBuffer' = rb2 /\ wire' = SubSeq(wire, n + 1, Len(wire))
      BY <1>1, <1>3
    <2>2. \A k \in 1..RB!DataSize(rb2) : RB!Data(rb2)[k] \in Packets \X Nat
      <3>1. DOMAIN RB!Data(rb2) = 1..RB!DataSize(rb2)
        BY <1>9, CursorFacts
      <3>2. DOMAIN RB!Data(rb2) = 1..Len(RB!Data(rb2))
        BY <1>9, LenProperties
      <3>. QED
        BY <1>9, <3>1, <3>2, ElementOfSeq
    <2>. QED
      BY <1>2, <1>9, <1>14, <2>1, <2>2 DEF ReceiverReady
  <1>18. StreamInOrder'
    <2>1. Stream' = RB!Data(rb2) \o SubSeq(wire, n + 1, Len(wire))
      BY <1>1, <1>3 DEF Stream
    <2>. QED
      BY <1>2, <1>5, <1>9, <1>14, <2>1 DEF StreamInOrder
  <1>. QED
    BY <1>15, <1>16, <1>17, <1>18 DEF SInv

LEMMA NextStream == IInv /\ SInv /\ [Next]_vars => SInv'
  <1> SUFFICES ASSUME IInv, SInv, [Next]_vars PROVE SInv'
    OBVIOUS
  <1>1. ASSUME NEW t \in Threads, NEW p \in Packets, Open(t, p) PROVE SInv'
    BY <1>1, StreamQuiet DEF Open
  <1>2. ASSUME NEW t \in Threads, Serialize(t) PROVE SInv'
    BY <1>2, StreamQuiet DEF Serialize
  <1>3. ASSUME NEW t \in Threads, Send(t) PROVE SInv'
    BY <1>3, SendStream
  <1>4. ASSUME NEW t \in Threads, Discard(t) PROVE SInv'
    BY <1>4, StreamQuiet DEF Discard
  <1>5. CASE RegisterSend
    BY <1>5, RegisterSendStream
  <1>6. CASE ProcessSend
    BY <1>6, ProcessSendStream
  <1>7. CASE Deleter
    BY <1>7, StreamQuiet DEF Deleter
  <1>8. CASE ProcessRecv
    BY <1>8, ProcessRecvStream
  <1>9. CASE UNCHANGED vars
    BY <1>9, StreamQuiet DEF vars, sendVars
  <1>. QED
    BY <1>1, <1>2, <1>3, <1>4, <1>5, <1>6, <1>7, <1>8, <1>9 DEF Next

LEMMA StreamInvariance == Spec => []SInv
  BY InitStream, NextStream, Invariance, PTL DEF Spec

-----------------------------------------------------------------------------
(* What follows *)

\* From the end of Serialize until its last shared_ptr goes, a SendBuffer holds
\* the bytes of its packet: no thread writes into it, and no chunk that was
\* handed out again runs over it (SendBuffer.cpp:49,61,94).
THEOREM SentBuffersIntact == Spec => []BuffersIntact
  <1>1. IInv => BuffersIntact
    BY DEF IInv
  <1>. QED
    BY <1>1, Invariance, PTL

\* Two threads never have the same chunk, and a chunk somebody owns is neither
\* in the pool nor on its way there (SendBuffer.cpp:82,94).
THEOREM OwnedChunksApart == Spec => []ChunksApart
  <1>1. IInv => ChunksApart
    BY DEF IInv
  <1>. QED
    BY <1>1, Invariance, PTL

\* The assertions of Open and Close: the chunk a thread opens is closed, the one
\* it closes is open, and only its thread does either (SendBuffer.cpp:39,51).
THEOREM OpenIsExclusive == Spec => []OpenInv
  <1>1. IInv => OpenInv
    BY DEF IInv
  <1>. QED
    BY <1>1, Invariance, PTL

\* What no SendBuffer lives in has no place.
FreeBuffers == \A b \in Packets : ~Live(b) => buffer[b] = NoBuffer

LEMMA FreeInvariance == Spec => []FreeBuffers
  <1>1. Init => FreeBuffers
    BY DEF Init, SendBufferInit, FreeBuffers, Packets
  <1>2. IInv /\ FreeBuffers /\ [Next]_vars => FreeBuffers'
    <2> SUFFICES ASSUME IInv, FreeBuffers, [Next]_vars
                 PROVE  FreeBuffers'
      OBVIOUS
    <2>q. ASSUME buffer' = buffer PROVE FreeBuffers'
      BY <2>q DEF FreeBuffers, Live
    <2>r. ASSUME NEW bs, Release(bs) PROVE FreeBuffers'
      <3>1. \A b \in Packets : buffer'[b] = IF b \in bs THEN NoBuffer ELSE buffer[b]
        BY <2>r DEF Release, Packets
      <3>. QED
        BY <3>1 DEF FreeBuffers, Live
    <2>1. ASSUME NEW t \in Threads, NEW p \in Packets, Open(t, p) PROVE FreeBuffers'
      <3>1. ~Live(p)
        BY <2>1 DEF Open, IInv, OneHolder
      <3>2. PICK c \in Chunks : OpenEffect(t, p, c)
        BY <2>1, <3>1, OpenHereEffect, OpenAnotherEffect DEF Open
      <3>3. c # NoChunk
        BY SizeFacts
      <3>4. PICK n : buffer' = [buffer EXCEPT ![p] =
                                   [owner |-> c, at |-> n, allocSize |-> Size[p]]]
        BY <3>2 DEF OpenEffect
      <3>5. \A b \in Packets : b # p => buffer'[b] = buffer[b]
        BY <3>4
      <3>6. buffer'[p].owner = c
        BY <3>4 DEF IInv, SenderTypeOK
      <3>. QED
        BY <3>3, <3>5, <3>6 DEF FreeBuffers, Live
    <2>2. ASSUME NEW t \in Threads, Serialize(t) PROVE FreeBuffers'
      BY <2>2, <2>q DEF Serialize, Close
    <2>3. ASSUME NEW t \in Threads, Send(t) PROVE FreeBuffers'
      BY <2>3, <2>q DEF Send, chunkVars
    <2>4. ASSUME NEW t \in Threads, Discard(t) PROVE FreeBuffers'
      BY <2>4, <2>r DEF Discard
    <2>5. CASE RegisterSend
      BY <2>5, <2>q DEF RegisterSend, chunkVars
    <2>6. CASE ProcessSend
      BY <2>6, <2>r DEF ProcessSend
    <2>7. CASE Deleter
      BY <2>7, <2>q DEF Deleter, PushGlobal
    <2>8. CASE ProcessRecv
      BY <2>8, <2>q DEF ProcessRecv, sendVars, chunkVars
    <2>9. CASE UNCHANGED vars
      BY <2>9, <2>q DEF vars, sendVars, chunkVars
    <2>. QED
      BY <2>1, <2>2, <2>3, <2>4, <2>5, <2>6, <2>7, <2>8, <2>9 DEF Next
  <1>. QED
    BY <1>1, <1>2, Invariance, PTL DEF Spec

\* Every state has its type: chunk and buffer are used within their sizes, the
\* cursors of the RecvBuffer stay inside it, and a chunk is open exactly while
\* its thread is in MakeSendBuffer (SendBuffer.cpp:39,51, RecvBuffer.cpp:33,42).
THEOREM TypeCorrect == Spec => []TypeOK
  <1>1. IInv /\ SInv /\ FreeBuffers => TypeOK
    <2> SUFFICES ASSUME IInv, SInv, FreeBuffers PROVE TypeOK
      OBVIOUS
    <2>1. SenderTypeOK /\ OneHolder /\ ChunksApart /\ FillingAtEnd /\ OpenInv
          /\ BuffersIntact
      BY DEF IInv
    <2>2. /\ LSendBufferChunk \in [Threads -> Chunks \cup {NoChunk}]
          /\ sendBufferChunks \in Seq(Chunks)
          /\ returning \in SUBSET Chunks
          /\ making \in [Threads -> Packets \cup {NoPacket}]
          /\ made \in [Threads -> BOOLEAN]
          /\ sendQueue \in Seq(Packets) /\ inFlight \in Seq(Packets)
      BY <2>1 DEF SenderTypeOK
    <2>3. \A c \in Chunks : /\ chunk[c].open \in BOOLEAN
                            /\ chunk[c].usedSize \in 0..SEND_BUFFER_CHUNK_SIZE
      BY <2>1 DEF SenderTypeOK
    <2>4. ASSUME NEW b \in Packets
          PROVE  /\ buffer[b].owner \in Chunks \cup {NoChunk}
                 /\ buffer[b].at \in Nat /\ buffer[b].allocSize \in Nat
                 /\ buffer[b].at + buffer[b].allocSize <= SEND_BUFFER_CHUNK_SIZE
      <3>1. /\ buffer[b].owner \in Chunks \cup {NoChunk}
            /\ buffer[b].at \in Nat /\ buffer[b].allocSize \in Nat
        BY <2>1 DEF SenderTypeOK
      <3>2. CASE ~Live(b)
        <4>1. buffer[b] = NoBuffer
          BY <3>2 DEF FreeBuffers
        <4>2. buffer[b].at = 0 /\ buffer[b].allocSize = 0
          BY <4>1 DEF NoBuffer
        <4>. QED
          BY <3>1, <4>2, SizeFacts
      <3>3. CASE Live(b) /\ \A t \in Threads : making[t] = b => made[t]
        <4>1. PICK c : c = buffer[b].owner
          OBVIOUS
        <4>2. c \in Chunks
          BY <3>1, <3>3, <4>1 DEF Live
        <4>3. buffer[b].at + Size[b] <= chunk[c].usedSize
          BY <2>1, <3>3, <4>1 DEF BuffersIntact
        <4>4. PICK a, z, u : a = buffer[b].at /\ z = Size[b] /\ u = chunk[c].usedSize
          OBVIOUS
        <4>5. /\ u \in Nat /\ u <= SEND_BUFFER_CHUNK_SIZE /\ a \in Nat /\ z \in Nat
              /\ a + z <= u /\ SEND_BUFFER_CHUNK_SIZE \in Nat
          BY <2>3, <3>1, <4>2, <4>3, <4>4, SizeFacts
        <4>6. a + z <= SEND_BUFFER_CHUNK_SIZE
          BY <4>5
        <4>7. buffer[b].allocSize = z
          BY <2>1, <3>3, <4>4 DEF OneHolder
        <4>. QED
          BY <3>1, <4>4, <4>6, <4>7
      <3>4. CASE \E t \in Threads : making[t] = b /\ ~made[t]
        <4>1. PICK t \in Threads : making[t] = b /\ ~made[t]
          BY <3>4
        <4>2. b # NoPacket
          BY SizeFacts
        <4>3. buffer[b].at + Size[b] <= SEND_BUFFER_CHUNK_SIZE
          BY <2>1, <4>1, <4>2 DEF FillingAtEnd, Filling
        <4>4. buffer[b].allocSize = Size[b]
          BY <2>1, <4>1 DEF OneHolder
        <4>. QED
          BY <3>1, <4>3, <4>4
      <3>. QED
        BY <3>2, <3>3, <3>4
    <2>5. SendBufferTypeOK
      BY <2>2, <2>3, <2>4 DEF SendBufferTypeOK, Packets
    <2>6. /\ recvBuffer.readPos \in 0..recvBuffer.writePos
          /\ recvBuffer.writePos \in 0..RB!Capacity
      BY DEF SInv, ReceiverReady, IsRecvBuffer
    <2>7. ASSUME NEW t \in Threads, LSendBufferChunk[t] # NoChunk
          PROVE  chunk[LSendBufferChunk[t]].open
                     <=> making[t] # NoPacket /\ ~made[t]
      <3>1. PICK c : c = LSendBufferChunk[t]
        OBVIOUS
      <3>2. c \in Chunks
        BY <2>2, <2>7, <3>1
      <3>3. chunk[c].open <=> \E u \in Threads : LSendBufferChunk[u] = c /\ Filling(u)
        BY <2>1, <3>2 DEF OpenInv
      <3>4. \A u \in Threads : LSendBufferChunk[u] = c => u = t
        BY <2>1, <2>7, <3>1 DEF ChunksApart
      <3>. QED
        BY <3>1, <3>3, <3>4 DEF Filling
    <2>. QED
      BY <2>2, <2>5, <2>6, <2>7 DEF TypeOK
  <1>. QED
    BY <1>1, Invariance, StreamInvariance, FreeInvariance, PTL

\* OnRecvPacket is called with the packets that Send was called with: whole,
\* unchanged, in order, none left out and none twice, wherever the stream is cut
\* into receives and whenever Clean moves the data (Session.cpp:363,461).
THEOREM PacketsAreIntact == Spec => []PacketsIntact
  <1>1. IInv /\ SInv => PacketsIntact
    <2> SUFFICES ASSUME IInv, SInv PROVE PacketsIntact
      OBVIOUS
    <2>1. /\ Len(handled) \in Nat /\ Len(handled) <= Wired /\ Wired \in Nat
          /\ DOMAIN handled = 1..Len(handled)
      BY LenProperties DEF SInv, HandledInOrder, QueuesInOrder
    <2>2. /\ Len(inFlight) \in Nat /\ Len(sendQueue) \in Nat /\ Len(sent) \in Nat
      BY LenProperties DEF IInv, SenderTypeOK, SInv, QueuesInOrder
    <2>3. Wired <= Len(sent)
      BY <2>2 DEF Wired
    <2>. QED
      BY <2>1, <2>2, <2>3 DEF PacketsIntact, SInv, HandledInOrder
  <1>. QED
    BY <1>1, Invariance, StreamInvariance, PTL

\* RegisterRecv never asks for zero bytes, and the packet that has begun has
\* room for its rest (RecvBuffer.cpp:15,
\* Session.cpp:391).
THEOREM AlwaysRoomToReceive == Spec => []RoomToReceive
  <1>1. IInv /\ SInv => RoomToReceive
    <2> SUFFICES ASSUME IInv, SInv PROVE RoomToReceive
      OBVIOUS
    <2>1. PICK data, h : data = RB!Data(recvBuffer) /\ h = Len(handled)
      OBVIOUS
    <2>2. /\ IsRecvBuffer(recvBuffer) /\ RB!FreeSize(recvBuffer) >= BufferSize
          /\ RB!FreeSize(recvBuffer) \in Nat /\ BufferSize \in Nat \ {0}
      BY CursorFacts, PacketsAssumption DEF SInv, ReceiverReady
    <2>3. /\ data \in Seq(Packets \X Nat) /\ Len(data) = RB!DataSize(recvBuffer)
          /\ wire \in Seq(Packets \X Nat) /\ Len(data) \in Nat /\ Len(wire) \in Nat
      <3>1. /\ data \in Seq(Packets \X Nat) /\ Len(data) = RB!DataSize(recvBuffer)
            /\ wire \in Seq(Packets \X Nat)
        BY <2>1, <2>2, DataIsSeq DEF SInv, ReceiverReady
      <3>. QED
        BY <3>1, LenProperties
    <2>4. ASSUME data # <<>>
          PROVE  RB!FreeSize(recvBuffer) >= SizeAt(data, 0) - Len(data)
      <3>1. Len(data) >= 1
        BY <2>3, <2>4, EmptySeq
      <3>2. PICK c : Offsets(sent, c) /\ Holds(sent, c, h, Wired, Stream)
        BY <2>1 DEF SInv, StreamInOrder
      <3>3. /\ Len(Stream) = Len(data) + Len(wire)
            /\ \A i \in 1..Len(data) : Stream[i] = data[i]
        BY <2>1, <2>3, ConcatFacts DEF Stream
      <3>4. /\ sent \in Seq(Packets) /\ Wired \in Nat /\ h \in Nat
            /\ h <= Wired /\ Len(sent) \in Nat /\ Wired <= Len(sent)
        <4>1. /\ sent \in Seq(Packets) /\ Wired \in Nat /\ h \in Nat /\ h <= Wired
          BY <2>1, LenProperties DEF SInv, HandledInOrder, QueuesInOrder
        <4>2. /\ Len(inFlight) \in Nat /\ Len(sendQueue) \in Nat /\ Len(sent) \in Nat
          BY LenProperties DEF IInv, SenderTypeOK, SInv, QueuesInOrder
        <4>3. Wired <= Len(sent)
          BY <4>2 DEF Wired
        <4>. QED
          BY <4>1, <4>2, <4>3
      <3>5. c[h] \in Nat
        BY <3>2, <3>4 DEF Offsets
      <3>6. h < Wired
        <4>1. CASE h = Wired
          <5>1. Len(Stream) = c[h] - c[h]
            BY <3>2, <4>1 DEF Holds
          <5>2. Len(Stream) = 0
            BY <3>5, <5>1
          <5>. QED
            BY <2>3, <3>1, <3>3, <5>2
        <4>. QED
          BY <3>4, <4>1
      <3>7. PICK p : p = sent[h + 1]
        OBVIOUS
      <3>8. p \in Packets /\ Size[p] \in Nat /\ Size[p] >= 1
        <4>1. h + 1 \in 1..Len(sent)
          BY <3>4, <3>6
        <4>. QED
          BY <3>4, <3>7, <4>1, ElementOfSeq, SizeRange
      <3>9. data[1] = <<p, 1>>
        <4>1. h + 1 \in (h + 1)..Wired /\ 1 \in 1..Size[p] /\ h + 1 - 1 = h
          BY <3>4, <3>6, <3>8
        <4>2. Stream[c[h] - c[h] + 1] = <<p, 1>>
          <5>1. \A i \in (h + 1)..Wired : \A k \in 1..Size[sent[i]] :
                   Stream[c[i - 1] - c[h] + k] = <<sent[i], k>>
            BY <3>2 DEF Holds
          <5>2. PICK i : i = h + 1
            OBVIOUS
          <5>3. i \in (h + 1)..Wired /\ i - 1 = h /\ sent[i] = p
            <6>1. i \in (h + 1)..Wired /\ i - 1 = h
              <7>1. i \in Nat /\ i - 1 = h
                BY <3>4, <5>2
              <7>. QED
                BY <4>1, <5>2, <7>1
            <6>2. sent[i] = p
              BY <3>7, <5>2
            <6>. QED
              BY <6>1, <6>2
          <5>4. Stream[c[i - 1] - c[h] + 1] = <<sent[i], 1>>
            BY <4>1, <5>1, <5>3
          <5>. QED
            BY <5>3, <5>4
        <4>3. c[h] - c[h] + 1 = 1
          BY <3>5
        <4>4. 1 \in 1..Len(data)
          BY <2>3, <3>1
        <4>. QED
          BY <3>3, <4>2, <4>3, <4>4
      <3>10. SizeAt(data, 0) = Size[p]
        BY <3>8, <3>9 DEF SizeAt
      <3>11. Size[p] - 1 <= BufferSize
        <4>1. 2 * (Size[p] - 1) <= BufferSize + 1
          BY <3>8, PacketsAssumption
        <4>. QED
          BY <2>2, <3>8, <4>1
      <3>. QED
        BY <2>2, <2>3, <3>1, <3>8, <3>10, <3>11
    <2>5. RB!FreeSize(recvBuffer) > 0
      BY <2>2
    <2>. QED
      BY <2>1, <2>4, <2>5 DEF RoomToReceive
  <1>. QED
    BY <1>1, Invariance, StreamInvariance, PTL
=============================================================================
