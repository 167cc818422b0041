------------------------------ MODULE Packets ------------------------------
(***************************************************************************)
(* A packet's way from MakeSendBuffer on one side of a connection to       *)
(* OnRecvPacket on the other: it is serialized into a SendBuffer, posted   *)
(* by reference, and received in pieces into the RecvBuffer, where         *)
(* PacketSession::OnRecv finds its borders again.  What ends a connection  *)
(* is in Session.tla; here it lasts.  This is the path without UseRIO,     *)
(* where the kernel reads the SendBuffers themselves.                      *)
(***************************************************************************)
EXTENDS SendBuffer

CONSTANTS
    BufferSize,     \* RECV_BUFFER_SIZE
    HeaderSize,     \* sizeof(PacketHeader)
    Size            \* of every packet, its header included

RB == INSTANCE RecvBuffer

Packets == Buffers

\* The sizes a packet may have: Open crashes on one larger than a chunk, and
\* Clean's memcpy is only defined on data that does not overlap itself.
ASSUME PacketsAssumption ==
    /\ BufferSize \in Nat \ {0}
    /\ Packets \subseteq Nat \ {0}
    /\ HeaderSize \in Nat \ {0}
    /\ Size \in [Packets -> HeaderSize..SEND_BUFFER_CHUNK_SIZE]
    /\ \A p \in Packets : 2 * (Size[p] - 1) <= BufferSize + 1

VARIABLES
    making,     \* per thread: the packet in MakeSendBuffer or on its way to Send
    made,       \* per thread: whether MakeSendBuffer has returned it
    sendQueue,  \* Session::_sendQueue
    inFlight,   \* _sendEvent.SendBuffers
    wire,       \* bytes the network has taken
    recvBuffer, \* _recvBuffer of the receiving side
    used,       \* history: the packets made so far
    sent,       \* history: the packets in the order they were queued
    handled     \* history: what OnRecvPacket was called with

sendVars == <<chunkVars, making, made, sendQueue, used, sent>>
vars == <<sendVars, inFlight, wire, recvBuffer, handled>>

NoPacket == 0
PacketBytes(p) == [k \in 1..Size[p] |-> <<p, k>>]

Init ==
    /\ SendBufferInit
    /\ making = [t \in Threads |-> NoPacket]
    /\ made = [t \in Threads |-> FALSE]
    /\ sendQueue = <<>> /\ inFlight = <<>> /\ wire = <<>>
    /\ recvBuffer = RB!Empty
    /\ used = {} /\ sent = <<>> /\ handled = <<>>

-----------------------------------------------------------------------------
(* The sender *)

\* MakeSendBuffer opens a SendBuffer.  p is the next number: packets differ by
\* their sizes only.
Open(t, p) ==
    /\ making[t] = NoPacket
    /\ p \notin used /\ \A q \in Packets : q < p => q \in used
    /\ OpenHere(t, p, Size[p]) \/ OpenAnother(t, p, Size[p])
    /\ making' = [making EXCEPT ![t] = p]
    /\ used' = used \cup {p}
    /\ UNCHANGED <<made, sendQueue, inFlight, wire, recvBuffer, sent, handled>>

\* It fills and closes it.
Serialize(t) ==
    /\ making[t] # NoPacket /\ ~made[t]
    /\ Close(making[t], PacketBytes(making[t]))
    /\ made' = [made EXCEPT ![t] = TRUE]
    /\ UNCHANGED <<making, sendQueue, inFlight, wire, recvBuffer, used, sent,
                   handled>>

\* Session::Send queues it.
Send(t) ==
    /\ made[t]
    /\ sendQueue' = Append(sendQueue, making[t])
    /\ sent' = Append(sent, making[t])
    /\ making' = [making EXCEPT ![t] = NoPacket]
    /\ made' = [made EXCEPT ![t] = FALSE]
    /\ UNCHANGED <<chunkVars, inFlight, wire, recvBuffer, used, handled>>

\* Or nobody wants it: its last shared_ptr goes.
Discard(t) ==
    /\ made[t]
    /\ Release({making[t]})
    /\ making' = [making EXCEPT ![t] = NoPacket]
    /\ made' = [made EXCEPT ![t] = FALSE]
    /\ UNCHANGED <<sendQueue, inFlight, wire, recvBuffer, used, sent, handled>>

\* RegisterSend, by the one who has _sendRegistered.
RegisterSend ==
    /\ inFlight = <<>> /\ sendQueue # <<>>
    /\ inFlight' = sendQueue
    /\ sendQueue' = <<>>
    /\ UNCHANGED <<chunkVars, making, made, wire, recvBuffer, used, sent, handled>>

\* The kernel has read the SendBuffers, the last of it just now, and
\* ProcessSend lets them go.
ProcessSend ==
    /\ inFlight # <<>>
    /\ wire' = wire \o FlattenSeq([i \in DOMAIN inFlight |-> Bytes(inFlight[i])])
    /\ Release(Range(inFlight))
    /\ inFlight' = <<>>
    /\ UNCHANGED <<making, made, sendQueue, recvBuffer, used, sent, handled>>

\* A chunk without owners reaches the pool.
Deleter ==
    /\ \E c \in Chunks : PushGlobal(c)
    /\ UNCHANGED <<making, made, sendQueue, inFlight, wire, recvBuffer, used,
                   sent, handled>>

-----------------------------------------------------------------------------
(* The receiver *)

\* header.size of the packet that starts after the first i bytes of data.
\* Any bytes there are read as a header.
SizeAt(data, i) ==
    IF data[i + 1] \in Packets \X {1} THEN Size[data[i + 1][1]] ELSE HeaderSize

\* Mutant of OnRecv: dataSize < header.size is <=.
OnRecvStrict(data) ==
    LET rest[i \in 0..Len(data)] ==
            LET dataSize == Len(data) - i IN
            IF dataSize < HeaderSize \/ dataSize <= SizeAt(data, i)
              THEN [processLen |-> i, packets |-> <<>>]
              ELSE LET size == SizeAt(data, i) IN
                   [rest[i + size] EXCEPT
                       !.packets = <<SubSeq(data, i + 1, i + size)>> \o @]
    IN rest[0]

\* PacketSession::OnRecv: every packet that is there in full.
OnRecv(data) ==
    LET rest[i \in 0..Len(data)] ==
            LET dataSize == Len(data) - i IN
            IF dataSize < HeaderSize \/ dataSize < SizeAt(data, i)
              THEN [processLen |-> i, packets |-> <<>>]
              ELSE LET size == SizeAt(data, i) IN
                   [rest[i + size] EXCEPT
                       !.packets = <<SubSeq(data, i + 1, i + size)>> \o @]
    IN rest[0]

\* A receive completes with as many bytes as there are, or fewer, and
\* RegisterRecv asks for the next FreeSize() bytes.
ProcessRecv ==
    \E n \in 1..Len(wire) :
        /\ n <= RB!FreeSize(recvBuffer)
        /\ LET written == RB!OnWrite(recvBuffer, SubSeq(wire, 1, n))
               result == OnRecv(RB!Data(written))
           IN /\ recvBuffer' \in RB!Clean(RB!OnRead(written, result.processLen))
              /\ handled' = handled \o result.packets
        /\ wire' = SubSeq(wire, n + 1, Len(wire))
        /\ UNCHANGED <<sendVars, inFlight>>

-----------------------------------------------------------------------------
Next ==
    \/ \E t \in Threads :
           (\E p \in Packets : Open(t, p)) \/ Serialize(t) \/ Send(t) \/ Discard(t)
    \/ RegisterSend \/ ProcessSend \/ Deleter
    \/ ProcessRecv

\* The workers keep taking completions.
Fairness ==
    /\ WF_vars(RegisterSend)
    /\ WF_vars(ProcessSend)
    /\ WF_vars(ProcessRecv)

Spec == Init /\ [][Next]_vars /\ Fairness

-----------------------------------------------------------------------------
(* Properties *)

\* The states have their types, and the assertions of Open and Close hold:
\* a chunk is open exactly while its thread is inside MakeSendBuffer, so
\* nobody else cuts from it (SendBuffer.cpp:39,40,51,64).
TypeOK ==
    /\ SendBufferTypeOK
    /\ making \in [Threads -> Packets \cup {NoPacket}]
    /\ made \in [Threads -> BOOLEAN]
    /\ sendQueue \in Seq(Packets) /\ inFlight \in Seq(Packets)
    /\ recvBuffer.readPos \in 0..recvBuffer.writePos
    /\ recvBuffer.writePos \in 0..RB!Capacity
    /\ \A t \in Threads :
           LSendBufferChunk[t] # NoChunk =>
               (chunk[LSendBufferChunk[t]].open
                    <=> making[t] # NoPacket /\ ~made[t])

\* The receiver handles exactly the packets that were sent, whole, unchanged
\* and in order, however the stream is cut into receives: no chunk is reused
\* while a SendBuffer cut from it is being filled, waits or is sent, and no
\* byte is lost when Clean moves the data.
PacketsIntact ==
    /\ Len(handled) <= Len(sent)
    /\ \A i \in DOMAIN handled : handled[i] = PacketBytes(sent[i])

\* After every receive the next one finds room for the rest of the packet
\* that has begun: a receive of zero bytes would end the connection.
RoomToReceive ==
    LET data == RB!Data(recvBuffer) IN
    /\ RB!FreeSize(recvBuffer) > 0
    /\ data # <<>> => RB!FreeSize(recvBuffer) >= SizeAt(data, 0) - Len(data)

\* Again and again every packet that was queued has been handled, in whatever
\* pieces it arrives: OnRecv never waits for bytes that are already there.
EveryPacketHandled == []<>(Len(handled) = Len(sent))
=============================================================================
