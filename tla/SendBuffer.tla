----------------------------- MODULE SendBuffer -----------------------------
(***************************************************************************)
(* ServerCore/SendBuffer.h and .cpp.  A thread cuts SendBuffers off its own *)
(* chunk, LSendBufferChunk, without a lock, and takes another chunk when it *)
(* is used up.  A chunk is shared by its thread and its SendBuffers: the    *)
(* last shared_ptr to go, on whatever thread, gives it to the pool of the   *)
(* SendBufferManager, which hands it out again.                             *)
(***************************************************************************)
EXTENDS Integers, Sequences, SequencesExt, FiniteSets

CONSTANTS
    Threads,
    Chunks,     \* bound: the chunks that can be allocated
    NoChunk,    \* the null shared_ptr
    SEND_BUFFER_CHUNK_SIZE,
    Buffers,    \* SendBuffers, each opened once at most
    NoByte

ASSUME SendBufferAssumption ==
    NoChunk \notin Chunks /\ SEND_BUFFER_CHUNK_SIZE \in Nat

VARIABLES
    LSendBufferChunk,   \* of every thread
    sendBufferChunks,   \* SendBufferManager::_sendBufferChunks
    returning,          \* chunks inside PushGlobal, whose last owner is gone
    chunk,              \* _buffer, _open and _usedSize of every chunk
    buffer              \* the SendBuffers somebody owns

chunkVars == <<LSendBufferChunk, sendBufferChunks, returning, chunk, buffer>>

NoBuffer == [owner |-> NoChunk, at |-> 0, allocSize |-> 0]

SendBufferInit ==
    /\ LSendBufferChunk = [t \in Threads |-> NoChunk]
    /\ sendBufferChunks = <<>>
    /\ returning = {}
    /\ chunk = [c \in Chunks |->
                   [bytes |-> [i \in 0..(SEND_BUFFER_CHUNK_SIZE - 1) |-> NoByte],
                    open |-> FALSE, usedSize |-> 0]]
    /\ buffer = [b \in Buffers |-> NoBuffer]

FreeSize(c) == SEND_BUFFER_CHUNK_SIZE - chunk[c].usedSize

\* The chunks some shared_ptr owns.
Owned(locals, buffers) ==
    (Range(locals) \cup {buffers[b].owner : b \in Buffers}) \ {NoChunk}

\* The deleter runs for the chunks that lost their last owner in this step.
Return ==
    returning' = returning \cup (Owned(LSendBufferChunk, buffer)
                                     \ Owned(LSendBufferChunk', buffer'))

\* The chunk at the back of the pool, or a new one: those are all alike.
Pop(c) ==
    IF sendBufferChunks # <<>>
      THEN /\ c = Last(sendBufferChunks)
           /\ sendBufferChunks' = Front(sendBufferChunks)
      ELSE LET free == Chunks \ (returning \cup Owned(LSendBufferChunk, buffer))
           IN /\ free # {} /\ c = CHOOSE d \in free : TRUE
              /\ UNCHANGED sendBufferChunks

\* Mutant: one byte too many is taken for free.
OpenHereUnchecked(t, b, size) ==
    LET c == LSendBufferChunk[t] IN
    /\ c # NoChunk /\ FreeSize(c) >= size - 1
    /\ chunk' = [chunk EXCEPT ![c].open = TRUE]
    /\ buffer' = [buffer EXCEPT ![b] =
                     [owner |-> c, at |-> chunk[c].usedSize, allocSize |-> size]]
    /\ UNCHANGED <<LSendBufferChunk, sendBufferChunks, returning>>

\* The thread's chunk has room for size more bytes.
OpenHere(t, b, size) ==
    LET c == LSendBufferChunk[t] IN
    /\ c # NoChunk /\ FreeSize(c) >= size
    /\ chunk' = [chunk EXCEPT ![c].open = TRUE]
    /\ buffer' = [buffer EXCEPT ![b] =
                     [owner |-> c, at |-> chunk[c].usedSize, allocSize |-> size]]
    /\ UNCHANGED <<LSendBufferChunk, sendBufferChunks, returning>>

\* Mutant: Pop takes the thread's chunk back for the next thread at once.
OpenAnotherSteals(t, b, size) ==
    LET old == LSendBufferChunk[t] IN
    /\ old # NoChunk => FreeSize(old) < size
    /\ \E c \in Chunks :
           /\ IF old # NoChunk THEN c = old /\ UNCHANGED sendBufferChunks
                               ELSE Pop(c)
           /\ LSendBufferChunk' = [LSendBufferChunk EXCEPT ![t] = c]
           /\ chunk' = [chunk EXCEPT ![c].open = TRUE, ![c].usedSize = 0]
           /\ buffer' = [buffer EXCEPT ![b] =
                            [owner |-> c, at |-> 0, allocSize |-> size]]
    /\ Return

\* Another chunk, Reset, replaces it; the buffers cut off the old one keep
\* that alive.
OpenAnother(t, b, size) ==
    LET old == LSendBufferChunk[t] IN
    /\ old # NoChunk => FreeSize(old) < size
    /\ \E c \in Chunks :
           /\ Pop(c)
           /\ LSendBufferChunk' = [LSendBufferChunk EXCEPT ![t] = c]
           /\ chunk' = [chunk EXCEPT ![c].open = TRUE, ![c].usedSize = 0]
           /\ buffer' = [buffer EXCEPT ![b] =
                            [owner |-> c, at |-> 0, allocSize |-> size]]
    /\ Return

\* The caller wrote data into the SendBuffer, and closes it.
Close(b, data) ==
    LET c == buffer[b].owner
        at == buffer[b].at
    IN /\ chunk' = [chunk EXCEPT
              ![c].bytes = [i \in DOMAIN @ |->
                               IF i - at + 1 \in DOMAIN data
                                 THEN data[i - at + 1] ELSE @[i]],
              ![c].open = FALSE,
              ![c].usedSize = @ + Len(data)]
       /\ UNCHANGED <<LSendBufferChunk, sendBufferChunks, returning, buffer>>

\* The last shared_ptr to each of the SendBuffers bs goes.
Release(bs) ==
    /\ buffer' = [b \in Buffers |-> IF b \in bs THEN NoBuffer ELSE buffer[b]]
    /\ UNCHANGED <<LSendBufferChunk, sendBufferChunks, chunk>>
    /\ Return

PushGlobal(c) ==
    /\ c \in returning
    /\ returning' = returning \ {c}
    /\ sendBufferChunks' = Append(sendBufferChunks, c)
    /\ UNCHANGED <<LSendBufferChunk, chunk, buffer>>

\* The bytes of a closed SendBuffer, as its chunk holds them now.
Bytes(b) == [k \in 1..buffer[b].allocSize |->
                chunk[buffer[b].owner].bytes[buffer[b].at + k - 1]]

SendBufferTypeOK ==
    /\ LSendBufferChunk \in [Threads -> Chunks \cup {NoChunk}]
    /\ sendBufferChunks \in Seq(Chunks)
    /\ returning \in SUBSET Chunks
    /\ \A c \in Chunks : /\ chunk[c].open \in BOOLEAN
                         /\ chunk[c].usedSize \in 0..SEND_BUFFER_CHUNK_SIZE
    /\ \A b \in Buffers :
           /\ buffer[b].owner \in Chunks \cup {NoChunk}
           /\ buffer[b].at \in Nat /\ buffer[b].allocSize \in Nat
           /\ buffer[b].at + buffer[b].allocSize <= SEND_BUFFER_CHUNK_SIZE
=============================================================================
