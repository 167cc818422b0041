----------------------------- MODULE RecvBuffer -----------------------------
(***************************************************************************)
(* ServerCore/RecvBuffer.h and .cpp, as operators on the value of a        *)
(* RecvBuffer: a buffer of twice the size a receive should find, with a    *)
(* cursor for each end of the data.  The data never wraps round: Clean     *)
(* moves it to the front when the room behind it becomes scarce.           *)
(***************************************************************************)
EXTENDS Integers, Sequences

CONSTANTS
    BufferSize, \* the constructor's bufferSize: RECV_BUFFER_SIZE
    NoByte      \* a byte nobody wrote

BUFFER_COUNT == 2
Capacity == BufferSize * BUFFER_COUNT

Empty == [bytes |-> [i \in 0..(Capacity - 1) |-> NoByte],
          readPos |-> 0, writePos |-> 0]

DataSize(rb) == rb.writePos - rb.readPos
FreeSize(rb) == Capacity - rb.writePos

\* The DataSize() bytes at ReadPos().
Data(rb) == [k \in 1..DataSize(rb) |-> rb.bytes[rb.readPos + k - 1]]

\* data was received at WritePos(), and OnWrite moves the cursor over it.
OnWrite(rb, data) ==
    [rb EXCEPT
        !.bytes = [i \in DOMAIN @ |->
                      IF i - rb.writePos + 1 \in DOMAIN data
                        THEN data[i - rb.writePos + 1] ELSE @[i]],
        !.writePos = @ + Len(data)]

OnRead(rb, numOfBytes) == [rb EXCEPT !.readPos = @ + numOfBytes]

\* The memcpy of Clean, which loses the bytes of the offsets lost.
MovedToFront(rb, lost) ==
    [bytes |-> [i \in DOMAIN rb.bytes |->
                   IF i >= DataSize(rb) THEN rb.bytes[i]
                   ELSE IF i \in lost THEN NoByte ELSE rb.bytes[rb.readPos + i]],
     readPos |-> 0, writePos |-> DataSize(rb)]

\* Mutant of Clean: the data is moved only once there is no room at all.
CleanLate(rb) ==
    IF DataSize(rb) = 0
      THEN {[rb EXCEPT !.readPos = 0, !.writePos = 0]}
    ELSE IF FreeSize(rb) = 0
      THEN {MovedToFront(rb, {})}
    ELSE {rb}

\* What Clean may leave.  memcpy is undefined when the data is moved over a
\* part of itself: that part may be lost.
Clean(rb) ==
    IF DataSize(rb) = 0
      THEN {[rb EXCEPT !.readPos = 0, !.writePos = 0]}
    ELSE IF FreeSize(rb) < BufferSize
      THEN {MovedToFront(rb, {}),
            MovedToFront(rb, 0..(DataSize(rb) - rb.readPos - 1))}
    ELSE {rb}
=============================================================================
