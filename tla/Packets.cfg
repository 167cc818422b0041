SPECIFICATION Spec
CONSTANTS
    t1 = t1
    t2 = t2
    c1 = c1
    c2 = c2
    c3 = c3
    NoChunk = NoChunk
    NoByte = NoByte
    Threads <- MCThreads
    Chunks <- MCChunks
    Buffers <- MCBuffers
    Size <- MCSize
    SEND_BUFFER_CHUNK_SIZE = 5
    BufferSize = 4
    HeaderSize = 2
INVARIANT TypeOK
INVARIANT PacketsIntact
INVARIANT RoomToReceive
PROPERTY EveryPacketHandled
\* The load is finite: the system comes to rest.
CHECK_DEADLOCK FALSE
