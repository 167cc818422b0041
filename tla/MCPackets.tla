------------------------------ MODULE MCPackets ------------------------------
(* The instance of Packets that TLC checks. *)
EXTENDS Packets

CONSTANTS t1, t2, c1, c2, c3

MCThreads == {t1, t2}
MCChunks == {c1, c2, c3}
MCBuffers == 1..4
\* A header takes two bytes; a packet may be no more than its header.
MCSize == <<3, 2, 3, 3>>
=============================================================================
