--------------------------- MODULE SessionProofs ---------------------------
(***************************************************************************)
(* Theorems about Session, for any threads, any number of sends, any       *)
(* thresholds, IOCP and RIO.                                               *)
(***************************************************************************)
EXTENDS Session, TLAPS, FiniteSetTheorems, SequenceTheorems

\* The part of TypeOK that most steps need.
Frames ==
    /\ pc \in [Threads -> Labels]
    /\ ret \in [Threads -> {"idle", "unlock", "sendFailed", "onConnected"}]
    /\ arg \in [Threads -> 0..MaxSends]

\* Where a thread is tells what it holds, and that its Disconnect is done.
LocalInv ==
    \A t \in Threads :
        /\ pc[t] = "push" => arg[t] \in Buffers
        /\ pc[t] \in {"unlock", "disconnectEx"} => ~connected
        /\ pc[t] = "sendFailed" =>
               ~connected \/ "error only logged" \in excused

\* The members of SendOwners.
OwnsSend(t) ==
    \/ pc[t] \in {"registerSend", "take", "post", "sendFailed", "processSend"}
    \/ Disconnecting(t) /\ ret[t] = "sendFailed"

\* OneSendAtATime, without its cardinality.
SendInv ==
    /\ \A t, u \in Threads : OwnsSend(t) /\ OwnsSend(u) => t = u
    /\ \A t \in Threads : OwnsSend(t) => sendRegistered /\ "send" \notin posted
    /\ "send" \in posted => sendRegistered

\* NothingStranded, with the flag: down means that nothing waits, up that
\* something is under way.
QueueInv ==
    connected /\ "error only logged" \notin excused =>
        /\ ~sendRegistered => sendQueue = <<>>
        /\ sendRegistered =>
               \/ "send" \in posted
               \/ \E t \in Threads : OwnsSend(t) \/ Disconnecting(t)

\* Until the session is added nobody but its accepting thread knows of it.
SetupInv ==
    /\ "accept" \in posted =>
           /\ posted = {"accept"}
           /\ ~connected /\ ~known /\ ~inService /\ ~inManager
           /\ ~sendRegistered /\ sendQueue = <<>>
           /\ \A t \in Threads : pc[t] = "idle"
    /\ \A t \in Threads : pc[t] = "addSession" =>
           /\ posted = {} /\ connected
           /\ ~known /\ ~inService /\ ~inManager
           /\ \A u \in Threads \ {t} : pc[u] = "idle"

\* One thing at most is between the session and its release: its connection,
\* a thread about to call DisconnectEx, its completion, a thread about to
\* call ReleaseSession.  After the release there is none.
EndInv ==
    /\ \A t \in Threads : pc[t] = "disconnectEx" =>
           /\ "disconnect" \notin posted
           /\ \A u \in Threads \ {t} : pc[u] # "disconnectEx"
           /\ \A u \in Threads : pc[u] # "release"
    /\ \A t \in Threads : pc[t] = "release" =>
           /\ ~connected /\ "disconnect" \notin posted
           /\ \A u \in Threads \ {t} : pc[u] # "release"
    /\ "disconnect" \in posted => ~connected
    /\ ~inService =>
           /\ "disconnect" \notin posted
           /\ \A t \in Threads : pc[t] \notin {"disconnectEx", "release"}
           /\ connected => \E t \in Threads : pc[t] = "addSession"
    /\ ~crash

\* As long as the request queue could be created, OnConnected comes before
\* any OnDisconnected, and OnDisconnected before the release.
ManagerInv ==
    "RIOCreateRequestQueue" \notin excused =>
        /\ \A t \in Threads : pc[t] \in {"createRQ", "onConnected"} =>
               /\ posted = {} /\ connected
               /\ ~known /\ inService /\ ~inManager
               /\ \A u \in Threads \ {t} : pc[u] = "idle"
        /\ \A t \in Threads : Disconnecting(t) => ret[t] # "onConnected"
        /\ \A t \in Threads : pc[t] = "release" => ~inManager
        /\ inManager => inService

IInv ==
    /\ TypeOK /\ LocalInv
    /\ SendInv /\ QueueInv /\ StillReceiving
    /\ SetupInv /\ EndInv /\ ManagerInv

-----------------------------------------------------------------------------
\* Send gives the next number to its buffer, within the bound.
LEMMA SendIsNew ==
    ASSUME TypeOK, NEW t \in Threads, Send(t)
    PROVE  arg' = [arg EXCEPT ![t] = arg'[t]] /\ arg'[t] \in Buffers
  <1> DEFINE called == Range(pushed) \cup (Range(arg) \ {0})
  <1>1. called \subseteq 1..MaxSends
    <2>1. \A i \in DOMAIN pushed : pushed[i] \in Buffers
      BY DEF TypeOK
    <2>2. Range(pushed) \subseteq Buffers
      BY <2>1 DEF Range
    <2>3. Range(arg) \ {0} \subseteq Buffers
      BY DEF TypeOK, Range, Buffers
    <2>. QED
      BY <2>2, <2>3 DEF Buffers
  <1>2. MaxSends \in Nat
    BY SessionAssumption
  <1>3. IsFiniteSet(called)
    <2>1. IsFiniteSet(1..MaxSends)
      BY <1>2, FS_Interval
    <2>. QED
      BY <1>1, <2>1, FS_Subset
  <1>4. Cardinality(called) \in Nat
    BY <1>3, FS_CardinalityType
  <1>5. arg' = [arg EXCEPT ![t] = Cardinality(called) + 1]
        /\ Cardinality(called) + 1 <= MaxSends
    BY DEF Send
  <1>6. arg'[t] = Cardinality(called) + 1
    BY <1>5 DEF TypeOK
  <1>7. Cardinality(called) + 1 \in Buffers
    BY <1>2, <1>4, <1>5 DEF Buffers
  <1>. QED
    BY <1>5, <1>6, <1>7

\* The types of what the actions build.
LEMMA Built ==
    ASSUME TypeOK
    PROVE  /\ <<>> \in Seq(Buffers)
           /\ inFlight \o sendQueue \in Seq(Buffers)
           /\ sent \o inFlight \in Seq(Buffers)
           /\ \A b \in Buffers : /\ Append(sendQueue, b) \in Seq(Buffers)
                                 /\ Append(pushed, b) \in Seq(Buffers)
           /\ 0 \in 0..MaxSends /\ Buffers \subseteq 0..MaxSends
  <1>1. /\ sendQueue \in Seq(Buffers) /\ inFlight \in Seq(Buffers)
        /\ pushed \in Seq(Buffers) /\ sent \in Seq(Buffers)
    BY DEF TypeOK
  <1>2. <<>> \in Seq(Buffers)
    BY EmptySeq
  <1>3. /\ inFlight \o sendQueue \in Seq(Buffers)
        /\ sent \o inFlight \in Seq(Buffers)
    BY <1>1, ConcatProperties
  <1>4. \A b \in Buffers : /\ Append(sendQueue, b) \in Seq(Buffers)
                           /\ Append(pushed, b) \in Seq(Buffers)
    BY <1>1, AppendProperties
  <1>5. MaxSends \in Nat
    BY SessionAssumption
  <1>6. 0 \in 0..MaxSends /\ Buffers \subseteq 0..MaxSends
    BY <1>5 DEF Buffers
  <1>. QED
    BY <1>2, <1>3, <1>4, <1>6

\* Every step keeps the types; Send may push, because its buffer is in arg.
LEMMA TypeStep ==
    ASSUME TypeOK, LocalInv, NEW t \in Threads,
           Progress(t) \/ Completed(t) \/ Send(t)
    PROVE  TypeOK'
  <1>0. /\ <<>> \in Seq(Buffers)
        /\ inFlight \o sendQueue \in Seq(Buffers)
        /\ sent \o inFlight \in Seq(Buffers)
        /\ \A b \in Buffers : /\ Append(sendQueue, b) \in Seq(Buffers)
                              /\ Append(pushed, b) \in Seq(Buffers)
        /\ 0 \in 0..MaxSends /\ Buffers \subseteq 0..MaxSends
    BY Built
  <1> USE DEF TypeOK, Labels, Failures
  <1>1. CASE Disconnect(t)
    BY <1>1 DEF Disconnect, Goto, sendVars, lifeVars
  <1>2. CASE RegisterDisconnect(t)
    BY <1>2 DEF RegisterDisconnect, Goto, sendVars, lifeVars
  <1>3. CASE Unlocked(t)
    BY <1>3 DEF Unlocked, Goto, Unlock, sendVars, lifeVars
  <1>4. CASE AddSession(t)
    BY <1>4 DEF AddSession, Goto, sendVars, lifeVars
  <1>5. CASE CreateRIORQ(t)
    <2>0. UNCHANGED <<useRIO, connected, posted, arg, sendVars, lifeVars>>
      BY <1>5 DEF CreateRIORQ
    <2>1. CASE Goto(t, "createRQ", "onConnected") /\ UNCHANGED <<ret, excused>>
      BY <2>0, <2>1 DEF Goto, sendVars, lifeVars
    <2>2. CASE Call(t, "createRQ", "onConnected")
               /\ excused' = excused \cup {"RIOCreateRequestQueue"}
      BY <2>0, <2>2 DEF Goto, Call, sendVars, lifeVars
    <2>. QED
      BY <1>5, <2>1, <2>2 DEF CreateRIORQ
  <1>6. CASE OnConnected(t)
    BY <1>6 DEF OnConnected, Goto, sendVars, lifeVars
  <1>7. CASE ReleaseSession(t)
    BY <1>7 DEF ReleaseSession, Goto, sendVars, lifeVars
  <1>8. CASE SendPush(t)
    <2>1. arg[t] \in Buffers
      BY <1>8 DEF SendPush, Goto, LocalInv
    <2>. QED
      BY <1>8, <1>0, <2>1 DEF SendPush, Goto, lifeVars
  <1>9. CASE RegisterSend(t)
    BY <1>9 DEF RegisterSend, Goto, Unlock, sendVars, lifeVars
  <1>10. CASE Take(t)
    BY <1>10, <1>0 DEF Take, Goto, Call, CanLock, lifeVars
  <1>11. CASE Post(t)
    BY <1>11 DEF Post, Goto, Unlock, sendVars, lifeVars
  <1>12. CASE PostFails(t)
    <2>0. UNCHANGED <<useRIO, connected, posted, arg, sendVars, lifeVars>>
      BY <1>12 DEF PostFails
    <2>1. CASE Call(t, "post", "sendFailed") /\ UNCHANGED excused
      BY <2>0, <2>1 DEF Goto, Call, sendVars, lifeVars
    <2>2. CASE Goto(t, "post", "sendFailed") /\ UNCHANGED ret
               /\ excused' = excused \cup {"error only logged"}
      BY <2>0, <2>2 DEF Goto, sendVars, lifeVars
    <2>. QED
      BY <1>12, <2>1, <2>2 DEF PostFails, HandleError
  <1>13. CASE SendFailed(t)
    BY <1>13, <1>0 DEF SendFailed, Goto, Unlock, sendVars, lifeVars
  <1>14. CASE Kick(t)
    BY <1>14 DEF Kick, Call, Goto, CanLock, sendVars, lifeVars
  <1>15. CASE ProcessSend(t)
    BY <1>15 DEF ProcessSend, Goto, CanLock, sendVars, lifeVars
  <1>16. CASE RegisterRecv(t)
    BY <1>16 DEF RegisterRecv, Goto, sendVars, lifeVars
  <1>17. CASE PostRecv(t)
    <2>0. /\ pc[t] = "postRecv"
          /\ UNCHANGED <<useRIO, connected, arg, sendVars, lifeVars>>
      BY <1>17 DEF PostRecv, HandleError, Goto, Call
    <2>1. CASE Goto(t, "postRecv", "idle") /\ posted' = posted \cup {"recv"}
               /\ UNCHANGED <<ret, excused>>
      BY <2>0, <2>1 DEF Goto, sendVars, lifeVars
    <2>2. CASE Call(t, "postRecv", "idle") /\ UNCHANGED <<posted, excused>>
      BY <2>0, <2>2 DEF Goto, Call, sendVars, lifeVars
    <2>3. CASE Goto(t, "postRecv", "idle") /\ UNCHANGED <<posted, ret>>
               /\ excused' = excused \cup {"error only logged"}
      BY <2>0, <2>3 DEF Goto, sendVars, lifeVars
    <2>. QED
      BY <1>17, <2>1, <2>2, <2>3 DEF PostRecv, HandleError
  <1>18. CASE Accepted(t)
    BY <1>18 DEF Accepted, Goto, sendVars, lifeVars
  <1>19. CASE OnDisconnected(t)
    BY <1>19 DEF OnDisconnected, Goto, sendVars, lifeVars
  <1>20. CASE SendCompleted(t)
    BY <1>20, <1>0 DEF SendCompleted, Goto, Call, lifeVars
  <1>21. CASE RecvCompleted(t)
    BY <1>21 DEF RecvCompleted, Goto, Call, sendVars, lifeVars
  <1>22. CASE Send(t)
    <2>1. arg' = [arg EXCEPT ![t] = arg'[t]] /\ arg'[t] \in 0..MaxSends
      BY <1>22, <1>0, SendIsNew
    <2>. QED
      BY <1>22, <2>1 DEF Send, Goto, sendVars, lifeVars
  <1>. QED
    BY <1>1, <1>2, <1>3, <1>4, <1>5, <1>6, <1>7, <1>8, <1>9, <1>10, <1>11,
       <1>12, <1>13, <1>14, <1>15, <1>16, <1>17, <1>18, <1>19, <1>20, <1>21,
       <1>22
       DEF Progress, Completed

\* Every step keeps LocalInv: _connected never comes back, so whoever found it
\* down, or exchanged it, may rely on that.
LEMMA LocalStep ==
    ASSUME TypeOK, Frames, LocalInv, SendInv, SetupInv, NEW t \in Threads,
           Progress(t) \/ Completed(t) \/ Send(t)
    PROVE  LocalInv'
  <1> USE DEF Frames, Labels, LocalInv, SetupInv, OwnsSend, Disconnecting,
              SendInv
  <1>1. CASE Disconnect(t)
    BY <1>1 DEF Disconnect, Goto, sendVars, lifeVars
  <1>2. CASE RegisterDisconnect(t)
    BY <1>2 DEF RegisterDisconnect, Goto, sendVars, lifeVars
  <1>3. CASE Unlocked(t)
    BY <1>3 DEF Unlocked, Goto, Unlock, sendVars, lifeVars
  <1>4. CASE AddSession(t)
    BY <1>4 DEF AddSession, Goto, sendVars, lifeVars
  <1>5. CASE CreateRIORQ(t)
    <2>0. UNCHANGED <<useRIO, connected, posted, arg, sendVars, lifeVars>>
      BY <1>5 DEF CreateRIORQ
    <2>1. CASE Goto(t, "createRQ", "onConnected") /\ UNCHANGED <<ret, excused>>
      BY <2>0, <2>1 DEF Goto, sendVars, lifeVars
    <2>2. CASE Call(t, "createRQ", "onConnected")
               /\ excused' = excused \cup {"RIOCreateRequestQueue"}
      BY <2>0, <2>2 DEF Goto, Call, sendVars, lifeVars
    <2>. QED
      BY <1>5, <2>1, <2>2 DEF CreateRIORQ
  <1>6. CASE OnConnected(t)
    BY <1>6 DEF OnConnected, Goto, sendVars, lifeVars
  <1>7. CASE ReleaseSession(t)
    BY <1>7 DEF ReleaseSession, Goto, sendVars, lifeVars
  <1>8. CASE SendPush(t)
    BY <1>8 DEF SendPush, Goto, CanLock, sendVars, lifeVars
  <1>9. CASE RegisterSend(t)
    <2>0. UNCHANGED <<connected, posted, ret, arg, excused, sendQueue,
                      sendRegistered, lifeVars>>
      BY <1>9 DEF RegisterSend
    <2>1. CASE connected /\ Goto(t, "registerSend", "take")
      BY <2>0, <2>1 DEF Goto, lifeVars
    <2>2. CASE ~connected /\ Goto(t, "registerSend", "idle")
      BY <2>0, <2>2 DEF Goto, lifeVars
    <2>. QED
      BY <1>9, <2>1, <2>2 DEF RegisterSend
  <1>10. CASE Take(t)
    <2>0. /\ sendQueue' = <<>>
          /\ UNCHANGED <<connected, posted, arg, excused, sendRegistered,
                         lifeVars>>
      BY <1>10 DEF Take
    <2>1. CASE Goto(t, "take", "post") /\ UNCHANGED ret
      BY <2>0, <2>1 DEF Goto, lifeVars
    <2>2. CASE Call(t, "take", "unlock")
      BY <2>0, <2>2 DEF Goto, Call, lifeVars
    <2>. QED
      BY <1>10, <2>1, <2>2 DEF Take
  <1>11. CASE Post(t)
    BY <1>11 DEF Post, Goto, Unlock, sendVars, lifeVars
  <1>12. CASE PostFails(t)
    <2>0. UNCHANGED <<useRIO, connected, posted, arg, sendVars, lifeVars>>
      BY <1>12 DEF PostFails
    <2>1. CASE Call(t, "post", "sendFailed") /\ UNCHANGED excused
      BY <2>0, <2>1 DEF Goto, Call, sendVars, lifeVars
    <2>2. CASE Goto(t, "post", "sendFailed") /\ UNCHANGED ret
               /\ excused' = excused \cup {"error only logged"}
      BY <2>0, <2>2 DEF Goto, sendVars, lifeVars
    <2>. QED
      BY <1>12, <2>1, <2>2 DEF PostFails, HandleError
  <1>13. CASE SendFailed(t)
    BY <1>13 DEF SendFailed, Goto, Unlock, sendVars, lifeVars
  <1>14. CASE Kick(t)
    BY <1>14 DEF Kick, Call, Goto, CanLock, sendVars, lifeVars
  <1>15. CASE ProcessSend(t)
    <2>0. UNCHANGED <<connected, posted, ret, arg, excused, sendQueue, lifeVars>>
      BY <1>15 DEF ProcessSend
    <2>1. CASE sendQueue = <<>> /\ Goto(t, "processSend", "idle")
               /\ sendRegistered' = FALSE
      BY <2>0, <2>1 DEF Goto, lifeVars
    <2>2. CASE Goto(t, "processSend", "registerSend") /\ UNCHANGED sendRegistered
      BY <2>0, <2>2 DEF Goto, lifeVars
    <2>. QED
      BY <1>15, <2>1, <2>2 DEF ProcessSend
  <1>16. CASE RegisterRecv(t)
    BY <1>16 DEF RegisterRecv, Goto, sendVars, lifeVars
  <1>17. CASE PostRecv(t)
    <2>0. /\ pc[t] = "postRecv"
          /\ UNCHANGED <<useRIO, connected, arg, sendVars, lifeVars>>
      BY <1>17 DEF PostRecv, HandleError, Goto, Call
    <2>1. CASE Goto(t, "postRecv", "idle") /\ posted' = posted \cup {"recv"}
               /\ UNCHANGED <<ret, excused>>
      BY <2>0, <2>1 DEF Goto, sendVars, lifeVars
    <2>2. CASE Call(t, "postRecv", "idle") /\ UNCHANGED <<posted, excused>>
      BY <2>0, <2>2 DEF Goto, Call, sendVars, lifeVars
    <2>3. CASE Goto(t, "postRecv", "idle") /\ UNCHANGED <<posted, ret>>
               /\ excused' = excused \cup {"error only logged"}
      BY <2>0, <2>3 DEF Goto, sendVars, lifeVars
    <2>. QED
      BY <1>17, <2>1, <2>2, <2>3 DEF PostRecv, HandleError
  <1>18. CASE Accepted(t)
    BY <1>18 DEF Accepted, Goto, sendVars, lifeVars
  <1>19. CASE OnDisconnected(t)
    BY <1>19 DEF OnDisconnected, Goto, sendVars, lifeVars
  <1>20. CASE SendCompleted(t)
    <2>0. /\ "send" \in posted /\ posted' = posted \ {"send"}
          /\ UNCHANGED <<connected, arg, excused, sendQueue, sendRegistered,
                         lifeVars>>
      BY <1>20 DEF SendCompleted
    <2>1. CASE Goto(t, "idle", "processSend") /\ UNCHANGED ret
      BY <2>0, <2>1 DEF Goto, lifeVars
    <2>2. CASE Call(t, "idle", "idle")
      BY <2>0, <2>2 DEF Goto, Call, lifeVars
    <2>. QED
      BY <1>20, <2>1, <2>2 DEF SendCompleted
  <1>21. CASE RecvCompleted(t)
    <2>0. /\ "recv" \in posted /\ posted' = posted \ {"recv"}
          /\ UNCHANGED <<connected, arg, excused, sendVars, lifeVars>>
      BY <1>21 DEF RecvCompleted
    <2>1. CASE Goto(t, "idle", "registerRecv") /\ UNCHANGED ret
      BY <2>0, <2>1 DEF Goto, sendVars, lifeVars
    <2>2. CASE Call(t, "idle", "idle")
      BY <2>0, <2>2 DEF Goto, Call, sendVars, lifeVars
    <2>. QED
      BY <1>21, <2>1, <2>2 DEF RecvCompleted
  <1>22. CASE Send(t)
    <2>1. arg' = [arg EXCEPT ![t] = arg'[t]] /\ arg'[t] \in Buffers
      BY <1>22, SendIsNew
    <2>. QED
      BY <1>22, <2>1 DEF Send, Goto, sendVars, lifeVars
  <1>. QED
    BY <1>1, <1>2, <1>3, <1>4, <1>5, <1>6, <1>7, <1>8, <1>9, <1>10, <1>11,
       <1>12, <1>13, <1>14, <1>15, <1>16, <1>17, <1>18, <1>19, <1>20, <1>21,
       <1>22
       DEF Progress, Completed

\* Every step keeps SendInv: the right to send goes from Send or ProcessSend
\* through RegisterSend to the kernel and back, from one holder to the next.
LEMMA SendStep ==
    ASSUME Frames, SendInv, SetupInv, NEW t \in Threads,
           Progress(t) \/ Completed(t) \/ Send(t)
    PROVE  SendInv'
  <1> USE DEF Frames, Labels, SendInv, OwnsSend, Disconnecting, SetupInv
  <1>1. CASE Disconnect(t)
    BY <1>1 DEF Disconnect, Goto, sendVars, lifeVars
  <1>2. CASE RegisterDisconnect(t)
    BY <1>2 DEF RegisterDisconnect, Goto, sendVars, lifeVars
  <1>3. CASE Unlocked(t)
    BY <1>3 DEF Unlocked, Goto, Unlock, sendVars, lifeVars
  <1>4. CASE AddSession(t)
    BY <1>4 DEF AddSession, Goto, sendVars, lifeVars
  <1>5. CASE CreateRIORQ(t)
    <2>0. UNCHANGED <<useRIO, connected, posted, arg, sendVars, lifeVars>>
      BY <1>5 DEF CreateRIORQ
    <2>1. CASE Goto(t, "createRQ", "onConnected") /\ UNCHANGED <<ret, excused>>
      BY <2>0, <2>1 DEF Goto, sendVars, lifeVars
    <2>2. CASE Call(t, "createRQ", "onConnected")
               /\ excused' = excused \cup {"RIOCreateRequestQueue"}
      BY <2>0, <2>2 DEF Goto, Call, sendVars, lifeVars
    <2>. QED
      BY <1>5, <2>1, <2>2 DEF CreateRIORQ
  <1>6. CASE OnConnected(t)
    BY <1>6 DEF OnConnected, Goto, sendVars, lifeVars
  <1>7. CASE ReleaseSession(t)
    BY <1>7 DEF ReleaseSession, Goto, sendVars, lifeVars
  <1>8. CASE SendPush(t)
    BY <1>8 DEF SendPush, Goto, CanLock, sendVars, lifeVars
  <1>9. CASE RegisterSend(t)
    <2>0. UNCHANGED <<connected, posted, ret, arg, excused, sendQueue,
                      sendRegistered, lifeVars>>
      BY <1>9 DEF RegisterSend
    <2>1. CASE connected /\ Goto(t, "registerSend", "take")
      BY <2>0, <2>1 DEF Goto, lifeVars
    <2>2. CASE ~connected /\ Goto(t, "registerSend", "idle")
      BY <2>0, <2>2 DEF Goto, lifeVars
    <2>. QED
      BY <1>9, <2>1, <2>2 DEF RegisterSend
  <1>10. CASE Take(t)
    <2>0. /\ sendQueue' = <<>>
          /\ UNCHANGED <<connected, posted, arg, excused, sendRegistered,
                         lifeVars>>
      BY <1>10 DEF Take
    <2>1. CASE Goto(t, "take", "post") /\ UNCHANGED ret
      BY <2>0, <2>1 DEF Goto, lifeVars
    <2>2. CASE Call(t, "take", "unlock")
      BY <2>0, <2>2 DEF Goto, Call, lifeVars
    <2>. QED
      BY <1>10, <2>1, <2>2 DEF Take
  <1>11. CASE Post(t)
    BY <1>11 DEF Post, Goto, Unlock, sendVars, lifeVars
  <1>12. CASE PostFails(t)
    <2>0. UNCHANGED <<useRIO, connected, posted, arg, sendVars, lifeVars>>
      BY <1>12 DEF PostFails
    <2>1. CASE Call(t, "post", "sendFailed") /\ UNCHANGED excused
      BY <2>0, <2>1 DEF Goto, Call, sendVars, lifeVars
    <2>2. CASE Goto(t, "post", "sendFailed") /\ UNCHANGED ret
               /\ excused' = excused \cup {"error only logged"}
      <3>1. \A u \in Threads : OwnsSend(u)' = OwnsSend(u)
        BY <2>0, <2>2 DEF Goto
      <3>. QED
        BY <2>0, <2>2, <3>1 DEF Goto, sendVars, lifeVars
    <2>. QED
      BY <1>12, <2>1, <2>2 DEF PostFails, HandleError
  <1>13. CASE SendFailed(t)
    BY <1>13 DEF SendFailed, Goto, Unlock, sendVars, lifeVars
  <1>14. CASE Kick(t)
    BY <1>14 DEF Kick, Call, Goto, CanLock, sendVars, lifeVars
  <1>15. CASE ProcessSend(t)
    <2>0. UNCHANGED <<connected, posted, ret, arg, excused, sendQueue, lifeVars>>
      BY <1>15 DEF ProcessSend
    <2>1. CASE sendQueue = <<>> /\ Goto(t, "processSend", "idle")
               /\ sendRegistered' = FALSE
      BY <2>0, <2>1 DEF Goto, lifeVars
    <2>2. CASE Goto(t, "processSend", "registerSend") /\ UNCHANGED sendRegistered
      BY <2>0, <2>2 DEF Goto, lifeVars
    <2>. QED
      BY <1>15, <2>1, <2>2 DEF ProcessSend
  <1>16. CASE RegisterRecv(t)
    BY <1>16 DEF RegisterRecv, Goto, sendVars, lifeVars
  <1>17. CASE PostRecv(t)
    <2>0. /\ pc[t] = "postRecv"
          /\ UNCHANGED <<useRIO, connected, arg, sendVars, lifeVars>>
      BY <1>17 DEF PostRecv, HandleError, Goto, Call
    <2>1. CASE Goto(t, "postRecv", "idle") /\ posted' = posted \cup {"recv"}
               /\ UNCHANGED <<ret, excused>>
      BY <2>0, <2>1 DEF Goto, sendVars, lifeVars
    <2>2. CASE Call(t, "postRecv", "idle") /\ UNCHANGED <<posted, excused>>
      BY <2>0, <2>2 DEF Goto, Call, sendVars, lifeVars
    <2>3. CASE Goto(t, "postRecv", "idle") /\ UNCHANGED <<posted, ret>>
               /\ excused' = excused \cup {"error only logged"}
      <3>1. \A u \in Threads : OwnsSend(u)' = OwnsSend(u)
        BY <2>0, <2>3 DEF Goto
      <3>. QED
        BY <2>0, <2>3, <3>1 DEF Goto, sendVars, lifeVars
    <2>. QED
      BY <1>17, <2>1, <2>2, <2>3 DEF PostRecv, HandleError
  <1>18. CASE Accepted(t)
    BY <1>18 DEF Accepted, Goto, sendVars, lifeVars
  <1>19. CASE OnDisconnected(t)
    BY <1>19 DEF OnDisconnected, Goto, sendVars, lifeVars
  <1>20. CASE SendCompleted(t)
    <2>0. /\ "send" \in posted /\ posted' = posted \ {"send"}
          /\ UNCHANGED <<connected, arg, excused, sendQueue, sendRegistered,
                         lifeVars>>
      BY <1>20 DEF SendCompleted
    <2>1. CASE Goto(t, "idle", "processSend") /\ UNCHANGED ret
      BY <2>0, <2>1 DEF Goto, lifeVars
    <2>2. CASE Call(t, "idle", "idle")
      BY <2>0, <2>2 DEF Goto, Call, lifeVars
    <2>. QED
      BY <1>20, <2>1, <2>2 DEF SendCompleted
  <1>21. CASE RecvCompleted(t)
    <2>0. /\ "recv" \in posted /\ posted' = posted \ {"recv"}
          /\ UNCHANGED <<connected, arg, excused, sendVars, lifeVars>>
      BY <1>21 DEF RecvCompleted
    <2>1. CASE Goto(t, "idle", "registerRecv") /\ UNCHANGED ret
      BY <2>0, <2>1 DEF Goto, sendVars, lifeVars
    <2>2. CASE Call(t, "idle", "idle")
      BY <2>0, <2>2 DEF Goto, Call, sendVars, lifeVars
    <2>. QED
      BY <1>21, <2>1, <2>2 DEF RecvCompleted
  <1>22. CASE Send(t)
    BY <1>22 DEF Send, Goto, sendVars, lifeVars
  <1>. QED
    BY <1>1, <1>2, <1>3, <1>4, <1>5, <1>6, <1>7, <1>8, <1>9, <1>10, <1>11,
       <1>12, <1>13, <1>14, <1>15, <1>16, <1>17, <1>18, <1>19, <1>20, <1>21,
       <1>22
       DEF Progress, Completed

\* Every step keeps QueueInv: whoever resets _sendRegistered saw _sendQueue
\* empty, or disconnects, or had an error that is only logged.
LEMMA QueueStep ==
    ASSUME Frames, LocalInv, SendInv, QueueInv, SetupInv, NEW t \in Threads,
           Progress(t) \/ Completed(t) \/ Send(t)
    PROVE  QueueInv'
  <1> USE DEF Frames, Labels, LocalInv, SendInv, QueueInv, OwnsSend,
              Disconnecting, SetupInv
  <1>1. CASE Disconnect(t)
    BY <1>1 DEF Disconnect, Goto, sendVars, lifeVars
  <1>2. CASE RegisterDisconnect(t)
    BY <1>2 DEF RegisterDisconnect, Goto, sendVars, lifeVars
  <1>3. CASE Unlocked(t)
    BY <1>3 DEF Unlocked, Goto, Unlock, sendVars, lifeVars
  <1>4. CASE AddSession(t)
    BY <1>4 DEF AddSession, Goto, sendVars, lifeVars
  <1>5. CASE CreateRIORQ(t)
    <2>0. UNCHANGED <<useRIO, connected, posted, arg, sendVars, lifeVars>>
      BY <1>5 DEF CreateRIORQ
    <2>1. CASE Goto(t, "createRQ", "onConnected") /\ UNCHANGED <<ret, excused>>
      BY <2>0, <2>1 DEF Goto, sendVars, lifeVars
    <2>2. CASE Call(t, "createRQ", "onConnected")
               /\ excused' = excused \cup {"RIOCreateRequestQueue"}
      BY <2>0, <2>2 DEF Goto, Call, sendVars, lifeVars
    <2>. QED
      BY <1>5, <2>1, <2>2 DEF CreateRIORQ
  <1>6. CASE OnConnected(t)
    BY <1>6 DEF OnConnected, Goto, sendVars, lifeVars
  <1>7. CASE ReleaseSession(t)
    BY <1>7 DEF ReleaseSession, Goto, sendVars, lifeVars
  <1>8. CASE SendPush(t)
    BY <1>8 DEF SendPush, Goto, CanLock, sendVars, lifeVars
  <1>9. CASE RegisterSend(t)
    <2>0. UNCHANGED <<connected, posted, ret, arg, excused, sendQueue,
                      sendRegistered, lifeVars>>
      BY <1>9 DEF RegisterSend
    <2>1. CASE connected /\ Goto(t, "registerSend", "take")
      BY <2>0, <2>1 DEF Goto, lifeVars
    <2>2. CASE ~connected /\ Goto(t, "registerSend", "idle")
      BY <2>0, <2>2 DEF Goto, lifeVars
    <2>. QED
      BY <1>9, <2>1, <2>2 DEF RegisterSend
  <1>10. CASE Take(t)
    <2>0. /\ sendQueue' = <<>>
          /\ UNCHANGED <<connected, posted, arg, excused, sendRegistered,
                         lifeVars>>
      BY <1>10 DEF Take
    <2>1. CASE Goto(t, "take", "post") /\ UNCHANGED ret
      BY <2>0, <2>1 DEF Goto, lifeVars
    <2>2. CASE Call(t, "take", "unlock")
      BY <2>0, <2>2 DEF Goto, Call, lifeVars
    <2>. QED
      BY <1>10, <2>1, <2>2 DEF Take
  <1>11. CASE Post(t)
    BY <1>11 DEF Post, Goto, Unlock, sendVars, lifeVars
  <1>12. CASE PostFails(t)
    <2>0. UNCHANGED <<useRIO, connected, posted, arg, sendVars, lifeVars>>
      BY <1>12 DEF PostFails
    <2>1. CASE Call(t, "post", "sendFailed") /\ UNCHANGED excused
      BY <2>0, <2>1 DEF Goto, Call, sendVars, lifeVars
    <2>2. CASE Goto(t, "post", "sendFailed") /\ UNCHANGED ret
               /\ excused' = excused \cup {"error only logged"}
      BY <2>0, <2>2 DEF Goto, sendVars, lifeVars
    <2>. QED
      BY <1>12, <2>1, <2>2 DEF PostFails, HandleError
  <1>13. CASE SendFailed(t)
    BY <1>13 DEF SendFailed, Goto, Unlock, sendVars, lifeVars
  <1>14. CASE Kick(t)
    BY <1>14 DEF Kick, Call, Goto, CanLock, sendVars, lifeVars
  <1>15. CASE ProcessSend(t)
    <2>0. UNCHANGED <<connected, posted, ret, arg, excused, sendQueue, lifeVars>>
      BY <1>15 DEF ProcessSend
    <2>1. CASE sendQueue = <<>> /\ Goto(t, "processSend", "idle")
               /\ sendRegistered' = FALSE
      BY <2>0, <2>1 DEF Goto, lifeVars
    <2>2. CASE Goto(t, "processSend", "registerSend") /\ UNCHANGED sendRegistered
      BY <2>0, <2>2 DEF Goto, lifeVars
    <2>. QED
      BY <1>15, <2>1, <2>2 DEF ProcessSend
  <1>16. CASE RegisterRecv(t)
    BY <1>16 DEF RegisterRecv, Goto, sendVars, lifeVars
  <1>17. CASE PostRecv(t)
    <2>0. /\ pc[t] = "postRecv"
          /\ UNCHANGED <<useRIO, connected, arg, sendVars, lifeVars>>
      BY <1>17 DEF PostRecv, HandleError, Goto, Call
    <2>1. CASE Goto(t, "postRecv", "idle") /\ posted' = posted \cup {"recv"}
               /\ UNCHANGED <<ret, excused>>
      BY <2>0, <2>1 DEF Goto, sendVars, lifeVars
    <2>2. CASE Call(t, "postRecv", "idle") /\ UNCHANGED <<posted, excused>>
      BY <2>0, <2>2 DEF Goto, Call, sendVars, lifeVars
    <2>3. CASE Goto(t, "postRecv", "idle") /\ UNCHANGED <<posted, ret>>
               /\ excused' = excused \cup {"error only logged"}
      BY <2>0, <2>3 DEF Goto, sendVars, lifeVars
    <2>. QED
      BY <1>17, <2>1, <2>2, <2>3 DEF PostRecv, HandleError
  <1>18. CASE Accepted(t)
    BY <1>18 DEF Accepted, Goto, sendVars, lifeVars
  <1>19. CASE OnDisconnected(t)
    BY <1>19 DEF OnDisconnected, Goto, sendVars, lifeVars
  <1>20. CASE SendCompleted(t)
    <2>0. /\ "send" \in posted /\ posted' = posted \ {"send"}
          /\ UNCHANGED <<connected, arg, excused, sendQueue, sendRegistered,
                         lifeVars>>
      BY <1>20 DEF SendCompleted
    <2>1. CASE Goto(t, "idle", "processSend") /\ UNCHANGED ret
      BY <2>0, <2>1 DEF Goto, lifeVars
    <2>2. CASE Call(t, "idle", "idle")
      BY <2>0, <2>2 DEF Goto, Call, lifeVars
    <2>. QED
      BY <1>20, <2>1, <2>2 DEF SendCompleted
  <1>21. CASE RecvCompleted(t)
    <2>0. /\ "recv" \in posted /\ posted' = posted \ {"recv"}
          /\ UNCHANGED <<connected, arg, excused, sendVars, lifeVars>>
      BY <1>21 DEF RecvCompleted
    <2>1. CASE Goto(t, "idle", "registerRecv") /\ UNCHANGED ret
      BY <2>0, <2>1 DEF Goto, sendVars, lifeVars
    <2>2. CASE Call(t, "idle", "idle")
      BY <2>0, <2>2 DEF Goto, Call, sendVars, lifeVars
    <2>. QED
      BY <1>21, <2>1, <2>2 DEF RecvCompleted
  <1>22. CASE Send(t)
    BY <1>22 DEF Send, Goto, sendVars, lifeVars
  <1>. QED
    BY <1>1, <1>2, <1>3, <1>4, <1>5, <1>6, <1>7, <1>8, <1>9, <1>10, <1>11,
       <1>12, <1>13, <1>14, <1>15, <1>16, <1>17, <1>18, <1>19, <1>20, <1>21,
       <1>22
       DEF Progress, Completed

\* Every step keeps StillReceiving: ProcessRecv ends in RegisterRecv or in
\* Disconnect.
LEMMA RecvStep ==
    ASSUME Frames, LocalInv, SetupInv, StillReceiving, NEW t \in Threads,
           Progress(t) \/ Completed(t) \/ Send(t)
    PROVE  StillReceiving'
  <1> USE DEF Frames, Labels, LocalInv, SetupInv, StillReceiving, Disconnecting
  <1>1. CASE Disconnect(t)
    BY <1>1 DEF Disconnect, Goto, sendVars, lifeVars
  <1>2. CASE RegisterDisconnect(t)
    BY <1>2 DEF RegisterDisconnect, Goto, sendVars, lifeVars
  <1>3. CASE Unlocked(t)
    BY <1>3 DEF Unlocked, Goto, Unlock, sendVars, lifeVars
  <1>4. CASE AddSession(t)
    BY <1>4 DEF AddSession, Goto, sendVars, lifeVars
  <1>5. CASE CreateRIORQ(t)
    <2>0. UNCHANGED <<useRIO, connected, posted, arg, sendVars, lifeVars>>
      BY <1>5 DEF CreateRIORQ
    <2>1. CASE Goto(t, "createRQ", "onConnected") /\ UNCHANGED <<ret, excused>>
      BY <2>0, <2>1 DEF Goto, sendVars, lifeVars
    <2>2. CASE Call(t, "createRQ", "onConnected")
               /\ excused' = excused \cup {"RIOCreateRequestQueue"}
      BY <2>0, <2>2 DEF Goto, Call, sendVars, lifeVars
    <2>. QED
      BY <1>5, <2>1, <2>2 DEF CreateRIORQ
  <1>6. CASE OnConnected(t)
    BY <1>6 DEF OnConnected, Goto, sendVars, lifeVars
  <1>7. CASE ReleaseSession(t)
    BY <1>7 DEF ReleaseSession, Goto, sendVars, lifeVars
  <1>8. CASE SendPush(t)
    BY <1>8 DEF SendPush, Goto, CanLock, sendVars, lifeVars
  <1>9. CASE RegisterSend(t)
    <2>0. UNCHANGED <<connected, posted, ret, arg, excused, sendQueue,
                      sendRegistered, lifeVars>>
      BY <1>9 DEF RegisterSend
    <2>1. CASE connected /\ Goto(t, "registerSend", "take")
      BY <2>0, <2>1 DEF Goto, lifeVars
    <2>2. CASE ~connected /\ Goto(t, "registerSend", "idle")
      BY <2>0, <2>2 DEF Goto, lifeVars
    <2>. QED
      BY <1>9, <2>1, <2>2 DEF RegisterSend
  <1>10. CASE Take(t)
    <2>0. /\ sendQueue' = <<>>
          /\ UNCHANGED <<connected, posted, arg, excused, sendRegistered,
                         lifeVars>>
      BY <1>10 DEF Take
    <2>1. CASE Goto(t, "take", "post") /\ UNCHANGED ret
      BY <2>0, <2>1 DEF Goto, lifeVars
    <2>2. CASE Call(t, "take", "unlock")
      BY <2>0, <2>2 DEF Goto, Call, lifeVars
    <2>. QED
      BY <1>10, <2>1, <2>2 DEF Take
  <1>11. CASE Post(t)
    BY <1>11 DEF Post, Goto, Unlock, sendVars, lifeVars
  <1>12. CASE PostFails(t)
    <2>0. UNCHANGED <<useRIO, connected, posted, arg, sendVars, lifeVars>>
      BY <1>12 DEF PostFails
    <2>1. CASE Call(t, "post", "sendFailed") /\ UNCHANGED excused
      BY <2>0, <2>1 DEF Goto, Call, sendVars, lifeVars
    <2>2. CASE Goto(t, "post", "sendFailed") /\ UNCHANGED ret
               /\ excused' = excused \cup {"error only logged"}
      BY <2>0, <2>2 DEF Goto, sendVars, lifeVars
    <2>. QED
      BY <1>12, <2>1, <2>2 DEF PostFails, HandleError
  <1>13. CASE SendFailed(t)
    BY <1>13 DEF SendFailed, Goto, Unlock, sendVars, lifeVars
  <1>14. CASE Kick(t)
    BY <1>14 DEF Kick, Call, Goto, CanLock, sendVars, lifeVars
  <1>15. CASE ProcessSend(t)
    <2>0. UNCHANGED <<connected, posted, ret, arg, excused, sendQueue, lifeVars>>
      BY <1>15 DEF ProcessSend
    <2>1. CASE sendQueue = <<>> /\ Goto(t, "processSend", "idle")
               /\ sendRegistered' = FALSE
      BY <2>0, <2>1 DEF Goto, lifeVars
    <2>2. CASE Goto(t, "processSend", "registerSend") /\ UNCHANGED sendRegistered
      BY <2>0, <2>2 DEF Goto, lifeVars
    <2>. QED
      BY <1>15, <2>1, <2>2 DEF ProcessSend
  <1>16. CASE RegisterRecv(t)
    BY <1>16 DEF RegisterRecv, Goto, sendVars, lifeVars
  <1>17. CASE PostRecv(t)
    <2>0. /\ pc[t] = "postRecv"
          /\ UNCHANGED <<useRIO, connected, arg, sendVars, lifeVars>>
      BY <1>17 DEF PostRecv, HandleError, Goto, Call
    <2>1. CASE Goto(t, "postRecv", "idle") /\ posted' = posted \cup {"recv"}
               /\ UNCHANGED <<ret, excused>>
      BY <2>0, <2>1 DEF Goto, sendVars, lifeVars
    <2>2. CASE Call(t, "postRecv", "idle") /\ UNCHANGED <<posted, excused>>
      BY <2>0, <2>2 DEF Goto, Call, sendVars, lifeVars
    <2>3. CASE Goto(t, "postRecv", "idle") /\ UNCHANGED <<posted, ret>>
               /\ excused' = excused \cup {"error only logged"}
      BY <2>0, <2>3 DEF Goto, sendVars, lifeVars
    <2>. QED
      BY <1>17, <2>1, <2>2, <2>3 DEF PostRecv, HandleError
  <1>18. CASE Accepted(t)
    BY <1>18 DEF Accepted, Goto, sendVars, lifeVars
  <1>19. CASE OnDisconnected(t)
    BY <1>19 DEF OnDisconnected, Goto, sendVars, lifeVars
  <1>20. CASE SendCompleted(t)
    <2>0. /\ "send" \in posted /\ posted' = posted \ {"send"}
          /\ UNCHANGED <<connected, arg, excused, sendQueue, sendRegistered,
                         lifeVars>>
      BY <1>20 DEF SendCompleted
    <2>1. CASE Goto(t, "idle", "processSend") /\ UNCHANGED ret
      BY <2>0, <2>1 DEF Goto, lifeVars
    <2>2. CASE Call(t, "idle", "idle")
      BY <2>0, <2>2 DEF Goto, Call, lifeVars
    <2>. QED
      BY <1>20, <2>1, <2>2 DEF SendCompleted
  <1>21. CASE RecvCompleted(t)
    <2>0. /\ "recv" \in posted /\ posted' = posted \ {"recv"}
          /\ UNCHANGED <<connected, arg, excused, sendVars, lifeVars>>
      BY <1>21 DEF RecvCompleted
    <2>1. CASE Goto(t, "idle", "registerRecv") /\ UNCHANGED ret
      BY <2>0, <2>1 DEF Goto, sendVars, lifeVars
    <2>2. CASE Call(t, "idle", "idle")
      BY <2>0, <2>2 DEF Goto, Call, sendVars, lifeVars
    <2>. QED
      BY <1>21, <2>1, <2>2 DEF RecvCompleted
  <1>22. CASE Send(t)
    BY <1>22 DEF Send, Goto, sendVars, lifeVars
  <1>. QED
    BY <1>1, <1>2, <1>3, <1>4, <1>5, <1>6, <1>7, <1>8, <1>9, <1>10, <1>11,
       <1>12, <1>13, <1>14, <1>15, <1>16, <1>17, <1>18, <1>19, <1>20, <1>21,
       <1>22
       DEF Progress, Completed

\* Every step keeps SetupInv: before AddSession no other thread has the
\* session.
LEMMA SetupStep ==
    ASSUME Frames, SetupInv, NEW t \in Threads,
           Progress(t) \/ Completed(t) \/ Send(t)
    PROVE  SetupInv'
  <1> USE DEF Frames, Labels, SetupInv
  <1>1. CASE Disconnect(t)
    BY <1>1 DEF Disconnect, Goto, sendVars, lifeVars
  <1>2. CASE RegisterDisconnect(t)
    BY <1>2 DEF RegisterDisconnect, Goto, sendVars, lifeVars
  <1>3. CASE Unlocked(t)
    BY <1>3 DEF Unlocked, Goto, Unlock, sendVars, lifeVars
  <1>4. CASE AddSession(t)
    BY <1>4 DEF AddSession, Goto, sendVars, lifeVars
  <1>5. CASE CreateRIORQ(t)
    <2>0. UNCHANGED <<useRIO, connected, posted, arg, sendVars, lifeVars>>
      BY <1>5 DEF CreateRIORQ
    <2>1. CASE Goto(t, "createRQ", "onConnected") /\ UNCHANGED <<ret, excused>>
      BY <2>0, <2>1 DEF Goto, sendVars, lifeVars
    <2>2. CASE Call(t, "createRQ", "onConnected")
               /\ excused' = excused \cup {"RIOCreateRequestQueue"}
      BY <2>0, <2>2 DEF Goto, Call, sendVars, lifeVars
    <2>. QED
      BY <1>5, <2>1, <2>2 DEF CreateRIORQ
  <1>6. CASE OnConnected(t)
    BY <1>6 DEF OnConnected, Goto, sendVars, lifeVars
  <1>7. CASE ReleaseSession(t)
    BY <1>7 DEF ReleaseSession, Goto, sendVars, lifeVars
  <1>8. CASE SendPush(t)
    BY <1>8 DEF SendPush, Goto, CanLock, sendVars, lifeVars
  <1>9. CASE RegisterSend(t)
    <2>0. UNCHANGED <<connected, posted, ret, arg, excused, sendQueue,
                      sendRegistered, lifeVars>>
      BY <1>9 DEF RegisterSend
    <2>1. CASE connected /\ Goto(t, "registerSend", "take")
      BY <2>0, <2>1 DEF Goto, lifeVars
    <2>2. CASE ~connected /\ Goto(t, "registerSend", "idle")
      BY <2>0, <2>2 DEF Goto, lifeVars
    <2>. QED
      BY <1>9, <2>1, <2>2 DEF RegisterSend
  <1>10. CASE Take(t)
    <2>0. /\ sendQueue' = <<>>
          /\ UNCHANGED <<connected, posted, arg, excused, sendRegistered,
                         lifeVars>>
      BY <1>10 DEF Take
    <2>1. CASE Goto(t, "take", "post") /\ UNCHANGED ret
      BY <2>0, <2>1 DEF Goto, lifeVars
    <2>2. CASE Call(t, "take", "unlock")
      BY <2>0, <2>2 DEF Goto, Call, lifeVars
    <2>. QED
      BY <1>10, <2>1, <2>2 DEF Take
  <1>11. CASE Post(t)
    BY <1>11 DEF Post, Goto, Unlock, sendVars, lifeVars
  <1>12. CASE PostFails(t)
    <2>0. UNCHANGED <<useRIO, connected, posted, arg, sendVars, lifeVars>>
      BY <1>12 DEF PostFails
    <2>1. CASE Call(t, "post", "sendFailed") /\ UNCHANGED excused
      BY <2>0, <2>1 DEF Goto, Call, sendVars, lifeVars
    <2>2. CASE Goto(t, "post", "sendFailed") /\ UNCHANGED ret
               /\ excused' = excused \cup {"error only logged"}
      BY <2>0, <2>2 DEF Goto, sendVars, lifeVars
    <2>. QED
      BY <1>12, <2>1, <2>2 DEF PostFails, HandleError
  <1>13. CASE SendFailed(t)
    BY <1>13 DEF SendFailed, Goto, Unlock, sendVars, lifeVars
  <1>14. CASE Kick(t)
    BY <1>14 DEF Kick, Call, Goto, CanLock, sendVars, lifeVars
  <1>15. CASE ProcessSend(t)
    <2>0. UNCHANGED <<connected, posted, ret, arg, excused, sendQueue, lifeVars>>
      BY <1>15 DEF ProcessSend
    <2>1. CASE sendQueue = <<>> /\ Goto(t, "processSend", "idle")
               /\ sendRegistered' = FALSE
      BY <2>0, <2>1 DEF Goto, lifeVars
    <2>2. CASE Goto(t, "processSend", "registerSend") /\ UNCHANGED sendRegistered
      BY <2>0, <2>2 DEF Goto, lifeVars
    <2>. QED
      BY <1>15, <2>1, <2>2 DEF ProcessSend
  <1>16. CASE RegisterRecv(t)
    BY <1>16 DEF RegisterRecv, Goto, sendVars, lifeVars
  <1>17. CASE PostRecv(t)
    <2>0. /\ pc[t] = "postRecv"
          /\ UNCHANGED <<useRIO, connected, arg, sendVars, lifeVars>>
      BY <1>17 DEF PostRecv, HandleError, Goto, Call
    <2>1. CASE Goto(t, "postRecv", "idle") /\ posted' = posted \cup {"recv"}
               /\ UNCHANGED <<ret, excused>>
      BY <2>0, <2>1 DEF Goto, sendVars, lifeVars
    <2>2. CASE Call(t, "postRecv", "idle") /\ UNCHANGED <<posted, excused>>
      BY <2>0, <2>2 DEF Goto, Call, sendVars, lifeVars
    <2>3. CASE Goto(t, "postRecv", "idle") /\ UNCHANGED <<posted, ret>>
               /\ excused' = excused \cup {"error only logged"}
      BY <2>0, <2>3 DEF Goto, sendVars, lifeVars
    <2>. QED
      BY <1>17, <2>1, <2>2, <2>3 DEF PostRecv, HandleError
  <1>18. CASE Accepted(t)
    BY <1>18 DEF Accepted, Goto, sendVars, lifeVars
  <1>19. CASE OnDisconnected(t)
    BY <1>19 DEF OnDisconnected, Goto, sendVars, lifeVars
  <1>20. CASE SendCompleted(t)
    <2>0. /\ "send" \in posted /\ posted' = posted \ {"send"}
          /\ UNCHANGED <<connected, arg, excused, sendQueue, sendRegistered,
                         lifeVars>>
      BY <1>20 DEF SendCompleted
    <2>1. CASE Goto(t, "idle", "processSend") /\ UNCHANGED ret
      BY <2>0, <2>1 DEF Goto, lifeVars
    <2>2. CASE Call(t, "idle", "idle")
      BY <2>0, <2>2 DEF Goto, Call, lifeVars
    <2>. QED
      BY <1>20, <2>1, <2>2 DEF SendCompleted
  <1>21. CASE RecvCompleted(t)
    <2>0. /\ "recv" \in posted /\ posted' = posted \ {"recv"}
          /\ UNCHANGED <<connected, arg, excused, sendVars, lifeVars>>
      BY <1>21 DEF RecvCompleted
    <2>1. CASE Goto(t, "idle", "registerRecv") /\ UNCHANGED ret
      BY <2>0, <2>1 DEF Goto, sendVars, lifeVars
    <2>2. CASE Call(t, "idle", "idle")
      BY <2>0, <2>2 DEF Goto, Call, sendVars, lifeVars
    <2>. QED
      BY <1>21, <2>1, <2>2 DEF RecvCompleted
  <1>22. CASE Send(t)
    BY <1>22 DEF Send, Goto, sendVars, lifeVars
  <1>. QED
    BY <1>1, <1>2, <1>3, <1>4, <1>5, <1>6, <1>7, <1>8, <1>9, <1>10, <1>11,
       <1>12, <1>13, <1>14, <1>15, <1>16, <1>17, <1>18, <1>19, <1>20, <1>21,
       <1>22
       DEF Progress, Completed

\* Every step keeps EndInv: the exchange of _connected lets one thread pass.
LEMMA EndStep ==
    ASSUME Frames, LocalInv, SetupInv, EndInv, NEW t \in Threads,
           Progress(t) \/ Completed(t) \/ Send(t)
    PROVE  EndInv'
  <1> USE DEF Frames, Labels, LocalInv, SetupInv, EndInv
  <1>1. CASE Disconnect(t)
    BY <1>1 DEF Disconnect, Goto, sendVars, lifeVars
  <1>2. CASE RegisterDisconnect(t)
    BY <1>2 DEF RegisterDisconnect, Goto, sendVars, lifeVars
  <1>3. CASE Unlocked(t)
    BY <1>3 DEF Unlocked, Goto, Unlock, sendVars, lifeVars
  <1>4. CASE AddSession(t)
    BY <1>4 DEF AddSession, Goto, sendVars, lifeVars
  <1>5. CASE CreateRIORQ(t)
    <2>0. UNCHANGED <<useRIO, connected, posted, arg, sendVars, lifeVars>>
      BY <1>5 DEF CreateRIORQ
    <2>1. CASE Goto(t, "createRQ", "onConnected") /\ UNCHANGED <<ret, excused>>
      BY <2>0, <2>1 DEF Goto, sendVars, lifeVars
    <2>2. CASE Call(t, "createRQ", "onConnected")
               /\ excused' = excused \cup {"RIOCreateRequestQueue"}
      BY <2>0, <2>2 DEF Goto, Call, sendVars, lifeVars
    <2>. QED
      BY <1>5, <2>1, <2>2 DEF CreateRIORQ
  <1>6. CASE OnConnected(t)
    BY <1>6 DEF OnConnected, Goto, sendVars, lifeVars
  <1>7. CASE ReleaseSession(t)
    BY <1>7 DEF ReleaseSession, Goto, sendVars, lifeVars
  <1>8. CASE SendPush(t)
    BY <1>8 DEF SendPush, Goto, CanLock, sendVars, lifeVars
  <1>9. CASE RegisterSend(t)
    <2>0. UNCHANGED <<connected, posted, ret, arg, excused, sendQueue,
                      sendRegistered, lifeVars>>
      BY <1>9 DEF RegisterSend
    <2>1. /\ pc'[t] \in {"take", "idle"} /\ pc[t] = "registerSend"
          /\ \A u \in Threads \ {t} : pc'[u] = pc[u]
      BY <1>9 DEF RegisterSend, Goto
    <2>. QED
      BY <2>0, <2>1 DEF lifeVars
  <1>10. CASE Take(t)
    <2>0. /\ sendQueue' = <<>>
          /\ UNCHANGED <<connected, posted, arg, excused, sendRegistered,
                         lifeVars>>
      BY <1>10 DEF Take
    <2>1. CASE Goto(t, "take", "post") /\ UNCHANGED ret
      BY <2>0, <2>1 DEF Goto, lifeVars
    <2>2. CASE Call(t, "take", "unlock")
      BY <2>0, <2>2 DEF Goto, Call, lifeVars
    <2>. QED
      BY <1>10, <2>1, <2>2 DEF Take
  <1>11. CASE Post(t)
    BY <1>11 DEF Post, Goto, Unlock, sendVars, lifeVars
  <1>12. CASE PostFails(t)
    <2>0. UNCHANGED <<useRIO, connected, posted, arg, sendVars, lifeVars>>
      BY <1>12 DEF PostFails
    <2>1. CASE Call(t, "post", "sendFailed") /\ UNCHANGED excused
      BY <2>0, <2>1 DEF Goto, Call, sendVars, lifeVars
    <2>2. CASE Goto(t, "post", "sendFailed") /\ UNCHANGED ret
               /\ excused' = excused \cup {"error only logged"}
      BY <2>0, <2>2 DEF Goto, sendVars, lifeVars
    <2>. QED
      BY <1>12, <2>1, <2>2 DEF PostFails, HandleError
  <1>13. CASE SendFailed(t)
    BY <1>13 DEF SendFailed, Goto, Unlock, sendVars, lifeVars
  <1>14. CASE Kick(t)
    BY <1>14 DEF Kick, Call, Goto, CanLock, sendVars, lifeVars
  <1>15. CASE ProcessSend(t)
    <2>0. UNCHANGED <<connected, posted, ret, arg, excused, sendQueue, lifeVars>>
      BY <1>15 DEF ProcessSend
    <2>1. CASE sendQueue = <<>> /\ Goto(t, "processSend", "idle")
               /\ sendRegistered' = FALSE
      BY <2>0, <2>1 DEF Goto, lifeVars
    <2>2. CASE Goto(t, "processSend", "registerSend") /\ UNCHANGED sendRegistered
      BY <2>0, <2>2 DEF Goto, lifeVars
    <2>. QED
      BY <1>15, <2>1, <2>2 DEF ProcessSend
  <1>16. CASE RegisterRecv(t)
    BY <1>16 DEF RegisterRecv, Goto, sendVars, lifeVars
  <1>17. CASE PostRecv(t)
    <2>0. /\ pc[t] = "postRecv"
          /\ UNCHANGED <<useRIO, connected, arg, sendVars, lifeVars>>
      BY <1>17 DEF PostRecv, HandleError, Goto, Call
    <2>1. CASE Goto(t, "postRecv", "idle") /\ posted' = posted \cup {"recv"}
               /\ UNCHANGED <<ret, excused>>
      BY <2>0, <2>1 DEF Goto, sendVars, lifeVars
    <2>2. CASE Call(t, "postRecv", "idle") /\ UNCHANGED <<posted, excused>>
      BY <2>0, <2>2 DEF Goto, Call, sendVars, lifeVars
    <2>3. CASE Goto(t, "postRecv", "idle") /\ UNCHANGED <<posted, ret>>
               /\ excused' = excused \cup {"error only logged"}
      BY <2>0, <2>3 DEF Goto, sendVars, lifeVars
    <2>. QED
      BY <1>17, <2>1, <2>2, <2>3 DEF PostRecv, HandleError
  <1>18. CASE Accepted(t)
    BY <1>18 DEF Accepted, Goto, sendVars, lifeVars
  <1>19. CASE OnDisconnected(t)
    BY <1>19 DEF OnDisconnected, Goto, sendVars, lifeVars
  <1>20. CASE SendCompleted(t)
    <2>0. /\ "send" \in posted /\ posted' = posted \ {"send"}
          /\ UNCHANGED <<connected, arg, excused, sendQueue, sendRegistered,
                         lifeVars>>
      BY <1>20 DEF SendCompleted
    <2>1. CASE Goto(t, "idle", "processSend") /\ UNCHANGED ret
      BY <2>0, <2>1 DEF Goto, lifeVars
    <2>2. CASE Call(t, "idle", "idle")
      BY <2>0, <2>2 DEF Goto, Call, lifeVars
    <2>. QED
      BY <1>20, <2>1, <2>2 DEF SendCompleted
  <1>21. CASE RecvCompleted(t)
    <2>0. /\ "recv" \in posted /\ posted' = posted \ {"recv"}
          /\ UNCHANGED <<connected, arg, excused, sendVars, lifeVars>>
      BY <1>21 DEF RecvCompleted
    <2>1. CASE Goto(t, "idle", "registerRecv") /\ UNCHANGED ret
      BY <2>0, <2>1 DEF Goto, sendVars, lifeVars
    <2>2. CASE Call(t, "idle", "idle")
      BY <2>0, <2>2 DEF Goto, Call, sendVars, lifeVars
    <2>. QED
      BY <1>21, <2>1, <2>2 DEF RecvCompleted
  <1>22. CASE Send(t)
    BY <1>22 DEF Send, Goto, sendVars, lifeVars
  <1>. QED
    BY <1>1, <1>2, <1>3, <1>4, <1>5, <1>6, <1>7, <1>8, <1>9, <1>10, <1>11,
       <1>12, <1>13, <1>14, <1>15, <1>16, <1>17, <1>18, <1>19, <1>20, <1>21,
       <1>22
       DEF Progress, Completed

\* Every step keeps ManagerInv: the order of OnConnected, OnDisconnected and
\* ReleaseSession.
LEMMA ManagerStep ==
    ASSUME Frames, LocalInv, SetupInv, EndInv, ManagerInv, NEW t \in Threads,
           Progress(t) \/ Completed(t) \/ Send(t)
    PROVE  ManagerInv'
  <1> USE DEF Frames, Labels, LocalInv, SetupInv, EndInv, ManagerInv,
              Disconnecting
  <1>1. CASE Disconnect(t)
    BY <1>1 DEF Disconnect, Goto, sendVars, lifeVars
  <1>2. CASE RegisterDisconnect(t)
    BY <1>2 DEF RegisterDisconnect, Goto, sendVars, lifeVars
  <1>3. CASE Unlocked(t)
    BY <1>3 DEF Unlocked, Goto, Unlock, sendVars, lifeVars
  <1>4. CASE AddSession(t)
    <2>1. \E next \in {"createRQ", "onConnected"} : Goto(t, "addSession", next)
      BY <1>4 DEF AddSession
    <2>2. /\ inService'
          /\ UNCHANGED <<connected, posted, ret, excused, inManager, known>>
      BY <1>4 DEF AddSession
    <2>3. \A u \in Threads \ {t} : pc'[u] = "idle"
      BY <2>1 DEF Goto
    <2>. QED
      BY <2>1, <2>2, <2>3 DEF Goto
  <1>5. CASE CreateRIORQ(t)
    <2>0. UNCHANGED <<useRIO, connected, posted, arg, sendVars, lifeVars>>
      BY <1>5 DEF CreateRIORQ
    <2>1. CASE Goto(t, "createRQ", "onConnected") /\ UNCHANGED <<ret, excused>>
      <3>1. pc'[t] = "onConnected" /\ pc[t] = "createRQ"
        BY <2>1 DEF Goto
      <3>2. \A u \in Threads \ {t} : pc'[u] = pc[u]
        BY <2>1 DEF Goto
      <3>3. UNCHANGED <<connected, posted, ret, excused, known, inService,
                        inManager>>
        BY <2>0, <2>1 DEF lifeVars
      <3>. QED
        BY <3>1, <3>2, <3>3
    <2>2. CASE Call(t, "createRQ", "onConnected")
               /\ excused' = excused \cup {"RIOCreateRequestQueue"}
      BY <2>0, <2>2 DEF Goto, Call, sendVars, lifeVars
    <2>. QED
      BY <1>5, <2>1, <2>2 DEF CreateRIORQ
  <1>6. CASE OnConnected(t)
    BY <1>6 DEF OnConnected, Goto, sendVars, lifeVars
  <1>7. CASE ReleaseSession(t)
    BY <1>7 DEF ReleaseSession, Goto, sendVars, lifeVars
  <1>8. CASE SendPush(t)
    BY <1>8 DEF SendPush, Goto, CanLock, sendVars, lifeVars
  <1>9. CASE RegisterSend(t)
    <2>1. \E next \in {"take", "idle"} : Goto(t, "registerSend", next)
      BY <1>9 DEF RegisterSend
    <2>2. UNCHANGED <<connected, posted, ret, excused, known, inService,
                      inManager>>
      BY <1>9 DEF RegisterSend, lifeVars
    <2>. QED
      BY <2>1, <2>2 DEF Goto
  <1>10. CASE Take(t)
    <2>0. /\ sendQueue' = <<>>
          /\ UNCHANGED <<connected, posted, arg, excused, sendRegistered,
                         lifeVars>>
      BY <1>10 DEF Take
    <2>1. CASE Goto(t, "take", "post") /\ UNCHANGED ret
      BY <2>0, <2>1 DEF Goto, lifeVars
    <2>2. CASE Call(t, "take", "unlock")
      BY <2>0, <2>2 DEF Goto, Call, lifeVars
    <2>. QED
      BY <1>10, <2>1, <2>2 DEF Take
  <1>11. CASE Post(t)
    BY <1>11 DEF Post, Goto, Unlock, sendVars, lifeVars
  <1>12. CASE PostFails(t)
    <2>0. UNCHANGED <<useRIO, connected, posted, arg, sendVars, lifeVars>>
      BY <1>12 DEF PostFails
    <2>1. CASE Call(t, "post", "sendFailed") /\ UNCHANGED excused
      BY <2>0, <2>1 DEF Goto, Call, sendVars, lifeVars
    <2>2. CASE Goto(t, "post", "sendFailed") /\ UNCHANGED ret
               /\ excused' = excused \cup {"error only logged"}
      BY <2>0, <2>2 DEF Goto, sendVars, lifeVars
    <2>. QED
      BY <1>12, <2>1, <2>2 DEF PostFails, HandleError
  <1>13. CASE SendFailed(t)
    BY <1>13 DEF SendFailed, Goto, Unlock, sendVars, lifeVars
  <1>14. CASE Kick(t)
    BY <1>14 DEF Kick, Call, Goto, CanLock, sendVars, lifeVars
  <1>15. CASE ProcessSend(t)
    <2>1. \E next \in {"registerSend", "idle"} : Goto(t, "processSend", next)
      BY <1>15 DEF ProcessSend
    <2>2. UNCHANGED <<connected, posted, ret, excused, known, inService,
                      inManager>>
      BY <1>15 DEF ProcessSend, lifeVars
    <2>. QED
      BY <2>1, <2>2 DEF Goto
  <1>16. CASE RegisterRecv(t)
    BY <1>16 DEF RegisterRecv, Goto, sendVars, lifeVars
  <1>17. CASE PostRecv(t)
    <2>0. /\ pc[t] = "postRecv"
          /\ UNCHANGED <<useRIO, connected, arg, sendVars, lifeVars>>
      BY <1>17 DEF PostRecv, HandleError, Goto, Call
    <2>1. CASE Goto(t, "postRecv", "idle") /\ posted' = posted \cup {"recv"}
               /\ UNCHANGED <<ret, excused>>
      BY <2>0, <2>1 DEF Goto, sendVars, lifeVars
    <2>2. CASE Call(t, "postRecv", "idle") /\ UNCHANGED <<posted, excused>>
      BY <2>0, <2>2 DEF Goto, Call, sendVars, lifeVars
    <2>3. CASE Goto(t, "postRecv", "idle") /\ UNCHANGED <<posted, ret>>
               /\ excused' = excused \cup {"error only logged"}
      BY <2>0, <2>3 DEF Goto, sendVars, lifeVars
    <2>. QED
      BY <1>17, <2>1, <2>2, <2>3 DEF PostRecv, HandleError
  <1>18. CASE Accepted(t)
    BY <1>18 DEF Accepted, Goto, sendVars, lifeVars
  <1>19. CASE OnDisconnected(t)
    BY <1>19 DEF OnDisconnected, Goto, sendVars, lifeVars
  <1>20. CASE SendCompleted(t)
    <2>0. /\ "send" \in posted /\ posted' = posted \ {"send"}
          /\ UNCHANGED <<connected, arg, excused, sendQueue, sendRegistered,
                         lifeVars>>
      BY <1>20 DEF SendCompleted
    <2>1. CASE Goto(t, "idle", "processSend") /\ UNCHANGED ret
      BY <2>0, <2>1 DEF Goto, lifeVars
    <2>2. CASE Call(t, "idle", "idle")
      BY <2>0, <2>2 DEF Goto, Call, lifeVars
    <2>. QED
      BY <1>20, <2>1, <2>2 DEF SendCompleted
  <1>21. CASE RecvCompleted(t)
    <2>0. /\ "recv" \in posted /\ posted' = posted \ {"recv"}
          /\ UNCHANGED <<connected, arg, excused, sendVars, lifeVars>>
      BY <1>21 DEF RecvCompleted
    <2>1. CASE Goto(t, "idle", "registerRecv") /\ UNCHANGED ret
      BY <2>0, <2>1 DEF Goto, sendVars, lifeVars
    <2>2. CASE Call(t, "idle", "idle")
      BY <2>0, <2>2 DEF Goto, Call, sendVars, lifeVars
    <2>. QED
      BY <1>21, <2>1, <2>2 DEF RecvCompleted
  <1>22. CASE Send(t)
    BY <1>22 DEF Send, Goto, sendVars, lifeVars
  <1>. QED
    BY <1>1, <1>2, <1>3, <1>4, <1>5, <1>6, <1>7, <1>8, <1>9, <1>10, <1>11,
       <1>12, <1>13, <1>14, <1>15, <1>16, <1>17, <1>18, <1>19, <1>20, <1>21,
       <1>22
       DEF Progress, Completed

\* Before the accept, whether IOCP or RIO is used, IInv holds.
LEMMA InitInv == Init => IInv
  <1>. SUFFICES ASSUME Init PROVE IInv
    OBVIOUS
  <1> USE DEF Init
  <1>1. TypeOK
    <2>1. 0 \in 0..MaxSends
      BY SessionAssumption
    <2>2. <<>> \in Seq(Buffers)
      OBVIOUS
    <2>. QED
      BY <2>1, <2>2 DEF TypeOK, Labels
  <1>2. LocalInv
    BY DEF LocalInv
  <1>3. SendInv /\ QueueInv
    BY DEF SendInv, QueueInv, OwnsSend, Disconnecting
  <1>4. StillReceiving
    BY DEF StillReceiving
  <1>5. SetupInv /\ EndInv /\ ManagerInv
    BY DEF SetupInv, EndInv, ManagerInv, Disconnecting
  <1>. QED
    BY <1>1, <1>2, <1>3, <1>4, <1>5 DEF IInv

\* No step of a thread or of the kernel breaks IInv.
LEMMA NextInv == IInv /\ [Next]_vars => IInv'
  <1>. SUFFICES ASSUME IInv, [Next]_vars PROVE IInv'
    OBVIOUS
  <1>1. Frames
    BY DEF IInv, TypeOK, Frames
  <1>2. CASE Next
    <2>1. PICK t \in Threads : Progress(t) \/ Completed(t) \/ Send(t)
      BY <1>2 DEF Next
    <2>2. TypeOK' /\ LocalInv'
      BY <1>1, <2>1, TypeStep, LocalStep DEF IInv
    <2>3. SendInv' /\ QueueInv'
      BY <1>1, <2>1, SendStep, QueueStep DEF IInv
    <2>4. StillReceiving'
      BY <1>1, <2>1, RecvStep DEF IInv
    <2>5. SetupInv' /\ EndInv' /\ ManagerInv'
      BY <1>1, <2>1, SetupStep, EndStep, ManagerStep DEF IInv
    <2>. QED
      BY <2>2, <2>3, <2>4, <2>5 DEF IInv
  <1>3. CASE UNCHANGED vars
    <2> USE <1>3 DEF vars, sendVars, lifeVars
    <2>1. TypeOK' /\ LocalInv'
      BY DEF IInv, TypeOK, LocalInv
    <2>2. SendInv' /\ QueueInv'
      BY DEF IInv, SendInv, QueueInv, OwnsSend, Disconnecting
    <2>3. StillReceiving'
      BY DEF IInv, StillReceiving, Disconnecting
    <2>4. SetupInv' /\ EndInv' /\ ManagerInv'
      BY DEF IInv, SetupInv, EndInv, ManagerInv, Disconnecting
    <2>. QED
      BY <2>1, <2>2, <2>3, <2>4 DEF IInv
  <1>. QED
    BY <1>2, <1>3

\* IInv is an inductive invariant of the session.
LEMMA Inductive == Spec => []IInv
  BY InitInv, NextInv, PTL DEF Spec

\* What the peer has got, what is under way and what waits: all that was ever
\* queued, in order.
Flows == pushed = sent \o (inFlight \o sendQueue)

\* After a buffer was lost nothing is sent any more: the connection is down,
\* or _sendRegistered stays up and nobody has the right to send.
Halted ==
    /\ posted \cap {"accept", "send"} = {}
    /\ \A t \in Threads : pc[t] \notin {"take", "post"}
    /\ ~connected \/ (sendRegistered /\ \A t \in Threads : ~OwnsSend(t))

\* StreamHasNoGap, with what keeps it.
StreamInv ==
    "error only logged" \notin excused => IsPrefix(sent, pushed) /\ (Flows \/ Halted)

-----------------------------------------------------------------------------
(* The stream.                                                             *)

\* A prefix, element by element, stays one when more is appended.
LEMMA PrefixConcat ==
    ASSUME NEW S, NEW s \in Seq(S), NEW q \in Seq(S) PROVE IsPrefix(s, s \o q)
  <1>1. Len(s) \in Nat /\ Len(q) \in Nat /\ Len(s \o q) = Len(s) + Len(q)
    BY ConcatProperties, LenProperties
  <1>2. SubSeq(s, 1, Len(s)) = s
    BY SubSeqFull
  <1>3. SubSeq(s \o q, 1, Len(s)) = SubSeq(s, 1, Len(s))
    <2>1. CASE Len(s) = 0
      BY <2>1, SubSeqEmpty
    <2>2. CASE Len(s) > 0
      BY <1>1, <2>2, SubSeqOfConcat1
    <2>. QED
      BY <1>1, <2>1, <2>2
  <1>. QED
    BY <1>1, <1>3 DEF IsPrefix

LEMMA PrefixAppend ==
    ASSUME NEW S, NEW s \in Seq(S), NEW q \in Seq(S), NEW e \in S, IsPrefix(s, q)
    PROVE  IsPrefix(s, Append(q, e))
  <1>1. Len(s) \in Nat /\ Len(q) \in Nat /\ Len(s) <= Len(q)
    BY LenProperties DEF IsPrefix
  <1>2. Append(q, e) = q \o <<e>> /\ <<e>> \in Seq(S) /\ Len(Append(q, e)) = Len(q) + 1
    BY AppendIsConcat, AppendProperties
  <1>3. SubSeq(q \o <<e>>, 1, Len(s)) = SubSeq(q, 1, Len(s))
    <2>1. CASE Len(s) = 0
      BY <2>1, SubSeqEmpty
    <2>2. CASE Len(s) > 0
      BY <1>1, <1>2, <2>2, SubSeqOfConcat1
    <2>. QED
      BY <1>1, <2>1, <2>2
  <1>. QED
    BY <1>1, <1>2, <1>3 DEF IsPrefix

\* Appending to the last part of a stream appends to the stream.
LEMMA FlowAppend ==
    \A s, q, r \in Seq(Buffers) : \A e \in Buffers :
        Append(s \o (q \o r), e) = s \o (q \o Append(r, e))
  <1> TAKE s, q, r \in Seq(Buffers)
  <1> TAKE e \in Buffers
  <1>1. /\ <<e>> \in Seq(Buffers) /\ q \o r \in Seq(Buffers)
        /\ s \o (q \o r) \in Seq(Buffers)
    BY ConcatProperties
  <1>2. /\ Append(r, e) = r \o <<e>>
        /\ Append(s \o (q \o r), e) = (s \o (q \o r)) \o <<e>>
    BY <1>1, AppendIsConcat
  <1>3. (s \o (q \o r)) \o <<e>> = s \o ((q \o r) \o <<e>>)
    BY <1>1, ConcatAssociative
  <1>4. (q \o r) \o <<e>> = q \o (r \o <<e>>)
    BY <1>1, ConcatAssociative
  <1>. QED
    BY <1>2, <1>3, <1>4

\* Moving the middle of a stream to its front leaves the stream.
LEMMA FlowMove ==
    \A s, q, r \in Seq(Buffers) : s \o (q \o r) = (s \o q) \o (<<>> \o r)
  BY ConcatAssociative, ConcatEmptySeq

\* Once halted, for good.
LEMMA HaltedStep ==
    ASSUME Frames, SendInv, Halted, NEW t \in Threads,
           Progress(t) \/ Completed(t) \/ Send(t)
    PROVE  Halted'
  <1> USE DEF Frames, Labels, SendInv, OwnsSend, Disconnecting, Halted
  <1>1. CASE Disconnect(t)
    BY <1>1 DEF Disconnect, Goto, sendVars, lifeVars
  <1>2. CASE RegisterDisconnect(t)
    BY <1>2 DEF RegisterDisconnect, Goto, sendVars, lifeVars
  <1>3. CASE Unlocked(t)
    BY <1>3 DEF Unlocked, Goto, Unlock, sendVars, lifeVars
  <1>4. CASE AddSession(t)
    BY <1>4 DEF AddSession, Goto, sendVars, lifeVars
  <1>5. CASE CreateRIORQ(t)
    <2>0. UNCHANGED <<useRIO, connected, posted, arg, sendVars, lifeVars>>
      BY <1>5 DEF CreateRIORQ
    <2>1. CASE Goto(t, "createRQ", "onConnected") /\ UNCHANGED <<ret, excused>>
      BY <2>0, <2>1 DEF Goto, sendVars, lifeVars
    <2>2. CASE Call(t, "createRQ", "onConnected")
               /\ excused' = excused \cup {"RIOCreateRequestQueue"}
      BY <2>0, <2>2 DEF Goto, Call, sendVars, lifeVars
    <2>. QED
      BY <1>5, <2>1, <2>2 DEF CreateRIORQ
  <1>6. CASE OnConnected(t)
    BY <1>6 DEF OnConnected, Goto, sendVars, lifeVars
  <1>7. CASE ReleaseSession(t)
    BY <1>7 DEF ReleaseSession, Goto, sendVars, lifeVars
  <1>8. CASE SendPush(t)
    BY <1>8 DEF SendPush, Goto, CanLock, sendVars, lifeVars
  <1>9. CASE RegisterSend(t)
    <2>0. UNCHANGED <<connected, posted, ret, arg, excused, sendQueue,
                      sendRegistered, lifeVars>>
      BY <1>9 DEF RegisterSend
    <2>1. CASE connected /\ Goto(t, "registerSend", "take")
      BY <2>0, <2>1 DEF Goto, lifeVars
    <2>2. CASE ~connected /\ Goto(t, "registerSend", "idle")
      BY <2>0, <2>2 DEF Goto, lifeVars
    <2>. QED
      BY <1>9, <2>1, <2>2 DEF RegisterSend
  <1>10. CASE Take(t)
    <2>0. /\ sendQueue' = <<>>
          /\ UNCHANGED <<connected, posted, arg, excused, sendRegistered,
                         lifeVars>>
      BY <1>10 DEF Take
    <2>1. CASE Goto(t, "take", "post") /\ UNCHANGED ret
      BY <2>0, <2>1 DEF Goto, lifeVars
    <2>2. CASE Call(t, "take", "unlock")
      BY <2>0, <2>2 DEF Goto, Call, lifeVars
    <2>. QED
      BY <1>10, <2>1, <2>2 DEF Take
  <1>11. CASE Post(t)
    BY <1>11 DEF Post, Goto, Unlock, sendVars, lifeVars
  <1>12. CASE PostFails(t)
    <2>0. UNCHANGED <<useRIO, connected, posted, arg, sendVars, lifeVars>>
      BY <1>12 DEF PostFails
    <2>1. CASE Call(t, "post", "sendFailed") /\ UNCHANGED excused
      BY <2>0, <2>1 DEF Goto, Call, sendVars, lifeVars
    <2>2. CASE Goto(t, "post", "sendFailed") /\ UNCHANGED ret
               /\ excused' = excused \cup {"error only logged"}
      <3>1. \A u \in Threads : OwnsSend(u)' = OwnsSend(u)
        BY <2>0, <2>2 DEF Goto
      <3>. QED
        BY <2>0, <2>2, <3>1 DEF Goto, sendVars, lifeVars
    <2>. QED
      BY <1>12, <2>1, <2>2 DEF PostFails, HandleError
  <1>13. CASE SendFailed(t)
    BY <1>13 DEF SendFailed, Goto, Unlock, sendVars, lifeVars
  <1>14. CASE Kick(t)
    BY <1>14 DEF Kick, Call, Goto, CanLock, sendVars, lifeVars
  <1>15. CASE ProcessSend(t)
    <2>0. UNCHANGED <<connected, posted, ret, arg, excused, sendQueue, lifeVars>>
      BY <1>15 DEF ProcessSend
    <2>1. CASE sendQueue = <<>> /\ Goto(t, "processSend", "idle")
               /\ sendRegistered' = FALSE
      BY <2>0, <2>1 DEF Goto, lifeVars
    <2>2. CASE Goto(t, "processSend", "registerSend") /\ UNCHANGED sendRegistered
      BY <2>0, <2>2 DEF Goto, lifeVars
    <2>. QED
      BY <1>15, <2>1, <2>2 DEF ProcessSend
  <1>16. CASE RegisterRecv(t)
    BY <1>16 DEF RegisterRecv, Goto, sendVars, lifeVars
  <1>17. CASE PostRecv(t)
    <2>0. /\ pc[t] = "postRecv"
          /\ UNCHANGED <<useRIO, connected, arg, sendVars, lifeVars>>
      BY <1>17 DEF PostRecv, HandleError, Goto, Call
    <2>1. CASE Goto(t, "postRecv", "idle") /\ posted' = posted \cup {"recv"}
               /\ UNCHANGED <<ret, excused>>
      BY <2>0, <2>1 DEF Goto, sendVars, lifeVars
    <2>2. CASE Call(t, "postRecv", "idle") /\ UNCHANGED <<posted, excused>>
      BY <2>0, <2>2 DEF Goto, Call, sendVars, lifeVars
    <2>3. CASE Goto(t, "postRecv", "idle") /\ UNCHANGED <<posted, ret>>
               /\ excused' = excused \cup {"error only logged"}
      <3>1. \A u \in Threads : OwnsSend(u)' = OwnsSend(u)
        BY <2>0, <2>3 DEF Goto
      <3>. QED
        BY <2>0, <2>3, <3>1 DEF Goto, sendVars, lifeVars
    <2>. QED
      BY <1>17, <2>1, <2>2, <2>3 DEF PostRecv, HandleError
  <1>18. CASE Accepted(t)
    BY <1>18 DEF Accepted, Goto, sendVars, lifeVars
  <1>19. CASE OnDisconnected(t)
    BY <1>19 DEF OnDisconnected, Goto, sendVars, lifeVars
  <1>20. CASE SendCompleted(t)
    <2>0. /\ "send" \in posted /\ posted' = posted \ {"send"}
          /\ UNCHANGED <<connected, arg, excused, sendQueue, sendRegistered,
                         lifeVars>>
      BY <1>20 DEF SendCompleted
    <2>1. CASE Goto(t, "idle", "processSend") /\ UNCHANGED ret
      BY <2>0, <2>1 DEF Goto, lifeVars
    <2>2. CASE Call(t, "idle", "idle")
      BY <2>0, <2>2 DEF Goto, Call, lifeVars
    <2>. QED
      BY <1>20, <2>1, <2>2 DEF SendCompleted
  <1>21. CASE RecvCompleted(t)
    <2>0. /\ "recv" \in posted /\ posted' = posted \ {"recv"}
          /\ UNCHANGED <<connected, arg, excused, sendVars, lifeVars>>
      BY <1>21 DEF RecvCompleted
    <2>1. CASE Goto(t, "idle", "registerRecv") /\ UNCHANGED ret
      BY <2>0, <2>1 DEF Goto, sendVars, lifeVars
    <2>2. CASE Call(t, "idle", "idle")
      BY <2>0, <2>2 DEF Goto, Call, sendVars, lifeVars
    <2>. QED
      BY <1>21, <2>1, <2>2 DEF RecvCompleted
  <1>22. CASE Send(t)
    BY <1>22 DEF Send, Goto, sendVars, lifeVars
  <1>. QED
    BY <1>1, <1>2, <1>3, <1>4, <1>5, <1>6, <1>7, <1>8, <1>9, <1>10, <1>11,
       <1>12, <1>13, <1>14, <1>15, <1>16, <1>17, <1>18, <1>19, <1>20, <1>21,
       <1>22
       DEF Progress, Completed


\* The other steps leave the stream alone.
LEMMA OthersKeepStream ==
    ASSUME NEW t \in Threads, Progress(t) \/ Completed(t) \/ Send(t),
           ~SendPush(t), ~Take(t), ~SendFailed(t), ~SendCompleted(t)
    PROVE  /\ UNCHANGED <<pushed, sent, inFlight, sendQueue>>
           /\ "error only logged" \in excused => "error only logged" \in excused'
  BY DEF Progress, Completed, sendVars, Disconnect, RegisterDisconnect, Unlocked,
         AddSession, CreateRIORQ, OnConnected, ReleaseSession, RegisterSend, Post,
         PostFails, HandleError, Kick, ProcessSend, RegisterRecv, PostRecv,
         Accepted, OnDisconnected, RecvCompleted, Send

\* Every step keeps StreamInv: a buffer goes from the queue into the request
\* and from there to the peer in order, and the step that loses one halts.
LEMMA StreamStep ==
    ASSUME TypeOK, Frames, LocalInv, SendInv, SetupInv, StreamInv, NEW t \in Threads,
           Progress(t) \/ Completed(t) \/ Send(t)
    PROVE  StreamInv'
  <1>1. /\ sendQueue \in Seq(Buffers) /\ inFlight \in Seq(Buffers)
        /\ pushed \in Seq(Buffers) /\ sent \in Seq(Buffers)
        /\ <<>> \in Seq(Buffers)
    BY EmptySeq DEF TypeOK
  <1>2. CASE SendPush(t)
    <2>1. PICK b \in Buffers :
              /\ sendQueue' = Append(sendQueue, b) /\ pushed' = Append(pushed, b)
              /\ UNCHANGED <<excused, inFlight, sent>>
      BY <1>2 DEF SendPush, Goto, LocalInv
    <2> SUFFICES ASSUME "error only logged" \notin excused
                 PROVE  IsPrefix(sent', pushed') /\ (Flows' \/ Halted')
      BY <2>1 DEF StreamInv
    <2>2. IsPrefix(sent', pushed')
      BY <1>1, <2>1, PrefixAppend DEF StreamInv
    <2>3. Flows => Flows'
      <3>1. Append(sent \o (inFlight \o sendQueue), b)
                = sent \o (inFlight \o Append(sendQueue, b))
        <4>1. PICK s \in Seq(Buffers), q \in Seq(Buffers), r \in Seq(Buffers) :
                  s = sent /\ q = inFlight /\ r = sendQueue
          BY <1>1
        <4>2. Append(s \o (q \o r), b) = s \o (q \o Append(r, b))
          BY FlowAppend
        <4>. QED
          BY <4>1, <4>2
      <3>. QED
        BY <2>1, <3>1 DEF Flows
    <2>4. Halted => Halted'
      BY <1>2, HaltedStep DEF Progress
    <2>. QED
      BY <2>2, <2>3, <2>4 DEF StreamInv
  <1>3. CASE Take(t)
    <2>1. /\ pc[t] = "take" /\ sendQueue' = <<>> /\ ~Halted
          /\ UNCHANGED <<connected, posted, excused, sendRegistered, pushed, sent>>
      BY <1>3 DEF Take, Goto, Call, Halted
    <2> SUFFICES ASSUME "error only logged" \notin excused PROVE Flows' \/ Halted'
      BY <2>1 DEF StreamInv
    <2>2. CASE inFlight' = inFlight \o sendQueue
      <3>1. inFlight \o sendQueue \in Seq(Buffers)
        BY <1>1, ConcatProperties
      <3>2. (inFlight \o sendQueue) \o <<>> = inFlight \o sendQueue
        BY <3>1, ConcatEmptySeq
      <3>. QED
        BY <2>1, <2>2, <3>2 DEF StreamInv, Flows
    <2>3. CASE Call(t, "take", "unlock")
      <3>1. OwnsSend(t) /\ \A u \in Threads \ {t} : ~OwnsSend(u)
        BY <2>1 DEF SendInv, OwnsSend
      <3>2. sendRegistered /\ "send" \notin posted /\ "accept" \notin posted
        BY <2>1, <3>1 DEF SendInv, SetupInv
      <3>3. \A u \in Threads : ~OwnsSend(u)' /\ pc'[u] \notin {"take", "post"}
        BY <2>3, <3>1 DEF Call, Goto, Frames, OwnsSend, Disconnecting
      <3>. QED
        BY <2>1, <3>2, <3>3 DEF Halted
    <2>. QED
      BY <1>3, <2>2, <2>3 DEF Take
  <1>4. CASE SendFailed(t)
    <2>1. /\ pc[t] = "sendFailed"
          /\ UNCHANGED <<connected, posted, excused, pushed, sent>>
      BY <1>4 DEF SendFailed, Goto, lifeVars
    <2> SUFFICES ASSUME "error only logged" \notin excused PROVE Halted'
      BY <2>1 DEF StreamInv
    <2>2. ~connected
      BY <2>1 DEF LocalInv
    <2>3. OwnsSend(t) /\ \A u \in Threads \ {t} : ~OwnsSend(u)
      BY <2>1 DEF SendInv, OwnsSend
    <2>4. "send" \notin posted /\ "accept" \notin posted
      BY <2>1, <2>3 DEF SendInv, SetupInv
    <2>5. \A u \in Threads : pc'[u] \notin {"take", "post"}
      BY <1>4, <2>3 DEF SendFailed, Goto, Frames, OwnsSend
    <2>. QED
      BY <2>1, <2>2, <2>4, <2>5 DEF Halted
  <1>5. CASE SendCompleted(t)
    <2>1. /\ "send" \in posted /\ posted' = posted \ {"send"} /\ ~Halted
          /\ inFlight' = <<>>
          /\ UNCHANGED <<connected, excused, sendQueue, sendRegistered, pushed>>
      BY <1>5 DEF SendCompleted, Halted
    <2> SUFFICES ASSUME "error only logged" \notin excused
                 PROVE  IsPrefix(sent', pushed') /\ (Flows' \/ Halted')
      BY <2>1 DEF StreamInv
    <2>2. Flows /\ IsPrefix(sent, pushed)
      BY <2>1 DEF StreamInv
    <2>3. CASE sent' = sent \o inFlight
      <3>1. sent \o (inFlight \o sendQueue) = (sent \o inFlight) \o (<<>> \o sendQueue)
        BY <1>1, FlowMove
      <3>2. <<>> \o sendQueue = sendQueue /\ sent \o inFlight \in Seq(Buffers)
        BY <1>1, ConcatEmptySeq, ConcatProperties
      <3>3. Flows'
        BY <2>1, <2>2, <2>3, <3>1 DEF Flows
      <3>4. IsPrefix(sent', pushed')
        BY <1>1, <2>1, <2>2, <2>3, <3>1, <3>2, PrefixConcat DEF Flows
      <3>. QED
        BY <3>3, <3>4
    <2>4. CASE Call(t, "idle", "idle") /\ UNCHANGED sent
      <3>1. sendRegistered /\ "accept" \notin posted /\ \A u \in Threads : ~OwnsSend(u)
        BY <2>1 DEF SendInv, SetupInv
      <3>2. \A u \in Threads : ~OwnsSend(u)' /\ pc'[u] \notin {"take", "post"}
        BY <2>4, <3>1 DEF Call, Goto, Frames, OwnsSend, Disconnecting
      <3>3. Halted'
        BY <2>1, <3>1, <3>2 DEF Halted
      <3>. QED
        BY <2>1, <2>2, <2>4, <3>3
    <2>. QED
      BY <1>5, <2>3, <2>4 DEF SendCompleted
  <1>6. CASE ~SendPush(t) /\ ~Take(t) /\ ~SendFailed(t) /\ ~SendCompleted(t)
    <2>1. /\ UNCHANGED <<pushed, sent, inFlight, sendQueue>>
          /\ "error only logged" \in excused => "error only logged" \in excused'
      BY <1>6, OthersKeepStream
    <2>2. Halted => Halted'
      BY HaltedStep
    <2>3. Flows => Flows'
      BY <2>1 DEF Flows
    <2>. QED
      BY <2>1, <2>2, <2>3 DEF StreamInv
  <1>. QED
    BY <1>2, <1>3, <1>4, <1>5, <1>6

LEMMA InitStream == Init => StreamInv
  <1> SUFFICES ASSUME Init PROVE StreamInv
    OBVIOUS
  <1>1. /\ <<>> \in Seq(Buffers) /\ <<>> \o <<>> = <<>>
    BY EmptySeq, ConcatEmptySeq
  <1>2. IsPrefix(<<>>, <<>>)
    BY <1>1, PrefixConcat
  <1>. QED
    BY <1>1, <1>2 DEF Init, StreamInv, Flows

LEMMA NextStream == IInv /\ StreamInv /\ [Next]_vars => StreamInv'
  <1> SUFFICES ASSUME IInv, StreamInv, [Next]_vars PROVE StreamInv'
    OBVIOUS
  <1>1. Frames
    BY DEF IInv, TypeOK, Frames
  <1>2. CASE Next
    BY <1>1, <1>2, StreamStep DEF Next, IInv
  <1>3. CASE UNCHANGED vars
    <2>1. UNCHANGED <<connected, posted, pc, ret, excused, sendRegistered, pushed,
                      sent, inFlight, sendQueue>>
      BY <1>3 DEF vars, sendVars
    <2>2. (Flows => Flows') /\ (Halted => Halted')
      BY <2>1 DEF Flows, Halted, OwnsSend, Disconnecting
    <2>. QED
      BY <2>1, <2>2 DEF StreamInv
  <1>. QED
    BY <1>2, <1>3

-----------------------------------------------------------------------------
\* Every variable of the session keeps its type.
THEOREM TypeCorrect == Spec => []TypeOK
  <1>1. IInv => TypeOK
    BY DEF IInv
  <1>. QED
    BY <1>1, Inductive, PTL

\* However many threads send, _sendEvent has one user at a time, a thread or
\* the kernel, and _sendRegistered is up as long as it has one.
THEOREM OneSend == Spec => []OneSendAtATime
  <1>1. IInv => OneSendAtATime
    <2>. SUFFICES ASSUME IInv PROVE OneSendAtATime
      OBVIOUS
    <2>1. SendOwners = {t \in Threads : OwnsSend(t)}
      BY DEF SendOwners, OwnsSend
    <2>2. CASE SendOwners = {}
      <3>1. Cardinality(SendOwners) = 0
        BY <2>2, FS_EmptySet
      <3>. QED
        BY <2>2, <3>1 DEF IInv, SendInv, OneSendAtATime
    <2>3. CASE SendOwners # {}
      <3>1. PICK t \in Threads : OwnsSend(t)
        BY <2>1, <2>3
      <3>2. SendOwners = {t}
        BY <2>1, <3>1 DEF IInv, SendInv
      <3>3. Cardinality(SendOwners) = 1
        BY <3>2, FS_Singleton
      <3>4. sendRegistered /\ "send" \notin posted
        BY <3>1 DEF IInv, SendInv
      <3>. QED
        BY <3>3, <3>4 DEF OneSendAtATime
    <2>. QED
      BY <2>2, <2>3
  <1>. QED
    BY <1>1, Inductive, PTL

\* A buffer in _sendQueue of a live connection always has a thread or a
\* completion that will send it: the hand-over of _sendRegistered between
\* Send, ProcessSend and the failure path of RegisterSend loses none.
THEOREM NoBufferStranded == Spec => []NothingStranded
  <1>1. IInv => NothingStranded
    <2>. SUFFICES ASSUME IInv, connected, sendQueue # <<>>,
                         "error only logged" \notin excused
                  PROVE  \/ "send" \in posted \/ SendOwners # {}
                         \/ \E t \in Threads : Disconnecting(t)
      BY DEF NothingStranded
    <2>1. \/ "send" \in posted
          \/ \E t \in Threads : OwnsSend(t) \/ Disconnecting(t)
      BY DEF IInv, TypeOK, QueueInv
    <2>. QED
      BY <2>1 DEF SendOwners, OwnsSend
  <1>. QED
    BY <1>1, Inductive, PTL

\* A live connection never stops receiving.
THEOREM KeepsReceiving == Spec => []StillReceiving
  <1>1. IInv => StillReceiving
    BY DEF IInv
  <1>. QED
    BY <1>1, Inductive, PTL

\* The assertion of Service::ReleaseSession holds, though any thread may
\* disconnect any number of times, and ClientSessionManager keeps no session
\* that was released.
THEOREM ReleasedForGood == Spec => []ReleaseIsFinal
  <1>1. IInv => ReleasedOnce
    BY DEF IInv, EndInv, ReleasedOnce
  <1>2. IInv => NoZombie
    BY DEF IInv, ManagerInv, NoZombie
  <1>3. IInv => ReleaseIsFinal
    BY <1>1, <1>2 DEF ReleaseIsFinal
  <1>. QED
    BY <1>3, Inductive, PTL

\* The peer never gets a buffer after one it did not get: whatever fails, the
\* step that loses a buffer also ends the sending.
THEOREM NoGap == Spec => []StreamHasNoGap
  <1>1. Init => IInv /\ StreamInv
    BY InitInv, InitStream
  <1>2. IInv /\ StreamInv /\ [Next]_vars => IInv' /\ StreamInv'
    BY NextInv, NextStream
  <1>3. StreamInv => StreamHasNoGap
    BY DEF StreamInv, StreamHasNoGap
  <1>. QED
    BY <1>1, <1>2, <1>3, PTL DEF Spec
=============================================================================
