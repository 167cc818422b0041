------------------------------- MODULE Session -------------------------------
(***************************************************************************)
(* ServerCore/Session.cpp: one connection of the server, from its accept   *)
(* to its release.  Any thread may Send; the worker threads process the    *)
(* completions of the requests that are posted to the kernel: at most one  *)
(* send (guarded by _sendRegistered), one receive, and one disconnect.     *)
(*                                                                         *)
(* With UseRIO the requests go to a Registered I/O queue instead of the    *)
(* completion port: the buffers are copied into the session's own          *)
(* _sendBuffer, which may overflow, and the request queue may fail to be   *)
(* created.  The rest of the control is the same.                          *)
(***************************************************************************)
EXTENDS Integers, Sequences, SequencesExt, FiniteSets

CONSTANTS
    Threads,            \* workers and other threads that send
    NoThread,
    MaxSends,           \* bound: calls of Send
    WARN_SENDQUEUE_SIZE,
    KICK_SENDQUEUE_SIZE,
    RioRoom             \* SendBuffers that surely fit in _sendBuffer; of more,
                        \* it depends on their sizes

ASSUME SessionAssumption ==
    /\ NoThread \notin Threads
    /\ {MaxSends, WARN_SENDQUEUE_SIZE, KICK_SENDQUEUE_SIZE, RioRoom} \subseteq Nat

\* The SendBuffers, numbered in the order Send was called with them; 0 is none.
Buffers == 1..MaxSends

VARIABLES
    useRIO,         \* ServerConfig::GetUseRIO, read once at the start
    connected,      \* _connected
    sendQueue,      \* _sendQueue
    sendRegistered, \* _sendRegistered
    sendLock,       \* the thread inside a longer block of SEND_QUEUE_LOCK
    inFlight,       \* the buffers of _sendEvent, or the bytes of _rioSendEvent
    posted,         \* which requests the kernel has: "send", "recv", "disconnect"
    pc, ret, arg,   \* per thread: where it is, where Disconnect returns to,
                    \* and the parameter of Send
    inService,      \* the session is in Service::_sessions
    inManager,      \* the session is in ClientSessionManager::_sessions
    known,          \* OnConnected has published the session
    crash,          \* the ASSERT_CRASH of ReleaseSession
    pushed,         \* history: the buffers in the order they were queued
    sent,           \* history: the buffers the kernel has sent
    excused         \* history: the failures of the environment so far

sendVars == <<sendQueue, sendRegistered, sendLock, inFlight, pushed, sent>>
lifeVars == <<inService, inManager, known, crash>>
vars == <<useRIO, connected, posted, pc, ret, arg, excused, sendVars, lifeVars>>

Init ==
    /\ useRIO \in BOOLEAN
    /\ connected = FALSE
    /\ sendQueue = <<>>
    /\ sendRegistered = FALSE
    /\ sendLock = NoThread
    /\ inFlight = <<>>
    /\ posted = {"accept"}
    /\ pc = [t \in Threads |-> "idle"]
    /\ ret = [t \in Threads |-> "idle"]
    /\ arg = [t \in Threads |-> 0]
    /\ inService = FALSE /\ inManager = FALSE /\ known = FALSE /\ crash = FALSE
    /\ pushed = <<>>
    /\ sent = <<>>
    /\ excused = {}

Goto(t, a, b) ==
    /\ pc[t] = a
    /\ pc' = [pc EXCEPT ![t] = b]

\* From label a into Disconnect, which returns to label b.
Call(t, a, b) ==
    /\ Goto(t, a, "disconnect")
    /\ ret' = [ret EXCEPT ![t] = b]

\* SEND_QUEUE_LOCK is recursive.
CanLock(t) == sendLock \in {t, NoThread}

\* t leaves RegisterSend and, if it came from ProcessSend, its lock.
Unlock(t) == sendLock' = IF sendLock = t THEN NoThread ELSE sendLock

-----------------------------------------------------------------------------
(* Disconnect *)

\* Mutant: _connected.store(false) instead of the exchange.
DisconnectEveryTime(t) ==
    /\ Goto(t, "disconnect", "disconnectEx")
    /\ connected' = FALSE
    /\ UNCHANGED <<useRIO, posted, ret, arg, excused, sendVars, lifeVars>>

\* Mutant: the call of RegisterDisconnect is missing.
DisconnectUnregistered(t) ==
    /\ Goto(t, "disconnect", ret[t])
    /\ connected' = FALSE
    /\ ret' = [ret EXCEPT ![t] = "idle"]
    /\ UNCHANGED <<useRIO, posted, arg, excused, sendVars, lifeVars>>

\* _connected.exchange(false): one caller goes on.
Disconnect(t) ==
    /\ Goto(t, "disconnect", IF connected THEN "disconnectEx" ELSE ret[t])
    /\ connected' = FALSE
    /\ ret' = IF connected THEN ret ELSE [ret EXCEPT ![t] = "idle"]
    /\ UNCHANGED <<useRIO, posted, arg, excused, sendVars, lifeVars>>

\* RegisterDisconnect: nobody looks at its result.
RegisterDisconnect(t) ==
    /\ Goto(t, "disconnectEx", ret[t])
    /\ \/ posted' = posted \cup {"disconnect"} /\ UNCHANGED excused
       \/ excused' = excused \cup {"DisconnectEx"} /\ UNCHANGED posted
    /\ ret' = [ret EXCEPT ![t] = "idle"]
    /\ UNCHANGED <<useRIO, connected, arg, sendVars, lifeVars>>

\* HandleError on a request that failed: Disconnect for the errors it names,
\* a line in the log for any other.
HandleError(t, here, next) ==
    \/ Call(t, here, next) /\ UNCHANGED excused
    \/ /\ Goto(t, here, next)
       /\ excused' = excused \cup {"error only logged"}
       /\ UNCHANGED ret

\* The end of ProcessSend when it called Disconnect under the lock.
Unlocked(t) ==
    /\ Goto(t, "unlock", "idle")
    /\ Unlock(t)
    /\ UNCHANGED <<useRIO, connected, posted, ret, arg, excused, sendQueue,
                   sendRegistered, inFlight, pushed, sent, lifeVars>>

-----------------------------------------------------------------------------
(* ProcessConnect *)

Accepted(t) ==
    /\ "accept" \in posted
    /\ posted' = posted \ {"accept"}
    /\ Goto(t, "idle", "addSession")
    /\ connected' = TRUE
    /\ UNCHANGED <<useRIO, ret, arg, excused, sendVars, lifeVars>>

AddSession(t) ==
    /\ Goto(t, "addSession", IF useRIO THEN "createRQ" ELSE "onConnected")
    /\ inService' = TRUE
    /\ UNCHANGED <<useRIO, connected, posted, ret, arg, excused, sendVars,
                   inManager, known, crash>>

\* Its result is not looked at either; a failure disconnects.
CreateRIORQ(t) ==
    /\ \/ Goto(t, "createRQ", "onConnected") /\ UNCHANGED <<ret, excused>>
       \/ /\ Call(t, "createRQ", "onConnected")
          /\ excused' = excused \cup {"RIOCreateRequestQueue"}
    /\ UNCHANGED <<useRIO, connected, posted, arg, sendVars, lifeVars>>

\* ClientSession::OnConnected
OnConnected(t) ==
    /\ Goto(t, "onConnected", "registerRecv")
    /\ inManager' = TRUE /\ known' = TRUE
    /\ UNCHANGED <<useRIO, connected, posted, ret, arg, excused, sendVars,
                   inService, crash>>

-----------------------------------------------------------------------------
(* ProcessDisconnect *)

OnDisconnected(t) ==
    /\ "disconnect" \in posted
    /\ posted' = posted \ {"disconnect"}
    /\ Goto(t, "idle", "release")
    /\ inManager' = FALSE
    /\ UNCHANGED <<useRIO, connected, ret, arg, excused, sendVars, inService,
                   known, crash>>

ReleaseSession(t) ==
    /\ Goto(t, "release", "idle")
    /\ crash' = ~inService
    /\ inService' = FALSE
    /\ UNCHANGED <<useRIO, connected, posted, ret, arg, excused, sendVars,
                   inManager, known>>

-----------------------------------------------------------------------------
(* Send and RegisterSend *)

\* IsConnected is asked outside the lock; the buffer is dropped when it says
\* no.
Send(t) ==
    LET called == Range(pushed) \cup (Range(arg) \ {0})
        buffer == Cardinality(called) + 1
    IN /\ known /\ connected
       /\ buffer <= MaxSends
       /\ Goto(t, "idle", "push")
       /\ arg' = [arg EXCEPT ![t] = buffer]
       /\ UNCHANGED <<useRIO, connected, posted, ret, excused, sendVars, lifeVars>>

\* Mutant: every sender registers, whoever has done it already.
SendPushRegisters(t) ==
    /\ CanLock(t)
    /\ Goto(t, "push", "registerSend")
    /\ sendQueue' = Append(sendQueue, arg[t])
    /\ pushed' = Append(pushed, arg[t])
    /\ sendRegistered' = TRUE
    /\ arg' = [arg EXCEPT ![t] = 0]
    /\ UNCHANGED <<useRIO, connected, posted, ret, excused, sendLock,
                   inFlight, sent, lifeVars>>

\* The block under SEND_QUEUE_LOCK.
SendPush(t) ==
    /\ CanLock(t)
    /\ Goto(t, "push", IF sendRegistered THEN "idle" ELSE "registerSend")
    /\ sendQueue' = Append(sendQueue, arg[t])
    /\ pushed' = Append(pushed, arg[t])
    /\ sendRegistered' = TRUE
    /\ arg' = [arg EXCEPT ![t] = 0]
    /\ UNCHANGED <<useRIO, connected, posted, ret, excused, sendLock,
                   inFlight, sent, lifeVars>>

RegisterSend(t) ==
    /\ IF connected THEN Goto(t, "registerSend", "take") /\ UNCHANGED sendLock
                    ELSE Goto(t, "registerSend", "idle") /\ Unlock(t)
    /\ UNCHANGED <<useRIO, connected, posted, ret, arg, excused, sendQueue,
                   sendRegistered, inFlight, pushed, sent, lifeVars>>

\* The buffers may not fit in _sendBuffer; the bytes of a failed RIOSend
\* stay in it.
MayOverflow ==
    useRIO /\ (Len(sendQueue) > RioRoom \/ "error only logged" \in excused)

\* Mutant: the overflow returns without its Disconnect.
TakeOverflowsSilently(t) ==
    /\ CanLock(t)
    /\ sendQueue' = <<>>
    /\ \/ /\ Goto(t, "take", "post")
          /\ inFlight' = inFlight \o sendQueue
       \/ /\ MayOverflow
          /\ Goto(t, "take", "unlock")
          /\ UNCHANGED inFlight
    /\ UNCHANGED <<useRIO, connected, posted, ret, arg, excused, sendRegistered,
                   sendLock, pushed, sent, lifeVars>>

\* Everything queued goes into one request.
Take(t) ==
    /\ CanLock(t)
    /\ sendQueue' = <<>>
    /\ \/ /\ Goto(t, "take", "post") /\ UNCHANGED ret
          /\ inFlight' = inFlight \o sendQueue
       \/ /\ MayOverflow
          /\ Call(t, "take", "unlock")
          /\ UNCHANGED inFlight
    /\ UNCHANGED <<useRIO, connected, posted, arg, excused, sendRegistered,
                   sendLock, pushed, sent, lifeVars>>

\* WSASend, or RIOSend under RIO_RQ_LOCK, accepted by the kernel ...
Post(t) ==
    /\ Goto(t, "post", "idle")
    /\ posted' = posted \cup {"send"}
    /\ Unlock(t)
    /\ UNCHANGED <<useRIO, connected, ret, arg, excused, sendQueue,
                   sendRegistered, inFlight, pushed, sent, lifeVars>>

\* Mutant: _sendRegistered is reset before HandleError, not after it.
PostFailsSwapped(t) ==
    /\ Call(t, "post", "unlock")
    /\ inFlight' = <<>>
    /\ sendRegistered' = FALSE
    /\ UNCHANGED <<useRIO, connected, posted, arg, excused, sendQueue, sendLock,
                   pushed, sent, lifeVars>>

\* ... or not.
PostFails(t) ==
    /\ HandleError(t, "post", "sendFailed")
    /\ UNCHANGED <<useRIO, connected, posted, arg, sendVars, lifeVars>>

SendFailed(t) ==
    /\ Goto(t, "sendFailed", "idle")
    /\ inFlight' = <<>>
    /\ sendRegistered' = FALSE
    /\ Unlock(t)
    /\ UNCHANGED <<useRIO, connected, posted, ret, arg, excused, sendQueue,
                   pushed, sent, lifeVars>>

-----------------------------------------------------------------------------
(* ProcessSend *)

\* The completion of a send, with all its bytes or, when the connection is
\* broken, with none.
SendCompleted(t) ==
    /\ "send" \in posted
    /\ posted' = posted \ {"send"}
    /\ inFlight' = <<>>
    /\ \/ /\ Goto(t, "idle", "processSend") /\ UNCHANGED ret
          /\ sent' = sent \o inFlight
       \/ Call(t, "idle", "idle") /\ UNCHANGED sent
    /\ UNCHANGED <<useRIO, connected, arg, excused, sendQueue, sendRegistered,
                   sendLock, pushed, lifeVars>>

\* Mutant: the return after the kick's Disconnect is missing.
KickGoesOn(t) ==
    /\ CanLock(t)
    /\ Len(sendQueue) >= WARN_SENDQUEUE_SIZE
    /\ Call(t, "processSend", "registerSend")
    /\ sendLock' = t
    /\ UNCHANGED <<useRIO, connected, posted, arg, excused, sendQueue,
                   sendRegistered, inFlight, pushed, sent, lifeVars>>

\* Under SEND_QUEUE_LOCK to the end, RegisterSend and Disconnect included.
\* Both thresholds in the code are WARN_SENDQUEUE_SIZE.
Kick(t) ==
    /\ CanLock(t)
    /\ Len(sendQueue) >= WARN_SENDQUEUE_SIZE
    /\ Call(t, "processSend", "unlock")
    /\ sendLock' = t
    /\ UNCHANGED <<useRIO, connected, posted, arg, excused, sendQueue,
                   sendRegistered, inFlight, pushed, sent, lifeVars>>

\* Mutant: the flag is reset without a look at the queue.
ProcessSendForgets(t) ==
    /\ CanLock(t)
    /\ Len(sendQueue) < WARN_SENDQUEUE_SIZE
    /\ Goto(t, "processSend", "idle")
    /\ sendRegistered' = FALSE
    /\ UNCHANGED <<useRIO, connected, posted, ret, arg, excused, sendQueue,
                   sendLock, inFlight, pushed, sent, lifeVars>>

ProcessSend(t) ==
    /\ CanLock(t)
    /\ Len(sendQueue) < WARN_SENDQUEUE_SIZE
    /\ IF sendQueue = <<>>
         THEN /\ Goto(t, "processSend", "idle")
              /\ sendRegistered' = FALSE
              /\ UNCHANGED sendLock
         ELSE /\ Goto(t, "processSend", "registerSend")
              /\ sendLock' = t
              /\ UNCHANGED sendRegistered
    /\ UNCHANGED <<useRIO, connected, posted, ret, arg, excused, sendQueue,
                   inFlight, pushed, sent, lifeVars>>

-----------------------------------------------------------------------------
(* RegisterRecv and ProcessRecv *)

RegisterRecv(t) ==
    /\ Goto(t, "registerRecv", IF connected THEN "postRecv" ELSE "idle")
    /\ UNCHANGED <<useRIO, connected, posted, ret, arg, excused, sendVars,
                   lifeVars>>

PostRecv(t) ==
    /\ \/ /\ Goto(t, "postRecv", "idle")
          /\ posted' = posted \cup {"recv"}
          /\ UNCHANGED <<ret, excused>>
       \/ HandleError(t, "postRecv", "idle") /\ UNCHANGED posted
    /\ UNCHANGED <<useRIO, connected, arg, sendVars, lifeVars>>

\* Mutant: ProcessRecv does not ask for the next bytes.
RecvCompletedOnce(t) ==
    /\ "recv" \in posted
    /\ posted' = posted \ {"recv"}
    /\ \/ Goto(t, "idle", "idle") /\ UNCHANGED ret
       \/ Call(t, "idle", "idle")
    /\ UNCHANGED <<useRIO, connected, arg, excused, sendVars, lifeVars>>

\* Bytes came and OnRecv consumed what it could of them, or the connection is
\* broken, or the bytes are more than the buffer or the handler takes.
RecvCompleted(t) ==
    /\ "recv" \in posted
    /\ posted' = posted \ {"recv"}
    /\ \/ Goto(t, "idle", "registerRecv") /\ UNCHANGED ret
       \/ Call(t, "idle", "idle")
    /\ UNCHANGED <<useRIO, connected, arg, excused, sendVars, lifeVars>>

-----------------------------------------------------------------------------
\* What a thread does once it is in an operation of the session.
Progress(t) ==
    \/ Disconnect(t) \/ RegisterDisconnect(t) \/ Unlocked(t)
    \/ AddSession(t) \/ CreateRIORQ(t) \/ OnConnected(t) \/ ReleaseSession(t)
    \/ SendPush(t) \/ RegisterSend(t) \/ Take(t) \/ Post(t) \/ PostFails(t)
    \/ SendFailed(t) \/ Kick(t) \/ ProcessSend(t)
    \/ RegisterRecv(t) \/ PostRecv(t)

\* What the completion port hands a worker, one completion at a time.
Completed(t) ==
    Accepted(t) \/ OnDisconnected(t) \/ SendCompleted(t) \/ RecvCompleted(t)

Next ==
    \E t \in Threads :
        Progress(t) \/ Completed(t) \/ Send(t)

Spec == Init /\ [][Next]_vars

\* Threads are scheduled, and the kernel completes what it accepted: each kind
\* of request, however many others complete meanwhile.
FairSpec ==
    /\ Spec
    /\ \A t \in Threads : WF_vars(Progress(t))
    /\ SF_vars(\E t \in Threads : SendCompleted(t))
    /\ SF_vars(\E t \in Threads : OnDisconnected(t))

-----------------------------------------------------------------------------
(* Properties *)

Labels == {"idle", "disconnect", "disconnectEx", "unlock", "addSession",
           "createRQ", "onConnected", "release", "push", "registerSend", "take",
           "post", "sendFailed", "processSend", "registerRecv", "postRecv"}
Failures == {"DisconnectEx", "error only logged", "RIOCreateRequestQueue"}

\* The type invariant.
TypeOK ==
    /\ {useRIO, connected, sendRegistered, inService, inManager, known, crash}
           \subseteq BOOLEAN
    /\ sendQueue \in Seq(Buffers) /\ inFlight \in Seq(Buffers)
    /\ pushed \in Seq(Buffers) /\ sent \in Seq(Buffers)
    /\ sendLock \in Threads \cup {NoThread}
    /\ posted \in SUBSET {"accept", "send", "recv", "disconnect"}
    /\ pc \in [Threads -> Labels]
    /\ ret \in [Threads -> {"idle", "unlock", "sendFailed", "onConnected"}]
    /\ arg \in [Threads -> 0..MaxSends]
    /\ excused \in SUBSET Failures

\* t is in Disconnect, or about to call it.
Disconnecting(t) == pc[t] \in {"disconnect", "disconnectEx"}

\* The threads that may touch _sendEvent.
SendOwners ==
    {t \in Threads :
        \/ pc[t] \in {"registerSend", "take", "post", "sendFailed", "processSend"}
        \/ Disconnecting(t) /\ ret[t] = "sendFailed"}

\* One thread at a time prepares a send, and none while the kernel has one:
\* it would clear the OVERLAPPED and the buffers of a request in flight.
OneSendAtATime ==
    /\ Cardinality(SendOwners) + (IF "send" \in posted THEN 1 ELSE 0) <= 1
    /\ "send" \in posted \/ SendOwners # {} => sendRegistered

\* A queued buffer of a live connection has a thread or a completion that
\* will send it.  The exception is a request that failed with an error
\* HandleError only logs: what was queued meanwhile waits for the next Send.
NothingStranded ==
    connected /\ sendQueue # <<>> /\ "error only logged" \notin excused =>
        \/ "send" \in posted \/ SendOwners # {}
        \/ \E t \in Threads : Disconnecting(t)

\* The peer gets the buffers in the order they were queued and never one
\* after a gap, whatever failed in between: a packet stream with a hole
\* cannot be framed again.  The same exception.
StreamHasNoGap == "error only logged" \in excused \/ IsPrefix(sent, pushed)

\* A live connection is receiving, or somebody is about to, or about to end
\* it.  The same exception: the peer would never be heard or missed again.
StillReceiving ==
    connected /\ "error only logged" \notin excused =>
        \/ "recv" \in posted
        \/ \E t \in Threads :
               \/ Disconnecting(t)
               \/ pc[t] \in {"addSession", "createRQ", "onConnected",
                             "registerRecv", "postRecv"}

\* Service.cpp:48 asserts that the session it releases was there: a session
\* is released at most once, and after it was added.
ReleasedOnce == ~crash

\* Once released, the session is no longer in ClientSessionManager and no
\* broadcast meets it.  The exception is a RIO request queue that could not
\* be created: OnDisconnected may then run before OnConnected.
NoZombie ==
    inManager /\ "RIOCreateRequestQueue" \notin excused => inService

\* A session leaves Service and ClientSessionManager once and for all.
ReleaseIsFinal == ReleasedOnce /\ NoZombie

\* A queued buffer is sent in the end, or the connection ends.
QueuedIsSent ==
    \A b \in Buffers :
        b \in Range(pushed) ~>
            \/ b \in Range(sent) \/ ~connected
            \/ "error only logged" \in excused

\* A connection that ended is released, if DisconnectEx was accepted.
EndedIsReleased ==
    inService /\ ~connected ~> ~inService \/ "DisconnectEx" \in excused

\* Session.h:8 and the log line of Session.cpp:420: a session is kicked when
\* KICK_SENDQUEUE_SIZE buffers wait.
KickedAtKickSize ==
    [][\A t \in Threads :
           pc[t] = "processSend" /\ pc'[t] = "disconnect" =>
               Len(sendQueue) >= KICK_SENDQUEUE_SIZE]_vars
=============================================================================
