------------------------------ MODULE Service ------------------------------
(***************************************************************************)
(* ServerService, its Listener and the completion port: the workers that   *)
(* dispatch completions, and the references that keep a session alive      *)
(* between its accept and its end.  With UseRIO the sends and receives     *)
(* complete in a queue of their own, which the port only announces.        *)
(*                                                                         *)
(* What a session does between two completions is in Session.tla: here a   *)
(* handler is one step, except where it publishes the session midway.      *)
(* Every session has the same RIO queue, index 0: CreateRIORQ asks for the *)
(* one of GetWorkId() before SetWorkId.                                    *)
(***************************************************************************)
EXTENDS Integers, Sequences, SequencesExt, FiniteSets

CONSTANTS
    Workers,
    AcceptEvents,   \* Listener::_acceptEvents
    Sessions,       \* addresses of sessions; bound: how many can be alive
    RIO_DISPATCH_RESULT_COUNT,
    MaxLeaks        \* bound: failures that leave a session behind

ASSUME ServiceAssumption ==
    /\ RIO_DISPATCH_RESULT_COUNT \in Nat \ {0}
    /\ MaxLeaks \in Nat
    /\ \E f \in [AcceptEvents -> Sessions] : IsInjective(f)

VARIABLES
    useRIO,     \* ServerConfig::GetUseRIO
    accepted,   \* AcceptEvent::session
    connected,  \* the sessions with _connected
    owner,      \* per session: which of its events have their owner set
    sessions,   \* Service::_sessions
    managed,    \* ClientSessionManager::_sessions
    kernel,     \* the requests the kernel has
    port,       \* the packets of the completion port
    cq,         \* the RIO completion queue
    armed,      \* RIONotify was called, and has not been answered
    pc,         \* per worker: where it is
    batch,      \* per worker: the completions it has still to dispatch
    excused     \* history: the sessions a failure has left behind

kernelVars == <<kernel, port, cq, armed>>
workerVars == <<pc, batch>>
vars == <<useRIO, accepted, connected, owner, sessions, managed, kernelVars,
          workerVars, excused>>

Notify == <<"notify">>
Kinds == {"recv", "send", "disconnect"}

\* The sessions some shared_ptr refers to; any other was destroyed.
Alive ==
    {s \in Sessions : \/ s \in Range(accepted)
                      \/ s \in sessions \cup managed
                      \/ owner[s] # {}}
Fresh == Sessions \ Alive

\* Start has registered an accept for every event.
Init ==
    /\ useRIO \in BOOLEAN
    /\ accepted = CHOOSE f \in [AcceptEvents -> Sessions] : IsInjective(f)
    /\ connected = {} /\ sessions = {} /\ managed = {} /\ excused = {}
    /\ owner = [s \in Sessions |-> {}]
    /\ kernel = {<<"accept", e>> : e \in AcceptEvents}
    /\ port = <<>> /\ cq = <<>> /\ armed = useRIO
    /\ pc = [w \in Workers |-> "wait"]
    /\ batch = [w \in Workers |-> <<>>]

-----------------------------------------------------------------------------
(* The kernel *)

AcceptsUnderWay ==
    {w \in Workers : batch[w] # <<>> /\ batch[w][1][1] = "accept"}
        \cup {i \in DOMAIN port : port[i][1] = "accept"}

\* Mutant: the queue announces every completion.
CompleteLoud(r) ==
    /\ r \in kernel
    /\ r[1] = "accept" => Cardinality(Fresh) > Cardinality(AcceptsUnderWay)
    /\ kernel' = kernel \ {r}
    /\ IF useRIO /\ r[1] \in {"recv", "send"}
         THEN cq' = Append(cq, r) /\ port' = Append(port, Notify)
         ELSE port' = Append(port, r) /\ UNCHANGED cq
    /\ UNCHANGED <<armed, useRIO, accepted, connected, owner, sessions, managed,
                   workerVars, excused>>

\* A request completes, successfully or not.  A client connects as long as
\* there is an address for the session of the next one.
Complete(r) ==
    /\ r \in kernel
    /\ r[1] = "accept" => Cardinality(Fresh) > Cardinality(AcceptsUnderWay)
    /\ kernel' = kernel \ {r}
    /\ IF useRIO /\ r[1] \in {"recv", "send"}
         THEN /\ cq' = Append(cq, r)
              /\ port' = IF armed THEN Append(port, Notify) ELSE port
              /\ armed' = FALSE
         ELSE port' = Append(port, r) /\ UNCHANGED <<cq, armed>>
    /\ UNCHANGED <<useRIO, accepted, connected, owner, sessions, managed,
                   workerVars, excused>>

-----------------------------------------------------------------------------
(* Requests of a session, by a step that leaves its events the owners o *)

Leak(s) ==
    /\ Cardinality(excused) < MaxLeaks
    /\ excused' = excused \cup {s}

\* Disconnect: only the first call has an effect, and DisconnectEx may fail.
Disconnect(s, o) ==
    IF s \in connected
      THEN /\ connected' = connected \ {s}
           /\ \/ /\ owner' = [owner EXCEPT ![s] = o \cup {"disconnect"}]
                 /\ kernel' = kernel \cup {<<"disconnect", s>>}
                 /\ UNCHANGED excused
              \/ /\ Leak(s)
                 /\ owner' = [owner EXCEPT ![s] = o]
                 /\ UNCHANGED kernel
      ELSE /\ owner' = [owner EXCEPT ![s] = o]
           /\ UNCHANGED <<connected, kernel, excused>>

\* Mutant: the owner of the event is not set.
RegisterUnowned(s, k, o) ==
    IF s \in connected
      THEN \/ /\ owner' = [owner EXCEPT ![s] = o]
              /\ kernel' = kernel \cup {<<k, s>>}
              /\ UNCHANGED <<connected, excused>>
           \/ Disconnect(s, o)
      ELSE /\ owner' = [owner EXCEPT ![s] = o]
           /\ UNCHANGED <<connected, kernel, excused>>

\* RegisterRecv and RegisterSend.  A call that fails disconnects, or is only
\* logged, see HandleError.
Register(s, k, o) ==
    IF s \in connected
      THEN \/ /\ owner' = [owner EXCEPT ![s] = o \cup {k}]
              /\ kernel' = kernel \cup {<<k, s>>}
              /\ UNCHANGED <<connected, excused>>
           \/ Disconnect(s, o)
           \/ /\ owner' = [owner EXCEPT ![s] = o]
              /\ UNCHANGED <<connected, kernel, excused>>
      ELSE /\ owner' = [owner EXCEPT ![s] = o]
           /\ UNCHANGED <<connected, kernel, excused>>

\* The "SendBuffer Over" of RegisterSend returns with the owner set.
RegisterSend(s, o) ==
    \/ Register(s, "send", o)
    \/ /\ useRIO /\ s \in connected
       /\ Leak(s)
       /\ connected' = connected \ {s}
       /\ owner' = [owner EXCEPT ![s] = o \cup {"send", "disconnect"}]
       /\ kernel' = kernel \cup {<<"disconnect", s>>}

\* Any thread that finds the session in the manager may send.
Send(s) ==
    /\ s \in managed /\ "send" \notin owner[s]
    /\ RegisterSend(s, owner[s])
    /\ UNCHANGED <<useRIO, accepted, sessions, managed, port, cq, armed,
                   workerVars>>

-----------------------------------------------------------------------------
(* IocpCore::Dispatch and Service::Dispatch *)

Goto(w, a, b) ==
    /\ pc[w] = a
    /\ pc' = [pc EXCEPT ![w] = b]

\* GetQueuedCompletionStatus
GetQueued(w) ==
    /\ port # <<>>
    /\ port' = Tail(port)
    /\ IF Head(port) = Notify
         THEN Goto(w, "wait", "dequeue") /\ UNCHANGED batch
         ELSE /\ Goto(w, "wait", "dispatch")
              /\ batch' = [batch EXCEPT ![w] = <<Head(port)>>]
    /\ UNCHANGED <<useRIO, accepted, connected, owner, sessions, managed, kernel,
                   cq, armed, excused>>

\* WAIT_TIMEOUT: the worker goes round its loop.
Timeout(w) == pc[w] = "wait" /\ port = <<>> /\ UNCHANGED vars

\* Mutant: RIONotify is called only when the queue was emptied.
DequeueQuiet(w) ==
    LET n == IF Len(cq) < RIO_DISPATCH_RESULT_COUNT
               THEN Len(cq) ELSE RIO_DISPATCH_RESULT_COUNT
    IN /\ Goto(w, "dequeue", IF n = 0 THEN "wait" ELSE "dispatch")
       /\ batch' = [batch EXCEPT ![w] = SubSeq(cq, 1, n)]
       /\ cq' = SubSeq(cq, n + 1, Len(cq))
       /\ armed' = (cq' = <<>>)
       /\ UNCHANGED <<useRIO, accepted, connected, owner, sessions, managed,
                      kernel, port, excused>>

\* RIODequeueCompletion and RIONotify, under the lock.  A queue that is not
\* empty is announced at once.
Dequeue(w) ==
    LET n == IF Len(cq) < RIO_DISPATCH_RESULT_COUNT
               THEN Len(cq) ELSE RIO_DISPATCH_RESULT_COUNT
    IN /\ Goto(w, "dequeue", IF n = 0 THEN "wait" ELSE "dispatch")
       /\ batch' = [batch EXCEPT ![w] = SubSeq(cq, 1, n)]
       /\ cq' = SubSeq(cq, n + 1, Len(cq))
       /\ armed' = (cq' = <<>>)
       /\ port' = IF cq' = <<>> THEN port ELSE Append(port, Notify)
       /\ UNCHANGED <<useRIO, accepted, connected, owner, sessions, managed,
                      kernel, excused>>

\* The worker dispatches a completion of kind k: it takes a shared_ptr from the
\* owner of the event first, and keeps it until the handler has returned.
Dispatches(w, k) == pc[w] = "dispatch" /\ Head(batch[w])[1] = k

\* The accept event, or the session, that the worker's completion belongs to.
Subject(w) == Head(batch[w])[2]

\* The dispatch of one completion ends, from label a.
Dispatched(w, a) ==
    /\ Goto(w, a, IF Len(batch[w]) = 1 THEN "wait" ELSE "dispatch")
    /\ batch' = [batch EXCEPT ![w] = Tail(@)]

-----------------------------------------------------------------------------
(* Listener *)

\* Mutant: a connection that is already gone ends the accept.
ProcessAcceptGivesUp(w) ==
    /\ Dispatches(w, "accept")
    /\ \/ /\ Dispatched(w, "dispatch")
          /\ UNCHANGED <<connected, sessions, managed>>
       \/ /\ Goto(w, "dispatch", "registerRecv")
          /\ connected' = connected \cup {accepted[Subject(w)]}
          /\ sessions' = sessions \cup {accepted[Subject(w)]}
          /\ managed' = managed \cup {accepted[Subject(w)]}
          /\ UNCHANGED batch
    /\ UNCHANGED <<useRIO, accepted, owner, kernelVars, excused>>

\* ProcessAccept: the connection is already gone, or ProcessConnect up to
\* OnConnected, before which nobody else knows the session.
ProcessAccept(w) ==
    /\ Dispatches(w, "accept")
    /\ \/ /\ Goto(w, "dispatch", "registerAccept")
          /\ UNCHANGED <<connected, sessions, managed>>
       \/ /\ Goto(w, "dispatch", "registerRecv")
          /\ connected' = connected \cup {accepted[Subject(w)]}
          /\ sessions' = sessions \cup {accepted[Subject(w)]}
          /\ managed' = managed \cup {accepted[Subject(w)]}
    /\ UNCHANGED <<useRIO, accepted, owner, kernelVars, batch, excused>>

RegisterRecv(w) ==
    /\ Goto(w, "registerRecv", "registerAccept")
    /\ LET s == accepted[Subject(w)] IN Register(s, "recv", owner[s])
    /\ UNCHANGED <<useRIO, accepted, sessions, managed, port, cq, armed, batch>>

\* RegisterAccept creates the session of the next client.  As long as AcceptEx
\* fails at once it calls itself, and drops the session of the attempt before.
RegisterAccept(w) ==
    LET e == Subject(w) IN
    /\ Dispatched(w, "registerAccept")
    /\ Fresh # {}
    /\ accepted' = [accepted EXCEPT ![e] = CHOOSE s \in Fresh : TRUE]
    /\ kernel' = kernel \cup {<<"accept", e>>}
    /\ UNCHANGED <<useRIO, connected, owner, sessions, managed, port, cq, armed,
                   excused>>

-----------------------------------------------------------------------------
(* Session::Dispatch *)

ProcessRecv(w) ==
    LET s == Subject(w)
        o == owner[s] \ {"recv"}
    IN /\ Dispatches(w, "recv")
       /\ Dispatched(w, "dispatch")
       /\ Disconnect(s, o) \/ Register(s, "recv", o)
       /\ UNCHANGED <<useRIO, accepted, sessions, managed, port, cq, armed>>

\* Nothing waits in the send queue, or the next send is registered.
ProcessSend(w) ==
    LET s == Subject(w)
        o == owner[s] \ {"send"}
    IN /\ Dispatches(w, "send")
       /\ Dispatched(w, "dispatch")
       /\ \/ Disconnect(s, o)
          \/ RegisterSend(s, o)
          \/ /\ owner' = [owner EXCEPT ![s] = o]
             /\ UNCHANGED <<connected, kernel, excused>>
       /\ UNCHANGED <<useRIO, accepted, sessions, managed, port, cq, armed>>

\* OnDisconnected and ReleaseSession.
ProcessDisconnect(w) ==
    LET s == Subject(w) IN
    /\ Dispatches(w, "disconnect")
    /\ Dispatched(w, "dispatch")
    /\ owner' = [owner EXCEPT ![s] = @ \ {"disconnect"}]
    /\ managed' = managed \ {s}
    /\ sessions' = sessions \ {s}
    /\ UNCHANGED <<useRIO, accepted, connected, kernelVars, excused>>

-----------------------------------------------------------------------------
Work(w) ==
    \/ GetQueued(w) \/ Dequeue(w)
    \/ ProcessAccept(w) \/ RegisterRecv(w) \/ RegisterAccept(w)
    \/ ProcessRecv(w) \/ ProcessSend(w) \/ ProcessDisconnect(w)

Requests == ({"accept"} \X AcceptEvents) \cup (Kinds \X Sessions)

Next ==
    \/ \E w \in Workers : Work(w) \/ Timeout(w)
    \/ \E r \in Requests : Complete(r)
    \/ \E s \in Sessions : Send(s)

\* The workers keep running, AcceptEx does not fail forever, and the kernel
\* completes every send and every disconnect, and the receive of a connection
\* that is being disconnected.
Fairness ==
    /\ \A w \in Workers : WF_vars(Work(w))
    /\ \A s \in Sessions :
           /\ WF_vars(Complete(<<"send", s>>))
           /\ WF_vars(Complete(<<"disconnect", s>>))
           /\ WF_vars(s \notin connected \cup excused /\ Complete(<<"recv", s>>))

Spec == Init /\ [][Next]_vars /\ Fairness

-----------------------------------------------------------------------------
(* Properties *)

\* The states have their types, and a request or a notification is in one
\* place only.
TypeOK ==
    /\ accepted \in [AcceptEvents -> Sessions]
    /\ connected \subseteq sessions
    /\ sessions \cup managed \subseteq Sessions
    /\ owner \in [Sessions -> SUBSET Kinds]
    /\ kernel \subseteq Requests
    /\ port \in Seq(Requests \cup {Notify}) /\ cq \in Seq(Requests)
    /\ batch \in [Workers -> Seq(Requests)]
    /\ pc \in [Workers -> {"wait", "dequeue", "dispatch",
                           "registerRecv", "registerAccept"}]
    /\ IsInjective(port) /\ IsInjective(cq)
    /\ Range(port) \cap Range(cq) = {}
    /\ kernel \cap (Range(port) \cup Range(cq)) = {}
    /\ armed => useRIO /\ cq = <<>> /\ Notify \notin Range(port)

\* Every completion finds its session alive: from the request on, through the
\* kernel, the port or the RIO queue and a worker's batch, the owner of the
\* event holds it, whatever other workers do with the same session meanwhile.
CompletionsKeepSession ==
    \A k \in Kinds, s \in Sessions :
        (\/ <<k, s>> \in kernel \cup Range(port) \cup Range(cq)
         \/ \E w \in Workers : <<k, s>> \in Range(batch[w]))
            => k \in owner[s]

\* The listener never stops: every accept is posted again and again, whatever
\* becomes of the connections.
KeepsAccepting ==
    \A e \in AcceptEvents : []<>(<<"accept", e>> \in kernel)

\* A session that was disconnected is destroyed in the end, and no completion
\* of it is left in a queue nobody is told of, unless DisconnectEx failed or
\* the RIO send buffer was full (Session.cpp:191, 270).
EndedIsDestroyed ==
    \A s \in Sessions :
        (s \in sessions /\ s \notin connected) ~> (s \notin Alive \/ s \in excused)
=============================================================================
