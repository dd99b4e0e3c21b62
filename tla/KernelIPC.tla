------------------------------- MODULE KernelIPC -------------------------------
(***************************************************************************)
(* Ports, sessions and requests of the kernel: ClientPort, ServerPort,     *)
(* ClientSession, ServerSession, the SVCs on them, and HLERequestContext,  *)
(* through which emulated services answer.  One client process and one     *)
(* server process whose threads make any SVC in any order; of the          *)
(* scheduler only what IPC depends on is kept (KernelCore has the rest).   *)
(***************************************************************************)
EXTENDS Naturals, Sequences, FiniteSets

CONSTANTS
    Clients, Servers,       \* the threads of the two processes
    Sessions, Ports,
    PortOf,                 \* the port each session is made through
    Users,                  \* the threads of the process that connects
    HlePorts,               \* the ports with an HLE handler
    MaxSessions,            \* max_sessions of each port
    TerminateDuringAsync,   \* may the client process end during RunAsync?
    NoThread

Threads == Clients \cup Servers
LlePorts == Ports \ HlePorts

ASSUME IPCAssumption ==
    /\ NoThread \notin Threads \cup Sessions /\ Clients \cap Servers = {}
    /\ Sessions \cap Ports = {} /\ HlePorts \subseteq Ports
    /\ PortOf \in [Sessions -> Ports]
    /\ Users \in [Sessions -> {Clients, Servers}]
    /\ MaxSessions \in [Ports -> Nat]

VARIABLES
    \* class Session: the sessions made, and which of their ends still exist
    created, client, server,
    \* class ServerSession
    pending_requesting_threads, currently_handling, hle_handler,
    \* class ServerPort, class ClientPort
    pending_sessions, active_sessions,
    \* the server process: the sessions it has a handle to
    server_handles,
    \* class Thread
    status, wait_objects, wakeup_callback,
    \* the wakeup events in an event_queue, and those from a ts_queue
    timed, ts_timed,
    \* the threads whose async section runs on a host thread
    host,
    \* the client process: Running, Exited, then Gone
    process,
    \* what went wrong: assertions and exceptions
    faults,
    \* history variable: the session of a thread's unanswered request
    asked

portVars == <<pending_sessions, active_sessions>>
requestVars == <<pending_requesting_threads, currently_handling>>
threadVars == <<status, wait_objects, wakeup_callback>>
wakeupVars == <<timed, ts_timed, host>>
vars == <<created, client, server, requestVars, hle_handler, portVars,
          server_handles, threadVars, wakeupVars, process, faults, asked>>

NoSession == NoThread

Init ==
    /\ created = {} /\ client = {} /\ server = {}
    /\ pending_requesting_threads = [s \in Sessions |-> <<>>]
    /\ currently_handling = [s \in Sessions |-> NoThread]
    /\ hle_handler = {}
    /\ pending_sessions = [p \in Ports |-> <<>>]
    /\ active_sessions = [p \in Ports |-> 0]
    /\ server_handles = {}
    /\ status = [t \in Threads |-> "Running"]
    /\ wait_objects = [t \in Threads |-> {}]
    /\ wakeup_callback = [t \in Threads |-> "None"]
    /\ timed = {} /\ ts_timed = {} /\ host = {}
    /\ process = "Running" /\ faults = {}
    /\ asked = [t \in Threads |-> NoSession]

(***************************************************************************)
(* Helpers.                                                                *)
(***************************************************************************)
IsHle(s) == PortOf[s] \in HlePorts
Elements(q) == {q[i] : i \in 1..Len(q)}
Last(q) == q[Len(q)]
WithoutLast(q) == SubSeq(q, 1, Len(q) - 1)

(* A thread that may make an SVC.                                          *)
Runs(t) == status[t] = "Running" /\ faults = {}

(* Faulty: a request that is being handled does not make others wait.      *)
WaitForPendingOnly(s, handling, pending) == s \in client /\ pending[s] = <<>>

(* ShouldWait of a ServerSession and of a ServerPort.                      *)
SessionShouldWait(s, handling, pending) ==
    s \in client /\ (pending[s] = <<>> \/ handling[s] # NoThread)
PortShouldWait(p) == pending_sessions[p] = <<>>

Waiting(o) == {t \in Threads : o \in wait_objects[t]}

(* The threads W leave their wait lists and are ready: WakeupAllWaiting-   *)
(* Threads with the callbacks, and ResumeFromWait.                         *)
Resume(W) ==
    /\ status' = [t \in Threads |-> IF t \in W /\ status[t] # "Dead"
                                    THEN "Ready" ELSE status[t]]
    /\ wait_objects' = [t \in Threads |-> IF t \in W THEN {} ELSE wait_objects[t]]
    /\ wakeup_callback' = [t \in Threads |-> IF t \in W THEN "None"
                                             ELSE wakeup_callback[t]]

SleepsInHandler(t) == wakeup_callback[t] \in {"Hle", "Async"}

(* Who keeps a ServerSession alive: handles, the queue of its port, the    *)
(* list of its handler, the threads that wait on it, and the contexts of   *)
(* requests that sleep.                                                    *)
Referenced(s) ==
    \/ s \in server_handles
    \/ s \in Elements(pending_sessions[PortOf[s]])
    \/ s \in hle_handler
    \/ \E t \in Threads : s \in wait_objects[t]
    \/ \E t \in Threads : asked[t] = s /\ SleepsInHandler(t)

(* Every action ends so: a ServerSession without references is destroyed,  *)
(* and its port's count goes down.  opened are the sessions just made.     *)
DropUnreferenced(opened) ==
    LET old == server \cup opened
        gone == {s \in old : ~Referenced(s)'} IN
    /\ server' = old \ gone
    /\ active_sessions' = [p \in Ports |->
           active_sessions[p] + Cardinality({s \in opened : PortOf[s] = p})
                              - Cardinality({s \in gone : PortOf[s] = p})]

(***************************************************************************)
(* Connecting and accepting.                                               *)
(***************************************************************************)
(* Faulty: one session more than max_sessions.                             *)
PortNotOverfull(p) == active_sessions[p] <= MaxSessions[p]

PortHasRoom(p) == active_sessions[p] < MaxSessions[p]

(* ConnectToPort and CreateSessionToPort; if the client's handle table is  *)
(* full the new ClientSession dies at once.                                *)
Connect(t, s, handleFits) ==
    LET p == PortOf[s] IN
    /\ t \in Users[s] /\ Runs(t) /\ s \notin created /\ PortHasRoom(p)
    /\ created' = created \cup {s}
    /\ client' = IF handleFits THEN client \cup {s} ELSE client
    /\ IF IsHle(s)
       THEN /\ hle_handler' = IF handleFits THEN hle_handler \cup {s} ELSE hle_handler
            /\ UNCHANGED pending_sessions
       ELSE /\ pending_sessions' = [pending_sessions EXCEPT ![p] = Append(@, s)]
            /\ UNCHANGED hle_handler
    /\ Resume(Waiting(p))
    /\ UNCHANGED <<requestVars, server_handles, wakeupVars, process, faults, asked>>
    /\ DropUnreferenced({s})

(* AcceptSession takes the session that came last.                         *)
AcceptSession(t, p, handleFits) ==
    /\ t \in Servers /\ Runs(t) /\ p \in LlePorts /\ pending_sessions[p] # <<>>
    /\ server_handles' = IF handleFits
                         THEN server_handles \cup {Last(pending_sessions[p])}
                         ELSE server_handles
    /\ pending_sessions' = [pending_sessions EXCEPT ![p] = WithoutLast(@)]
    /\ UNCHANGED <<created, client, requestVars, hle_handler, threadVars,
                   wakeupVars, process, faults, asked>>
    /\ DropUnreferenced({})

(***************************************************************************)
(* SendSyncRequest.  On a session without a server it only returns an      *)
(* error.                                                                  *)
(***************************************************************************)
MayAsk(t, s) == t \in Users[s] /\ Runs(t) /\ s \in client \cap server

(* Faulty: the new request wakes nobody.                                   *)
NobodyWakes(s, pending) == {{}}

(* The threads a new request may wake: any one that waits on the session,  *)
(* if no request is being handled.  Which one is a matter of priorities.   *)
WokenByRequest(s, pending) ==
    IF Waiting(s) = {} \/ SessionShouldWait(s, currently_handling, pending)
    THEN {{}} ELSE {{w} : w \in Waiting(s)}

SendToServer(t, s) ==
    LET pending == [pending_requesting_threads EXCEPT ![s] = Append(@, t)] IN
    /\ MayAsk(t, s) /\ ~IsHle(s)
    /\ asked' = [asked EXCEPT ![t] = s]
    /\ \E W \in WokenByRequest(s, pending) :
          /\ status' = [u \in Threads |-> IF u = t THEN "WaitIPC"
                                          ELSE IF u \in W THEN "Ready" ELSE status[u]]
          /\ wait_objects' = [u \in Threads |-> IF u \in W THEN {} ELSE wait_objects[u]]
          /\ wakeup_callback' = [u \in Threads |-> IF u \in W THEN "None"
                                                   ELSE wakeup_callback[u]]
          /\ currently_handling' = IF W = {} THEN currently_handling
                                   ELSE [currently_handling EXCEPT ![s] = Last(pending[s])]
          /\ pending_requesting_threads' = IF W = {} THEN pending
                                           ELSE [pending EXCEPT ![s] = WithoutLast(@)]
    /\ UNCHANGED <<created, client, hle_handler, pending_sessions, server_handles,
                   wakeupVars, process, faults>>
    /\ DropUnreferenced({})

(* The handler has answered when it returns; a wakeup ends the delay that  *)
(* stands for the time IPC takes.                                          *)
SendToHandler(t, s) ==
    /\ MayAsk(t, s) /\ s \in hle_handler
    /\ status' = [status EXCEPT ![t] = "WaitIPC"]
    /\ timed' = timed \cup {t}
    /\ UNCHANGED <<created, client, server, requestVars, hle_handler, portVars,
                   server_handles, wait_objects, wakeup_callback, ts_timed, host,
                   process, faults, asked>>

(* The handler puts the thread to sleep: until it signals an event, with a *)
(* timeout or without (SleepClientThread), or while host code runs         *)
(* (RunAsync).                                                             *)
SendAndSleep(t, s, timeout, async) ==
    /\ MayAsk(t, s) /\ s \in hle_handler
    /\ status' = [status EXCEPT ![t] = "WaitHleEvent"]
    /\ wakeup_callback' = [wakeup_callback EXCEPT ![t] = IF async THEN "Async" ELSE "Hle"]
    /\ timed' = IF timeout /\ ~async THEN timed \cup {t} ELSE timed
    /\ host' = IF async THEN host \cup {t} ELSE host
    /\ asked' = [asked EXCEPT ![t] = s]
    /\ UNCHANGED <<created, client, server, requestVars, hle_handler, portVars,
                   server_handles, wait_objects, ts_timed, process, faults>>

(* The callback writes the answer, the context goes.                       *)
Answer(t) == asked' = [asked EXCEPT ![t] = NoSession]

(* The service signals the event of a request it put to sleep.             *)
ServiceSignals(t) ==
    /\ faults = {} /\ status[t] = "WaitHleEvent" /\ wakeup_callback[t] = "Hle"
    /\ Resume({t})
    /\ Answer(t)
    /\ UNCHANGED <<created, client, requestVars, hle_handler, pending_sessions,
                   server_handles, wakeupVars, process, faults>>
    /\ DropUnreferenced({})

(* Faulty: the end of the async section is forgotten.                      *)
QueueNothing(t) == ts_timed' = ts_timed

(* WakeAfterDelay in thread-safe mode, at the end of the async section.    *)
QueueWakeup(t) == ts_timed' = ts_timed \cup {t}

AsyncDone(t) ==
    /\ t \in host /\ faults = {}
    /\ host' = host \ {t}
    /\ QueueWakeup(t)
    /\ UNCHANGED <<created, client, server, requestVars, hle_handler, portVars,
                   server_handles, threadVars, timed, process, faults, asked>>

(***************************************************************************)
(* ThreadManager.                                                          *)
(***************************************************************************)
(* ThreadWakeupCallback; a dead thread is not in wakeup_callback_table.    *)
WakeupFires(t) ==
    /\ faults = {} /\ t \in timed \cup ts_timed
    /\ timed' = timed \ {t} /\ ts_timed' = ts_timed \ {t}
    /\ faults' = IF status[t] = "Dead" THEN {"StaleWakeup"}
                 ELSE IF wakeup_callback[t] = "IPC" THEN {"TimeoutOfReceive"}
                 ELSE IF status[t] = "Running" THEN {"WakesRunning"}
                 ELSE {}
    /\ IF status[t] \in {"WaitHleEvent", "WaitIPC", "WaitSynchAny"}
       THEN Resume({t}) /\ Answer(t)
       ELSE UNCHANGED <<threadVars, asked>>
    /\ UNCHANGED <<created, client, requestVars, hle_handler, pending_sessions,
                   server_handles, host, process>>
    /\ DropUnreferenced({})

(* Faulty: a wakeup event outlives the wait it was for.                    *)
KeepWakeups(t) == timed' = timed

(* Only what is in an event_queue can be cancelled.                        *)
CancelWakeups(t) == timed' = timed \ {t}

(* SwitchContext to a thread that is ready.                                *)
Dispatch(t) ==
    /\ faults = {} /\ status[t] = "Ready"
    /\ status' = [status EXCEPT ![t] = "Running"]
    /\ CancelWakeups(t)
    /\ UNCHANGED <<created, client, server, requestVars, hle_handler, portVars,
                   server_handles, wait_objects, wakeup_callback, ts_timed, host,
                   process, faults, asked>>

(***************************************************************************)
(* ReplyAndReceive: answer the request of session r, unless r is           *)
(* NoSession, then receive from one of the objects R or wait for them.     *)
(* A reply to a session that handles no request only returns an error.     *)
(***************************************************************************)
HandlingAfterReply(r) ==
    IF r = NoSession THEN currently_handling
    ELSE [currently_handling EXCEPT ![r] = NoThread]

ReplyMade(t, r) ==
    /\ t \in Servers /\ Runs(t)
    /\ r # NoSession =>
          r \in server_handles /\ r \in client /\ currently_handling[r] # NoThread

Requester(r) == IF r = NoSession THEN {} ELSE {currently_handling[r]}

(* The requester's SendSyncRequest returns.                                *)
AnswerTo(r) ==
    asked' = [t \in Threads |-> IF t \in Requester(r) THEN NoSession ELSE asked[t]]

IsReady(o, handling) ==
    IF o \in Ports THEN ~PortShouldWait(o)
    ELSE ~SessionShouldWait(o, handling, pending_requesting_threads)

Receivable == server_handles \cup LlePorts

(* No objects to wait for: the reply is all.                               *)
Reply(t, r) ==
    /\ ReplyMade(t, r) /\ r # NoSession
    /\ currently_handling' = HandlingAfterReply(r)
    /\ Resume(Requester(r)) /\ AnswerTo(r)
    /\ UNCHANGED <<created, client, pending_requesting_threads, hle_handler,
                   pending_sessions, server_handles, wakeupVars, process, faults>>
    /\ DropUnreferenced({})

(* Object o is ready and comes first in the list.  Acquire pops the        *)
(* request that came last; ports and closed sessions have none.            *)
ReplyAndReceive(t, r, o) ==
    LET handling == HandlingAfterReply(r)
        takes == o \in Sessions /\ o \in client IN
    /\ ReplyMade(t, r) /\ o \in Receivable /\ IsReady(o, handling)
    /\ currently_handling' = IF takes
           THEN [handling EXCEPT ![o] = Last(pending_requesting_threads[o])] ELSE handling
    /\ pending_requesting_threads' = IF takes
           THEN [pending_requesting_threads EXCEPT ![o] = WithoutLast(@)]
           ELSE pending_requesting_threads
    /\ Resume(Requester(r)) /\ AnswerTo(r)
    /\ UNCHANGED <<created, client, hle_handler, pending_sessions, server_handles,
                   wakeupVars, process, faults>>
    /\ DropUnreferenced({})

ReplyAndWait(t, r, R) ==
    LET handling == HandlingAfterReply(r) IN
    /\ ReplyMade(t, r) /\ R \subseteq Receivable
    /\ \A o \in R : ~IsReady(o, handling)
    /\ currently_handling' = handling
    /\ status' = [u \in Threads |->
           IF u = t THEN "WaitSynchAny"
           ELSE IF u \in Requester(r) /\ status[u] # "Dead" THEN "Ready" ELSE status[u]]
    /\ wait_objects' = [wait_objects EXCEPT ![t] = R]
    /\ wakeup_callback' = [wakeup_callback EXCEPT ![t] = "IPC"]
    /\ AnswerTo(r)
    /\ UNCHANGED <<created, client, pending_requesting_threads, hle_handler,
                   pending_sessions, server_handles, wakeupVars, process, faults>>
    /\ DropUnreferenced({})

(***************************************************************************)
(* Closing.                                                                *)
(***************************************************************************)
(* The requests of sessions whose client end goes are forgotten.           *)
ForgetRequests(S) ==
    /\ pending_requesting_threads' = [s \in Sessions |->
           IF s \in S THEN <<>> ELSE pending_requesting_threads[s]]
    /\ currently_handling' = [s \in Sessions |->
           IF s \in S THEN NoThread ELSE currently_handling[s]]

(* Destructors of the ClientSessions S: the server's threads that wait on  *)
(* them learn that they are closed.                                        *)
DestroyClientSessions(S) ==
    /\ client' = client \ S
    /\ ForgetRequests(S)
    /\ hle_handler' = hle_handler \ S
    /\ Resume(UNION {Waiting(s) : s \in S})
    /\ UNCHANGED <<created, pending_sessions, server_handles, wakeupVars, faults, asked>>
    /\ DropUnreferenced({})

(* CloseHandle, of the only handle to the client's end, or the server's.   *)
CloseClientSession(t, s) ==
    /\ t \in Users[s] /\ Runs(t) /\ s \in client
    /\ DestroyClientSessions({s})
    /\ UNCHANGED process

CloseServerSession(t, s) ==
    /\ t \in Servers /\ Runs(t) /\ s \in server_handles
    /\ server_handles' = server_handles \ {s}
    /\ UNCHANGED <<created, client, requestVars, hle_handler, pending_sessions,
                   threadVars, wakeupVars, process, faults, asked>>
    /\ DropUnreferenced({})

(* TerminateProcess stops the threads of the client process wherever they  *)
(* are: their wakeups are cancelled, their callbacks are not run.          *)
TerminateClients ==
    /\ process = "Running" /\ faults = {}
    /\ TerminateDuringAsync \/ host \cup ts_timed = {}
    /\ process' = "Exited"
    /\ timed' = timed \ Clients
    /\ status' = [t \in Threads |-> IF t \in Clients THEN "Dead" ELSE status[t]]
    /\ UNCHANGED <<created, client, server, requestVars, hle_handler, portVars,
                   server_handles, wait_objects, wakeup_callback, ts_timed, host,
                   faults, asked>>

(* The last reference to the process goes: its handle table is cleared.    *)
DestroyProcess ==
    /\ process = "Exited" /\ faults = {}
    /\ process' = "Gone"
    /\ DestroyClientSessions({s \in client : Users[s] = Clients})

(* What happens to a thread that made a request without its doing.         *)
Progress(t) == AsyncDone(t) \/ WakeupFires(t) \/ ServiceSignals(t)

ServerCall(t) ==
    \E r \in server_handles \cup {NoSession} :
        \/ Reply(t, r)
        \/ \E o \in Receivable : ReplyAndReceive(t, r, o)
        \/ \E R \in SUBSET Receivable \ {{}} : ReplyAndWait(t, r, R)

SessionCall(t) ==
    \E s \in Sessions :
        \/ \E fits \in BOOLEAN : Connect(t, s, fits)
        \/ SendToServer(t, s)
        \/ SendToHandler(t, s)
        \/ \E timeout, async \in BOOLEAN : SendAndSleep(t, s, timeout, async)
        \/ CloseClientSession(t, s)
        \/ CloseServerSession(t, s)

Next ==
    \/ \E t \in Threads : Progress(t) \/ Dispatch(t) \/ SessionCall(t)
    \/ \E t \in Servers : ServerCall(t)
    \/ \E t \in Servers, p \in LlePorts, fits \in BOOLEAN : AcceptSession(t, p, fits)
    \/ TerminateClients
    \/ DestroyProcess

Spec == Init /\ [][Next]_vars

(* Host code ends, wakeup events fire, a service signals the event it let  *)
(* a thread wait for.                                                      *)
FairSpec == Spec /\ \A t \in Threads : WF_vars(Progress(t))

(***************************************************************************)
(* Properties.                                                             *)
(***************************************************************************)
(* Every variable has its type; a port's count is never negative           *)
(* (client_port.cpp:51) and never above its limit.                         *)
TypeOK ==
    /\ created \subseteq Sessions /\ client \subseteq created /\ server \subseteq created
    /\ pending_requesting_threads \in [Sessions -> Seq(Threads)]
    /\ currently_handling \in [Sessions -> Threads \cup {NoThread}]
    /\ hle_handler \subseteq Sessions /\ server_handles \subseteq Sessions
    /\ pending_sessions \in [Ports -> Seq(Sessions)]
    /\ \A p \in Ports : active_sessions[p] \in 0..MaxSessions[p]
    /\ status \in [Threads -> {"Running", "Ready", "WaitIPC", "WaitHleEvent",
                               "WaitSynchAny", "Dead"}]
    /\ wait_objects \in [Threads -> SUBSET (Sessions \cup Ports)]
    /\ wakeup_callback \in [Threads -> {"None", "IPC", "Hle", "Async"}]
    /\ timed \subseteq Threads /\ ts_timed \subseteq Threads /\ host \subseteq Threads
    /\ process \in {"Running", "Exited", "Gone"}
    /\ faults \subseteq {"StaleWakeup", "TimeoutOfReceive", "WakesRunning"}
    /\ asked \in [Threads -> Sessions \cup {NoSession}]

(* No wakeup event reaches a thread it was not meant for: not one that     *)
(* runs (thread.cpp:304), not one that waits for requests, which has no    *)
(* timeout (svc.cpp:742), not one that is gone (thread.cpp:242).           *)
NoAssertionFails == faults = {}

(* Thread::Stop cancels "any outstanding wakeup events" (thread.cpp:89)    *)
(* and ThreadWakeupCallback reports a callback for an invalid thread       *)
(* (thread.cpp:243-246): no event ends in the exception of the lookup.     *)
WakeupFindsThread == "StaleWakeup" \notin faults

(* A thread that waits on a session does not sleep while a request is      *)
(* pending there and none is being handled (server_session.cpp:63): with a *)
(* single server thread no wakeup gets lost.                               *)
NoLostRequest ==
    \A s \in Sessions : Waiting(s) # {} =>
        SessionShouldWait(s, currently_handling, pending_requesting_threads)

(* The requests as RequestChannel sees them.                               *)
PhaseOf(t) ==
    LET s == asked[t] IN
    IF s = NoSession THEN "idle"
    ELSE IF SleepsInHandler(t) \/ (currently_handling[s] = t /\ s \in server)
    THEN "taken"
    ELSE IF t \in Elements(pending_requesting_threads[s]) /\ s \in server THEN "asked"
    ELSE "lost"

Channel == INSTANCE RequestChannel WITH
    Guests <- {s \in Sessions : ~IsHle(s)},
    phase <- [t \in Threads |-> PhaseOf(t)],
    to <- asked,
    open <- client \cap server

(* Sessions keep what RequestChannel promises, whoever waits, closes,      *)
(* replies or dies (server_session.cpp:67-141, client_session.cpp:23-58,   *)
(* svc.cpp:942-1045).                                                      *)
ImplementsChannel == Channel!Spec

(* Every request to an emulated service comes to an end, asynchronous or   *)
(* not, unless the process ends (hle_ipc.cpp:108-123, hle_ipc.h:301-325).  *)
HandlersAnswer ==
    \A t \in Threads :
        SleepsInHandler(t) ~> asked[t] = NoSession \/ status[t] = "Dead"
=============================================================================
