--------------------------- MODULE KernelIPC_proofs ---------------------------
(***************************************************************************)
(* Ports, sessions and requests, for any threads, sessions and ports: the  *)
(* count of each port is the number of its sessions, no wakeup reaches a   *)
(* thread it was not meant for, and sessions keep what RequestChannel      *)
(* promises.                                                               *)
(***************************************************************************)
EXTENDS KernelIPC, FiniteSetTheorems, SequenceTheorems, TLAPS

USE DEF portVars, requestVars, threadVars, wakeupVars

(***************************************************************************)
(* Sequences.                                                              *)
(***************************************************************************)
LEMMA AppendElements ==
    ASSUME NEW S, NEW q \in Seq(S), NEW e \in S
    PROVE  /\ Append(q, e) \in Seq(S) /\ Append(q, e) # <<>>
           /\ Elements(Append(q, e)) = Elements(q) \cup {e}
           /\ Last(Append(q, e)) = e
           /\ WithoutLast(Append(q, e)) = q
<1> DEFINE a == Append(q, e)
<1>1. /\ a \in Seq(S) /\ Len(a) = Len(q) + 1 /\ Len(q) \in Nat
      /\ a[Len(q) + 1] = e /\ \A i \in 1..Len(q) : a[i] = q[i]
  OBVIOUS
<1> HIDE DEF a
<1>2. Elements(a) = Elements(q) \cup {e}
  BY <1>1 DEF Elements
<1>3. a # <<>> /\ Last(a) = e
  BY <1>1 DEF Last
<1>4. WithoutLast(a) = q
  BY <1>1 DEF WithoutLast
<1> QED
  BY <1>1, <1>2, <1>3, <1>4 DEF a

LEMMA ShorterElements ==
    ASSUME NEW S, NEW q \in Seq(S), q # <<>>
    PROVE  /\ WithoutLast(q) \in Seq(S) /\ Last(q) \in S
           /\ Len(WithoutLast(q)) = Len(q) - 1 /\ Len(q) \in Nat \ {0}
           /\ \A i \in 1..(Len(q) - 1) : WithoutLast(q)[i] = q[i]
           /\ Last(q) \in Elements(q) /\ Elements(WithoutLast(q)) \subseteq Elements(q)
<1>1. Len(q) \in Nat /\ Len(q) >= 1
  OBVIOUS
<1>2. /\ WithoutLast(q) \in Seq(S) /\ Len(WithoutLast(q)) = Len(q) - 1
      /\ \A i \in 1..(Len(q) - 1) : WithoutLast(q)[i] = q[i]
  <2>1. 1..(Len(q) - 1) \subseteq 1..Len(q)
    BY <1>1
  <2>2. \A i \in 1..(Len(q) - 1) : q[i] \in S
    BY <1>1
  <2>3. WithoutLast(q) = [i \in 1..(Len(q) - 1) |-> q[i]]
    BY <1>1, SubSeqProperties DEF WithoutLast
  <2> QED
    BY <1>1, <2>2, <2>3
<1>3. Last(q) \in S /\ Last(q) \in Elements(q)
  BY <1>1 DEF Last, Elements
<1>4. Elements(WithoutLast(q)) \subseteq Elements(q)
  BY <1>1, <1>2 DEF Elements
<1> QED
  BY <1>1, <1>2, <1>3, <1>4

LEMMA EmptyElements == Elements(<<>>) = {}
BY DEF Elements

(***************************************************************************)
(* Types, and the count of each port.                                      *)
(***************************************************************************)
(* TypeOK without the counts.                                              *)
Types ==
    /\ created \subseteq Sessions /\ client \subseteq created /\ server \subseteq created
    /\ pending_requesting_threads \in [Sessions -> Seq(Threads)]
    /\ currently_handling \in [Sessions -> Threads \cup {NoThread}]
    /\ hle_handler \subseteq Sessions /\ server_handles \subseteq Sessions
    /\ pending_sessions \in [Ports -> Seq(Sessions)]
    /\ status \in [Threads -> {"Running", "Ready", "WaitIPC", "WaitHleEvent",
                               "WaitSynchAny", "Dead"}]
    /\ wait_objects \in [Threads -> SUBSET (Sessions \cup Ports)]
    /\ wakeup_callback \in [Threads -> {"None", "IPC", "Hle", "Async"}]
    /\ timed \subseteq Threads /\ ts_timed \subseteq Threads /\ host \subseteq Threads
    /\ process \in {"Running", "Exited", "Gone"}
    /\ faults \subseteq {"StaleWakeup", "TimeoutOfReceive", "WakesRunning"}
    /\ asked \in [Threads -> Sessions \cup {NoSession}]

(* active_sessions counts the ServerSessions of the port that exist.       *)
Counts ==
    /\ IsFiniteSet(server)
    /\ \A p \in Ports :
          /\ active_sessions[p] = Cardinality({s \in server : PortOf[s] = p})
          /\ active_sessions[p] <= MaxSessions[p]

(* What DropUnreferenced leaves.                                           *)
LEMMA DroppedServers ==
    ASSUME NEW opened, DropUnreferenced(opened)
    PROVE  /\ server' \subseteq server \cup opened
           /\ \A s \in server \cup opened : Referenced(s)' => s \in server'
BY DEF DropUnreferenced

LEMMA ResumeTypes ==
    ASSUME NEW W, Types, Resume(W)
    PROVE  /\ status' \in [Threads -> {"Running", "Ready", "WaitIPC", "WaitHleEvent",
                                       "WaitSynchAny", "Dead"}]
           /\ wait_objects' \in [Threads -> SUBSET (Sessions \cup Ports)]
           /\ wakeup_callback' \in [Threads -> {"None", "IPC", "Hle", "Async"}]
BY DEF Types, Resume

LEMMA CountsKept ==
    ASSUME Types, Counts, NEW opened, IsFiniteSet(opened), opened \cap server = {},
           \A p \in Ports : active_sessions[p] + Cardinality({s \in opened : PortOf[s] = p})
                               <= MaxSessions[p],
           DropUnreferenced(opened)
    PROVE  Counts'
<1> DEFINE old == server \cup opened
           Of(S, p) == {s \in S : PortOf[s] = p}
<1>1. PICK gone : gone = {s \in old : ~Referenced(s)'}
  OBVIOUS
<1>2. /\ server' = old \ gone /\ gone \subseteq old
      /\ \A p \in Ports : active_sessions'[p] =
            active_sessions[p] + Cardinality(Of(opened, p)) - Cardinality(Of(gone, p))
  BY <1>1 DEF DropUnreferenced
<1>3. IsFiniteSet(server) /\ IsFiniteSet(old) /\ IsFiniteSet(gone)
  <2>1. IsFiniteSet(old)
    BY FS_Union DEF Counts
  <2> QED
    BY <2>1, <1>2, FS_Subset DEF Counts
<1>4. IsFiniteSet(server')
  BY <1>2, <1>3, FS_Difference
<1>5. ASSUME NEW p \in Ports
      PROVE  /\ active_sessions'[p] = Cardinality(Of(server', p))
             /\ active_sessions'[p] <= MaxSessions[p]
  <2>1. PICK A, B, C, D : /\ A = Of(server, p) /\ B = Of(opened, p) /\ C = Of(gone, p)
                          /\ D = Of(server', p)
    OBVIOUS
  <2>2. D = (A \cup B) \ C /\ (A \cup B) \cap C = C /\ A \cap B = {}
    BY <1>2, <2>1
  <2>3. IsFiniteSet(A) /\ IsFiniteSet(B) /\ IsFiniteSet(C)
    BY <1>3, <2>1, FS_Subset
  <2>4. /\ Cardinality(A) \in Nat /\ Cardinality(B) \in Nat /\ Cardinality(C) \in Nat
    BY <2>3, FS_CardinalityType
  <2>5. IsFiniteSet(A \cup B) /\ Cardinality(A \cup B) = Cardinality(A) + Cardinality(B)
    <3>1. Cardinality({}) = 0
      BY FS_EmptySet
    <3>2. /\ IsFiniteSet(A \cup B)
          /\ Cardinality(A \cup B) = Cardinality(A) + Cardinality(B) - Cardinality(A \cap B)
      BY <2>3, FS_Union
    <3>3. Cardinality(A \cap B) = 0
      BY <2>2, <3>1
    <3> QED
      BY <2>4, <3>2, <3>3
  <2>6. Cardinality(D) = Cardinality(A) + Cardinality(B) - Cardinality(C)
    <3>1. PICK X : X = A \cup B
      OBVIOUS
    <3>2. IsFiniteSet(X)
      BY <2>5, <3>1
    <3>4. Cardinality(X \ C) = Cardinality(X) - Cardinality(X \cap C)
      BY <3>2, FS_Difference
    <3>3. X \cap C = C /\ D = X \ C
      BY <2>2, <3>1
    <3>5. Cardinality(D) = Cardinality(X) - Cardinality(C)
      BY <3>3, <3>4, Zenon
    <3>6. Cardinality(X) = Cardinality(A) + Cardinality(B)
      BY <2>5, <3>1
    <3> QED
      BY <2>4, <3>5, <3>6
  <2>7. active_sessions[p] = Cardinality(A)
    BY <2>1 DEF Counts
  <2>8. active_sessions'[p] = Cardinality(D)
    BY <1>2, <2>1, <2>6, <2>7
  <2>9. active_sessions[p] + Cardinality(B) <= MaxSessions[p]
    BY <2>1
  <2>10. MaxSessions[p] \in Nat
    BY IPCAssumption
  <2> QED
    BY <2>1, <2>4, <2>6, <2>7, <2>8, <2>9, <2>10
<1> QED
  BY <1>4, <1>5 DEF Counts

(* No session is made: the counts go down with the sessions that end.      *)
LEMMA CountsDropped ==
    ASSUME Types, Counts, DropUnreferenced({})
    PROVE  Counts'
<1>1. \A p \in Ports : {s \in {} : PortOf[s] = p} = {}
  OBVIOUS
<1>2. \A p \in Ports : active_sessions[p] \in Nat
  <2>1. \A p \in Ports : IsFiniteSet({s \in server : PortOf[s] = p})
    BY FS_Subset DEF Counts
  <2> QED
    BY <2>1, FS_CardinalityType DEF Counts
<1>3. \A p \in Ports : active_sessions[p] + Cardinality({s \in {} : PortOf[s] = p})
                          <= MaxSessions[p]
  <2>1. Cardinality({}) = 0
    BY FS_EmptySet
  <2>2. \A p \in Ports : Cardinality({s \in {} : PortOf[s] = p}) = 0
    <3> TAKE p \in Ports
    <3>1. PICK E : E = {s \in {} : PortOf[s] = p}
      OBVIOUS
    <3>2. E = {}
      BY <3>1
    <3> QED
      BY <2>1, <3>1, <3>2
  <2>3. \A p \in Ports : active_sessions[p] <= MaxSessions[p]
    BY DEF Counts
  <2> TAKE p \in Ports
  <2>4. active_sessions[p] + 0 <= MaxSessions[p]
    BY <1>2, <2>3
  <2> QED
    BY <2>2, <2>4
<1> QED
  BY <1>3, FS_EmptySet, CountsKept

LEMMA CountsUnchanged ==
    ASSUME Counts, server' = server, active_sessions' = active_sessions
    PROVE  Counts'
BY DEF Counts

LEMMA TypesStep ==
    ASSUME Types, Next
    PROVE  Types'
<1> USE IPCAssumption DEF NoSession
<1>1. ASSUME NEW t \in Threads, AsyncDone(t)
      PROVE  Types'
  BY <1>1 DEF AsyncDone, QueueWakeup, Types
<1>2. ASSUME NEW t \in Threads, WakeupFires(t)
      PROVE  Types'
  <2>1. server' \subseteq server
    BY <1>2, DroppedServers DEF WakeupFires
  <2>2. CASE status[t] \in {"WaitHleEvent", "WaitIPC", "WaitSynchAny"}
    <3>1. Resume({t}) /\ Answer(t)
      BY <1>2, <2>2 DEF WakeupFires
    <3>2. asked' \in [Threads -> Sessions \cup {NoSession}]
      BY <3>1 DEF Answer, Types
    <3> QED
      BY <1>2, <2>1, <3>1, <3>2, ResumeTypes DEF WakeupFires, Types
  <2>3. CASE status[t] \notin {"WaitHleEvent", "WaitIPC", "WaitSynchAny"}
    BY <1>2, <2>1, <2>3 DEF WakeupFires, Types
  <2> QED
    BY <2>2, <2>3
<1>3. ASSUME NEW t \in Threads, ServiceSignals(t)
      PROVE  Types'
  <2>1. server' \subseteq server
    BY <1>3, DroppedServers DEF ServiceSignals
  <2>2. asked' \in [Threads -> Sessions \cup {NoSession}]
    BY <1>3 DEF ServiceSignals, Answer, Types
  <2> QED
    BY <1>3, <2>1, <2>2, ResumeTypes DEF ServiceSignals, Types
<1>4. ASSUME NEW t \in Threads, Dispatch(t)
      PROVE  Types'
  BY <1>4 DEF Dispatch, CancelWakeups, Types
<1>5. ASSUME NEW t \in Threads, NEW s \in Sessions, NEW fits \in BOOLEAN, Connect(t, s, fits)
      PROVE  Types'
  <2>1. server' \subseteq server \cup {s} /\ created' = created \cup {s}
    BY <1>5, DroppedServers DEF Connect
  <2>2. pending_sessions' \in [Ports -> Seq(Sessions)]
    <3>1. pending_sessions[PortOf[s]] \in Seq(Sessions)
      BY DEF Types
    <3>2. Append(pending_sessions[PortOf[s]], s) \in Seq(Sessions)
      BY <3>1, AppendElements
    <3>3. \/ pending_sessions' = pending_sessions
          \/ pending_sessions' = [pending_sessions EXCEPT ![PortOf[s]] = Append(@, s)]
      BY <1>5 DEF Connect
    <3> QED
      BY <3>2, <3>3 DEF Types
  <2>3. client' \subseteq created' /\ hle_handler' \subseteq Sessions
    BY <1>5 DEF Connect, Types
  <2> QED
    BY <1>5, <2>1, <2>2, <2>3, ResumeTypes DEF Connect, Types
<1>6. ASSUME NEW t \in Threads, NEW s \in Sessions, SendToServer(t, s)
      PROVE  Types'
  <2>1. server' \subseteq server
    BY <1>6, DroppedServers DEF SendToServer
  <2>2. PICK pending :
            pending = [pending_requesting_threads EXCEPT ![s] = Append(@, t)]
    OBVIOUS
  <2>3. /\ pending \in [Sessions -> Seq(Threads)] /\ pending[s] # <<>>
        /\ Last(pending[s]) \in Threads /\ WithoutLast(pending[s]) \in Seq(Threads)
    <3>1. pending[s] = Append(pending_requesting_threads[s], t)
      BY <2>2 DEF Types
    <3>2. /\ Append(pending_requesting_threads[s], t) \in Seq(Threads)
          /\ Append(pending_requesting_threads[s], t) # <<>>
      <4>1. pending_requesting_threads[s] \in Seq(Threads)
        BY DEF Types
      <4> QED
        BY <4>1, AppendElements
    <3>3. pending \in [Sessions -> Seq(Threads)]
      BY <2>2, <3>2 DEF Types
    <3> QED
      BY <3>1, <3>2, <3>3, ShorterElements
  <2>4. PICK W : /\ status' = [u \in Threads |-> IF u = t THEN "WaitIPC"
                                  ELSE IF u \in W THEN "Ready" ELSE status[u]]
                 /\ wait_objects' = [u \in Threads |-> IF u \in W THEN {} ELSE wait_objects[u]]
                 /\ wakeup_callback' = [u \in Threads |-> IF u \in W THEN "None"
                                                          ELSE wakeup_callback[u]]
                 /\ currently_handling' = IF W = {} THEN currently_handling
                        ELSE [currently_handling EXCEPT ![s] = Last(pending[s])]
                 /\ pending_requesting_threads' = IF W = {} THEN pending
                        ELSE [pending EXCEPT ![s] = WithoutLast(@)]
    BY <1>6, <2>2 DEF SendToServer
  <2>5. /\ status' \in [Threads -> {"Running", "Ready", "WaitIPC", "WaitHleEvent",
                                    "WaitSynchAny", "Dead"}]
        /\ wait_objects' \in [Threads -> SUBSET (Sessions \cup Ports)]
        /\ wakeup_callback' \in [Threads -> {"None", "IPC", "Hle", "Async"}]
    BY <2>4 DEF Types
  <2>6. /\ currently_handling' \in [Sessions -> Threads \cup {NoThread}]
        /\ pending_requesting_threads' \in [Sessions -> Seq(Threads)]
    BY <2>3, <2>4 DEF Types
  <2>7. asked' \in [Threads -> Sessions \cup {NoSession}]
    BY <1>6 DEF SendToServer, Types
  <2> QED
    BY <1>6, <2>1, <2>5, <2>6, <2>7 DEF SendToServer, Types
<1>7. ASSUME NEW t \in Threads, NEW s \in Sessions, SendToHandler(t, s)
      PROVE  Types'
  BY <1>7 DEF SendToHandler, Types
<1>8. ASSUME NEW t \in Threads, NEW s \in Sessions, NEW timeout \in BOOLEAN,
             NEW async \in BOOLEAN, SendAndSleep(t, s, timeout, async)
      PROVE  Types'
  BY <1>8 DEF SendAndSleep, Types
<1>9. ASSUME NEW S, DestroyClientSessions(S), process' \in {"Running", "Exited", "Gone"}
      PROVE  Types'
  <2>1. server' \subseteq server
    BY <1>9, DroppedServers DEF DestroyClientSessions
  <2>2. /\ currently_handling' \in [Sessions -> Threads \cup {NoThread}]
        /\ pending_requesting_threads' \in [Sessions -> Seq(Threads)]
    BY <1>9 DEF DestroyClientSessions, ForgetRequests, Types
  <2> QED
    BY <1>9, <2>1, <2>2, ResumeTypes DEF DestroyClientSessions, Types
<1>10. ASSUME NEW t \in Threads, NEW s \in Sessions, CloseClientSession(t, s)
       PROVE  Types'
  BY <1>9, <1>10 DEF CloseClientSession, Types
<1>11. ASSUME NEW t \in Threads, NEW s \in Sessions, CloseServerSession(t, s)
       PROVE  Types'
  <2>1. server' \subseteq server
    BY <1>11, DroppedServers DEF CloseServerSession
  <2> QED
    BY <1>11, <2>1 DEF CloseServerSession, Types
<1>12. ASSUME NEW r \in server_handles \cup {NoSession}
       PROVE  /\ HandlingAfterReply(r) \in [Sessions -> Threads \cup {NoThread}]
              /\ AnswerTo(r) => asked' \in [Threads -> Sessions \cup {NoSession}]
  BY DEF HandlingAfterReply, AnswerTo, Types
<1>13. ASSUME NEW t \in Servers, NEW r \in server_handles \cup {NoSession}, Reply(t, r)
       PROVE  Types'
  <2>1. server' \subseteq server
    BY <1>13, DroppedServers DEF Reply
  <2> QED
    BY <1>13, <1>12, <2>1, ResumeTypes DEF Reply, Types
<1>14. ASSUME NEW t \in Servers, NEW r \in server_handles \cup {NoSession},
              NEW o \in Receivable, ReplyAndReceive(t, r, o)
       PROVE  Types'
  <2>1. server' \subseteq server
    BY <1>14, DroppedServers DEF ReplyAndReceive
  <2>2. PICK handling : handling = HandlingAfterReply(r)
    OBVIOUS
  <2>3. handling \in [Sessions -> Threads \cup {NoThread}]
    BY <1>12, <2>2
  <2>4. /\ currently_handling' \in [Sessions -> Threads \cup {NoThread}]
        /\ pending_requesting_threads' \in [Sessions -> Seq(Threads)]
    <3>1. CASE o \in Sessions /\ o \in client
      <4>1. pending_requesting_threads[o] # <<>>
        BY <1>14, <3>1 DEF ReplyAndReceive, IsReady, SessionShouldWait
      <4>2. /\ WithoutLast(pending_requesting_threads[o]) \in Seq(Threads)
            /\ Last(pending_requesting_threads[o]) \in Threads
        BY <3>1, <4>1, ShorterElements DEF Types
      <4>3. /\ currently_handling' =
                  [handling EXCEPT ![o] = Last(pending_requesting_threads[o])]
            /\ pending_requesting_threads' =
                  [pending_requesting_threads EXCEPT ![o] = WithoutLast(@)]
        BY <1>14, <2>2, <3>1 DEF ReplyAndReceive
      <4> QED
        BY <2>3, <4>2, <4>3 DEF Types
    <3>2. CASE ~(o \in Sessions /\ o \in client)
      <4>1. /\ currently_handling' = handling
            /\ pending_requesting_threads' = pending_requesting_threads
        BY <1>14, <2>2, <3>2 DEF ReplyAndReceive
      <4> QED
        BY <2>3, <4>1 DEF Types
    <3> QED
      BY <3>1, <3>2
  <2>5. Resume(Requester(r)) /\ asked' \in [Threads -> Sessions \cup {NoSession}]
    BY <1>12, <1>14 DEF ReplyAndReceive
  <2> QED
    BY <1>14, <2>1, <2>4, <2>5, ResumeTypes DEF ReplyAndReceive, Types
<1>15. ASSUME NEW t \in Servers, NEW r \in server_handles \cup {NoSession},
              NEW R \in SUBSET Receivable, ReplyAndWait(t, r, R)
       PROVE  Types'
  <2>1. server' \subseteq server
    BY <1>15, DroppedServers DEF ReplyAndWait
  <2>2. /\ currently_handling' \in [Sessions -> Threads \cup {NoThread}]
        /\ asked' \in [Threads -> Sessions \cup {NoSession}]
    BY <1>12, <1>15 DEF ReplyAndWait
  <2>3. /\ status' \in [Threads -> {"Running", "Ready", "WaitIPC", "WaitHleEvent",
                                    "WaitSynchAny", "Dead"}]
        /\ wakeup_callback' \in [Threads -> {"None", "IPC", "Hle", "Async"}]
    BY <1>15 DEF ReplyAndWait, Types
  <2>4. wait_objects' \in [Threads -> SUBSET (Sessions \cup Ports)]
    <3>1. R \subseteq Sessions \cup Ports
      BY DEF Receivable, LlePorts, Types
    <3> QED
      BY <1>15, <3>1 DEF ReplyAndWait, Types
  <2> QED
    BY <1>15, <2>1, <2>2, <2>3, <2>4 DEF ReplyAndWait, Types
<1>16. ASSUME NEW t \in Servers, NEW p \in LlePorts, NEW fits \in BOOLEAN,
              AcceptSession(t, p, fits)
       PROVE  Types'
  <2>1. server' \subseteq server
    BY <1>16, DroppedServers DEF AcceptSession
  <2>2. /\ pending_sessions[p] \in Seq(Sessions) /\ pending_sessions[p] # <<>>
        /\ p \in Ports
    BY <1>16 DEF AcceptSession, LlePorts, Types
  <2>3. /\ WithoutLast(pending_sessions[p]) \in Seq(Sessions)
        /\ Last(pending_sessions[p]) \in Sessions
    BY <2>2, ShorterElements
  <2> QED
    BY <1>16, <2>1, <2>2, <2>3 DEF AcceptSession, Types
<1>17. ASSUME TerminateClients
       PROVE  Types'
  BY <1>17 DEF TerminateClients, Types
<1>18. ASSUME DestroyProcess
       PROVE  Types'
  BY <1>9, <1>18 DEF DestroyProcess
<1> QED
  BY <1>1, <1>2, <1>3, <1>4, <1>5, <1>6, <1>7, <1>8, <1>10, <1>11, <1>13, <1>14, <1>15,
     <1>16, <1>17, <1>18 DEF Next, Progress, SessionCall, ServerCall

LEMMA CountsStep ==
    ASSUME Types, Counts, Next
    PROVE  Counts'
<1>1. ASSUME NEW t \in Threads, NEW s \in Sessions, NEW fits \in BOOLEAN, Connect(t, s, fits)
      PROVE  Counts'
  <2>1. s \notin server /\ active_sessions[PortOf[s]] < MaxSessions[PortOf[s]]
    BY <1>1 DEF Connect, PortHasRoom, Types
  <2>2. ASSUME NEW p \in Ports
        PROVE  active_sessions[p] + Cardinality({x \in {s} : PortOf[x] = p})
                  <= MaxSessions[p]
    <3>1. /\ active_sessions[p] \in Nat /\ active_sessions[p] <= MaxSessions[p]
          /\ MaxSessions[p] \in Nat
      <4>1. IsFiniteSet({x \in server : PortOf[x] = p})
        BY FS_Subset DEF Counts
      <4> QED
        BY <4>1, FS_CardinalityType, IPCAssumption DEF Counts
    <3>2. PICK E : E = {x \in {s} : PortOf[x] = p}
      OBVIOUS
    <3>3. CASE PortOf[s] = p
      <4>1. E = {s}
        BY <3>2, <3>3
      <4>2. Cardinality({s}) = 1
        BY FS_Singleton
      <4>3. Cardinality(E) = 1
        BY <4>1, <4>2
      <4> QED
        BY <2>1, <3>1, <3>2, <3>3, <4>3
    <3>4. CASE PortOf[s] # p
      <4>1. E = {}
        BY <3>2, <3>4
      <4>2. Cardinality({}) = 0
        BY FS_EmptySet
      <4>3. Cardinality(E) = 0
        BY <4>1, <4>2
      <4> QED
        BY <3>1, <3>2, <4>3
    <3> QED
      BY <3>3, <3>4
  <2>3. IsFiniteSet({s}) /\ {s} \cap server = {}
    BY <2>1, FS_Singleton
  <2>4. DropUnreferenced({s})
    BY <1>1 DEF Connect
  <2> QED
    BY <2>2, <2>3, <2>4, CountsKept
<1>2. CASE DropUnreferenced({})
  BY <1>2, CountsDropped
<1>3. CASE server' = server /\ active_sessions' = active_sessions
  BY <1>3, CountsUnchanged
<1>4. \/ \E t \in Threads, s \in Sessions, fits \in BOOLEAN : Connect(t, s, fits)
      \/ DropUnreferenced({})
      \/ server' = server /\ active_sessions' = active_sessions
  <2>1. ASSUME NEW t \in Threads, Progress(t) \/ Dispatch(t)
        PROVE  \/ DropUnreferenced({})
               \/ server' = server /\ active_sessions' = active_sessions
    <3>1. ASSUME AsyncDone(t)
          PROVE  server' = server /\ active_sessions' = active_sessions
      BY <3>1 DEF AsyncDone
    <3>2. ASSUME Dispatch(t)
          PROVE  server' = server /\ active_sessions' = active_sessions
      BY <3>2 DEF Dispatch
    <3>3. WakeupFires(t) => DropUnreferenced({})
      BY DEF WakeupFires
    <3>4. ServiceSignals(t) => DropUnreferenced({})
      BY DEF ServiceSignals
    <3> QED
      BY <2>1, <3>1, <3>2, <3>3, <3>4 DEF Progress
  <2>2. ASSUME NEW t \in Threads, SessionCall(t)
        PROVE  \/ \E s \in Sessions, fits \in BOOLEAN : Connect(t, s, fits)
               \/ DropUnreferenced({})
               \/ server' = server /\ active_sessions' = active_sessions
    BY <2>2 DEF SessionCall, SendToServer, SendToHandler, SendAndSleep, CloseClientSession,
                DestroyClientSessions, CloseServerSession
  <2>3. ASSUME NEW t \in Servers, ServerCall(t)
        PROVE  DropUnreferenced({})
    BY <2>3 DEF ServerCall, Reply, ReplyAndReceive, ReplyAndWait
  <2> QED
    BY <2>1, <2>2, <2>3 DEF Next, AcceptSession, TerminateClients, DestroyProcess,
                            DestroyClientSessions
<1> QED
  BY <1>1, <1>2, <1>3, <1>4

(* Every variable has its type, and a port's count is between zero and its *)
(* limit: the port never loses count of its sessions, whichever end goes   *)
(* first (client_port.cpp:26-52, server_session.cpp:35-47).                 *)
THEOREM IPCTypeCorrect == Spec => [](TypeOK /\ Types /\ Counts)
<1>1. Init => Types /\ Counts
  <2>1. ASSUME Init
        PROVE  Types
    BY <2>1 DEF Init, Types, NoSession
  <2>2. ASSUME Init
        PROVE  Counts
    <3>1. server = {} /\ \A p \in Ports : active_sessions[p] = 0 /\ MaxSessions[p] \in Nat
      BY <2>2, IPCAssumption DEF Init
    <3>2. \A p \in Ports : {s \in server : PortOf[s] = p} = {}
      BY <3>1
    <3>3. IsFiniteSet({}) /\ Cardinality({}) = 0
      BY FS_EmptySet
    <3>4. \A p \in Ports : Cardinality({s \in server : PortOf[s] = p}) = 0
      BY <3>2, <3>3
    <3>5. IsFiniteSet(server)
      BY <3>1, <3>3
    <3> QED
      BY <3>1, <3>4, <3>5 DEF Counts
  <2> QED
    BY <2>1, <2>2
<1>2. Types /\ Counts /\ [Next]_vars => (Types /\ Counts)'
  <2>1. ASSUME Types, Counts, UNCHANGED vars
        PROVE  Types' /\ Counts'
    BY <2>1, CountsUnchanged DEF vars, Types
  <2> QED
    BY <2>1, TypesStep, CountsStep
<1>3. Types /\ Counts => TypeOK
  <2>1. ASSUME Counts, NEW p \in Ports
        PROVE  active_sessions[p] \in 0..MaxSessions[p]
    <3>1. IsFiniteSet({x \in server : PortOf[x] = p})
      BY <2>1, FS_Subset DEF Counts
    <3> QED
      BY <2>1, <3>1, FS_CardinalityType, IPCAssumption DEF Counts
  <2> QED
    BY <2>1 DEF Types, TypeOK
<1> HIDE DEF Types, Counts, TypeOK
<1> QED
  BY <1>1, <1>2, <1>3, PTL DEF Spec

(***************************************************************************)
(* Threads that wait, the requests they made, and the sessions.            *)
(***************************************************************************)
(* How a thread waits tells which wakeups are under way for it: a timeout  *)
(* for one that waits for a handler's delay or event, or that was woken    *)
(* and not yet dispatched; the end of an async section for one whose       *)
(* callback is that section's, unless it was terminated.                   *)
WakeupOf(t) ==
    /\ status[t] \in {"Running", "Ready", "WaitIPC"} =>
          wakeup_callback[t] = "None" /\ wait_objects[t] = {}
    /\ status[t] = "WaitHleEvent" => SleepsInHandler(t) /\ wait_objects[t] = {}
    /\ status[t] = "WaitSynchAny" => wakeup_callback[t] = "IPC" /\ t \in Servers
    /\ status[t] = "Dead" => t \in Clients /\ wait_objects[t] = {}
    /\ t \in timed => \/ status[t] \in {"Ready", "WaitIPC"}
                      \/ status[t] = "WaitHleEvent" /\ wakeup_callback[t] = "Hle"
    /\ t \in ts_timed \cup host =>
          \/ status[t] = "WaitHleEvent" /\ wakeup_callback[t] = "Async"
          \/ status[t] = "Dead" /\ TerminateDuringAsync
    /\ ~(t \in ts_timed /\ t \in host)

(* A request to a handler that sleeps is on one of its sessions; a thread  *)
(* whose request waits for a guest server sleeps without a timeout.        *)
RequestOf(t) ==
    /\ SleepsInHandler(t) => /\ status[t] \in {"WaitHleEvent", "Dead"}
                             /\ asked[t] \in Sessions /\ IsHle(asked[t])
    /\ asked[t] # NoSession /\ ~SleepsInHandler(t) =>
          status[t] \in {"WaitIPC", "Dead"} /\ t \notin timed

(* The requests of a session are those its threads made, each once, and    *)
(* only while its client end exists.                                       *)
Distinct(q) == \A i, j \in 1..Len(q) : q[i] = q[j] => i = j

RequestsOf(s) ==
    /\ \A t \in Threads :
          t \in Elements(pending_requesting_threads[s]) \/ t = currently_handling[s] =>
              asked[t] = s /\ ~SleepsInHandler(t) /\ s \in client
    /\ currently_handling[s] \notin Elements(pending_requesting_threads[s])
    /\ Distinct(pending_requesting_threads[s])

ThreadsInv ==
    /\ \A t \in Threads : WakeupOf(t)
    /\ \A t \in Threads : RequestOf(t)
    /\ \A s \in Sessions : RequestsOf(s)

(* Whoever names a ServerSession keeps it alive.                           *)
SessionsInv ==
    /\ server_handles \subseteq server
    /\ hle_handler \subseteq client /\ hle_handler \subseteq server
    /\ \A s \in hle_handler : IsHle(s)
    /\ \A p \in Ports : \A s \in Elements(pending_sessions[p]) : s \in server /\ PortOf[s] = p
    /\ \A t \in Threads : wait_objects[t] \subseteq server \cup LlePorts

(* A step that keeps the references to sessions that exist keeps the       *)
(* sessions: DropUnreferenced ends no session that is named.               *)
LEMMA SessionsKept ==
    ASSUME Types, NEW opened, DropUnreferenced(opened),
           server_handles' \subseteq server \cup opened,
           hle_handler' \subseteq client', hle_handler' \subseteq server \cup opened,
           \A s \in hle_handler' : IsHle(s),
           \A p \in Ports : \A s \in Elements(pending_sessions'[p]) :
               s \in server \cup opened /\ PortOf[s] = p,
           \A t \in Threads : wait_objects'[t] \subseteq server \cup opened \cup LlePorts
    PROVE  SessionsInv'
<1>1. \A s \in server \cup opened : Referenced(s)' => s \in server'
  BY DroppedServers
<1>2. ASSUME NEW s \in server \cup opened,
             s \in server_handles' \cup hle_handler' \/ \E t \in Threads : s \in wait_objects'[t]
      PROVE  s \in server'
  BY <1>1, <1>2 DEF Referenced
<1>3. ASSUME NEW p \in Ports, NEW s \in Elements(pending_sessions'[p])
      PROVE  s \in server' /\ PortOf[s] = p
  <2>1. s \in server \cup opened /\ PortOf[s] = p
    OBVIOUS
  <2>2. Elements(pending_sessions[p])' = Elements(pending_sessions'[p])
    BY DEF Elements
  <2>3. Referenced(s)'
    BY <2>1, <2>2 DEF Referenced, Elements
  <2> QED
    BY <1>1, <2>1, <2>3
<1>4. \A t \in Threads : wait_objects'[t] \subseteq server' \cup LlePorts
  BY <1>2
<1>5. server_handles' \subseteq server' /\ hle_handler' \subseteq server'
  BY <1>2
<1>6. \A p \in Ports : \A s \in Elements(pending_sessions[p])' : s \in server' /\ PortOf[s] = p
  BY <1>3 DEF Elements
<1> QED
  BY <1>4, <1>5, <1>6 DEF SessionsInv, IsHle

LEMMA SessionsUnchanged ==
    ASSUME SessionsInv, UNCHANGED <<server, client, server_handles, hle_handler,
                                    pending_sessions, wait_objects>>
    PROVE  SessionsInv'
BY DEF SessionsInv, Elements

LEMMA ThreadsUnchanged ==
    ASSUME ThreadsInv, UNCHANGED <<threadVars, wakeupVars, requestVars, asked, client>>
    PROVE  ThreadsInv'
BY DEF ThreadsInv, WakeupOf, RequestOf, RequestsOf, SleepsInHandler, Distinct, Elements

LEMMA AsyncDoneInv ==
    ASSUME Types, ThreadsInv, SessionsInv, NEW t \in Threads, AsyncDone(t)
    PROVE  ThreadsInv' /\ SessionsInv'
<1>1. /\ UNCHANGED <<threadVars, requestVars, asked, client, timed>>
      /\ ts_timed' \cup host' \subseteq ts_timed \cup host
  BY DEF AsyncDone, QueueWakeup
<1>2. SessionsInv'
  BY SessionsUnchanged DEF AsyncDone
<1>3. ASSUME NEW u \in Threads
      PROVE  WakeupOf(u)' /\ RequestOf(u)'
  <2>1. ~(u \in ts_timed' /\ u \in host')
    BY DEF AsyncDone, QueueWakeup, ThreadsInv, WakeupOf
  <2> QED
    BY <1>1, <2>1 DEF ThreadsInv, WakeupOf, RequestOf, SleepsInHandler
<1>4. ASSUME NEW s \in Sessions
      PROVE  RequestsOf(s)'
  BY <1>1 DEF ThreadsInv, RequestsOf, SleepsInHandler, Distinct, Elements
<1> QED
  BY <1>2, <1>3, <1>4 DEF ThreadsInv

LEMMA DispatchInv ==
    ASSUME Types, ThreadsInv, SessionsInv, NEW t \in Threads, Dispatch(t)
    PROVE  ThreadsInv' /\ SessionsInv'
<1>1. /\ UNCHANGED <<wait_objects, wakeup_callback, requestVars, asked, client, ts_timed, host>>
      /\ timed' = timed \ {t} /\ status[t] = "Ready"
      /\ status' = [status EXCEPT ![t] = "Running"]
  BY DEF Dispatch, CancelWakeups
<1>2. SessionsInv'
  BY SessionsUnchanged DEF Dispatch
<1>3. ASSUME NEW u \in Threads
      PROVE  WakeupOf(u)' /\ RequestOf(u)'
  <2>1. /\ status'[u] = IF u = t THEN "Running" ELSE status[u]
        /\ u \in timed' => u \in timed /\ u # t
    BY <1>1 DEF Types
  <2>2. WakeupOf(u) /\ RequestOf(u)
    BY DEF ThreadsInv
  <2> QED
    BY <1>1, <2>1, <2>2 DEF WakeupOf, RequestOf, SleepsInHandler
<1>4. ASSUME NEW s \in Sessions
      PROVE  RequestsOf(s)'
  BY <1>1 DEF ThreadsInv, RequestsOf, SleepsInHandler, Distinct, Elements
<1> QED
  BY <1>2, <1>3, <1>4 DEF ThreadsInv

(* A thread whose handler put it to sleep is answered and woken.           *)
LEMMA AnswerInv ==
    ASSUME Types, ThreadsInv, SessionsInv, NEW t \in Threads, Resume({t}), Answer(t),
           status[t] = "WaitHleEvent" \/ t \in timed,
           \/ t \notin ts_timed' \cup host'
           \/ wakeup_callback[t] # "Async",
           status[t] # "Dead", client' = client, UNCHANGED requestVars,
           timed' \subseteq timed, ts_timed' \subseteq ts_timed, host' \subseteq host
    PROVE  ThreadsInv'
<1> USE IPCAssumption DEF NoSession
<1>1. ASSUME NEW u \in Threads
      PROVE  /\ status'[u] = IF u = t THEN "Ready" ELSE status[u]
             /\ wakeup_callback'[u] = IF u = t THEN "None" ELSE wakeup_callback[u]
             /\ wait_objects'[u] = IF u = t THEN {} ELSE wait_objects[u]
             /\ asked'[u] = IF u = t THEN NoSession ELSE asked[u]
  BY DEF Resume, Answer, Types
<1>2. ASSUME NEW u \in Threads
      PROVE  WakeupOf(u)' /\ RequestOf(u)'
  <2>1. WakeupOf(u) /\ RequestOf(u)
    BY DEF ThreadsInv
  <2>2. CASE u = t
    BY <1>1, <2>1, <2>2 DEF WakeupOf, RequestOf, SleepsInHandler
  <2>3. CASE u # t
    BY <1>1, <2>1, <2>3 DEF WakeupOf, RequestOf, SleepsInHandler
  <2> QED
    BY <2>2, <2>3
<1>3. \A s \in Sessions : asked[t] = s => SleepsInHandler(t)
  BY DEF ThreadsInv, WakeupOf, RequestOf
<1>4. ASSUME NEW s \in Sessions
      PROVE  RequestsOf(s)'
  <2>1. RequestsOf(s)
    BY DEF ThreadsInv
  <2>2. UNCHANGED <<Elements(pending_requesting_threads[s]), currently_handling,
                    Distinct(pending_requesting_threads[s])>>
    BY DEF Elements, Distinct
  <2>3. ASSUME NEW u \in Threads,
               u \in Elements(pending_requesting_threads[s]) \/ u = currently_handling[s]
        PROVE  asked'[u] = s /\ ~SleepsInHandler(u)' /\ s \in client'
    <3>1. asked[u] = s /\ ~SleepsInHandler(u) /\ s \in client
      BY <2>1, <2>3 DEF RequestsOf
    <3> QED
      BY <1>1, <1>3, <3>1 DEF SleepsInHandler
  <2> QED
    BY <2>1, <2>2, <2>3 DEF RequestsOf
<1> QED
  BY <1>2, <1>4 DEF ThreadsInv

LEMMA WakeupFiresInv ==
    ASSUME Types, ThreadsInv, SessionsInv, NEW t \in Threads, WakeupFires(t)
    PROVE  ThreadsInv' /\ SessionsInv'
<1>1. /\ t \in timed \cup ts_timed /\ timed' = timed \ {t} /\ ts_timed' = ts_timed \ {t}
      /\ UNCHANGED <<client, requestVars, hle_handler, pending_sessions, server_handles, host>>
      /\ DropUnreferenced({})
  BY DEF WakeupFires
<1>2. /\ status[t] \in {"WaitIPC", "WaitHleEvent", "Ready", "Dead"}
      /\ t \notin timed => status[t] \in {"WaitHleEvent", "Dead"}
      /\ t \notin host \/ wakeup_callback[t] # "Async"
  BY <1>1 DEF ThreadsInv, WakeupOf
<1>3. CASE status[t] \in {"WaitHleEvent", "WaitIPC"}
  <2>1. Resume({t}) /\ Answer(t)
    BY <1>3 DEF WakeupFires
  <2>2. ThreadsInv'
    BY <1>1, <1>2, <1>3, <2>1, AnswerInv
  <2>3. \A u \in Threads : wait_objects'[u] \subseteq wait_objects[u]
    BY <2>1 DEF Resume, Types
  <2>4. SessionsInv'
    BY <1>1, <2>3, SessionsKept DEF SessionsInv
  <2> QED
    BY <2>2, <2>4
<1>4. CASE status[t] \in {"Ready", "Dead"}
  <2>1. UNCHANGED <<threadVars, asked>>
    BY <1>4 DEF WakeupFires
  <2>2. ASSUME NEW u \in Threads
        PROVE  WakeupOf(u)' /\ RequestOf(u)'
    <3>1. WakeupOf(u) /\ RequestOf(u)
      BY DEF ThreadsInv
    <3> QED
      BY <1>1, <2>1, <3>1 DEF WakeupOf, RequestOf, SleepsInHandler
  <2>3. ASSUME NEW s \in Sessions
        PROVE  RequestsOf(s)'
    BY <1>1, <2>1 DEF ThreadsInv, RequestsOf, SleepsInHandler, Distinct, Elements
  <2>4. SessionsInv'
    BY <1>1, <2>1, SessionsKept DEF SessionsInv
  <2> QED
    BY <2>2, <2>3, <2>4 DEF ThreadsInv
<1> QED
  BY <1>2, <1>3, <1>4

LEMMA ServiceSignalsInv ==
    ASSUME Types, ThreadsInv, SessionsInv, NEW t \in Threads, ServiceSignals(t)
    PROVE  ThreadsInv' /\ SessionsInv'
<1>1. /\ status[t] = "WaitHleEvent" /\ wakeup_callback[t] = "Hle" /\ Resume({t}) /\ Answer(t)
      /\ UNCHANGED <<client, requestVars, hle_handler, pending_sessions, server_handles,
                     wakeupVars>>
      /\ DropUnreferenced({})
  BY DEF ServiceSignals
<1>2. ThreadsInv'
  BY <1>1, AnswerInv
<1>3. \A u \in Threads : wait_objects'[u] \subseteq wait_objects[u]
  BY <1>1 DEF Resume, Types
<1>4. SessionsInv'
  BY <1>1, <1>3, SessionsKept DEF SessionsInv
<1> QED
  BY <1>2, <1>4

(* Threads that wait for objects become ready.                             *)
LEMMA WakeWaitersInv ==
    ASSUME Types, ThreadsInv, NEW W, \A u \in Threads \cap W : status[u] = "WaitSynchAny",
           Resume(W), UNCHANGED <<wakeupVars, asked>>
    PROVE  /\ \A u \in Threads : WakeupOf(u)' /\ RequestOf(u)'
           /\ \A u \in Threads : SleepsInHandler(u)' <=> SleepsInHandler(u)
<1>1. ASSUME NEW u \in Threads
      PROVE  /\ status'[u] = IF u \in W THEN "Ready" ELSE status[u]
             /\ wakeup_callback'[u] = IF u \in W THEN "None" ELSE wakeup_callback[u]
             /\ wait_objects'[u] = IF u \in W THEN {} ELSE wait_objects[u]
  BY DEF Resume, Types
<1>2. ASSUME NEW u \in Threads
      PROVE  WakeupOf(u)' /\ RequestOf(u)' /\ (SleepsInHandler(u)' <=> SleepsInHandler(u))
  <2>1. WakeupOf(u) /\ RequestOf(u)
    BY DEF ThreadsInv
  <2>2. CASE u \in W
    BY <1>1, <2>1, <2>2 DEF WakeupOf, RequestOf, SleepsInHandler
  <2>3. CASE u \notin W
    BY <1>1, <2>1, <2>3 DEF WakeupOf, RequestOf, SleepsInHandler
  <2> QED
    BY <2>2, <2>3
<1> QED
  BY <1>2

(* Only threads that sleep for objects wait for one.                       *)
LEMMA WaitersSleep ==
    ASSUME ThreadsInv, NEW t \in Threads, wait_objects[t] # {}, Types
    PROVE  status[t] = "WaitSynchAny" /\ t \in Servers
BY DEF ThreadsInv, WakeupOf, Types

LEMMA ConnectInv ==
    ASSUME Types, ThreadsInv, SessionsInv, NEW t \in Threads, NEW s \in Sessions,
           NEW fits \in BOOLEAN, Connect(t, s, fits)
    PROVE  ThreadsInv' /\ SessionsInv'
<1> USE IPCAssumption
<1>1. PICK p \in Ports : p = PortOf[s]
  OBVIOUS
<1>2. /\ client' = IF fits THEN client \cup {s} ELSE client
      /\ Resume(Waiting(p)) /\ DropUnreferenced({s})
      /\ UNCHANGED <<requestVars, server_handles, wakeupVars, asked>>
  BY <1>1 DEF Connect
<1>3. \A u \in Threads \cap Waiting(p) : status[u] = "WaitSynchAny"
  BY WaitersSleep DEF Waiting
<1>4. /\ \A u \in Threads : WakeupOf(u)' /\ RequestOf(u)'
      /\ \A u \in Threads : SleepsInHandler(u)' <=> SleepsInHandler(u)
  BY <1>2, <1>3, WakeWaitersInv
<1>5. ASSUME NEW x \in Sessions
      PROVE  RequestsOf(x)'
  <2>1. RequestsOf(x)
    BY DEF ThreadsInv
  <2> QED
    BY <1>2, <1>4, <2>1 DEF RequestsOf, Distinct, Elements
<1>6. /\ hle_handler' \subseteq client' /\ hle_handler' \subseteq server \cup {s}
      /\ \A x \in hle_handler' : IsHle(x)
  BY <1>2 DEF Connect, SessionsInv
<1>7. ASSUME NEW q \in Ports, NEW x \in Elements(pending_sessions'[q])
      PROVE  x \in server \cup {s} /\ PortOf[x] = q
  <2>1. PICK y : y = pending_sessions[q]
    OBVIOUS
  <2>2. y \in Seq(Sessions) /\ \A z \in Elements(y) : z \in server /\ PortOf[z] = q
    BY <2>1 DEF Types, SessionsInv
  <2>3. \/ pending_sessions'[q] = y
        \/ pending_sessions'[q] = Append(y, s) /\ q = p
    BY <1>1, <2>1 DEF Connect, Types
  <2>4. Elements(Append(y, s)) = Elements(y) \cup {s}
    BY <2>2, AppendElements
  <2> QED
    BY <1>1, <2>2, <2>3, <2>4
<1>8. \A u \in Threads : wait_objects'[u] \subseteq server \cup {s} \cup LlePorts
  <2>1. \A u \in Threads : wait_objects'[u] \subseteq wait_objects[u]
    BY <1>2 DEF Resume, Types
  <2> QED
    BY <2>1 DEF SessionsInv
<1>9. SessionsInv'
  <2>1. server_handles' \subseteq server \cup {s}
    BY <1>2 DEF SessionsInv
  <2> QED
    BY <1>2, <1>6, <1>7, <1>8, <2>1, SessionsKept
<1> QED
  BY <1>4, <1>5, <1>9 DEF ThreadsInv

(* What SendToServer does: the request joins those that are pending, or a  *)
(* waiting thread is woken and takes it at once.                           *)
LEMMA SendToServerEffect ==
    ASSUME Types, NEW t \in Threads, NEW s \in Sessions, SendToServer(t, s)
    PROVE  /\ status[t] = "Running" /\ s \in client /\ s \in server /\ ~IsHle(s)
           /\ faults = {}
           /\ asked' = [asked EXCEPT ![t] = s]
           /\ UNCHANGED <<created, client, hle_handler, pending_sessions, server_handles,
                          wakeupVars, process, faults>>
           /\ DropUnreferenced({})
           /\ \E W \in SUBSET Waiting(s) :
                 /\ status' = [u \in Threads |-> IF u = t THEN "WaitIPC"
                                  ELSE IF u \in W THEN "Ready" ELSE status[u]]
                 /\ wait_objects' = [u \in Threads |-> IF u \in W THEN {} ELSE wait_objects[u]]
                 /\ wakeup_callback' = [u \in Threads |-> IF u \in W THEN "None"
                                                          ELSE wakeup_callback[u]]
                 /\ \/ /\ W = {} /\ currently_handling' = currently_handling
                       /\ pending_requesting_threads' = [pending_requesting_threads
                              EXCEPT ![s] = Append(@, t)]
                       /\ Waiting(s) = {} \/ currently_handling[s] # NoThread
                    \/ /\ W # {} /\ currently_handling[s] = NoThread
                       /\ (\E w \in Threads : W = {w})
                       /\ currently_handling' = [currently_handling EXCEPT ![s] = t]
                       /\ pending_requesting_threads' = pending_requesting_threads
<1>1. PICK pending :
            pending = [pending_requesting_threads EXCEPT ![s] = Append(@, t)]
  OBVIOUS
<1>2. PICK W \in WokenByRequest(s, pending) :
                 /\ status' = [u \in Threads |-> IF u = t THEN "WaitIPC"
                                  ELSE IF u \in W THEN "Ready" ELSE status[u]]
                 /\ wait_objects' = [u \in Threads |-> IF u \in W THEN {} ELSE wait_objects[u]]
                 /\ wakeup_callback' = [u \in Threads |-> IF u \in W THEN "None"
                                                          ELSE wakeup_callback[u]]
                 /\ currently_handling' = IF W = {} THEN currently_handling
                        ELSE [currently_handling EXCEPT ![s] = Last(pending[s])]
                 /\ pending_requesting_threads' = IF W = {} THEN pending
                        ELSE [pending EXCEPT ![s] = WithoutLast(@)]
  BY <1>1 DEF SendToServer
<1>3. /\ pending_requesting_threads[s] \in Seq(Threads)
      /\ pending[s] = Append(pending_requesting_threads[s], t)
  BY <1>1 DEF Types
<1>4. /\ pending[s] # <<>> /\ Last(pending[s]) = t
      /\ WithoutLast(pending[s]) = pending_requesting_threads[s]
  BY <1>3, AppendElements
<1>5. s \in client /\ s \in server /\ status[t] = "Running" /\ ~IsHle(s) /\ faults = {}
  BY DEF SendToServer, MayAsk, Runs
<1>6. CASE Waiting(s) = {} \/ SessionShouldWait(s, currently_handling, pending)
  <2>1. W = {}
    BY <1>2, <1>6 DEF WokenByRequest
  <2>2. Waiting(s) = {} \/ currently_handling[s] # NoThread
    BY <1>4, <1>6 DEF SessionShouldWait
  <2>3. currently_handling' = currently_handling /\ pending_requesting_threads' = pending
    BY <1>2, <2>1
  <2> QED
    BY <1>1, <1>2, <1>5, <2>1, <2>2, <2>3 DEF SendToServer
<1>7. CASE ~(Waiting(s) = {} \/ SessionShouldWait(s, currently_handling, pending))
  <2>1. PICK w \in Waiting(s) : W = {w}
    BY <1>2, <1>7 DEF WokenByRequest
  <2>2. currently_handling[s] = NoThread
    BY <1>5, <1>7 DEF SessionShouldWait
  <2>3. /\ currently_handling' = [currently_handling EXCEPT ![s] = t]
        /\ pending_requesting_threads' = [pending EXCEPT ![s] = WithoutLast(@)]
    BY <1>2, <1>4, <2>1
  <2>4. pending_requesting_threads' = pending_requesting_threads
    <3>1. \A x \in Sessions : [pending EXCEPT ![s] = WithoutLast(@)][x]
                                 = pending_requesting_threads[x]
      BY <1>1, <1>4 DEF Types
    <3> QED
      BY <1>1, <2>3, <3>1 DEF Types
  <2>5. W \in SUBSET Waiting(s) /\ W # {} /\ w \in Threads
    BY <2>1 DEF Waiting
  <2> QED
    BY <1>2, <1>5, <2>1, <2>2, <2>3, <2>4, <2>5 DEF SendToServer
<1> QED
  BY <1>6, <1>7

LEMMA AppendDistinct ==
    ASSUME NEW S, NEW q \in Seq(S), Distinct(q), NEW e \in S, e \notin Elements(q)
    PROVE  Distinct(Append(q, e))
<1>1. PICK a : a = Append(q, e)
  OBVIOUS
<1>2. /\ a \in Seq(S) /\ Len(a) = Len(q) + 1 /\ Len(q) \in Nat
      /\ a[Len(q) + 1] = e /\ \A i \in 1..Len(q) : a[i] = q[i]
  BY <1>1
<1>3. ASSUME NEW i \in 1..Len(a), NEW j \in 1..Len(a), a[i] = a[j]
      PROVE  i = j
  <2>1. \A k \in 1..Len(q) : q[k] # e
    BY DEF Elements
  <2>2. (i \in 1..Len(q) \/ i = Len(q) + 1) /\ (j \in 1..Len(q) \/ j = Len(q) + 1)
    BY <1>2
  <2> QED
    BY <1>2, <1>3, <2>1, <2>2 DEF Distinct
<1> QED
  BY <1>1, <1>3 DEF Distinct

(* The last element is not among those before it.                          *)
LEMMA ShorterDistinct ==
    ASSUME NEW S, NEW q \in Seq(S), q # <<>>, Distinct(q)
    PROVE  /\ Distinct(WithoutLast(q))
           /\ Last(q) \notin Elements(WithoutLast(q))
<1>1. PICK b : b = WithoutLast(q)
  OBVIOUS
<1>2. /\ Len(b) = Len(q) - 1 /\ Len(q) \in Nat \ {0}
      /\ \A i \in 1..(Len(q) - 1) : b[i] = q[i]
  BY <1>1, ShorterElements
<1>3. Distinct(b)
  BY <1>2 DEF Distinct
<1>4. \A i \in 1..Len(b) : b[i] # q[Len(q)]
  BY <1>2 DEF Distinct
<1>5. Last(q) \notin Elements(b)
  BY <1>4 DEF Last, Elements
<1> QED
  BY <1>1, <1>3, <1>5

(* A thread that runs has no unanswered request.                           *)
LEMMA RunningAsksNothing ==
    ASSUME Types, ThreadsInv, NEW t \in Threads, status[t] \in {"Running", "Ready", "WaitSynchAny"}
    PROVE  asked[t] = NoSession /\ ~SleepsInHandler(t)
BY DEF ThreadsInv, RequestOf

(* The requests of a session none of whose threads ask or are answered.    *)
LEMMA RequestsElsewhere ==
    ASSUME Types, ThreadsInv, NEW s \in Sessions,
           pending_requesting_threads'[s] = pending_requesting_threads[s],
           currently_handling'[s] = currently_handling[s],
           s \in client => s \in client',
           \A u \in Threads : asked[u] = s /\ ~SleepsInHandler(u)
                                 => asked'[u] = s /\ ~SleepsInHandler(u)'
    PROVE  RequestsOf(s)'
<1>1. RequestsOf(s)
  BY DEF ThreadsInv
<1>2. /\ Elements(pending_requesting_threads[s])' = Elements(pending_requesting_threads[s])
      /\ Distinct(pending_requesting_threads[s])' <=> Distinct(pending_requesting_threads[s])
  BY DEF Elements, Distinct
<1> QED
  BY <1>1, <1>2 DEF RequestsOf

LEMMA SendToServerInv ==
    ASSUME Types, ThreadsInv, SessionsInv, NEW t \in Threads, NEW s \in Sessions,
           SendToServer(t, s)
    PROVE  ThreadsInv' /\ SessionsInv'
<1> USE IPCAssumption DEF NoSession
<1>1. /\ status[t] = "Running" /\ s \in client /\ s \in server /\ ~IsHle(s)
      /\ asked' = [asked EXCEPT ![t] = s]
      /\ UNCHANGED <<client, hle_handler, pending_sessions, server_handles, wakeupVars>>
      /\ DropUnreferenced({})
  BY SendToServerEffect
<1>2. PICK W \in SUBSET Waiting(s) :
         /\ status' = [u \in Threads |-> IF u = t THEN "WaitIPC"
                          ELSE IF u \in W THEN "Ready" ELSE status[u]]
         /\ wait_objects' = [u \in Threads |-> IF u \in W THEN {} ELSE wait_objects[u]]
         /\ wakeup_callback' = [u \in Threads |-> IF u \in W THEN "None"
                                                  ELSE wakeup_callback[u]]
         /\ \/ /\ W = {} /\ currently_handling' = currently_handling
               /\ pending_requesting_threads' = [pending_requesting_threads
                      EXCEPT ![s] = Append(@, t)]
               /\ Waiting(s) = {} \/ currently_handling[s] # NoThread
            \/ /\ W # {} /\ currently_handling[s] = NoThread
               /\ (\E w \in Threads : W = {w})
               /\ currently_handling' = [currently_handling EXCEPT ![s] = t]
               /\ pending_requesting_threads' = pending_requesting_threads
  BY SendToServerEffect
<1>3. asked[t] = NoSession /\ ~SleepsInHandler(t)
  BY <1>1, RunningAsksNothing
<1>4. \A u \in W : u \in Threads /\ status[u] = "WaitSynchAny" /\ u # t
  BY <1>1, WaitersSleep DEF Waiting
<1>5. ASSUME NEW u \in Threads
      PROVE  /\ WakeupOf(u)' /\ RequestOf(u)'
             /\ SleepsInHandler(u)' <=> SleepsInHandler(u)
  <2>1. WakeupOf(u) /\ RequestOf(u)
    BY DEF ThreadsInv
  <2>2. /\ status'[u] = IF u = t THEN "WaitIPC" ELSE IF u \in W THEN "Ready" ELSE status[u]
        /\ wakeup_callback'[u] = IF u \in W THEN "None" ELSE wakeup_callback[u]
        /\ wait_objects'[u] = IF u \in W THEN {} ELSE wait_objects[u]
        /\ asked'[u] = IF u = t THEN s ELSE asked[u]
    BY <1>1, <1>2 DEF Types
  <2>3. CASE u = t
    BY <1>1, <1>3, <1>4, <2>1, <2>2, <2>3 DEF WakeupOf, RequestOf, SleepsInHandler
  <2>4. CASE u \in W
    BY <1>1, <1>4, <2>1, <2>2, <2>4 DEF WakeupOf, RequestOf, SleepsInHandler
  <2>5. CASE u # t /\ u \notin W
    BY <1>1, <2>1, <2>2, <2>5 DEF WakeupOf, RequestOf, SleepsInHandler
  <2> QED
    BY <2>3, <2>4, <2>5
<1>6. ASSUME NEW x \in Sessions, x # s
      PROVE  RequestsOf(x)'
  <2>1. /\ pending_requesting_threads'[x] = pending_requesting_threads[x]
        /\ currently_handling'[x] = currently_handling[x]
    BY <1>2, <1>6 DEF Types
  <2>2. \A u \in Threads : asked[u] = x => asked'[u] = x
    BY <1>1, <1>3 DEF Types
  <2> QED
    BY <1>1, <1>5, <2>1, <2>2, RequestsElsewhere
<1>7. RequestsOf(s)'
  <2>1. RequestsOf(s) /\ pending_requesting_threads[s] \in Seq(Threads)
    BY DEF ThreadsInv, Types
  <2>2. t \notin Elements(pending_requesting_threads[s]) /\ t # currently_handling[s]
    BY <1>3, <2>1 DEF RequestsOf
  <2>3. PICK q, a, n, h, k : /\ q = pending_requesting_threads[s] /\ a = Append(q, t)
                             /\ n = pending_requesting_threads'[s]
                             /\ h = currently_handling[s] /\ k = currently_handling'[s]
    OBVIOUS
  <2>4. \/ k = h /\ n = a
        \/ h = NoThread /\ k = t /\ n = q
    BY <1>2, <2>3 DEF Types
  <2>5. Elements(a) = Elements(q) \cup {t} /\ Distinct(a)
    BY <2>1, <2>2, <2>3, AppendElements, AppendDistinct DEF RequestsOf
  <2>6. /\ Distinct(n) /\ k \notin Elements(n)
        /\ \A u \in Threads : u \in Elements(n) \/ u = k =>
              u = t \/ u \in Elements(q) \/ u = h
    <3>1. /\ h \notin Elements(q) /\ Distinct(q) /\ t \notin Elements(q) /\ t # h
      BY <2>1, <2>2, <2>3 DEF RequestsOf
    <3>2. CASE k = h /\ n = a
      BY <2>5, <3>1, <3>2
    <3>3. CASE k = t /\ n = q
      BY <3>1, <3>3
    <3> QED
      BY <2>4, <3>2, <3>3
  <2>7. ASSUME NEW u \in Threads, u \in Elements(n) \/ u = k
        PROVE  asked'[u] = s /\ ~SleepsInHandler(u)' /\ s \in client'
    <3>1. u = t \/ (asked[u] = s /\ ~SleepsInHandler(u))
      BY <2>1, <2>3, <2>6, <2>7 DEF RequestsOf
    <3> QED
      BY <1>1, <1>3, <1>5, <3>1 DEF Types
  <2> QED
    BY <2>3, <2>6, <2>7 DEF RequestsOf, Elements, Distinct
<1>8. SessionsInv'
  <2>1. \A u \in Threads : wait_objects'[u] \subseteq wait_objects[u]
    BY <1>2 DEF Types
  <2> QED
    BY <1>1, <2>1, SessionsKept DEF SessionsInv
<1> QED
  BY <1>5, <1>6, <1>7, <1>8 DEF ThreadsInv

LEMMA SendToHandlerInv ==
    ASSUME Types, ThreadsInv, SessionsInv, NEW t \in Threads, NEW s \in Sessions,
           SendToHandler(t, s)
    PROVE  ThreadsInv' /\ SessionsInv'
<1> USE DEF NoSession
<1>1. /\ status[t] = "Running" /\ status' = [status EXCEPT ![t] = "WaitIPC"]
      /\ timed' = timed \cup {t}
      /\ UNCHANGED <<requestVars, wait_objects, wakeup_callback, ts_timed, host, asked, client>>
  BY DEF SendToHandler, MayAsk, Runs
<1>2. asked[t] = NoSession /\ ~SleepsInHandler(t)
  BY <1>1, RunningAsksNothing
<1>3. ASSUME NEW u \in Threads
      PROVE  WakeupOf(u)' /\ RequestOf(u)'
  <2>1. WakeupOf(u) /\ RequestOf(u)
    BY DEF ThreadsInv
  <2>2. /\ status'[u] = IF u = t THEN "WaitIPC" ELSE status[u]
        /\ u \in timed' => u \in timed \/ u = t
    BY <1>1 DEF Types
  <2> QED
    BY <1>1, <1>2, <2>1, <2>2 DEF WakeupOf, RequestOf, SleepsInHandler
<1>4. ASSUME NEW x \in Sessions
      PROVE  RequestsOf(x)'
  BY <1>1, RequestsElsewhere DEF SleepsInHandler
<1>5. SessionsInv'
  BY SessionsUnchanged DEF SendToHandler
<1> QED
  BY <1>3, <1>4, <1>5 DEF ThreadsInv

LEMMA SendAndSleepInv ==
    ASSUME Types, ThreadsInv, SessionsInv, NEW t \in Threads, NEW s \in Sessions,
           NEW timeout \in BOOLEAN, NEW async \in BOOLEAN, SendAndSleep(t, s, timeout, async)
    PROVE  ThreadsInv' /\ SessionsInv'
<1> USE IPCAssumption DEF NoSession
<1>1. /\ status[t] = "Running" /\ status' = [status EXCEPT ![t] = "WaitHleEvent"]
      /\ wakeup_callback' = [wakeup_callback EXCEPT ![t] = IF async THEN "Async" ELSE "Hle"]
      /\ timed' = IF timeout /\ ~async THEN timed \cup {t} ELSE timed
      /\ host' = IF async THEN host \cup {t} ELSE host
      /\ asked' = [asked EXCEPT ![t] = s]
      /\ s \in hle_handler
      /\ UNCHANGED <<requestVars, wait_objects, ts_timed, client>>
  BY DEF SendAndSleep, MayAsk, Runs
<1>2. asked[t] = NoSession /\ ~SleepsInHandler(t) /\ IsHle(s)
  BY <1>1, RunningAsksNothing DEF SessionsInv
<1>3. ASSUME NEW u \in Threads
      PROVE  WakeupOf(u)' /\ RequestOf(u)'
  <2>1. WakeupOf(u) /\ RequestOf(u)
    BY DEF ThreadsInv
  <2>2. /\ status'[u] = IF u = t THEN "WaitHleEvent" ELSE status[u]
        /\ wakeup_callback'[u] = IF u # t THEN wakeup_callback[u]
                                 ELSE IF async THEN "Async" ELSE "Hle"
        /\ asked'[u] = IF u = t THEN s ELSE asked[u]
    BY <1>1 DEF Types
  <2>3. CASE u = t
    <3>1. u \notin timed /\ u \notin ts_timed \cup host
      BY <1>1, <2>1, <2>3 DEF WakeupOf
    <3>2. /\ u \in timed' => ~async
          /\ u \in host' => async
      BY <1>1, <2>3, <3>1
    <3> QED
      BY <1>1, <1>2, <2>1, <2>2, <2>3, <3>1, <3>2 DEF WakeupOf, RequestOf, SleepsInHandler, IsHle
  <2>4. CASE u # t
    <3>1. (u \in timed' <=> u \in timed) /\ (u \in host' <=> u \in host)
      BY <1>1, <2>4
    <3> QED
      BY <1>1, <2>1, <2>2, <2>4, <3>1 DEF WakeupOf, RequestOf, SleepsInHandler, IsHle
  <2> QED
    BY <2>3, <2>4
<1>4. ASSUME NEW x \in Sessions
      PROVE  RequestsOf(x)'
  <2>1. \A u \in Threads : asked[u] = x /\ ~SleepsInHandler(u)
                              => asked'[u] = x /\ ~SleepsInHandler(u)'
    BY <1>1, <1>2 DEF SleepsInHandler, Types
  <2> QED
    BY <1>1, <2>1, RequestsElsewhere
<1>5. SessionsInv'
  BY SessionsUnchanged DEF SendAndSleep
<1> QED
  BY <1>3, <1>4, <1>5 DEF ThreadsInv

LEMMA DestroyClientSessionsInv ==
    ASSUME Types, ThreadsInv, SessionsInv, NEW S \in SUBSET Sessions, DestroyClientSessions(S)
    PROVE  ThreadsInv' /\ SessionsInv'
<1> USE IPCAssumption
<1>1. PICK W : W = UNION {Waiting(s) : s \in S}
  OBVIOUS
<1>2. /\ client' = client \ S /\ hle_handler' = hle_handler \ S /\ Resume(W)
      /\ UNCHANGED <<pending_sessions, server_handles, wakeupVars, asked>>
      /\ DropUnreferenced({})
  BY <1>1 DEF DestroyClientSessions
<1>3. \A u \in Threads \cap W : status[u] = "WaitSynchAny"
  BY <1>1, WaitersSleep DEF Waiting
<1>4. /\ \A u \in Threads : WakeupOf(u)' /\ RequestOf(u)'
      /\ \A u \in Threads : SleepsInHandler(u)' <=> SleepsInHandler(u)
  BY <1>2, <1>3, WakeWaitersInv
<1>5. ASSUME NEW x \in Sessions \ S
      PROVE  RequestsOf(x)'
  <2>1. /\ pending_requesting_threads'[x] = pending_requesting_threads[x]
        /\ currently_handling'[x] = currently_handling[x]
    BY <1>5 DEF DestroyClientSessions, ForgetRequests
  <2> QED
    BY <1>2, <1>4, <2>1, RequestsElsewhere
<1>6. ASSUME NEW x \in S
      PROVE  RequestsOf(x)'
  <2>1. pending_requesting_threads'[x] = <<>> /\ currently_handling'[x] = NoThread
    BY <1>6 DEF DestroyClientSessions, ForgetRequests
  <2>2. Elements(pending_requesting_threads[x])' = {} /\ Distinct(pending_requesting_threads[x])'
    BY <2>1 DEF Elements, Distinct
  <2> QED
    BY <2>1, <2>2 DEF RequestsOf
<1>7. SessionsInv'
  <2>1. \A u \in Threads : wait_objects'[u] \subseteq wait_objects[u]
    BY <1>2 DEF Resume, Types
  <2> QED
    BY <1>2, <2>1, SessionsKept DEF SessionsInv
<1> QED
  BY <1>4, <1>5, <1>6, <1>7 DEF ThreadsInv

LEMMA CloseServerSessionInv ==
    ASSUME Types, ThreadsInv, SessionsInv, NEW t \in Threads, NEW s \in Sessions,
           CloseServerSession(t, s)
    PROVE  ThreadsInv' /\ SessionsInv'
<1>1. ThreadsInv'
  BY ThreadsUnchanged DEF CloseServerSession
<1>2. SessionsInv'
  BY SessionsKept DEF CloseServerSession, SessionsInv
<1> QED
  BY <1>1, <1>2

LEMMA AcceptSessionInv ==
    ASSUME Types, ThreadsInv, SessionsInv, NEW t \in Servers, NEW p \in LlePorts,
           NEW fits \in BOOLEAN, AcceptSession(t, p, fits)
    PROVE  ThreadsInv' /\ SessionsInv'
<1>1. ThreadsInv'
  BY ThreadsUnchanged DEF AcceptSession
<1>2. PICK y : y = pending_sessions[p]
  OBVIOUS
<1>3. /\ p \in Ports /\ y \in Seq(Sessions) /\ y # <<>>
      /\ \A z \in Elements(y) : z \in server /\ PortOf[z] = p
  BY <1>2 DEF Types, SessionsInv, LlePorts, AcceptSession
<1>4. Last(y) \in Elements(y) /\ Elements(WithoutLast(y)) \subseteq Elements(y)
  BY <1>3, ShorterElements
<1>5. server_handles' \subseteq server
  BY <1>2, <1>3, <1>4 DEF AcceptSession, SessionsInv
<1>6. ASSUME NEW q \in Ports, NEW x \in Elements(pending_sessions'[q])
      PROVE  x \in server /\ PortOf[x] = q
  <2>1. pending_sessions'[q] = IF q = p THEN WithoutLast(y) ELSE pending_sessions[q]
    BY <1>2 DEF AcceptSession, Types
  <2> QED
    BY <1>3, <1>4, <1>6, <2>1 DEF SessionsInv
<1>7. /\ DropUnreferenced({})
      /\ UNCHANGED <<hle_handler, client, wait_objects>>
  BY DEF AcceptSession
<1>8. SessionsInv'
  BY <1>5, <1>6, <1>7, SessionsKept DEF SessionsInv
<1> QED
  BY <1>1, <1>8

LEMMA TerminateClientsInv ==
    ASSUME Types, ThreadsInv, SessionsInv, TerminateClients
    PROVE  ThreadsInv' /\ SessionsInv'
<1>1. /\ TerminateDuringAsync \/ host \cup ts_timed = {}
      /\ timed' = timed \ Clients
      /\ status' = [t \in Threads |-> IF t \in Clients THEN "Dead" ELSE status[t]]
      /\ UNCHANGED <<wait_objects, wakeup_callback, requestVars, asked, client, ts_timed, host>>
  BY DEF TerminateClients
<1>2. ASSUME NEW u \in Threads
      PROVE  WakeupOf(u)' /\ RequestOf(u)'
  <2>1. WakeupOf(u) /\ RequestOf(u)
    BY DEF ThreadsInv
  <2>2. status'[u] = IF u \in Clients THEN "Dead" ELSE status[u]
    BY <1>1
  <2>3. CASE u \in Clients
    <3>1. wait_objects[u] = {}
      BY <2>1, <2>3, IPCAssumption DEF WakeupOf, Types
    <3> QED
      BY <1>1, <2>1, <2>2, <2>3, <3>1 DEF WakeupOf, RequestOf, SleepsInHandler, IsHle
  <2>4. CASE u \notin Clients
    BY <1>1, <2>1, <2>2, <2>4 DEF WakeupOf, RequestOf, SleepsInHandler, IsHle
  <2> QED
    BY <2>3, <2>4
<1>3. ASSUME NEW x \in Sessions
      PROVE  RequestsOf(x)'
  BY <1>1, RequestsElsewhere DEF SleepsInHandler
<1>4. SessionsInv'
  BY SessionsUnchanged DEF TerminateClients
<1> QED
  BY <1>2, <1>3, <1>4 DEF ThreadsInv

(* The thread that is answered waits for it, and for nothing else.         *)
LEMMA RequesterWaits ==
    ASSUME Types, ThreadsInv, NEW t, NEW r \in server_handles \cup {NoSession},
           ReplyMade(t, r), NEW u \in Threads, u \in Requester(r)
    PROVE  /\ r \in Sessions /\ r # NoSession /\ u = currently_handling[r]
           /\ asked[u] = r /\ ~SleepsInHandler(u)
           /\ status[u] \in {"WaitIPC", "Dead"} /\ u \notin timed
           /\ u \notin Elements(pending_requesting_threads[r])
           /\ r \in server_handles
<1>1. r # NoSession /\ u = currently_handling[r] /\ r \in Sessions /\ r \in server_handles
  BY DEF Requester, Types
<1>2. RequestsOf(r) /\ RequestOf(u)
  BY <1>1 DEF ThreadsInv
<1> QED
  BY <1>1, <1>2, IPCAssumption DEF RequestsOf, RequestOf, NoSession

(* The requests of each session after a reply to session r, and after a    *)
(* request of a session is taken.                                          *)
LEMMA RequestsAfterReply ==
    ASSUME Types, ThreadsInv, NEW t, NEW r \in server_handles \cup {NoSession},
           ReplyMade(t, r), AnswerTo(r), client' = client,
           \A u \in Threads : SleepsInHandler(u)' <=> SleepsInHandler(u),
           NEW x \in Sessions,
           \/ /\ pending_requesting_threads'[x] = pending_requesting_threads[x]
              /\ currently_handling'[x] = HandlingAfterReply(r)[x]
           \/ /\ pending_requesting_threads[x] # <<>>
              /\ pending_requesting_threads'[x] = WithoutLast(pending_requesting_threads[x])
              /\ currently_handling'[x] = Last(pending_requesting_threads[x])
    PROVE  RequestsOf(x)'
<1> USE IPCAssumption DEF NoSession
<1>1. RequestsOf(x) /\ pending_requesting_threads[x] \in Seq(Threads)
  BY DEF ThreadsInv, Types
<1>2. PICK q, n, h, k : /\ q = pending_requesting_threads[x]
                        /\ n = pending_requesting_threads'[x]
                        /\ h = currently_handling[x] /\ k = currently_handling'[x]
  OBVIOUS
<1>3. /\ q \in Seq(Threads) /\ Distinct(q) /\ h \notin Elements(q)
      /\ \A u \in Threads : u \in Elements(q) \/ u = h =>
            asked[u] = x /\ ~SleepsInHandler(u) /\ x \in client
  BY <1>1, <1>2 DEF RequestsOf
<1>4. NoThread \notin Elements(q)
  BY <1>3 DEF Elements
<1>5. /\ Distinct(n) /\ k \notin Elements(n)
      /\ \A u \in Threads : u \in Elements(n) \/ u = k =>
            u \in Elements(q) \/ (u = h /\ x # r)
  <2>1. CASE n = q /\ k = HandlingAfterReply(r)[x]
    <3>1. k = IF x = r THEN NoThread ELSE h
      BY <1>2, <2>1 DEF HandlingAfterReply, Types
    <3> QED
      BY <1>3, <1>4, <2>1, <3>1
  <2>2. CASE q # <<>> /\ n = WithoutLast(q) /\ k = Last(q)
    <3>1. /\ Last(q) \in Elements(q) /\ Elements(WithoutLast(q)) \subseteq Elements(q)
          /\ Distinct(WithoutLast(q)) /\ Last(q) \notin Elements(WithoutLast(q))
      BY <1>3, <2>2, ShorterElements, ShorterDistinct
    <3> QED
      BY <2>2, <3>1
  <2> QED
    BY <1>2, <2>1, <2>2
<1>6. ASSUME NEW u \in Threads, u \in Elements(n) \/ u = k
      PROVE  asked'[u] = x /\ ~SleepsInHandler(u)' /\ x \in client'
  <2>1. u \in Elements(q) \/ (u = h /\ x # r)
    BY <1>5, <1>6
  <2>2. asked[u] = x /\ ~SleepsInHandler(u) /\ x \in client
    BY <1>3, <2>1
  <2>3. u \notin Requester(r)
    <3>1. ASSUME u \in Requester(r)
          PROVE  FALSE
      <4>1. asked[u] = r /\ u \notin Elements(pending_requesting_threads[r])
        BY <3>1, RequesterWaits
      <4> QED
        BY <1>2, <2>1, <2>2, <4>1
    <3> QED
      BY <3>1
  <2>4. asked'[u] = asked[u]
    BY <2>3 DEF AnswerTo
  <2> QED
    BY <2>2, <2>4
<1> QED
  BY <1>2, <1>5, <1>6 DEF RequestsOf, Elements, Distinct

(* The threads after the requester of r, and nobody else, was answered.    *)
LEMMA RequesterResumed ==
    ASSUME Types, ThreadsInv, NEW t, NEW r \in server_handles \cup {NoSession},
           ReplyMade(t, r), AnswerTo(r), Resume(Requester(r)), UNCHANGED wakeupVars
    PROVE  /\ \A u \in Threads : WakeupOf(u)' /\ RequestOf(u)'
           /\ \A u \in Threads : SleepsInHandler(u)' <=> SleepsInHandler(u)
           /\ \A u \in Threads : wait_objects'[u] \subseteq wait_objects[u]
<1> USE IPCAssumption DEF NoSession
<1>1. ASSUME NEW u \in Threads
      PROVE  /\ WakeupOf(u)' /\ RequestOf(u)' /\ (SleepsInHandler(u)' <=> SleepsInHandler(u))
             /\ wait_objects'[u] \subseteq wait_objects[u]
  <2>1. WakeupOf(u) /\ RequestOf(u)
    BY DEF ThreadsInv
  <2>2. CASE u \in Requester(r)
    <3>1. ~SleepsInHandler(u) /\ status[u] \in {"WaitIPC", "Dead"} /\ u \notin timed
      BY <2>2, RequesterWaits
    <3>2. /\ status'[u] = IF status[u] # "Dead" THEN "Ready" ELSE "Dead"
          /\ wait_objects'[u] = {} /\ wakeup_callback'[u] = "None" /\ asked'[u] = NoSession
      BY <2>2 DEF Resume, AnswerTo
    <3> QED
      BY <2>1, <3>1, <3>2 DEF WakeupOf, RequestOf, SleepsInHandler
  <2>3. CASE u \notin Requester(r)
    <3>1. /\ status'[u] = status[u] /\ wait_objects'[u] = wait_objects[u]
          /\ wakeup_callback'[u] = wakeup_callback[u] /\ asked'[u] = asked[u]
      BY <2>3 DEF Resume, AnswerTo
    <3> QED
      BY <2>1, <3>1 DEF WakeupOf, RequestOf, SleepsInHandler
  <2> QED
    BY <2>2, <2>3
<1> QED
  BY <1>1

LEMMA ReplyInv ==
    ASSUME Types, ThreadsInv, SessionsInv, NEW t \in Servers,
           NEW r \in server_handles \cup {NoSession}, Reply(t, r)
    PROVE  ThreadsInv' /\ SessionsInv'
<1>1. /\ ReplyMade(t, r) /\ AnswerTo(r) /\ Resume(Requester(r))
      /\ currently_handling' = HandlingAfterReply(r) /\ DropUnreferenced({})
      /\ UNCHANGED <<client, pending_requesting_threads, hle_handler, pending_sessions,
                     server_handles, wakeupVars>>
  BY DEF Reply
<1>2. /\ \A u \in Threads : WakeupOf(u)' /\ RequestOf(u)'
      /\ \A u \in Threads : SleepsInHandler(u)' <=> SleepsInHandler(u)
      /\ \A u \in Threads : wait_objects'[u] \subseteq wait_objects[u]
  BY <1>1, RequesterResumed
<1>3. \A x \in Sessions : RequestsOf(x)'
  BY <1>1, <1>2, RequestsAfterReply
<1>4. SessionsInv'
  BY <1>1, <1>2, SessionsKept DEF SessionsInv
<1> QED
  BY <1>2, <1>3, <1>4 DEF ThreadsInv

(* What ReplyAndReceive does to the requests.                              *)
LEMMA ReplyAndReceiveEffect ==
    ASSUME Types, NEW t \in Servers, NEW r \in server_handles \cup {NoSession},
           NEW o \in Receivable, ReplyAndReceive(t, r, o), NEW x \in Sessions
    PROVE  \/ /\ pending_requesting_threads'[x] = pending_requesting_threads[x]
              /\ currently_handling'[x] = HandlingAfterReply(r)[x]
              /\ x \notin client \/ x # o
           \/ /\ pending_requesting_threads[x] # <<>> /\ x = o /\ x \in client
              /\ pending_requesting_threads'[x] = WithoutLast(pending_requesting_threads[x])
              /\ currently_handling'[x] = Last(pending_requesting_threads[x])
              /\ HandlingAfterReply(r)[x] = NoThread
<1> USE IPCAssumption
<1>1. PICK handling : handling = HandlingAfterReply(r)
  OBVIOUS
<1>2. handling \in [Sessions -> Threads \cup {NoThread}]
  BY <1>1 DEF HandlingAfterReply, Types
<1>3. CASE o \in Sessions /\ o \in client
  <2>1. pending_requesting_threads[o] # <<>> /\ handling[o] = NoThread
    BY <1>1, <1>3 DEF ReplyAndReceive, IsReady, SessionShouldWait
  <2>2. /\ currently_handling' = [handling EXCEPT ![o] = Last(pending_requesting_threads[o])]
        /\ pending_requesting_threads' =
              [pending_requesting_threads EXCEPT ![o] = WithoutLast(@)]
    BY <1>1, <1>3 DEF ReplyAndReceive
  <2> QED
    BY <1>1, <1>2, <1>3, <2>1, <2>2 DEF Types
<1>4. CASE ~(o \in Sessions /\ o \in client)
  <2>1. currently_handling' = handling /\ pending_requesting_threads' = pending_requesting_threads
    BY <1>1, <1>4 DEF ReplyAndReceive
  <2> QED
    BY <1>1, <1>4, <2>1
<1> QED
  BY <1>3, <1>4

LEMMA ReplyAndReceiveInv ==
    ASSUME Types, ThreadsInv, SessionsInv, NEW t \in Servers,
           NEW r \in server_handles \cup {NoSession}, NEW o \in Receivable,
           ReplyAndReceive(t, r, o)
    PROVE  ThreadsInv' /\ SessionsInv'
<1>1. /\ ReplyMade(t, r) /\ AnswerTo(r) /\ Resume(Requester(r)) /\ DropUnreferenced({})
      /\ UNCHANGED <<client, hle_handler, pending_sessions, server_handles, wakeupVars>>
  BY DEF ReplyAndReceive
<1>2. /\ \A u \in Threads : WakeupOf(u)' /\ RequestOf(u)'
      /\ \A u \in Threads : SleepsInHandler(u)' <=> SleepsInHandler(u)
      /\ \A u \in Threads : wait_objects'[u] \subseteq wait_objects[u]
  BY <1>1, RequesterResumed
<1>3. ASSUME NEW x \in Sessions
      PROVE  RequestsOf(x)'
  BY <1>1, <1>2, ReplyAndReceiveEffect, RequestsAfterReply
<1>4. SessionsInv'
  BY <1>1, <1>2, SessionsKept DEF SessionsInv
<1> QED
  BY <1>2, <1>3, <1>4 DEF ThreadsInv

LEMMA ReplyAndWaitInv ==
    ASSUME Types, ThreadsInv, SessionsInv, NEW t \in Servers,
           NEW r \in server_handles \cup {NoSession}, NEW R \in SUBSET Receivable,
           ReplyAndWait(t, r, R)
    PROVE  ThreadsInv' /\ SessionsInv'
<1> USE IPCAssumption DEF NoSession
<1>1. /\ ReplyMade(t, r) /\ AnswerTo(r) /\ DropUnreferenced({})
      /\ currently_handling' = HandlingAfterReply(r)
      /\ status' = [u \in Threads |->
            IF u = t THEN "WaitSynchAny"
            ELSE IF u \in Requester(r) /\ status[u] # "Dead" THEN "Ready" ELSE status[u]]
      /\ wait_objects' = [wait_objects EXCEPT ![t] = R]
      /\ wakeup_callback' = [wakeup_callback EXCEPT ![t] = "IPC"]
      /\ UNCHANGED <<client, pending_requesting_threads, hle_handler, pending_sessions,
                     server_handles, wakeupVars>>
  BY DEF ReplyAndWait
<1>2. status[t] = "Running" /\ asked[t] = NoSession /\ ~SleepsInHandler(t) /\ t \in Threads
  BY <1>1, RunningAsksNothing DEF ReplyMade, Runs, Threads
<1>3. ASSUME NEW u \in Threads
      PROVE  WakeupOf(u)' /\ RequestOf(u)' /\ (SleepsInHandler(u)' <=> SleepsInHandler(u))
  <2>1. WakeupOf(u) /\ RequestOf(u)
    BY DEF ThreadsInv
  <2>2. /\ wait_objects'[u] = IF u = t THEN R ELSE wait_objects[u]
        /\ wakeup_callback'[u] = IF u = t THEN "IPC" ELSE wakeup_callback[u]
        /\ asked'[u] = IF u \in Requester(r) THEN NoSession ELSE asked[u]
    BY <1>1 DEF AnswerTo, Types
  <2>3. CASE u = t
    <3>1. status'[u] = "WaitSynchAny" /\ u \notin timed /\ u \notin ts_timed \cup host
      BY <1>1, <1>2, <2>1, <2>3 DEF WakeupOf
    <3>2. asked'[u] = NoSession
      BY <1>2, <2>2, <2>3
    <3> QED
      BY <1>1, <1>2, <2>1, <2>2, <2>3, <3>1, <3>2 DEF WakeupOf, RequestOf, SleepsInHandler
  <2>4. CASE u # t /\ u \in Requester(r)
    <3>1. ~SleepsInHandler(u) /\ status[u] \in {"WaitIPC", "Dead"} /\ u \notin timed
      BY <1>1, <2>4, RequesterWaits
    <3>2. status'[u] = IF status[u] # "Dead" THEN "Ready" ELSE "Dead"
      BY <1>1, <2>4
    <3> QED
      BY <1>1, <2>1, <2>2, <2>4, <3>1, <3>2 DEF WakeupOf, RequestOf, SleepsInHandler
  <2>5. CASE u # t /\ u \notin Requester(r)
    <3>1. status'[u] = status[u]
      BY <1>1, <2>5
    <3> QED
      BY <1>1, <2>1, <2>2, <2>5, <3>1 DEF WakeupOf, RequestOf, SleepsInHandler
  <2> QED
    BY <2>3, <2>4, <2>5
<1>4. \A x \in Sessions : RequestsOf(x)'
  BY <1>1, <1>3, RequestsAfterReply
<1>5. SessionsInv'
  <2>1. \A u \in Threads : wait_objects'[u] \subseteq server \cup LlePorts
    BY <1>1 DEF SessionsInv, Receivable, Types
  <2> QED
    BY <1>1, <2>1, SessionsKept DEF SessionsInv
<1> QED
  BY <1>3, <1>4, <1>5 DEF ThreadsInv

LEMMA ThreadsSessionsStep ==
    ASSUME Types, ThreadsInv, SessionsInv, [Next]_vars
    PROVE  ThreadsInv' /\ SessionsInv'
<1>1. ASSUME NEW t \in Threads, Progress(t) \/ Dispatch(t)
      PROVE  ThreadsInv' /\ SessionsInv'
  BY <1>1, AsyncDoneInv, WakeupFiresInv, ServiceSignalsInv, DispatchInv DEF Progress
<1>2. ASSUME NEW S \in SUBSET Sessions, DestroyClientSessions(S)
      PROVE  ThreadsInv' /\ SessionsInv'
  BY <1>2, DestroyClientSessionsInv
<1>3. ASSUME NEW t \in Threads, SessionCall(t)
      PROVE  ThreadsInv' /\ SessionsInv'
  <2>1. PICK s \in Sessions :
            \/ \E fits \in BOOLEAN : Connect(t, s, fits)
            \/ SendToServer(t, s)
            \/ SendToHandler(t, s)
            \/ \E timeout, async \in BOOLEAN : SendAndSleep(t, s, timeout, async)
            \/ CloseClientSession(t, s)
            \/ CloseServerSession(t, s)
    BY <1>3 DEF SessionCall
  <2>2. CASE CloseClientSession(t, s)
    BY <1>2, <2>2 DEF CloseClientSession
  <2> QED
    BY <2>1, <2>2, ConnectInv, SendToServerInv, SendToHandlerInv, SendAndSleepInv,
       CloseServerSessionInv
<1>4. ASSUME NEW t \in Servers, ServerCall(t)
      PROVE  ThreadsInv' /\ SessionsInv'
  BY <1>4, ReplyInv, ReplyAndReceiveInv, ReplyAndWaitInv DEF ServerCall
<1>5. ASSUME NEW t \in Servers, NEW p \in LlePorts, NEW fits \in BOOLEAN,
             AcceptSession(t, p, fits)
      PROVE  ThreadsInv' /\ SessionsInv'
  BY <1>5, AcceptSessionInv
<1>6. CASE TerminateClients
  BY <1>6, TerminateClientsInv
<1>7. CASE DestroyProcess
  <2>1. {s \in client : Users[s] = Clients} \in SUBSET Sessions
    BY DEF Types
  <2> QED
    BY <1>2, <1>7, <2>1 DEF DestroyProcess
<1>8. CASE UNCHANGED vars
  BY <1>8, SessionsUnchanged, ThreadsUnchanged DEF vars
<1> QED
  BY <1>1, <1>3, <1>4, <1>5, <1>6, <1>7, <1>8 DEF Next

(* Pending requests, sleeping threads, wakeup events and sessions stay     *)
(* consistent: each request is on one list of one session and its thread   *)
(* waits for it; each event finds the wait it was queued for; and no       *)
(* session ends that a handle, a queue, a handler or a waiting thread      *)
(* still names (server_session.cpp:67-141, hle_ipc.cpp:80-123).            *)
THEOREM RequestsCorrect == Spec => [](ThreadsInv /\ SessionsInv)
<1>1. Init => ThreadsInv /\ SessionsInv
  <2>1. ASSUME Init
        PROVE  ThreadsInv
    BY <2>1, IPCAssumption DEF Init, ThreadsInv, WakeupOf, RequestOf, RequestsOf, SleepsInHandler,
                Distinct, Elements, NoSession
  <2>2. ASSUME Init
        PROVE  SessionsInv
    BY <2>2 DEF Init, SessionsInv, Elements
  <2> QED
    BY <2>1, <2>2
<1>2. Types /\ ThreadsInv /\ SessionsInv /\ [Next]_vars => (ThreadsInv /\ SessionsInv)'
  BY ThreadsSessionsStep
<1> HIDE DEF ThreadsInv, SessionsInv, Types, Counts, TypeOK
<1> QED
  BY <1>1, <1>2, IPCTypeCorrect, PTL DEF Spec

(* No wakeup event reaches a thread it was not meant for, whatever the     *)
(* threads call and in whatever order, unless the process may end during   *)
(* an async section (thread.cpp:242-304, svc.cpp:742): the timeout of a    *)
(* request is cancelled before its thread runs again, and a thread that    *)
(* receives never has one.                                                 *)
THEOREM NoStrayWakeup == ~TerminateDuringAsync /\ Spec => []NoAssertionFails
<1> SUFFICES ASSUME ~TerminateDuringAsync
             PROVE  Spec => []NoAssertionFails
  OBVIOUS
<1>1. Init => NoAssertionFails
  BY DEF Init, NoAssertionFails
<1>2. ASSUME ThreadsInv, NoAssertionFails, [Next]_vars
      PROVE  NoAssertionFails'
  <2>1. ASSUME NEW t \in Threads, WakeupFires(t)
        PROVE  NoAssertionFails'
    <3>0. t \in timed \cup ts_timed
      BY <2>1 DEF WakeupFires
    <3>1. WakeupOf(t) /\ t \in timed \cup ts_timed
      BY <1>2, <3>0 DEF ThreadsInv
    <3>2. status[t] # "Dead" /\ status[t] # "Running" /\ wakeup_callback[t] # "IPC"
      BY <3>1 DEF WakeupOf
    <3> QED
      BY <2>1, <3>2 DEF WakeupFires, NoAssertionFails
  <2>2. \/ \E t \in Threads : WakeupFires(t)
        \/ faults' = faults
    <3>1. ASSUME NEW t \in Threads, Progress(t) \/ Dispatch(t)
          PROVE  WakeupFires(t) \/ faults' = faults
      <4>1. AsyncDone(t) => faults' = faults
        BY DEF AsyncDone
      <4>2. ServiceSignals(t) => faults' = faults
        BY DEF ServiceSignals
      <4>3. Dispatch(t) => faults' = faults
        BY DEF Dispatch
      <4> QED
        BY <3>1, <4>1, <4>2, <4>3 DEF Progress
    <3>2. ASSUME NEW t \in Threads, SessionCall(t)
          PROVE  faults' = faults
      BY <3>2 DEF SessionCall, Connect, SendToServer, SendToHandler, SendAndSleep,
                  CloseClientSession, DestroyClientSessions, CloseServerSession
    <3>3. ASSUME NEW t \in Servers, ServerCall(t)
          PROVE  faults' = faults
      BY <3>3 DEF ServerCall, Reply, ReplyAndReceive, ReplyAndWait
    <3> QED
      BY <1>2, <3>1, <3>2, <3>3 DEF Next, AcceptSession, TerminateClients, DestroyProcess,
                                    DestroyClientSessions, vars
  <2> QED
    BY <1>2, <2>1, <2>2 DEF NoAssertionFails
<1> HIDE DEF ThreadsInv, SessionsInv, NoAssertionFails
<1> QED
  BY <1>1, <1>2, RequestsCorrect, PTL DEF Spec

(***************************************************************************)
(* A server with one thread: what it waits for is its own.                 *)
(***************************************************************************)
SingleServer == \A v, w \in Servers : v = w

(* The objects a thread waits for are those the server can name.           *)
WaitsByHandle == \A t \in Threads : wait_objects[t] \subseteq Receivable

(* While the only server thread runs, no thread waits for an object.       *)
LEMMA NobodyElseWaits ==
    ASSUME SingleServer, Types, ThreadsInv, NEW v \in Servers, status[v] = "Running"
    PROVE  \A u \in Threads : wait_objects[u] = {}
<1> SUFFICES ASSUME NEW u \in Threads, wait_objects[u] # {}
             PROVE  FALSE
  OBVIOUS
<1>1. status[u] = "WaitSynchAny" /\ u \in Servers
  BY WaitersSleep
<1> QED
  BY <1>1 DEF SingleServer

(* Between server calls the sets of objects only shrink, and neither the   *)
(* handles nor the requests of a session with a waiting thread change,     *)
(* except by requests and by the end of the client's session.              *)
LEMMA WaitsStep ==
    ASSUME Types, Next
    PROVE  \/ \E t \in Servers, r \in server_handles \cup {NoSession},
                 R \in SUBSET Receivable : ReplyAndWait(t, r, R)
           \/ \E t \in Servers : /\ status[t] = "Running"
                                 /\ \A u \in Threads : wait_objects'[u] \subseteq wait_objects[u]
           \/ \E t \in Threads, s \in Sessions : SendToServer(t, s)
           \/ \E S \in SUBSET Sessions : DestroyClientSessions(S)
           \/ /\ UNCHANGED <<requestVars, server_handles>>
              /\ client \subseteq client'
              /\ \A u \in Threads : wait_objects'[u] \subseteq wait_objects[u]
<1> DEFINE Quiet == /\ UNCHANGED <<requestVars, server_handles>>
                    /\ client \subseteq client'
                    /\ \A u \in Threads : wait_objects'[u] \subseteq wait_objects[u]
           Shrink == \A u \in Threads : wait_objects'[u] \subseteq wait_objects[u]
<1>1. \A W : Resume(W) => Shrink
  BY DEF Resume, Types
<1>2. ASSUME NEW t \in Threads, Progress(t) \/ Dispatch(t)
      PROVE  Quiet
  <2>1. CASE AsyncDone(t)
    BY <2>1 DEF AsyncDone
  <2>2. CASE WakeupFires(t)
    BY <1>1, <2>2 DEF WakeupFires
  <2>3. CASE ServiceSignals(t)
    BY <1>1, <2>3 DEF ServiceSignals
  <2>4. CASE Dispatch(t)
    BY <2>4 DEF Dispatch
  <2> QED
    BY <1>2, <2>1, <2>2, <2>3, <2>4 DEF Progress
<1>3. ASSUME NEW t \in Threads, SessionCall(t)
      PROVE  \/ \E s \in Sessions : SendToServer(t, s)
             \/ \E S \in SUBSET Sessions : DestroyClientSessions(S)
             \/ \E v \in Servers : status[v] = "Running" /\ Shrink
             \/ Quiet
  <2>1. PICK s \in Sessions :
            \/ \E fits \in BOOLEAN : Connect(t, s, fits)
            \/ SendToServer(t, s)
            \/ SendToHandler(t, s)
            \/ \E timeout, async \in BOOLEAN : SendAndSleep(t, s, timeout, async)
            \/ CloseClientSession(t, s)
            \/ CloseServerSession(t, s)
    BY <1>3 DEF SessionCall
  <2>2. ASSUME NEW fits \in BOOLEAN, Connect(t, s, fits)
        PROVE  Quiet
    BY <1>1, <2>2 DEF Connect
  <2>3. ASSUME SendToHandler(t, s)
        PROVE  Quiet
    BY <2>3 DEF SendToHandler
  <2>4. ASSUME NEW timeout \in BOOLEAN, NEW async \in BOOLEAN, SendAndSleep(t, s, timeout, async)
        PROVE  Quiet
    BY <2>4 DEF SendAndSleep
  <2>5. ASSUME CloseClientSession(t, s)
        PROVE  \E S \in SUBSET Sessions : DestroyClientSessions(S)
    BY <2>5 DEF CloseClientSession
  <2>6. ASSUME CloseServerSession(t, s)
        PROVE  t \in Servers /\ status[t] = "Running" /\ Shrink
    BY <2>6 DEF CloseServerSession, Runs
  <2> QED
    BY <2>1, <2>2, <2>3, <2>4, <2>5, <2>6
<1>4. ASSUME NEW t \in Servers, ServerCall(t)
      PROVE  \/ \E r \in server_handles \cup {NoSession}, R \in SUBSET Receivable :
                    ReplyAndWait(t, r, R)
             \/ status[t] = "Running" /\ Shrink
  <2>1. ASSUME NEW r \in server_handles \cup {NoSession}, Reply(t, r)
        PROVE  status[t] = "Running" /\ Shrink
    BY <1>1, <2>1 DEF Reply, ReplyMade, Runs
  <2>2. ASSUME NEW r \in server_handles \cup {NoSession}, NEW o \in Receivable,
               ReplyAndReceive(t, r, o)
        PROVE  status[t] = "Running" /\ Shrink
    BY <1>1, <2>2 DEF ReplyAndReceive, ReplyMade, Runs
  <2> QED
    BY <1>4, <2>1, <2>2 DEF ServerCall
<1>5. ASSUME NEW t \in Servers, NEW p \in LlePorts, NEW fits \in BOOLEAN,
             AcceptSession(t, p, fits)
      PROVE  status[t] = "Running" /\ Shrink
  BY <1>5 DEF AcceptSession, Runs
<1>6. TerminateClients => Quiet
  BY DEF TerminateClients
<1>7. DestroyProcess => \E S \in SUBSET Sessions : DestroyClientSessions(S)
  <2>1. {s \in client : Users[s] = Clients} \in SUBSET Sessions
    BY DEF Types
  <2> QED
    BY <2>1 DEF DestroyProcess
<1> QED
  BY <1>2, <1>3, <1>4, <1>5, <1>6, <1>7 DEF Next

LEMMA WaitsByHandleStep ==
    ASSUME SingleServer, Types, ThreadsInv, WaitsByHandle, [Next]_vars
    PROVE  WaitsByHandle'
<1>1. ASSUME NEW t \in Servers, NEW r \in server_handles \cup {NoSession},
             NEW R \in SUBSET Receivable, ReplyAndWait(t, r, R)
      PROVE  WaitsByHandle'
  BY <1>1 DEF ReplyAndWait, WaitsByHandle, Receivable, Types
<1>2. ASSUME NEW t \in Servers, status[t] = "Running",
             \A u \in Threads : wait_objects'[u] \subseteq wait_objects[u]
      PROVE  WaitsByHandle'
  BY <1>2, NobodyElseWaits DEF WaitsByHandle
<1>3. ASSUME server_handles' = server_handles,
             \A u \in Threads : wait_objects'[u] \subseteq wait_objects[u]
      PROVE  WaitsByHandle'
  BY <1>3 DEF WaitsByHandle, Receivable
<1>4. ASSUME NEW t \in Threads, NEW s \in Sessions, SendToServer(t, s)
      PROVE  WaitsByHandle'
  <2>1. PICK W : wait_objects' = [u \in Threads |-> IF u \in W THEN {} ELSE wait_objects[u]]
    BY <1>4, SendToServerEffect
  <2>2. server_handles' = server_handles
    BY <1>4, SendToServerEffect
  <2> QED
    BY <1>3, <2>1, <2>2
<1>5. ASSUME NEW S \in SUBSET Sessions, DestroyClientSessions(S)
      PROVE  WaitsByHandle'
  <2>1. \A u \in Threads : wait_objects'[u] \subseteq wait_objects[u]
    BY <1>5 DEF DestroyClientSessions, Resume
  <2> QED
    BY <1>3, <1>5, <2>1 DEF DestroyClientSessions
<1>6. CASE UNCHANGED vars
  BY <1>3, <1>6 DEF vars
<1> QED
  BY <1>1, <1>2, <1>3, <1>4, <1>5, <1>6, WaitsStep

LEMMA NoLostRequestStep ==
    ASSUME SingleServer, Types, ThreadsInv, NoLostRequest, [Next]_vars
    PROVE  NoLostRequest'
<1> USE IPCAssumption
<1> SUFFICES ASSUME NEW s \in Sessions, NEW u \in Threads, s \in wait_objects'[u]
             PROVE  s \in client' /\ \/ pending_requesting_threads'[s] = <<>>
                                     \/ currently_handling'[s] # NoThread
  BY DEF NoLostRequest, SessionShouldWait, Waiting
<1>1. ASSUME NEW t \in Servers, NEW r \in server_handles \cup {NoSession},
             NEW R \in SUBSET Receivable, ReplyAndWait(t, r, R)
      PROVE  s \in client' /\ \/ pending_requesting_threads'[s] = <<>>
                              \/ currently_handling'[s] # NoThread
  <2>1. \A x \in Threads : wait_objects[x] = {}
    BY <1>1, NobodyElseWaits DEF ReplyAndWait, ReplyMade, Runs
  <2>2. s \in R
    BY <1>1, <2>1 DEF ReplyAndWait, Types
  <2>3. SessionShouldWait(s, HandlingAfterReply(r), pending_requesting_threads)
    BY <1>1, <2>2 DEF ReplyAndWait, IsReady
  <2> QED
    BY <1>1, <2>3 DEF ReplyAndWait, SessionShouldWait
<1>2. ASSUME NEW t \in Servers, status[t] = "Running",
             \A x \in Threads : wait_objects'[x] \subseteq wait_objects[x]
      PROVE  FALSE
  BY <1>2, NobodyElseWaits
<1>3. ASSUME s \in wait_objects[u]
      PROVE  s \in client /\ \/ pending_requesting_threads[s] = <<>>
                             \/ currently_handling[s] # NoThread
  BY <1>3 DEF NoLostRequest, SessionShouldWait, Waiting
<1>4. ASSUME UNCHANGED requestVars, client \subseteq client',
             \A x \in Threads : wait_objects'[x] \subseteq wait_objects[x]
      PROVE  s \in client' /\ \/ pending_requesting_threads'[s] = <<>>
                              \/ currently_handling'[s] # NoThread
  BY <1>3, <1>4
<1>5. ASSUME NEW t \in Threads, NEW x \in Sessions, SendToServer(t, x)
      PROVE  s \in client' /\ \/ pending_requesting_threads'[s] = <<>>
                              \/ currently_handling'[s] # NoThread
  <2>1. PICK W \in SUBSET Waiting(x) :
         /\ status' = [v \in Threads |-> IF v = t THEN "WaitIPC"
                          ELSE IF v \in W THEN "Ready" ELSE status[v]]
         /\ wait_objects' = [v \in Threads |-> IF v \in W THEN {} ELSE wait_objects[v]]
         /\ wakeup_callback' = [v \in Threads |-> IF v \in W THEN "None"
                                                  ELSE wakeup_callback[v]]
         /\ \/ /\ W = {} /\ currently_handling' = currently_handling
               /\ pending_requesting_threads' = [pending_requesting_threads
                      EXCEPT ![x] = Append(@, t)]
               /\ Waiting(x) = {} \/ currently_handling[x] # NoThread
            \/ /\ W # {} /\ currently_handling[x] = NoThread
               /\ (\E w \in Threads : W = {w})
               /\ currently_handling' = [currently_handling EXCEPT ![x] = t]
               /\ pending_requesting_threads' = pending_requesting_threads
    BY <1>5, SendToServerEffect
  <2>2. s \in wait_objects[u] /\ u \notin W /\ client' = client
    BY <1>5, <2>1, SendToServerEffect
  <2>3. W = {}
    <3>1. ASSUME NEW w \in W
          PROVE  FALSE
      <4>1. u \in Servers
        BY <2>2, WaitersSleep
      <4>2. w \in Servers
        BY <2>1, WaitersSleep DEF Waiting
      <4> QED
        BY <2>2, <3>1, <4>1, <4>2 DEF SingleServer
    <3> QED
      BY <3>1
  <2>4. /\ currently_handling' = currently_handling
        /\ pending_requesting_threads' = [pending_requesting_threads EXCEPT ![x] = Append(@, t)]
        /\ Waiting(x) = {} \/ currently_handling[x] # NoThread
    BY <2>1, <2>3
  <2>5. CASE x = s
    <3>1. currently_handling[x] # NoThread
      BY <2>2, <2>4, <2>5 DEF Waiting
    <3> QED
      BY <1>3, <2>2, <2>4, <2>5, <3>1
  <2>6. CASE x # s
    <3>1. pending_requesting_threads'[s] = pending_requesting_threads[s]
      BY <2>4, <2>6 DEF Types
    <3> QED
      BY <1>3, <2>2, <2>4, <3>1
  <2> QED
    BY <2>5, <2>6
<1>6. ASSUME NEW S \in SUBSET Sessions, DestroyClientSessions(S)
      PROVE  s \in client' /\ \/ pending_requesting_threads'[s] = <<>>
                              \/ currently_handling'[s] # NoThread
  <2>1. s \notin S /\ s \in wait_objects[u]
    BY <1>6 DEF DestroyClientSessions, Resume, Waiting
  <2>2. /\ client' = client \ S
        /\ pending_requesting_threads'[s] = pending_requesting_threads[s]
        /\ currently_handling'[s] = currently_handling[s]
    BY <1>6, <2>1 DEF DestroyClientSessions, ForgetRequests
  <2> QED
    BY <1>3, <2>1, <2>2
<1>7. CASE UNCHANGED vars
  BY <1>4, <1>7 DEF vars
<1> QED
  BY <1>1, <1>2, <1>4, <1>5, <1>6, <1>7, WaitsStep

(* With a single server thread no request finds the thread asleep on its   *)
(* session with nothing being handled: whichever of asking, receiving and  *)
(* closing comes first, the thread is woken (server_session.cpp:60-141,    *)
(* client_session.cpp:23-52, svc.cpp:942-1045).                            *)
THEOREM NoRequestIsLost == SingleServer /\ Spec => []NoLostRequest
<1> SUFFICES ASSUME SingleServer
             PROVE  Spec => []NoLostRequest
  OBVIOUS
<1>1. Init => NoLostRequest
  BY DEF Init, NoLostRequest, Waiting
<1>2. Types /\ ThreadsInv /\ NoLostRequest /\ [Next]_vars => NoLostRequest'
  BY NoLostRequestStep
<1> HIDE DEF ThreadsInv, SessionsInv, Types, Counts, TypeOK, NoLostRequest
<1> QED
  BY <1>1, <1>2, IPCTypeCorrect, RequestsCorrect, PTL DEF Spec

(***************************************************************************)
(* Sessions are channels.                                                  *)
(***************************************************************************)
(* A session that nobody names is gone.                                    *)
ServersReferenced == \A s \in server : Referenced(s)

LEMMA ReferencedStep ==
    ASSUME Types, ThreadsInv, ServersReferenced, [Next]_vars
    PROVE  ServersReferenced'
<1> USE IPCAssumption DEF NoSession
<1>1. ASSUME NEW opened, DropUnreferenced(opened)
      PROVE  ServersReferenced'
  BY <1>1 DEF DropUnreferenced, ServersReferenced
<1>2. ASSUME UNCHANGED <<server, server_handles, pending_sessions, hle_handler, wait_objects>>,
             \A u \in Threads : SleepsInHandler(u) =>
                 SleepsInHandler(u)' /\ asked'[u] = asked[u]
      PROVE  ServersReferenced'
  <2>1. ASSUME NEW s \in server, Referenced(s)
        PROVE  Referenced(s)'
    BY <1>2, <2>1 DEF Referenced, Elements
  <2> QED
    BY <1>2, <2>1 DEF ServersReferenced
<1>3. \/ \E opened \in SUBSET Sessions : DropUnreferenced(opened)
      \/ \E t \in Threads : AsyncDone(t) \/ Dispatch(t)
      \/ \E t \in Threads, s \in Sessions : SendToHandler(t, s)
      \/ \E t \in Threads, s \in Sessions, timeout, async \in BOOLEAN :
             SendAndSleep(t, s, timeout, async)
      \/ TerminateClients
      \/ UNCHANGED vars
  <2>1. ASSUME NEW t \in Threads, Progress(t)
        PROVE  AsyncDone(t) \/ DropUnreferenced({})
    BY <2>1 DEF Progress, WakeupFires, ServiceSignals
  <2>2. ASSUME NEW t \in Threads, SessionCall(t)
        PROVE  \/ \E opened \in SUBSET Sessions : DropUnreferenced(opened)
               \/ \E s \in Sessions : SendToHandler(t, s)
               \/ \E s \in Sessions, timeout, async \in BOOLEAN :
                      SendAndSleep(t, s, timeout, async)
    <3>1. ASSUME NEW s \in Sessions, NEW fits \in BOOLEAN, Connect(t, s, fits)
          PROVE  DropUnreferenced({s})
      BY <3>1 DEF Connect
    <3>2. ASSUME NEW s \in Sessions,
                 SendToServer(t, s) \/ CloseClientSession(t, s) \/ CloseServerSession(t, s)
          PROVE  DropUnreferenced({})
      BY <3>2 DEF SendToServer, CloseClientSession, DestroyClientSessions, CloseServerSession
    <3> QED
      BY <2>2, <3>1, <3>2 DEF SessionCall
  <2>3. ASSUME NEW t \in Servers, ServerCall(t)
        PROVE  DropUnreferenced({})
    BY <2>3 DEF ServerCall, Reply, ReplyAndReceive, ReplyAndWait
  <2>4. ASSUME NEW t \in Servers, NEW p \in LlePorts, NEW fits \in BOOLEAN,
               AcceptSession(t, p, fits)
        PROVE  DropUnreferenced({})
    BY <2>4 DEF AcceptSession
  <2>5. DestroyProcess => DropUnreferenced({})
    BY DEF DestroyProcess, DestroyClientSessions
  <2>6. {} \in SUBSET Sessions
    OBVIOUS
  <2> QED
    BY <2>1, <2>2, <2>3, <2>4, <2>5, <2>6 DEF Next
<1>4. ASSUME NEW t \in Threads, AsyncDone(t) \/ Dispatch(t)
      PROVE  ServersReferenced'
  <2>1. UNCHANGED <<server, server_handles, pending_sessions, hle_handler, wait_objects,
                    wakeup_callback, asked>>
    BY <1>4 DEF AsyncDone, Dispatch
  <2> QED
    BY <1>2, <2>1 DEF SleepsInHandler
<1>5. ASSUME NEW t \in Threads, NEW s \in Sessions, SendToHandler(t, s)
      PROVE  ServersReferenced'
  BY <1>2, <1>5 DEF SendToHandler, SleepsInHandler
<1>6. ASSUME NEW t \in Threads, NEW s \in Sessions, NEW timeout \in BOOLEAN,
             NEW async \in BOOLEAN, SendAndSleep(t, s, timeout, async)
      PROVE  ServersReferenced'
  <2>1. ~SleepsInHandler(t)
    BY <1>6, RunningAsksNothing DEF SendAndSleep, MayAsk, Runs
  <2>2. \A u \in Threads : SleepsInHandler(u) => SleepsInHandler(u)' /\ asked'[u] = asked[u]
    BY <1>6, <2>1 DEF SendAndSleep, SleepsInHandler, Types
  <2> QED
    BY <1>2, <1>6, <2>2 DEF SendAndSleep
<1>7. TerminateClients => ServersReferenced'
  BY <1>2 DEF TerminateClients, SleepsInHandler
<1>8. CASE UNCHANGED vars
  BY <1>2, <1>8 DEF vars, SleepsInHandler
<1> QED
  BY <1>1, <1>3, <1>4, <1>5, <1>6, <1>7, <1>8

(* What a step may do to the request of thread t, as RequestChannel says.  *)
RequestStep(t) ==
    \/ /\ PhaseOf(t)' = PhaseOf(t)
       /\ PhaseOf(t) # "idle" => asked'[t] = asked[t]
    \/ /\ PhaseOf(t) = "idle" /\ PhaseOf(t)' \in {"asked", "taken"}
       /\ asked'[t] \in client \cap server
    \/ /\ PhaseOf(t) = "asked" /\ PhaseOf(t)' = "taken"
       /\ asked'[t] = asked[t] /\ asked[t] \in client \cap server
    \/ PhaseOf(t) = "taken" /\ PhaseOf(t)' = "idle"
    \/ /\ PhaseOf(t) \in {"asked", "taken"} /\ PhaseOf(t)' = "lost"
       /\ asked'[t] = asked[t]
       /\ asked[t] \in (client \cap server) \ (client' \cap server')

(* The request of a thread whose session keeps it where it was, or ends.   *)
LEMMA RequestStays ==
    ASSUME Types, ThreadsInv, NEW t \in Threads, asked'[t] = asked[t],
           SleepsInHandler(t)' <=> SleepsInHandler(t), server' \cap created \subseteq server,
           \A s \in Sessions : s = asked[t] /\ ~SleepsInHandler(t) =>
               \/ /\ currently_handling'[s] = t <=> currently_handling[s] = t
                  /\ t \in Elements(pending_requesting_threads'[s])
                        <=> t \in Elements(pending_requesting_threads[s])
               \/ /\ s \notin client' /\ currently_handling'[s] # t
                  /\ t \notin Elements(pending_requesting_threads'[s])
    PROVE  RequestStep(t)
<1> USE IPCAssumption DEF NoSession
<1>1. CASE asked[t] = NoSession
  BY <1>1 DEF RequestStep, PhaseOf
<1>2. CASE asked[t] # NoSession /\ SleepsInHandler(t)
  BY <1>2 DEF RequestStep, PhaseOf
<1>3. CASE asked[t] # NoSession /\ ~SleepsInHandler(t)
  <2>1. PICK s \in Sessions : s = asked[t]
    BY <1>3 DEF Types
  <2>2. /\ s # NoSession
        /\ PhaseOf(t) = IF currently_handling[s] = t /\ s \in server THEN "taken"
                        ELSE IF t \in Elements(pending_requesting_threads[s]) /\ s \in server
                        THEN "asked" ELSE "lost"
        /\ PhaseOf(t)' = IF currently_handling'[s] = t /\ s \in server' THEN "taken"
                         ELSE IF t \in Elements(pending_requesting_threads'[s]) /\ s \in server'
                         THEN "asked" ELSE "lost"
    <3>1. Elements(pending_requesting_threads[s])' = Elements(pending_requesting_threads'[s])
      BY DEF Elements
    <3> QED
      BY <1>3, <2>1, <3>1 DEF PhaseOf
  <2>3. currently_handling[s] = t \/ t \in Elements(pending_requesting_threads[s])
           => s \in client /\ s \in created
    BY DEF ThreadsInv, RequestsOf, Types
  <2> HIDE DEF PhaseOf
  <2> QED
    BY <1>3, <2>1, <2>2, <2>3 DEF RequestStep
<1> QED
  BY <1>1, <1>2, <1>3

(* No step makes a session that existed once exist again.                  *)
LEMMA SessionsEndForGood ==
    ASSUME Types, Next
    PROVE  server' \cap created \subseteq server
<1>1. ASSUME NEW t \in Threads, Progress(t) \/ Dispatch(t)
      PROVE  server' \subseteq server
  <2>1. CASE AsyncDone(t)
    BY <2>1 DEF AsyncDone
  <2>2. CASE WakeupFires(t)
    BY <2>2, DroppedServers DEF WakeupFires
  <2>3. CASE ServiceSignals(t)
    BY <2>3, DroppedServers DEF ServiceSignals
  <2>4. CASE Dispatch(t)
    BY <2>4 DEF Dispatch
  <2> QED
    BY <1>1, <2>1, <2>2, <2>3, <2>4 DEF Progress
<1>2. ASSUME NEW S, DestroyClientSessions(S)
      PROVE  server' \subseteq server
  BY <1>2, DroppedServers DEF DestroyClientSessions
<1>3. ASSUME NEW t \in Threads, SessionCall(t)
      PROVE  server' \cap created \subseteq server
  <2>1. ASSUME NEW s \in Sessions, NEW fits \in BOOLEAN, Connect(t, s, fits)
        PROVE  server' \cap created \subseteq server
    <3>1. s \notin created /\ server' \subseteq server \cup {s}
      BY <2>1, DroppedServers DEF Connect
    <3> QED
      BY <3>1
  <2>2. ASSUME NEW s \in Sessions, SendToServer(t, s)
        PROVE  server' \subseteq server
    BY <2>2, DroppedServers DEF SendToServer
  <2>3. ASSUME NEW s \in Sessions, SendToHandler(t, s)
        PROVE  server' \subseteq server
    BY <2>3 DEF SendToHandler
  <2>4. ASSUME NEW s \in Sessions, NEW timeout \in BOOLEAN, NEW async \in BOOLEAN,
               SendAndSleep(t, s, timeout, async)
        PROVE  server' \subseteq server
    BY <2>4 DEF SendAndSleep
  <2>5. ASSUME NEW s \in Sessions, CloseClientSession(t, s)
        PROVE  server' \subseteq server
    BY <1>2, <2>5 DEF CloseClientSession
  <2>6. ASSUME NEW s \in Sessions, CloseServerSession(t, s)
        PROVE  server' \subseteq server
    BY <2>6, DroppedServers DEF CloseServerSession
  <2> QED
    BY <1>3, <2>1, <2>2, <2>3, <2>4, <2>5, <2>6 DEF SessionCall
<1>4. ASSUME NEW t \in Servers, ServerCall(t)
      PROVE  server' \subseteq server
  BY <1>4, DroppedServers DEF ServerCall, Reply, ReplyAndReceive, ReplyAndWait
<1>5. ASSUME NEW t \in Servers, NEW p \in LlePorts, NEW fits \in BOOLEAN,
             AcceptSession(t, p, fits)
      PROVE  server' \subseteq server
  BY <1>5, DroppedServers DEF AcceptSession
<1>6. TerminateClients => server' = server
  BY DEF TerminateClients
<1>7. DestroyProcess => server' \subseteq server
  BY <1>2 DEF DestroyProcess
<1> QED
  BY <1>1, <1>3, <1>4, <1>5, <1>6, <1>7 DEF Next

(* Steps that leave every request where it is.                             *)
LEMMA RequestsStay ==
    ASSUME Types, ThreadsInv, server' \cap created \subseteq server,
           UNCHANGED <<requestVars, asked>>,
           \A t \in Threads : SleepsInHandler(t)' <=> SleepsInHandler(t)
    PROVE  \A t \in Threads : RequestStep(t)
BY RequestStays

LEMMA AnsweredRequest ==
    ASSUME Types, ThreadsInv, server' \cap created \subseteq server, NEW t \in Threads,
           Answer(t), asked[t] = NoSession \/ SleepsInHandler(t), UNCHANGED requestVars,
           \A u \in Threads \ {t} : SleepsInHandler(u)' <=> SleepsInHandler(u)
    PROVE  \A u \in Threads : RequestStep(u)
<1>1. RequestStep(t)
  <2>1. asked'[t] = NoSession
    BY DEF Answer, Types
  <2>2. PhaseOf(t)' = "idle"
    BY <2>1 DEF PhaseOf
  <2>3. PhaseOf(t) \in {"idle", "taken"}
    BY DEF PhaseOf
  <2> QED
    BY <2>2, <2>3 DEF RequestStep
<1>2. ASSUME NEW u \in Threads \ {t}
      PROVE  RequestStep(u)
  <2>1. asked'[u] = asked[u]
    BY DEF Answer, Types
  <2> QED
    BY <2>1, RequestStays
<1> QED
  BY <1>1, <1>2

LEMMA ProgressRequests ==
    ASSUME Types, ThreadsInv, server' \cap created \subseteq server,
           NEW t \in Threads, Progress(t)
    PROVE  \A u \in Threads : RequestStep(u)
<1>1. CASE AsyncDone(t)
  BY <1>1, RequestsStay DEF AsyncDone, SleepsInHandler
<1>2. CASE WakeupFires(t)
  <2>1. WakeupOf(t) /\ RequestOf(t) /\ t \in timed \cup ts_timed
    BY <1>2 DEF ThreadsInv, WakeupFires
  <2>2. CASE status[t] \in {"WaitHleEvent", "WaitIPC", "WaitSynchAny"}
    <3>1. Resume({t}) /\ Answer(t)
      BY <1>2, <2>2 DEF WakeupFires
    <3>2. asked[t] = NoSession \/ SleepsInHandler(t)
      BY <2>1, <2>2 DEF WakeupOf, RequestOf, SleepsInHandler
    <3>3. \A u \in Threads \ {t} : SleepsInHandler(u)' <=> SleepsInHandler(u)
      BY <3>1 DEF Resume, SleepsInHandler
    <3>4. UNCHANGED requestVars
      BY <1>2 DEF WakeupFires
    <3> QED
      BY <3>1, <3>2, <3>3, <3>4, AnsweredRequest
  <2>3. CASE status[t] \notin {"WaitHleEvent", "WaitIPC", "WaitSynchAny"}
    BY <1>2, <2>3, RequestsStay DEF WakeupFires, SleepsInHandler
  <2> QED
    BY <2>2, <2>3
<1>3. CASE ServiceSignals(t)
  <2>1. Resume({t}) /\ Answer(t) /\ SleepsInHandler(t) /\ UNCHANGED requestVars
    BY <1>3 DEF ServiceSignals, SleepsInHandler
  <2>2. \A u \in Threads \ {t} : SleepsInHandler(u)' <=> SleepsInHandler(u)
    BY <2>1 DEF Resume, SleepsInHandler
  <2> QED
    BY <2>1, <2>2, AnsweredRequest
<1> QED
  BY <1>1, <1>2, <1>3 DEF Progress

LEMMA SendToServerRequests ==
    ASSUME SingleServer, Types, ThreadsInv, SessionsInv, WaitsByHandle, ServersReferenced,
           server' \cap created \subseteq server,
           NEW t \in Threads, NEW s \in Sessions, SendToServer(t, s)
    PROVE  \A u \in Threads : RequestStep(u)
<1> USE IPCAssumption DEF NoSession
<1>1. /\ status[t] = "Running" /\ s \in client /\ s \in server
      /\ asked' = [asked EXCEPT ![t] = s]
      /\ UNCHANGED <<hle_handler, pending_sessions, server_handles>>
      /\ DropUnreferenced({})
  BY SendToServerEffect
<1>2. PICK W \in SUBSET Waiting(s) :
         /\ status' = [u \in Threads |-> IF u = t THEN "WaitIPC"
                          ELSE IF u \in W THEN "Ready" ELSE status[u]]
         /\ wait_objects' = [u \in Threads |-> IF u \in W THEN {} ELSE wait_objects[u]]
         /\ wakeup_callback' = [u \in Threads |-> IF u \in W THEN "None"
                                                  ELSE wakeup_callback[u]]
         /\ \/ /\ W = {} /\ currently_handling' = currently_handling
               /\ pending_requesting_threads' = [pending_requesting_threads
                      EXCEPT ![s] = Append(@, t)]
               /\ Waiting(s) = {} \/ currently_handling[s] # NoThread
            \/ /\ W # {} /\ currently_handling[s] = NoThread
               /\ (\E w \in Threads : W = {w})
               /\ currently_handling' = [currently_handling EXCEPT ![s] = t]
               /\ pending_requesting_threads' = pending_requesting_threads
  BY SendToServerEffect
<1>3. asked[t] = NoSession /\ ~SleepsInHandler(t)
  BY <1>1, RunningAsksNothing
<1>4. \A u \in W : u \in Threads /\ status[u] = "WaitSynchAny" /\ u # t
  BY <1>1, WaitersSleep DEF Waiting
<1>5. \A u \in Threads : SleepsInHandler(u)' <=> SleepsInHandler(u)
  <2>1. \A u \in W : ~SleepsInHandler(u)
    BY <1>4, RunningAsksNothing
  <2> QED
    BY <1>2, <2>1 DEF SleepsInHandler, Types
<1>6. s \in server'
  <2>1. CASE W = {}
    <3>1. Referenced(s)
      BY <1>1 DEF ServersReferenced
    <3>2. wait_objects' = wait_objects
      BY <1>2, <2>1 DEF Types
    <3>3. \A u \in Threads : asked[u] = s /\ SleepsInHandler(u) => asked'[u] = s
      BY <1>1 DEF Types
    <3>4. Referenced(s)'
      BY <1>1, <1>5, <3>1, <3>2, <3>3 DEF Referenced, Elements
    <3> QED
      BY <1>1, <3>4, DroppedServers
  <2>2. CASE W # {}
    <3>1. PICK w \in Threads : s \in wait_objects[w]
      BY <1>4, <2>2 DEF Waiting
    <3>2. s \in server_handles
      BY <3>1, IPCAssumption DEF WaitsByHandle, Receivable, LlePorts
    <3>3. Referenced(s)'
      BY <1>1, <3>2 DEF Referenced
    <3> QED
      BY <1>1, <3>3, DroppedServers
  <2> QED
    BY <2>1, <2>2
<1>7. /\ pending_requesting_threads[s] \in Seq(Threads)
      /\ Elements(Append(pending_requesting_threads[s], t)) =
            Elements(pending_requesting_threads[s]) \cup {t}
  BY AppendElements DEF Types
<1>8. RequestStep(t)
  <2>1. PhaseOf(t) = "idle" /\ asked'[t] = s
    BY <1>1, <1>3 DEF PhaseOf, Types
  <2>2. \/ currently_handling'[s] = t
        \/ t \in Elements(pending_requesting_threads'[s])
    BY <1>2, <1>7 DEF Types
  <2>3. Elements(pending_requesting_threads[s])' = Elements(pending_requesting_threads'[s])
    BY DEF Elements
  <2>4. PhaseOf(t)' \in {"asked", "taken"}
    BY <1>6, <2>1, <2>2, <2>3 DEF PhaseOf
  <2> QED
    BY <1>1, <2>1, <2>4 DEF RequestStep
<1>9. ASSUME NEW u \in Threads, u # t
      PROVE  RequestStep(u)
  <2>1. asked'[u] = asked[u]
    BY <1>1, <1>9 DEF Types
  <2>2. ASSUME NEW x \in Sessions
        PROVE  /\ currently_handling'[x] = u <=> currently_handling[x] = u
               /\ u \in Elements(pending_requesting_threads'[x])
                     <=> u \in Elements(pending_requesting_threads[x])
    <3>1. CASE x = s
      <4>1. PICK q, n, h, k :
               /\ q = pending_requesting_threads[s] /\ h = currently_handling[s]
               /\ n = pending_requesting_threads'[s] /\ k = currently_handling'[s]
        OBVIOUS
      <4>2. PICK a : a = Append(q, t)
        OBVIOUS
      <4>3. (k = h /\ n = a) \/ (h = NoThread /\ k = t /\ n = q)
        BY <1>2, <4>1, <4>2 DEF Types
      <4>4. Elements(a) = Elements(q) \cup {t}
        BY <1>7, <4>1, <4>2
      <4>5. (k = u <=> h = u) /\ (u \in Elements(n) <=> u \in Elements(q))
        BY <1>9, <4>3, <4>4
      <4> QED
        BY <3>1, <4>1, <4>5
    <3>2. CASE x # s
      <4>1. /\ currently_handling'[x] = currently_handling[x]
            /\ pending_requesting_threads'[x] = pending_requesting_threads[x]
        BY <1>2, <3>2 DEF Types
      <4> QED
        BY <4>1
    <3> QED
      BY <3>1, <3>2
  <2> QED
    BY <1>5, <2>1, <2>2, RequestStays
<1> QED
  BY <1>8, <1>9

LEMMA SendAndSleepRequests ==
    ASSUME Types, ThreadsInv, server' \cap created \subseteq server,
           NEW t \in Threads, NEW s \in Sessions, NEW timeout \in BOOLEAN,
           NEW async \in BOOLEAN, SendAndSleep(t, s, timeout, async)
    PROVE  \A u \in Threads : RequestStep(u)
<1> USE IPCAssumption DEF NoSession
<1>1. /\ status[t] = "Running" /\ s \in client \cap server /\ UNCHANGED requestVars
      /\ wakeup_callback' = [wakeup_callback EXCEPT ![t] = IF async THEN "Async" ELSE "Hle"]
      /\ asked' = [asked EXCEPT ![t] = s]
  BY DEF SendAndSleep, MayAsk, Runs
<1>2. asked[t] = NoSession
  BY <1>1, RunningAsksNothing
<1>3. RequestStep(t)
  <2>1. PhaseOf(t) = "idle" /\ asked'[t] = s
    BY <1>1, <1>2 DEF PhaseOf, Types
  <2>2. SleepsInHandler(t)'
    BY <1>1 DEF SleepsInHandler, Types
  <2>3. PhaseOf(t)' = "taken"
    BY <2>1, <2>2 DEF PhaseOf
  <2> QED
    BY <1>1, <2>1, <2>3 DEF RequestStep
<1>4. ASSUME NEW u \in Threads, u # t
      PROVE  RequestStep(u)
  <2>1. asked'[u] = asked[u] /\ (SleepsInHandler(u)' <=> SleepsInHandler(u))
    BY <1>1, <1>4 DEF SleepsInHandler, Types
  <2> QED
    BY <1>1, <2>1, RequestStays
<1> QED
  BY <1>3, <1>4

LEMMA DestroyClientSessionsRequests ==
    ASSUME Types, ThreadsInv, server' \cap created \subseteq server,
           NEW S \in SUBSET Sessions, DestroyClientSessions(S)
    PROVE  \A u \in Threads : RequestStep(u)
<1> USE IPCAssumption
<1>1. PICK W : W = UNION {Waiting(s) : s \in S}
  OBVIOUS
<1>2. Resume(W) /\ client' = client \ S /\ asked' = asked
  BY <1>1 DEF DestroyClientSessions
<1>3. \A u \in Threads \cap W : ~SleepsInHandler(u)
  BY <1>1, WaitersSleep, RunningAsksNothing DEF Waiting
<1>4. \A u \in Threads : SleepsInHandler(u)' <=> SleepsInHandler(u)
  BY <1>2, <1>3 DEF Resume, SleepsInHandler
<1>5. ASSUME NEW u \in Threads, NEW x \in Sessions
      PROVE  \/ /\ currently_handling'[x] = u <=> currently_handling[x] = u
                /\ u \in Elements(pending_requesting_threads'[x])
                      <=> u \in Elements(pending_requesting_threads[x])
             \/ /\ x \notin client' /\ currently_handling'[x] # u
                /\ u \notin Elements(pending_requesting_threads'[x])
  <2>1. CASE x \in S
    <3>1. /\ pending_requesting_threads'[x] = <<>> /\ currently_handling'[x] = NoThread
          /\ x \notin client'
      BY <1>2, <2>1 DEF DestroyClientSessions, ForgetRequests
    <3> QED
      BY <3>1, EmptyElements
  <2>2. CASE x \notin S
    BY <2>2 DEF DestroyClientSessions, ForgetRequests
  <2> QED
    BY <2>1, <2>2
<1> QED
  BY <1>2, <1>4, <1>5, RequestStays

(* The requester of r is answered; everybody else's request stays, and one *)
(* may be taken.                                                           *)
LEMMA RepliedRequests ==
    ASSUME Types, ThreadsInv, SessionsInv, server' \cap created \subseteq server,
           NEW t, NEW r \in server_handles \cup {NoSession}, ReplyMade(t, r), AnswerTo(r),
           client' = client, server_handles' = server_handles, DropUnreferenced({}),
           \A u \in Threads : SleepsInHandler(u)' <=> SleepsInHandler(u),
           \A x \in Sessions :
               \/ /\ pending_requesting_threads'[x] = pending_requesting_threads[x]
                  /\ currently_handling'[x] = HandlingAfterReply(r)[x]
               \/ /\ pending_requesting_threads[x] # <<>>
                  /\ x \in server_handles
                  /\ pending_requesting_threads'[x] = WithoutLast(pending_requesting_threads[x])
                  /\ currently_handling'[x] = Last(pending_requesting_threads[x])
                  /\ HandlingAfterReply(r)[x] = NoThread
    PROVE  \A u \in Threads : RequestStep(u)
<1> USE IPCAssumption DEF NoSession
<1>1. ASSUME NEW u \in Threads, u \in Requester(r)
      PROVE  RequestStep(u)
  <2>1. /\ asked[u] = r /\ r # NoSession /\ u = currently_handling[r] /\ r \in server
    BY <1>1, RequesterWaits DEF SessionsInv
  <2>2. PhaseOf(u) = "taken"
    BY <2>1 DEF PhaseOf
  <2>3. asked'[u] = NoSession
    BY <1>1 DEF AnswerTo
  <2>4. PhaseOf(u)' = "idle"
    BY <2>3 DEF PhaseOf
  <2> QED
    BY <2>2, <2>4 DEF RequestStep
<1>2. ASSUME NEW u \in Threads, u \notin Requester(r)
      PROVE  RequestStep(u)
  <2>1. asked'[u] = asked[u]
    BY <1>2 DEF AnswerTo
  <2>2. CASE asked[u] \in Sessions /\ ~SleepsInHandler(u)
    <3>1. PICK x \in Sessions : x = asked[u]
      BY <2>2
    <3>2. PICK q, n, h, k, g :
             /\ q = pending_requesting_threads[x] /\ h = currently_handling[x]
             /\ n = pending_requesting_threads'[x] /\ k = currently_handling'[x]
             /\ g = HandlingAfterReply(r)[x]
      OBVIOUS
    <3>3. /\ g = IF x = r THEN NoThread ELSE h
          /\ x = r => h # u
      BY <1>2, <3>2 DEF HandlingAfterReply, Requester, Types
    <3>4. (g = u) <=> (h = u)
      BY <3>3
    <3>5. q \in Seq(Threads) /\ Distinct(q) /\ h \notin Elements(q)
      BY <3>2 DEF Types, ThreadsInv, RequestsOf
    <3>6. CASE n = q /\ k = g
      BY <2>1, <2>2, <3>1, <3>2, <3>4, <3>6, RequestStays
    <3>7. CASE q # <<>> /\ n = WithoutLast(q) /\ k = Last(q) /\ x \in server_handles /\ g = NoThread
      <4>1. PICK l : l = Last(q)
        OBVIOUS
      <4>2. l \in Elements(q) /\ Elements(n) \subseteq Elements(q) /\ l \notin Elements(n)
        BY <3>5, <3>7, <4>1, ShorterElements, ShorterDistinct
      <4>3. Elements(q) = Elements(n) \cup {l}
        <5>1. Len(q) \in Nat \ {0} /\ Len(n) = Len(q) - 1 /\ \A i \in 1..(Len(q) - 1) : n[i] = q[i]
          BY <3>5, <3>7, ShorterElements
        <5>2. \A i \in 1..Len(q) : i = Len(q) \/ i \in 1..Len(n)
          BY <5>1
        <5>3. Elements(q) \subseteq Elements(n) \cup {l}
          BY <4>1, <5>1, <5>2 DEF Elements, Last
        <5> QED
          BY <4>2, <5>3
      <4>4. CASE u = l
        <5>1. x \in client /\ x \in server /\ h # u
          <6>1. u \in Elements(q)
            BY <4>2, <4>4
          <6>2. x \in client /\ h # u
            BY <3>2, <3>5, <6>1 DEF ThreadsInv, RequestsOf
          <6> QED
            BY <3>7, <6>2 DEF SessionsInv
        <5>2. PhaseOf(u) = "asked"
          BY <2>2, <3>1, <3>2, <4>2, <4>4, <5>1 DEF PhaseOf
        <5>3. x \in server'
          <6>1. Referenced(x)'
            BY <3>7 DEF Referenced
          <6> QED
            BY <5>1, <6>1, DroppedServers
        <5>4. PhaseOf(u)' = "taken"
          <6>1. asked'[u] = x /\ x # NoSession /\ currently_handling'[x] = u
            BY <2>1, <3>1, <3>2, <3>7, <4>1, <4>4
          <6> QED
            BY <5>3, <6>1 DEF PhaseOf
        <5> QED
          BY <2>1, <3>1, <5>1, <5>2, <5>4 DEF RequestStep
      <4>5. CASE u # l
        <5>1. /\ k = u <=> h = u
              /\ u \in Elements(n) <=> u \in Elements(q)
          BY <3>4, <3>7, <4>1, <4>3, <4>5
        <5> QED
          BY <2>1, <2>2, <3>1, <3>2, <5>1, RequestStays
      <4> QED
        BY <4>4, <4>5
    <3> QED
      BY <3>2, <3>6, <3>7
  <2>3. CASE ~(asked[u] \in Sessions /\ ~SleepsInHandler(u))
    BY <2>1, <2>3, RequestStays
  <2> QED
    BY <2>2, <2>3
<1> QED
  BY <1>1, <1>2

LEMMA ServerCallRequests ==
    ASSUME Types, ThreadsInv, SessionsInv, server' \cap created \subseteq server,
           NEW t \in Servers, ServerCall(t)
    PROVE  \A u \in Threads : RequestStep(u)
<1> USE IPCAssumption
<1>1. ASSUME NEW r \in server_handles \cup {NoSession}, Reply(t, r)
      PROVE  \A u \in Threads : RequestStep(u)
  <2>1. /\ ReplyMade(t, r) /\ AnswerTo(r) /\ Resume(Requester(r))
        /\ currently_handling' = HandlingAfterReply(r) /\ DropUnreferenced({})
        /\ UNCHANGED <<client, pending_requesting_threads, server_handles, wakeupVars>>
    BY <1>1 DEF Reply
  <2>2. \A u \in Threads : SleepsInHandler(u)' <=> SleepsInHandler(u)
    BY <2>1, RequesterResumed
  <2> QED
    BY <2>1, <2>2, RepliedRequests
<1>2. ASSUME NEW r \in server_handles \cup {NoSession}, NEW o \in Receivable,
             ReplyAndReceive(t, r, o)
      PROVE  \A u \in Threads : RequestStep(u)
  <2>1. /\ ReplyMade(t, r) /\ AnswerTo(r) /\ Resume(Requester(r)) /\ DropUnreferenced({})
        /\ UNCHANGED <<client, server_handles, wakeupVars>>
    BY <1>2 DEF ReplyAndReceive
  <2>2. \A u \in Threads : SleepsInHandler(u)' <=> SleepsInHandler(u)
    BY <2>1, RequesterResumed
  <2>3. \A x \in Sessions : x = o => x \in server_handles
    BY DEF Receivable, LlePorts
  <2> QED
    BY <1>2, <2>1, <2>2, <2>3, ReplyAndReceiveEffect, RepliedRequests
<1>3. ASSUME NEW r \in server_handles \cup {NoSession}, NEW R \in SUBSET Receivable,
             ReplyAndWait(t, r, R)
      PROVE  \A u \in Threads : RequestStep(u)
  <2>1. /\ ReplyMade(t, r) /\ AnswerTo(r) /\ DropUnreferenced({})
        /\ currently_handling' = HandlingAfterReply(r)
        /\ wakeup_callback' = [wakeup_callback EXCEPT ![t] = "IPC"]
        /\ UNCHANGED <<client, pending_requesting_threads, server_handles>>
    BY <1>3 DEF ReplyAndWait
  <2>2. ~SleepsInHandler(t)
    BY <2>1, RunningAsksNothing DEF ReplyMade, Runs, Threads
  <2>3. \A u \in Threads : SleepsInHandler(u)' <=> SleepsInHandler(u)
    BY <2>1, <2>2 DEF SleepsInHandler, Types
  <2> QED
    BY <2>1, <2>3, RepliedRequests
<1> QED
  BY <1>1, <1>2, <1>3 DEF ServerCall

LEMMA SessionCallRequests ==
    ASSUME SingleServer, Types, ThreadsInv, SessionsInv, WaitsByHandle, ServersReferenced,
           server' \cap created \subseteq server, NEW t \in Threads, SessionCall(t)
    PROVE  \A u \in Threads : RequestStep(u)
<1> USE IPCAssumption
<1>1. PICK s \in Sessions :
          \/ \E fits \in BOOLEAN : Connect(t, s, fits)
          \/ SendToServer(t, s)
          \/ SendToHandler(t, s)
          \/ \E timeout, async \in BOOLEAN : SendAndSleep(t, s, timeout, async)
          \/ CloseClientSession(t, s)
          \/ CloseServerSession(t, s)
  BY DEF SessionCall
<1>2. ASSUME NEW fits \in BOOLEAN, Connect(t, s, fits)
      PROVE  \A u \in Threads : RequestStep(u)
  <2>1. Resume(Waiting(PortOf[s])) /\ UNCHANGED <<requestVars, wakeupVars, asked>>
    BY <1>2 DEF Connect
  <2>2. \A u \in Threads \cap Waiting(PortOf[s]) : status[u] = "WaitSynchAny"
    BY WaitersSleep DEF Waiting
  <2>3. \A u \in Threads : SleepsInHandler(u)' <=> SleepsInHandler(u)
    BY <2>1, <2>2, WakeWaitersInv
  <2> QED
    BY <2>1, <2>3, RequestsStay
<1>3. CASE SendToServer(t, s)
  BY <1>3, SendToServerRequests
<1>4. CASE SendToHandler(t, s)
  BY <1>4, RequestsStay DEF SendToHandler, SleepsInHandler
<1>5. ASSUME NEW timeout \in BOOLEAN, NEW async \in BOOLEAN, SendAndSleep(t, s, timeout, async)
      PROVE  \A u \in Threads : RequestStep(u)
  BY <1>5, SendAndSleepRequests
<1>6. CASE CloseClientSession(t, s)
  BY <1>6, DestroyClientSessionsRequests DEF CloseClientSession
<1>7. CASE CloseServerSession(t, s)
  BY <1>7, RequestsStay DEF CloseServerSession, SleepsInHandler
<1> QED
  BY <1>1, <1>2, <1>3, <1>4, <1>5, <1>6, <1>7

LEMMA RequestSteps ==
    ASSUME SingleServer, Types, ThreadsInv, SessionsInv, WaitsByHandle, ServersReferenced, Next
    PROVE  \A u \in Threads : RequestStep(u)
<1>1. server' \cap created \subseteq server
  BY SessionsEndForGood
<1>2. ASSUME NEW t \in Threads, Dispatch(t)
      PROVE  \A u \in Threads : RequestStep(u)
  BY <1>1, <1>2, RequestsStay DEF Dispatch, SleepsInHandler
<1>3. ASSUME NEW t \in Servers, NEW p \in LlePorts, NEW fits \in BOOLEAN,
             AcceptSession(t, p, fits)
      PROVE  \A u \in Threads : RequestStep(u)
  BY <1>1, <1>3, RequestsStay DEF AcceptSession, SleepsInHandler
<1>4. CASE TerminateClients
  BY <1>1, <1>4, RequestsStay DEF TerminateClients, SleepsInHandler
<1>5. CASE DestroyProcess
  <2>1. {s \in client : Users[s] = Clients} \in SUBSET Sessions
    BY DEF Types
  <2> QED
    BY <1>1, <1>5, <2>1, DestroyClientSessionsRequests DEF DestroyProcess
<1> QED
  BY <1>1, <1>2, <1>3, <1>4, <1>5, ProgressRequests, SessionCallRequests, ServerCallRequests
     DEF Next

(* Each step of the kernel is one of the channel, for every thread.        *)
LEMMA ChannelStep ==
    ASSUME SingleServer, Types, Types', ThreadsInv, ThreadsInv', SessionsInv, WaitsByHandle,
           ServersReferenced, [Next]_vars
    PROVE  [Channel!Next]_<<[t \in Threads |-> PhaseOf(t)], asked, client \cap server>>
<1>1. CASE Next
  <2>1. \A t \in Threads : RequestStep(t)
    BY <1>1, RequestSteps
  <2>2. ASSUME NEW t \in Threads, NEW u \in Threads, PhaseOf(t)' = "taken",
               PhaseOf(u)' = "taken", asked'[t] = asked'[u],
               asked'[t] \in {s \in Sessions : ~IsHle(s)}
        PROVE  t = u
    <3>1. ~SleepsInHandler(t)' /\ ~SleepsInHandler(u)'
      BY <2>2 DEF ThreadsInv, RequestOf, IsHle
    <3>2. asked'[t] # NoSession
      BY <2>2, IPCAssumption DEF NoSession
    <3>3. currently_handling'[asked'[t]] = t /\ currently_handling'[asked'[u]] = u
      BY <2>2, <3>1, <3>2 DEF PhaseOf, NoSession
    <3> QED
      BY <2>2, <3>3
  <2>3. \A t \in Threads : Channel!Keep(t) \/ Channel!Ask(t) \/ Channel!Take(t)
                              \/ Channel!Answer(t) \/ Channel!Lose(t)
    <3> HIDE DEF PhaseOf
    <3> QED
      BY <2>1 DEF RequestStep, Channel!Keep, Channel!Ask, Channel!Take, Channel!Answer,
                  Channel!Lose
  <2>4. Channel!OneTaken'
    <3> HIDE DEF PhaseOf
    <3> QED
      BY <2>2 DEF Channel!OneTaken
  <2> QED
    BY <2>3, <2>4 DEF Channel!Next
<1>2. CASE UNCHANGED vars
  BY <1>2 DEF vars, PhaseOf, SleepsInHandler, Elements
<1> QED
  BY <1>1, <1>2

(* With a single server thread, sessions keep what RequestChannel          *)
(* promises, whoever waits, closes, replies or dies: a request is taken at *)
(* most once, answered only after it was taken, and lost only when its     *)
(* session ends (server_session.cpp:67-141, client_session.cpp:23-58,      *)
(* svc.cpp:942-1045).                                                      *)
THEOREM SessionsAreChannels == SingleServer /\ Spec => ImplementsChannel
<1> SUFFICES ASSUME SingleServer
             PROVE  Spec => ImplementsChannel
  OBVIOUS
<1>1. Init => Channel!Init
  BY DEF Init, Channel!Init, PhaseOf
<1>2. Init => WaitsByHandle /\ ServersReferenced
  BY DEF Init, WaitsByHandle, ServersReferenced
<1>3. Types /\ ThreadsInv /\ WaitsByHandle /\ ServersReferenced /\ [Next]_vars
      => WaitsByHandle' /\ ServersReferenced'
  BY WaitsByHandleStep, ReferencedStep
<1>4. Types /\ Types' /\ ThreadsInv /\ ThreadsInv' /\ SessionsInv /\ WaitsByHandle
      /\ ServersReferenced /\ [Next]_vars
      => [Channel!Next]_<<[t \in Threads |-> PhaseOf(t)], asked, client \cap server>>
  BY ChannelStep
<1> HIDE DEF ThreadsInv, SessionsInv, Types, Counts, TypeOK, WaitsByHandle, ServersReferenced
<1> QED
  BY <1>1, <1>2, <1>3, <1>4, IPCTypeCorrect, RequestsCorrect, PTL
     DEF Spec, ImplementsChannel, Channel!Spec, Channel!vars
=============================================================================
