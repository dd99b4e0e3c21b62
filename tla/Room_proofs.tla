---------------------------- MODULE Room_proofs ----------------------------
(***************************************************************************)
(* Theorems about Room, for every set of clients, nicknames and addresses, *)
(* every number of slots and every value of the other constants that       *)
(* satisfies RoomAssumption.                                               *)
(***************************************************************************)
EXTENDS Room, SequenceTheorems, FiniteSetTheorems, WellFoundedInduction, TLAPS

(***************************************************************************)
(* The inductive invariant.                                                *)
(***************************************************************************)
(* What clients send, and what the server sends.                           *)
ClientMessages ==
    (UNION {JoinRequests[c] \cup Requests[c] : c \in Clients}) \cup [type : {"SetGameInfo"}, game : Games]
UpMessages == ClientMessages \cup {Disconnected}
DownMessages ==
    {EndMessage, Disconnected} \cup [type : {"JoinSuccess"}, mod : BOOLEAN]
    \cup [type : {"RoomInformation"}, list : Lists] \cup [type : {"ChatMessage"}, from : Nicknames]
Entries == [peer : Peers, client : Clients, nickname : Nicknames, mac : MacAddresses,
            game : Games \cup {NoGame}]

(* The types of the queues and of the members, with those of TypeOK that   *)
(* are not about the list of members.                                      *)
Types ==
    /\ room \in {"Open", "Closed"}
    /\ members \in Seq(Entries) /\ Len(members) <= member_slots
    /\ server_end \in [Peers -> {"free", "open", "closing"}]
    /\ client_end \in [Peers -> {"open", "shut"}]
    /\ up \in [Peers -> Seq(UpMessages)]
    /\ down \in [Peers -> Seq(DownMessages)]
    /\ state \in [Clients -> {"Idle", "Joining", "Joined", "Moderator"}]
    /\ ui \in [Clients -> {"idle", "connecting", "leaving"}]
    /\ loop \in [Clients -> {"none", "check", "service", "done"}]
    /\ server \in [Clients -> Peers \cup {NoPeer}]
    /\ send_list \in [Clients -> Seq(ClientMessages)]
    /\ member_information \in [Clients -> Lists]

(* Nothing follows a Disconnect.                                           *)
EndsOnce(queue) == \A n \in 1..Len(queue) : queue[n] = Disconnected => n = Len(queue)

(* A client with a peer has the open end of it, for itself.                *)
Ends ==
    /\ \A c \in Clients : server[c] # NoPeer => client_end[server[c]] = "open"
    /\ \A c, d \in Clients : server[c] = server[d] /\ server[c] # NoPeer => c = d
    /\ \A p \in Peers : client_end[p] = "open" => \E c \in Clients : server[c] = p
    /\ \A c \in Clients :
          loop[c] = "done" \/ (loop[c] = "none" /\ ui[c] # "connecting") => server[c] = NoPeer

(* The two ends of a connection agree: whoever closes one tells the other. *)
LinkSound(se, ce, u, d) ==
    /\ ce = "shut" => d = <<>>
    /\ se # "open" => u = <<>>
    /\ EndsOnce(u) /\ EndsOnce(d)
    /\ ce = "open" => (EndsIn(d) <=> se # "open" \/ EndsIn(u))
    /\ ce = "shut" => se # "open" \/ EndsIn(u)

Links == \A p \in Peers : LinkSound(server_end[p], client_end[p], up[p], down[p])

(* The requests to join in a queue are of client c.                        *)
From(queue, c) == \A n \in 1..Len(queue) : queue[n].type = "JoinRequest" => queue[n].client = c

(* Whatever there is about a peer that is open is about one client.        *)
Owner(p, c) ==
    /\ \A d \in Clients : server[d] = p => d = c
    /\ From(up[p], c)
    /\ \A i \in 1..Len(members) : members[i].peer = p => members[i].client = c

Owned ==
    /\ \A c \in Clients : From(send_list[c], c)
    /\ \A p \in Peers : server_end[p] = "open" => \E c \in Clients : Owner(p, c)

(* No client is in the room twice.                                         *)
ClientsDistinct ==
    \A i, j \in 1..Len(members) : i # j => members[i].client # members[j].client

MembersInv == MembersDistinct /\ ClientsDistinct /\ MembersConnected

(* The list that a client has once n messages of its queue have arrived,   *)
(* when it has info now.                                                   *)
Latest(queue, info, n) ==
    LET at == {i \in 1..n : queue[i].type = "RoomInformation"} IN
    IF at = {} THEN info ELSE queue[Max(at)].list

(* A chat message comes after a list with its sender, and the news of      *)
(* success after a list, for a client that has info now.                   *)
Listed(list, nickname) == \E i \in 1..Len(list) : list[i].nickname = nickname

SenseMade(queue, info) ==
    \A n \in 1..Len(queue) :
        /\ queue[n].type = "ChatMessage" => Listed(Latest(queue, info, n), queue[n].from)
        /\ queue[n].type = "JoinSuccess" => Latest(queue, info, n) # <<>>

(* From its n-th message on, the queue tells the client that it is out.    *)
Ended(queue, n) == \E k \in n..Len(queue) : queue[k].type \in {"End", "Disconnect"}

InRoom(ms, p) == \E i \in 1..Len(ms) : ms[i].peer = p

(* What a client with list info and state st knows about the members ms,   *)
(* and is going to learn from its queue.                                   *)
ViewSound(queue, info, st, ms, p) ==
    /\ SenseMade(queue, info)
    /\ InRoom(ms, p) /\ ~EndsIn(queue) => Latest(queue, info, Len(queue)) = Listing(ms)
    /\ \A n \in 1..Len(queue) :
          queue[n].type = "JoinSuccess" => InRoom(ms, p) \/ Ended(queue, n + 1)
    /\ st \in {"Joined", "Moderator"} => InRoom(ms, p) \/ Ended(queue, 1)

Views ==
    \A c \in Clients : server[c] # NoPeer =>
        ViewSound(down[server[c]], member_information[c], state[c], members, server[c])

RoomInv == Types /\ Ends /\ Links /\ Owned /\ MembersInv /\ Views

(***************************************************************************)
(* Sets of naturals and sequences.                                         *)
(***************************************************************************)
(* A nonempty set of naturals has a least element, which Min picks.        *)
LEMMA MinNat ==
    ASSUME NEW S, S \subseteq Nat, S # {}
    PROVE  /\ Min(S) \in S
           /\ \A y \in S : Min(S) <= y
<1> DEFINE T == {0..n : n \in S}
<1>1. T \subseteq FiniteSubsetsOf(Nat) /\ T # {}
  <2>1. \A n \in S : 0..n \in SUBSET Nat /\ IsFiniteSet(0..n)
    BY FS_Interval
  <2> QED
    BY <2>1 DEF FiniteSubsetsOf
<1>2. PICK X \in T : \A Y \in T : ~ (<<Y, X>> \in StrictSubsetOrdering(Nat))
  <2> HIDE DEF T
  <2> QED
    BY <1>1, FS_StrictSubsetOrderingWellFounded, WFMin
<1>3. PICK x \in S : X = 0..x
  OBVIOUS
<1>4. \A y \in S : x <= y
  <2> SUFFICES ASSUME NEW y \in S, y < x
               PROVE  FALSE
    OBVIOUS
  <2>1. 0..y \subseteq 0..x /\ 0..y # 0..x
    <3>1. x \in 0..x /\ x \notin 0..y
      OBVIOUS
    <3> QED
      BY <3>1
  <2>2. 0..y \in T /\ 0..y \subseteq Nat /\ 0..x \subseteq Nat
    OBVIOUS
  <2>3. <<0..y, 0..x>> \in StrictSubsetOrdering(Nat)
    BY <2>1, <2>2, Zenon DEF StrictSubsetOrdering
  <2> QED
    BY <1>2, <1>3, <2>2, <2>3
<1> QED
  BY <1>4 DEF Min

(* So has a nonempty part of 1..n a greatest one, which Max picks.         *)
LEMMA MaxNat ==
    ASSUME NEW n \in Nat, NEW S, S \subseteq 1..n, S # {}
    PROVE  /\ Max(S) \in S
           /\ \A y \in S : Max(S) >= y
<1> DEFINE T == {n - y : y \in S}
<1>1. T \subseteq Nat
  OBVIOUS
<1>2. T # {}
  OBVIOUS
<1>3. Min(T) \in T /\ \A y \in T : Min(T) <= y
  <2> HIDE DEF T
  <2> QED
    BY <1>1, <1>2, MinNat
<1>4. PICK x \in S : Min(T) = n - x
  BY <1>3
<1>5. \A y \in S : n - y \in T
  OBVIOUS
<1>6. \A y \in S : x >= y
  <2> SUFFICES ASSUME NEW y \in S
               PROVE  x >= y
    OBVIOUS
  <2>1. n - x <= n - y
    BY <1>3, <1>4, <1>5
  <2>2. x \in Nat /\ y \in Nat
    OBVIOUS
  <2> QED
    BY <2>1, <2>2
<1> QED
  BY <1>6 DEF Max

(* A sequence without its k-th element.                                    *)
LEMMA RemoveAtProperties ==
    ASSUME NEW S, NEW s \in Seq(S), NEW k \in 1..Len(s)
    PROVE  /\ RemoveAt(s, k) \in Seq(S)
           /\ Len(RemoveAt(s, k)) = Len(s) - 1
           /\ \A i \in 1..(Len(s) - 1) :
                 RemoveAt(s, k)[i] = s[IF i < k THEN i ELSE i + 1]
<1> DEFINE a == SubSeq(s, 1, k - 1)
           b == SubSeq(s, k + 1, Len(s))
<1>1. /\ a \in Seq(S) /\ Len(a) = k - 1
      /\ \A i \in 1..(k - 1) : a[i] = s[i]
  <2>1. \A j \in 1..(k - 1) : s[j] \in S
    OBVIOUS
  <2> QED
    BY <2>1, SubSeqProperties
<1>2. /\ b \in Seq(S) /\ Len(b) = Len(s) - k
      /\ \A i \in 1..(Len(s) - k) : b[i] = s[k + i]
  <2>1. \A j \in (k + 1)..Len(s) : s[j] \in S
    OBVIOUS
  <2> QED
    BY <2>1, SubSeqProperties
<1> HIDE DEF a, b
<1>3. /\ a \o b \in Seq(S) /\ Len(a \o b) = Len(s) - 1
      /\ \A i \in 1..(Len(s) - 1) : (a \o b)[i] = IF i <= k - 1 THEN a[i] ELSE b[i - (k - 1)]
  BY <1>1, <1>2, ConcatProperties
<1>4. \A i \in 1..(Len(s) - 1) : (a \o b)[i] = s[IF i < k THEN i ELSE i + 1]
  BY <1>1, <1>2, <1>3
<1> QED
  BY <1>3, <1>4 DEF RemoveAt, a, b

(***************************************************************************)
(* Messages and queues.                                                    *)
(***************************************************************************)
(* What clients send has one of five types and its fields; none of it is   *)
(* a Disconnect.                                                           *)
LEMMA ClientMessageFields ==
    ASSUME NEW m \in ClientMessages
    PROVE  /\ m.type \in {"JoinRequest", "ChatMessage", "SetGameInfo", "Moderate", "ModUnban"}
           /\ m.type = "SetGameInfo" => m.game \in Games
           /\ m.type = "JoinRequest" =>
                /\ m.client \in Clients /\ m.nickname \in Nicknames
                /\ m.mac \in MacAddresses \cup {NoPreferredMac}
           /\ m # Disconnected
<1> DEFINE infos == [type : {"SetGameInfo"}, game : Games]
           wishes == UNION {JoinRequests[c] \cup Requests[c] : c \in Clients}
<1>1. CASE m \in infos
  BY <1>1 DEF Disconnected
<1>2. CASE m \in wishes
  <2>1. PICK c \in Clients : m \in JoinRequests[c] \cup Requests[c]
    BY <1>2
  <2>2. CASE m \in JoinRequests[c]
    BY <2>2, RoomAssumption DEF Disconnected
  <2>3. CASE m \in Requests[c]
    BY <2>3, RoomAssumption DEF Disconnected
  <2> QED
    BY <2>1, <2>2, <2>3
<1>3. m \in wishes \/ m \in infos
  <2>1. m \in wishes \cup infos
    BY Zenon DEF ClientMessages
  <2> HIDE DEF wishes, infos
  <2> QED
    BY <2>1
<1> QED
  BY <1>1, <1>2, <1>3

(* The messages of the server have five types.                             *)
LEMMA DownMessageFields ==
    ASSUME NEW m \in DownMessages
    PROVE  /\ m.type \in {"End", "Disconnect", "JoinSuccess", "RoomInformation", "ChatMessage"}
           /\ m.type = "Disconnect" <=> m = Disconnected
           /\ m.type = "RoomInformation" => m.list \in Lists
           /\ m.type = "JoinSuccess" => m.mod \in BOOLEAN
BY DEF DownMessages, EndMessage, Disconnected

(* The messages that the server makes are of the type.                     *)
LEMMA DownMessagesMade ==
    /\ EndMessage \in DownMessages /\ EndMessage # Disconnected /\ EndMessage.type = "End"
    /\ Disconnected \in DownMessages /\ Disconnected.type = "Disconnect"
    /\ \A b \in BOOLEAN : [type |-> "JoinSuccess", mod |-> b] \in DownMessages
    /\ \A list \in Lists : [type |-> "RoomInformation", list |-> list] \in DownMessages
    /\ \A n \in Nicknames : [type |-> "ChatMessage", from |-> n] \in DownMessages
BY DEF DownMessages, EndMessage, Disconnected

(* Where a queue ends after an operation, and that it ends once.           *)
LEMMA EmptyEnds == ~EndsIn(<<>>) /\ EndsOnce(<<>>)
BY DEF EndsIn, EndsOnce

LEMMA AppendEnds ==
    ASSUME NEW S, NEW q \in Seq(S), NEW m \in S, ~EndsIn(q), EndsOnce(q)
    PROVE  /\ EndsOnce(Append(q, m))
           /\ EndsIn(Append(q, m)) <=> m = Disconnected
<1> DEFINE a == Append(q, m)
<1>1. /\ a \in Seq(S) /\ a # <<>> /\ Len(a) = Len(q) + 1 /\ Len(q) \in Nat
      /\ \A i \in 1..Len(q) : a[i] = q[i]
      /\ a[Len(q) + 1] = m
  BY AppendProperties, LenProperties
<1>2. \A i \in 1..Len(q) : q[i] # Disconnected
  <2> SUFFICES ASSUME NEW i \in 1..Len(q), q[i] = Disconnected
               PROVE  FALSE
    OBVIOUS
  <2>1. i = Len(q) /\ q # <<>>
    BY <1>1 DEF EndsOnce
  <2> QED
    BY <2>1 DEF EndsIn, Last
<1> HIDE DEF a
<1>3. EndsOnce(a)
  BY <1>1, <1>2 DEF EndsOnce
<1>4. EndsIn(a) <=> m = Disconnected
  BY <1>1 DEF EndsIn, Last
<1> QED
  BY <1>3, <1>4 DEF a

LEMMA TailEnds ==
    ASSUME NEW S, NEW q \in Seq(S), q # <<>>, EndsOnce(q)
    PROVE  /\ Tail(q) \in Seq(S) /\ Head(q) \in S
           /\ EndsOnce(Tail(q))
           /\ Head(q) = Disconnected => Tail(q) = <<>>
           /\ Head(q) # Disconnected => (EndsIn(Tail(q)) <=> EndsIn(q))
<1> DEFINE t == Tail(q)
<1>1. /\ t \in Seq(S) /\ Len(t) = Len(q) - 1 /\ Head(q) \in S /\ Head(q) = q[1]
      /\ \A i \in 1..Len(t) : t[i] = q[i + 1]
  BY HeadTailProperties
<1>2. Len(q) \in Nat /\ Len(q) > 0
  BY EmptySeq
<1> HIDE DEF t
<1>3. EndsOnce(t)
  <2> SUFFICES ASSUME NEW i \in 1..Len(t), t[i] = Disconnected
               PROVE  i = Len(t)
    BY DEF EndsOnce
  <2>1. i + 1 \in 1..Len(q) /\ q[i + 1] = Disconnected
    BY <1>1, <1>2
  <2> QED
    BY <1>1, <1>2, <2>1 DEF EndsOnce
<1>4. ASSUME Head(q) = Disconnected
      PROVE  t = <<>>
  <2>1. 1 = Len(q)
    BY <1>1, <1>2, <1>4 DEF EndsOnce
  <2> QED
    BY <1>1, <2>1, EmptySeq
<1>5. ASSUME Head(q) # Disconnected
      PROVE  EndsIn(t) <=> EndsIn(q)
  <2>1. CASE t = <<>>
    <3>1. Len(q) = 1
      BY <1>1, <1>2, <2>1
    <3> QED
      BY <1>1, <1>5, <2>1, <3>1 DEF EndsIn, Last
  <2>2. CASE t # <<>>
    <3>1. Len(t) \in 1..Len(t)
      BY <1>1, <2>2, EmptySeq
    <3>2. t[Len(t)] = q[Len(q)]
      BY <1>1, <1>2, <3>1
    <3> QED
      BY <2>2, <3>2 DEF EndsIn, Last
  <2> QED
    BY <2>1, <2>2
<1> QED
  BY <1>1, <1>3, <1>4, <1>5 DEF t

(* More messages of a client at the end of an open queue.                  *)
LEMMA ConcatEnds ==
    ASSUME NEW q \in Seq(UpMessages), NEW s \in Seq(ClientMessages), ~EndsIn(q), EndsOnce(q)
    PROVE  /\ q \o s \in Seq(UpMessages)
           /\ EndsOnce(q \o s) /\ ~EndsIn(q \o s)
<1> DEFINE a == q \o s
<1>0. s \in Seq(UpMessages)
  BY SeqMonotonic DEF UpMessages
<1>1. /\ a \in Seq(UpMessages) /\ Len(a) = Len(q) + Len(s) /\ Len(q) \in Nat /\ Len(s) \in Nat
      /\ \A i \in 1..(Len(q) + Len(s)) : a[i] = IF i <= Len(q) THEN q[i] ELSE s[i - Len(q)]
  BY <1>0, ConcatProperties, LenProperties
<1>2. \A i \in 1..Len(q) : q[i] # Disconnected
  <2> SUFFICES ASSUME NEW i \in 1..Len(q), q[i] = Disconnected
               PROVE  FALSE
    OBVIOUS
  <2>1. i = Len(q) /\ q # <<>>
    BY <1>1 DEF EndsOnce
  <2> QED
    BY <2>1 DEF EndsIn, Last
<1>3. \A i \in 1..Len(s) : s[i] # Disconnected
  BY ElementOfSeq, ClientMessageFields
<1> HIDE DEF a
<1>4. \A i \in 1..Len(a) : a[i] # Disconnected
  BY <1>1, <1>2, <1>3
<1>5. a # <<>> => Len(a) \in 1..Len(a)
  BY <1>1, EmptySeq
<1> QED
  BY <1>1, <1>4, <1>5 DEF EndsOnce, EndsIn, Last, a

(* What a sender that disconnects leaves of a queue.                       *)
LEMMA CutOffProperties ==
    ASSUME NEW S, Disconnected \in S, NEW q \in Seq(S), ~EndsIn(q), EndsOnce(q),
           NEW r \in CutOff(q)
    PROVE  /\ r \in Seq(S) /\ EndsIn(r) /\ EndsOnce(r)
           /\ \E n \in 0..Len(q) : /\ Len(r) = n + 1 /\ r[n + 1] = Disconnected
                                   /\ \A i \in 1..n : r[i] = q[i]
<1>1. PICK n \in 0..Len(q) : r = SubSeq(q, 1, n) \o <<Disconnected>>
  BY DEF CutOff
<1> DEFINE b == SubSeq(q, 1, n)
<1>2. Len(q) \in Nat /\ n \in Nat
  BY LenProperties
<1>3. /\ b \in Seq(S) /\ Len(b) = n
      /\ \A i \in 1..n : b[i] = q[i]
  <2>1. \A i \in 1..n : q[i] \in S
    BY <1>2, ElementOfSeq
  <2> QED
    BY <1>2, <2>1, SubSeqProperties
<1>4. r = Append(b, Disconnected)
  BY <1>1, <1>3, AppendIsConcat
<1>5. \A i \in 1..Len(q) : q[i] # Disconnected
  <2> SUFFICES ASSUME NEW i \in 1..Len(q), q[i] = Disconnected
               PROVE  FALSE
    OBVIOUS
  <2>1. i = Len(q) /\ q # <<>>
    BY <1>2 DEF EndsOnce
  <2> QED
    BY <2>1 DEF EndsIn, Last
<1> HIDE DEF b
<1>6. \A i \in 1..n : b[i] # Disconnected
  BY <1>2, <1>3, <1>5
<1>7. EndsOnce(b) /\ ~EndsIn(b)
  BY <1>3, <1>6 DEF EndsOnce, EndsIn, Last
<1>8. EndsOnce(r) /\ EndsIn(r)
  BY <1>3, <1>4, <1>7, AppendEnds
<1>9. /\ r \in Seq(S) /\ Len(r) = n + 1 /\ r[n + 1] = Disconnected
      /\ \A i \in 1..n : r[i] = q[i]
  BY <1>3, <1>4, AppendProperties
<1> QED
  BY <1>8, <1>9

(***************************************************************************)
(* The list that a client is going to have.                                *)
(***************************************************************************)
(* It is the one that the client has, or the last in the queue.            *)
LEMMA LatestNone ==
    ASSUME NEW q, NEW info, NEW n \in Nat, \A i \in 1..n : q[i].type # "RoomInformation"
    PROVE  Latest(q, info, n) = info
<1>1. {i \in 1..n : q[i].type = "RoomInformation"} = {}
  OBVIOUS
<1> QED
  BY <1>1 DEF Latest

LEMMA LatestAt ==
    ASSUME NEW q, NEW info, NEW n \in Nat, NEW k \in 1..n, q[k].type = "RoomInformation",
           \A i \in 1..n : i > k => q[i].type # "RoomInformation"
    PROVE  Latest(q, info, n) = q[k].list
<1> DEFINE at == {i \in 1..n : q[i].type = "RoomInformation"}
<1>1. k \in at /\ at \subseteq 1..n /\ \A i \in at : i \in 1..n /\ i <= k
  OBVIOUS
<1>2. Max(at) = k
  <2> HIDE DEF at
  <2>1. Max(at) \in at /\ Max(at) >= k
    BY <1>1, MaxNat
  <2>2. PICK x : x = Max(at)
    OBVIOUS
  <2>3. x \in 1..n /\ x <= k /\ x >= k
    BY <1>1, <2>1, <2>2
  <2> QED
    BY <2>2, <2>3
<1>3. at # {}
  BY <1>1
<1> QED
  BY <1>2, <1>3 DEF Latest

LEMMA LatestCases ==
    ASSUME NEW q, NEW info, NEW n \in Nat
    PROVE  \/ \A i \in 1..n : q[i].type # "RoomInformation"
           \/ \E k \in 1..n : /\ q[k].type = "RoomInformation"
                              /\ \A i \in 1..n : i > k => q[i].type # "RoomInformation"
<1> DEFINE at == {i \in 1..n : q[i].type = "RoomInformation"}
<1>1. CASE at = {}
  BY <1>1
<1>2. CASE at # {}
  <2>1. at \subseteq 1..n
    OBVIOUS
  <2>2. Max(at) \in at /\ \A i \in at : Max(at) >= i
    <3> HIDE DEF at
    <3> QED
      BY <1>2, <2>1, MaxNat
  <2>3. PICK k : k = Max(at)
    OBVIOUS
  <2>4. k \in 1..n /\ q[k].type = "RoomInformation" /\ \A i \in at : k >= i
    BY <2>2, <2>3
  <2>5. \A i \in 1..n : i > k => q[i].type # "RoomInformation"
    BY <2>4
  <2> QED
    BY <2>4, <2>5
<1> QED
  BY <1>1, <1>2

(* It depends on the messages up to the n-th only.                         *)
LEMMA LatestSame ==
    ASSUME NEW q, NEW r, NEW info, NEW n \in Nat, \A i \in 1..n : r[i] = q[i]
    PROVE  Latest(r, info, n) = Latest(q, info, n)
<1>1. CASE \A i \in 1..n : q[i].type # "RoomInformation"
  <2>1. \A i \in 1..n : r[i].type # "RoomInformation"
    BY <1>1
  <2> QED
    BY <1>1, <2>1, LatestNone
<1>2. ASSUME NEW k \in 1..n, q[k].type = "RoomInformation",
             \A i \in 1..n : i > k => q[i].type # "RoomInformation"
      PROVE  Latest(r, info, n) = Latest(q, info, n)
  <2>1. r[k].type = "RoomInformation" /\ \A i \in 1..n : i > k => r[i].type # "RoomInformation"
    BY <1>2
  <2>2. Latest(q, info, n) = q[k].list
    BY <1>2, LatestAt
  <2>3. Latest(r, info, n) = r[k].list
    BY <2>1, LatestAt
  <2> QED
    BY <2>2, <2>3
<1> QED
  BY <1>1, <1>2, LatestCases

(* A message at the end is the latest list, or changes nothing.            *)
LEMMA LatestNext ==
    ASSUME NEW q, NEW info, NEW n \in Nat
    PROVE  /\ q[n + 1].type = "RoomInformation" => Latest(q, info, n + 1) = q[n + 1].list
           /\ q[n + 1].type # "RoomInformation" =>
                Latest(q, info, n + 1) = Latest(q, info, n)
<1>1. ASSUME q[n + 1].type = "RoomInformation"
      PROVE  Latest(q, info, n + 1) = q[n + 1].list
  <2>1. \A i \in 1..(n + 1) : i > n + 1 => q[i].type # "RoomInformation"
    OBVIOUS
  <2>2. n + 1 \in Nat /\ n + 1 \in 1..(n + 1)
    OBVIOUS
  <2> QED
    BY <1>1, <2>1, <2>2, LatestAt
<1>2. ASSUME q[n + 1].type # "RoomInformation"
      PROVE  Latest(q, info, n + 1) = Latest(q, info, n)
  <2>0. n + 1 \in Nat
    OBVIOUS
  <2>1. CASE \A i \in 1..n : q[i].type # "RoomInformation"
    <3>1. \A i \in 1..(n + 1) : q[i].type # "RoomInformation"
      BY <1>2, <2>1
    <3> QED
      BY <2>0, <2>1, <3>1, LatestNone
  <2>2. ASSUME NEW k \in 1..n, q[k].type = "RoomInformation",
               \A i \in 1..n : i > k => q[i].type # "RoomInformation"
        PROVE  Latest(q, info, n + 1) = Latest(q, info, n)
    <3>1. k \in 1..(n + 1) /\ \A i \in 1..(n + 1) : i > k => q[i].type # "RoomInformation"
      BY <1>2, <2>2
    <3>2. Latest(q, info, n + 1) = q[k].list
      BY <2>0, <2>2, <3>1, LatestAt
    <3>3. Latest(q, info, n) = q[k].list
      BY <2>2, LatestAt
    <3> QED
      BY <3>2, <3>3
  <2> QED
    BY <2>1, <2>2, LatestCases
<1> QED
  BY <1>1, <1>2

(* When the first message has arrived, the same lists are to come.         *)
InfoAfter(info, m) == IF m.type = "RoomInformation" THEN m.list ELSE info

LEMMA LatestOfTail ==
    ASSUME NEW q \in Seq(DownMessages), q # <<>>, NEW info, NEW n \in 0..Len(Tail(q))
    PROVE  Latest(Tail(q), InfoAfter(info, Head(q)), n) = Latest(q, info, n + 1)
<1> DEFINE t == Tail(q)
           inf == InfoAfter(info, Head(q))
<1>1. /\ Len(t) = Len(q) - 1 /\ Len(q) \in Nat /\ Head(q) = q[1]
      /\ \A i \in 1..Len(t) : t[i] = q[i + 1]
  BY HeadTailProperties, EmptySeq
<1> HIDE DEF t
<1>2. n \in Nat /\ n + 1 \in Nat /\ n <= Len(t)
  BY <1>1 DEF t
<1>3. \A i \in 1..n : t[i] = q[i + 1]
  BY <1>1, <1>2
<1>4. CASE \A i \in 1..n : t[i].type # "RoomInformation"
  <2>0. \A i \in 1..n : q[i + 1].type # "RoomInformation"
    BY <1>3, <1>4
  <2>1. \A i \in 1..(n + 1) : i > 1 => q[i].type # "RoomInformation"
    <3> SUFFICES ASSUME NEW i \in 1..(n + 1), i > 1
                 PROVE  q[i].type # "RoomInformation"
      OBVIOUS
    <3>1. PICK j : j = i - 1
      OBVIOUS
    <3>2. j \in 1..n /\ j + 1 = i
      BY <1>2, <3>1
    <3> QED
      BY <2>0, <3>2
  <2>2. Latest(t, inf, n) = inf
    BY <1>2, <1>4, LatestNone
  <2>3. CASE q[1].type = "RoomInformation"
    <3>1. Latest(q, info, n + 1) = q[1].list
      <4>1. 1 \in 1..(n + 1)
        BY <1>2
      <4> QED
        BY <1>2, <2>1, <2>3, <4>1, LatestAt
    <3> QED
      BY <1>1, <2>2, <2>3, <3>1 DEF InfoAfter, t
  <2>4. CASE q[1].type # "RoomInformation"
    <3>1. \A i \in 1..(n + 1) : q[i].type # "RoomInformation"
      <4>1. \A i \in 1..(n + 1) : i = 1 \/ i > 1
        BY <1>2
      <4> QED
        BY <2>1, <2>4, <4>1
    <3>2. Latest(q, info, n + 1) = info
      BY <1>2, <3>1, LatestNone
    <3> QED
      BY <1>1, <2>2, <2>4, <3>2 DEF InfoAfter, t
  <2> QED
    BY <2>3, <2>4
<1>5. ASSUME NEW k \in 1..n, t[k].type = "RoomInformation",
             \A i \in 1..n : i > k => t[i].type # "RoomInformation"
      PROVE  Latest(t, inf, n) = Latest(q, info, n + 1)
  <2>1. Latest(t, inf, n) = t[k].list
    BY <1>2, <1>5, LatestAt
  <2>2. PICK j : j = k + 1
    OBVIOUS
  <2>3. j \in 1..(n + 1) /\ t[k] = q[j]
    BY <1>2, <1>3, <2>2
  <2>4. \A i \in 1..(n + 1) : i > j => q[i].type # "RoomInformation"
    <3> SUFFICES ASSUME NEW i \in 1..(n + 1), i > j
                 PROVE  q[i].type # "RoomInformation"
      OBVIOUS
    <3>1. PICK h : h = i - 1
      OBVIOUS
    <3>2. h \in 1..n /\ h + 1 = i /\ h > k
      BY <1>2, <2>2, <2>3, <3>1
    <3>3. t[h] = q[i]
      BY <1>3, <3>2
    <3> QED
      BY <1>5, <3>2, <3>3
  <2>5. Latest(q, info, n + 1) = q[j].list
    BY <1>2, <1>5, <2>3, <2>4, LatestAt
  <2> QED
    BY <2>1, <2>3, <2>5
<1> QED
  BY <1>2, <1>4, <1>5, LatestCases DEF t

(***************************************************************************)
(* What each operation on a queue does to what the client knows.           *)
(***************************************************************************)
(* What is appended leaves the earlier messages as they were.              *)
LEMMA AppendLatest ==
    ASSUME NEW q \in Seq(DownMessages), NEW m \in DownMessages, NEW info
    PROVE  /\ \A n \in 1..Len(q) : Latest(Append(q, m), info, n) = Latest(q, info, n)
           /\ m.type = "RoomInformation" =>
                Latest(Append(q, m), info, Len(q) + 1) = m.list
           /\ m.type # "RoomInformation" =>
                Latest(Append(q, m), info, Len(q) + 1) = Latest(q, info, Len(q))
<1> DEFINE a == Append(q, m)
<1>1. /\ Len(q) \in Nat
      /\ \A i \in 1..Len(q) : a[i] = q[i]
      /\ a[Len(q) + 1] = m
  BY AppendProperties, LenProperties
<1> HIDE DEF a
<1>2. \A n \in 0..Len(q) : Latest(a, info, n) = Latest(q, info, n)
  <2> SUFFICES ASSUME NEW n \in 0..Len(q)
               PROVE  Latest(a, info, n) = Latest(q, info, n)
    OBVIOUS
  <2>1. n \in Nat /\ \A i \in 1..n : a[i] = q[i]
    BY <1>1
  <2> QED
    BY <2>1, LatestSame
<1>3. Latest(a, info, Len(q)) = Latest(q, info, Len(q))
  BY <1>1, <1>2
<1>4. /\ m.type = "RoomInformation" => Latest(a, info, Len(q) + 1) = m.list
      /\ m.type # "RoomInformation" => Latest(a, info, Len(q) + 1) = Latest(a, info, Len(q))
  BY <1>1, LatestNext
<1> QED
  BY <1>1, <1>2, <1>3, <1>4 DEF a

LEMMA AppendSense ==
    ASSUME NEW q \in Seq(DownMessages), NEW m \in DownMessages, NEW info,
           SenseMade(q, info),
           m.type = "ChatMessage" => Listed(Latest(q, info, Len(q)), m.from),
           m.type = "JoinSuccess" => Latest(q, info, Len(q)) # <<>>
    PROVE  SenseMade(Append(q, m), info)
<1> DEFINE a == Append(q, m)
<1>1. /\ Len(q) \in Nat /\ Len(a) = Len(q) + 1
      /\ \A i \in 1..Len(q) : a[i] = q[i]
      /\ a[Len(q) + 1] = m
  BY AppendProperties, LenProperties
<1>2. /\ \A n \in 1..Len(q) : Latest(a, info, n) = Latest(q, info, n)
      /\ m.type # "RoomInformation" =>
           Latest(a, info, Len(q) + 1) = Latest(q, info, Len(q))
  BY AppendLatest
<1> HIDE DEF a
<1>3. ASSUME NEW n \in 1..Len(q)
      PROVE  /\ a[n].type = "ChatMessage" => Listed(Latest(a, info, n), a[n].from)
             /\ a[n].type = "JoinSuccess" => Latest(a, info, n) # <<>>
  <2>1. a[n] = q[n] /\ Latest(a, info, n) = Latest(q, info, n)
    BY <1>1, <1>2
  <2> QED
    BY <2>1 DEF SenseMade
<1>4. /\ m.type = "ChatMessage" => Listed(Latest(a, info, Len(q) + 1), m.from)
      /\ m.type = "JoinSuccess" => Latest(a, info, Len(q) + 1) # <<>>
  BY <1>2
<1>5. \A n \in 1..Len(a) : n \in 1..Len(q) \/ n = Len(q) + 1
  BY <1>1
<1>6. ASSUME NEW n \in 1..Len(a)
      PROVE  /\ a[n].type = "ChatMessage" => Listed(Latest(a, info, n), a[n].from)
             /\ a[n].type = "JoinSuccess" => Latest(a, info, n) # <<>>
  <2>1. CASE n \in 1..Len(q)
    BY <1>3, <2>1
  <2>2. CASE n = Len(q) + 1
    BY <1>1, <1>4, <2>2
  <2> QED
    BY <1>5, <2>1, <2>2
<1> QED
  BY <1>6 DEF SenseMade, a

(* That the queue ends the membership stays, whatever is appended.         *)
LEMMA AppendEnded ==
    ASSUME NEW q \in Seq(DownMessages), NEW m \in DownMessages, NEW n \in Nat, n > 0
    PROVE  /\ Ended(q, n) => Ended(Append(q, m), n)
           /\ m.type \in {"End", "Disconnect"} /\ n <= Len(q) + 1 => Ended(Append(q, m), n)
<1> DEFINE a == Append(q, m)
<1>1. /\ Len(q) \in Nat /\ Len(a) = Len(q) + 1
      /\ \A i \in 1..Len(q) : a[i] = q[i]
      /\ a[Len(q) + 1] = m
  BY AppendProperties, LenProperties
<1> HIDE DEF a
<1>2. ASSUME Ended(q, n)
      PROVE  Ended(a, n)
  <2>1. PICK k \in n..Len(q) : q[k].type \in {"End", "Disconnect"}
    BY <1>2 DEF Ended
  <2>2. k \in n..Len(a) /\ a[k] = q[k]
    BY <1>1
  <2> QED
    BY <2>1, <2>2 DEF Ended
<1>3. ASSUME m.type \in {"End", "Disconnect"}, n <= Len(q) + 1
      PROVE  Ended(a, n)
  <2>1. Len(q) + 1 \in n..Len(a)
    BY <1>1, <1>3
  <2> QED
    BY <1>1, <1>3, <2>1 DEF Ended
<1> QED
  BY <1>2, <1>3 DEF a

(* A queue that ends in a Disconnect tells, after any other message in it, *)
(* that the client is out.                                                 *)
LEMMA EndsEnded ==
    ASSUME NEW q \in Seq(DownMessages), EndsIn(q)
    PROVE  /\ Ended(q, 1)
           /\ \A n \in 1..Len(q) : q[n].type = "JoinSuccess" => Ended(q, n + 1)
<1>1. Len(q) \in Nat /\ Len(q) > 0 /\ q[Len(q)] = Disconnected
  BY EmptySeq DEF EndsIn, Last
<1>2. Disconnected.type = "Disconnect"
  BY DEF Disconnected
<1>3. Ended(q, 1)
  <2>1. Len(q) \in 1..Len(q)
    BY <1>1
  <2> QED
    BY <1>1, <1>2, <2>1 DEF Ended
<1>4. ASSUME NEW n \in 1..Len(q), q[n].type = "JoinSuccess"
      PROVE  Ended(q, n + 1)
  <2>1. n # Len(q)
    BY <1>1, <1>2, <1>4
  <2>2. Len(q) \in (n + 1)..Len(q)
    BY <1>1, <2>1
  <2> QED
    BY <1>1, <1>2, <2>2 DEF Ended
<1> QED
  BY <1>3, <1>4

(* Once the queue ends, it does not matter who the members are.            *)
LEMMA ViewOfEnded ==
    ASSUME NEW q \in Seq(DownMessages), NEW info, NEW st, NEW ms, NEW p,
           SenseMade(q, info), EndsIn(q)
    PROVE  ViewSound(q, info, st, ms, p)
BY EndsEnded DEF ViewSound

(* A message that is neither a list nor the news of success.               *)
LEMMA ViewAppend ==
    ASSUME NEW q \in Seq(DownMessages), NEW info, NEW st, NEW ms, NEW p, NEW m \in DownMessages,
           ViewSound(q, info, st, ms, p), ~EndsIn(q), EndsOnce(q),
           m.type \in {"End", "ChatMessage"},
           m.type = "ChatMessage" => Listed(Latest(q, info, Len(q)), m.from)
    PROVE  ViewSound(Append(q, m), info, st, ms, p)
<1> DEFINE a == Append(q, m)
<1>1. /\ a \in Seq(DownMessages)
      /\ Len(q) \in Nat /\ Len(a) = Len(q) + 1
      /\ \A i \in 1..Len(q) : a[i] = q[i]
      /\ a[Len(q) + 1] = m
  BY AppendProperties, LenProperties
<1>2. SenseMade(a, info)
  BY AppendSense DEF ViewSound
<1>3. Latest(a, info, Len(a)) = Latest(q, info, Len(q))
  BY <1>1, AppendLatest
<1>4. \A n \in Nat : n > 0 /\ Ended(q, n) => Ended(a, n)
  BY AppendEnded
<1> HIDE DEF a
<1>5. ASSUME NEW n \in 1..Len(a), a[n].type = "JoinSuccess"
      PROVE  InRoom(ms, p) \/ Ended(a, n + 1)
  <2>1. n \in 1..Len(q) /\ q[n].type = "JoinSuccess"
    BY <1>1, <1>5
  <2>2. InRoom(ms, p) \/ Ended(q, n + 1)
    BY <2>1 DEF ViewSound
  <2> QED
    BY <1>4, <2>1, <2>2
<1>6. st \in {"Joined", "Moderator"} => InRoom(ms, p) \/ Ended(a, 1)
  BY <1>4 DEF ViewSound
<1>7. InRoom(ms, p) /\ ~EndsIn(a) => Latest(a, info, Len(a)) = Listing(ms)
  BY <1>3 DEF ViewSound
<1> QED
  BY <1>2, <1>5, <1>6, <1>7 DEF ViewSound, a

(* The new list, for a client that stays in the room if it was.            *)
LEMMA ViewInformed ==
    ASSUME NEW q \in Seq(DownMessages), NEW info, NEW st, NEW ms, NEW new, NEW p,
           ViewSound(q, info, st, ms, p),
           InRoom(ms, p) => InRoom(new, p), Listing(new) \in Lists
    PROVE  ViewSound(Append(q, [type |-> "RoomInformation", list |-> Listing(new)]), info, st, new, p)
<1> DEFINE m == [type |-> "RoomInformation", list |-> Listing(new)]
           a == Append(q, m)
<1>0. m \in DownMessages /\ m.type = "RoomInformation" /\ m.list = Listing(new)
  BY DownMessagesMade
<1> HIDE DEF m
<1>1. /\ a \in Seq(DownMessages)
      /\ Len(q) \in Nat /\ Len(a) = Len(q) + 1
      /\ \A i \in 1..Len(q) : a[i] = q[i]
      /\ a[Len(q) + 1] = m
  BY <1>0, AppendProperties, LenProperties
<1>2. SenseMade(a, info)
  BY <1>0, AppendSense DEF ViewSound
<1>3. Latest(a, info, Len(a)) = Listing(new)
  <2>1. Latest(a, info, Len(q) + 1) = m.list
    BY <1>0, AppendLatest
  <2> QED
    BY <1>0, <1>1, <2>1
<1>4. \A n \in Nat : n > 0 /\ Ended(q, n) => Ended(a, n)
  BY <1>0, AppendEnded
<1> HIDE DEF a
<1>5. ASSUME NEW n \in 1..Len(a), a[n].type = "JoinSuccess"
      PROVE  InRoom(new, p) \/ Ended(a, n + 1)
  <2>1. n \in 1..Len(q) /\ q[n].type = "JoinSuccess"
    BY <1>0, <1>1, <1>5
  <2>2. InRoom(ms, p) \/ Ended(q, n + 1)
    BY <2>1 DEF ViewSound
  <2> QED
    BY <1>4, <2>1, <2>2
<1>6. st \in {"Joined", "Moderator"} => InRoom(new, p) \/ Ended(a, 1)
  BY <1>4 DEF ViewSound
<1> QED
  BY <1>2, <1>3, <1>5, <1>6 DEF ViewSound, a, m

(* The news of success, for a member that has been told the list.          *)
LEMMA ViewSuccess ==
    ASSUME NEW q \in Seq(DownMessages), NEW info, NEW st, NEW ms, NEW p, NEW b \in BOOLEAN,
           ViewSound(q, info, st, ms, p), ~EndsIn(q),
           InRoom(ms, p), Listing(ms) # <<>>
    PROVE  ViewSound(Append(q, [type |-> "JoinSuccess", mod |-> b]), info, st, ms, p)
<1> DEFINE m == [type |-> "JoinSuccess", mod |-> b]
           a == Append(q, m)
<1>0. m \in DownMessages /\ m.type = "JoinSuccess"
  BY DownMessagesMade
<1> HIDE DEF m
<1>1. /\ a \in Seq(DownMessages)
      /\ Len(q) \in Nat /\ Len(a) = Len(q) + 1
  BY <1>0, AppendProperties, LenProperties
<1>2. Latest(q, info, Len(q)) = Listing(ms)
  BY DEF ViewSound
<1>3. SenseMade(a, info)
  BY <1>0, <1>2, AppendSense DEF ViewSound
<1>4. Latest(a, info, Len(a)) = Listing(ms)
  BY <1>0, <1>1, <1>2, AppendLatest
<1> HIDE DEF a
<1> QED
  BY <1>3, <1>4 DEF ViewSound, a, m

(* What is left of a queue that is cut off.                                *)
LEMMA CutOffSense ==
    ASSUME NEW q \in Seq(DownMessages), NEW info, NEW r \in CutOff(q),
           ~EndsIn(q), EndsOnce(q), SenseMade(q, info)
    PROVE  SenseMade(r, info)
<1>1. PICK n \in 0..Len(q) : /\ Len(r) = n + 1 /\ r[n + 1] = Disconnected
                             /\ \A i \in 1..n : r[i] = q[i]
  BY DownMessagesMade, CutOffProperties
<1>2. Len(q) \in Nat
  BY LenProperties
<1>3. ASSUME NEW i \in 1..n
      PROVE  /\ r[i].type = "ChatMessage" => Listed(Latest(r, info, i), r[i].from)
             /\ r[i].type = "JoinSuccess" => Latest(r, info, i) # <<>>
  <2>1. i \in Nat /\ i \in 1..Len(q) /\ \A j \in 1..i : r[j] = q[j]
    BY <1>1, <1>2
  <2>2. Latest(r, info, i) = Latest(q, info, i)
    BY <2>1, LatestSame
  <2> QED
    BY <1>1, <2>1, <2>2 DEF SenseMade
<1>4. r[n + 1].type = "Disconnect"
  BY <1>1 DEF Disconnected
<1>5. \A i \in 1..Len(r) : i \in 1..n \/ i = n + 1
  BY <1>1
<1> QED
  BY <1>3, <1>4, <1>5 DEF SenseMade

LEMMA ViewCutOff ==
    ASSUME NEW q \in Seq(DownMessages), NEW info, NEW st, NEW ms, NEW p, NEW r \in CutOff(q),
           ~EndsIn(q), EndsOnce(q), SenseMade(q, info)
    PROVE  ViewSound(r, info, st, ms, p)
BY CutOffSense, CutOffProperties, DownMessagesMade, ViewOfEnded

(* When the first message arrives: the client may learn that it is in the  *)
(* room, and stays in it only if the message does not say otherwise.       *)
LEMMA ViewTail ==
    ASSUME NEW q \in Seq(DownMessages), q # <<>>, NEW info, NEW st, NEW new, NEW ms, NEW p,
           ViewSound(q, info, st, ms, p), EndsOnce(q), Head(q) # Disconnected,
           new \in {"Joined", "Moderator"} =>
              Head(q).type = "JoinSuccess" \/ (Head(q).type # "End" /\ st \in {"Joined", "Moderator"})
    PROVE  ViewSound(Tail(q), InfoAfter(info, Head(q)), new, ms, p)
<1> DEFINE t == Tail(q)
           inf == InfoAfter(info, Head(q))
<1>1. /\ t \in Seq(DownMessages) /\ Len(t) = Len(q) - 1 /\ Len(q) \in Nat /\ Len(q) > 0
      /\ Head(q) = q[1] /\ Head(q) \in DownMessages
      /\ \A i \in 1..Len(t) : t[i] = q[i + 1]
  BY HeadTailProperties, EmptySeq
<1>2. \A n \in 0..Len(t) : Latest(t, inf, n) = Latest(q, info, n + 1)
  BY LatestOfTail
<1>3. EndsIn(t) <=> EndsIn(q)
  BY TailEnds
<1>4. Head(q).type # "Disconnect"
  BY <1>1, DownMessageFields
<1> HIDE DEF t, inf
<1>5. SenseMade(t, inf)
  <2> SUFFICES ASSUME NEW n \in 1..Len(t)
               PROVE  /\ t[n].type = "ChatMessage" => Listed(Latest(t, inf, n), t[n].from)
                      /\ t[n].type = "JoinSuccess" => Latest(t, inf, n) # <<>>
    BY DEF SenseMade
  <2>1. n + 1 \in 1..Len(q) /\ t[n] = q[n + 1] /\ Latest(t, inf, n) = Latest(q, info, n + 1)
    BY <1>1, <1>2
  <2> QED
    BY <2>1 DEF ViewSound, SenseMade
<1>6. InRoom(ms, p) /\ ~EndsIn(t) => Latest(t, inf, Len(t)) = Listing(ms)
  <2>1. Latest(t, inf, Len(t)) = Latest(q, info, Len(q))
    <3>1. Len(t) \in 0..Len(t) /\ Len(t) + 1 = Len(q)
      BY <1>1
    <3> QED
      BY <1>2, <3>1
  <2> QED
    BY <1>3, <2>1 DEF ViewSound
<1>7. ASSUME NEW n \in Nat, n > 0, Ended(q, n + 1)
      PROVE  Ended(t, n)
  <2>1. PICK k \in (n + 1)..Len(q) : q[k].type \in {"End", "Disconnect"}
    BY <1>7 DEF Ended
  <2>2. PICK j : j = k - 1
    OBVIOUS
  <2>3. j \in n..Len(t) /\ j \in 1..Len(t) /\ j + 1 = k
    BY <1>1, <1>7, <2>1, <2>2
  <2>4. t[j] = q[k]
    BY <1>1, <2>3
  <2> QED
    BY <2>1, <2>3, <2>4 DEF Ended
<1>8. ASSUME NEW n \in 1..Len(t), t[n].type = "JoinSuccess"
      PROVE  InRoom(ms, p) \/ Ended(t, n + 1)
  <2>1. PICK j : j = n + 1
    OBVIOUS
  <2>2. j \in 1..Len(q) /\ q[j].type = "JoinSuccess" /\ j \in Nat /\ j > 0
    BY <1>1, <1>8, <2>1
  <2>3. InRoom(ms, p) \/ Ended(q, j + 1)
    BY <2>2 DEF ViewSound
  <2> QED
    BY <1>7, <2>1, <2>2, <2>3
<1>9. ASSUME new \in {"Joined", "Moderator"}
      PROVE  InRoom(ms, p) \/ Ended(t, 1)
  <2>1. CASE Head(q).type = "JoinSuccess"
    <3>1. 1 \in 1..Len(q) /\ q[1].type = "JoinSuccess"
      BY <1>1, <2>1
    <3>2. InRoom(ms, p) \/ Ended(q, 1 + 1)
      BY <3>1 DEF ViewSound
    <3> QED
      BY <1>7, <3>2
  <2>2. CASE Head(q).type # "End" /\ st \in {"Joined", "Moderator"}
    <3>1. CASE InRoom(ms, p)
      BY <3>1
    <3>2. CASE Ended(q, 1)
      <4>1. PICK k \in 1..Len(q) : q[k].type \in {"End", "Disconnect"}
        BY <3>2 DEF Ended
      <4>2. k # 1
        BY <1>1, <1>4, <2>2, <4>1
      <4>3. k \in (1 + 1)..Len(q)
        BY <1>1, <4>2
      <4>4. Ended(q, 1 + 1)
        BY <4>1, <4>3 DEF Ended
      <4> QED
        BY <1>7, <4>4
    <3> QED
      BY <2>2, <3>1, <3>2 DEF ViewSound
  <2> QED
    BY <1>9, <2>1, <2>2
<1> QED
  BY <1>5, <1>6, <1>8, <1>9 DEF ViewSound, t, inf

(* The queue of a client that has just connected.                          *)
LEMMA ViewEmpty ==
    ASSUME NEW info, NEW ms, NEW p, ~InRoom(ms, p)
    PROVE  ViewSound(<<>>, info, "Joining", ms, p)
<1>1. Len(<<>>) = 0
  BY EmptySeq
<1> QED
  BY <1>1 DEF ViewSound, SenseMade

(***************************************************************************)
(* The two ends of a connection, and what is sent to the client.           *)
(***************************************************************************)
(* What Sent makes of one queue.                                           *)
Offered(ce, queue, m) == IF ce = "open" /\ ~EndsIn(queue) THEN Append(queue, m) ELSE queue

LEMMA SentQueues ==
    ASSUME NEW queues \in [Peers -> Seq(DownMessages)], NEW p \in Peers, NEW m
    PROVE  \A r \in Peers :
              Sent(queues, p, m)[r] = IF r = p THEN Offered(client_end[p], queues[p], m) ELSE queues[r]
BY DEF Sent, Offered

LEMMA InformedQueues ==
    ASSUME NEW queues \in [Peers -> Seq(DownMessages)], NEW ms, NEW Gone
    PROVE  \A r \in Peers :
              Informed(queues, ms, Gone)[r] =
                IF server_end[r] = "open" /\ r \notin Gone
                THEN Offered(client_end[r], queues[r], [type |-> "RoomInformation", list |-> Listing(ms)])
                ELSE queues[r]
<1> DEFINE m == [type |-> "RoomInformation", list |-> Listing(ms)]
<1> HIDE DEF m
<1>1. \A r \in Peers : Sent(queues, r, m)[r] = Offered(client_end[r], queues[r], m)
  BY SentQueues
<1> QED
  BY <1>1 DEF Informed, m

LEMMA OfferedType ==
    ASSUME NEW q \in Seq(DownMessages), NEW m \in DownMessages, NEW ce
    PROVE  Offered(ce, q, m) \in Seq(DownMessages)
BY AppendProperties DEF Offered

LEMMA OfferedEnds ==
    ASSUME NEW q \in Seq(DownMessages), NEW m \in DownMessages, m # Disconnected, EndsOnce(q), NEW ce
    PROVE  /\ EndsOnce(Offered(ce, q, m))
           /\ EndsIn(Offered(ce, q, m)) <=> EndsIn(q)
           /\ ce # "open" => Offered(ce, q, m) = q
BY AppendEnds DEF Offered

LEMMA OfferedLink ==
    ASSUME NEW q \in Seq(DownMessages), NEW m \in DownMessages, m # Disconnected,
           NEW se, NEW ce, ce \in {"open", "shut"}, NEW u, LinkSound(se, ce, u, q)
    PROVE  LinkSound(se, ce, u, Offered(ce, q, m))
BY OfferedEnds DEF LinkSound

(* What the client knows when the server offers it a message.              *)
LEMMA ViewOffered ==
    ASSUME NEW q \in Seq(DownMessages), NEW info, NEW st, NEW ms, NEW p, NEW m \in DownMessages,
           ViewSound(q, info, st, ms, p), EndsOnce(q),
           m.type \in {"End", "ChatMessage"},
           m.type = "ChatMessage" /\ ~EndsIn(q) => Listed(Latest(q, info, Len(q)), m.from)
    PROVE  ViewSound(Offered("open", q, m), info, st, ms, p)
<1>1. CASE EndsIn(q)
  BY <1>1 DEF Offered
<1>2. CASE ~EndsIn(q)
  <2>1. ViewSound(Append(q, m), info, st, ms, p)
    BY <1>2, ViewAppend
  <2> QED
    BY <1>2, <2>1 DEF Offered
<1> QED
  BY <1>1, <1>2

LEMMA InformationMade ==
    ASSUME NEW ms, Listing(ms) \in Lists
    PROVE  /\ [type |-> "RoomInformation", list |-> Listing(ms)] \in DownMessages
           /\ [type |-> "RoomInformation", list |-> Listing(ms)] # Disconnected
BY DownMessagesMade DEF Disconnected

(* What everybody knows when the members are ms from now on: a client that *)
(* loses its place is on a connection that the server has closed.          *)
LEMMA InformedViews ==
    ASSUME Types, Ends, NEW queues \in [Peers -> Seq(DownMessages)], NEW ms, Listing(ms) \in Lists,
           NEW Gone,
           \A c \in Clients : server[c] # NoPeer =>
              ViewSound(queues[server[c]], member_information[c], state[c], members, server[c]),
           \A r \in Peers : client_end[r] = "open" /\ (server_end[r] # "open" \/ r \in Gone) =>
              EndsIn(queues[r]),
           \A r \in Peers : server_end[r] = "open" /\ r \notin Gone /\ InRoom(members, r) =>
              InRoom(ms, r)
    PROVE  \A c \in Clients : server[c] # NoPeer =>
              ViewSound(Informed(queues, ms, Gone)[server[c]], member_information[c], state[c], ms, server[c])
<1> SUFFICES ASSUME NEW c \in Clients, server[c] # NoPeer
             PROVE  ViewSound(Informed(queues, ms, Gone)[server[c]], member_information[c], state[c], ms, server[c])
  OBVIOUS
<1> DEFINE m == [type |-> "RoomInformation", list |-> Listing(ms)]
<1>1. PICK p \in Peers : p = server[c]
  BY DEF Types
<1>2. client_end[p] = "open"
  BY <1>1 DEF Ends
<1>3. /\ queues[p] \in Seq(DownMessages)
      /\ ViewSound(queues[p], member_information[c], state[c], members, p)
  BY <1>1
<1> HIDE DEF m
<1>3a. Informed(queues, ms, Gone)[p] =
         IF server_end[p] = "open" /\ p \notin Gone THEN Offered(client_end[p], queues[p], m) ELSE queues[p]
  BY InformedQueues DEF m
<1>4. CASE EndsIn(queues[p])
  <2>1. Informed(queues, ms, Gone)[p] = queues[p]
    BY <1>4, <1>3a DEF Offered
  <2>2. ViewSound(queues[p], member_information[c], state[c], ms, p)
    BY <1>3, <1>4, ViewOfEnded DEF ViewSound
  <2> QED
    BY <1>1, <2>1, <2>2
<1>5. CASE ~EndsIn(queues[p])
  <2>1. server_end[p] = "open" /\ p \notin Gone
    BY <1>2, <1>5
  <2>2. Informed(queues, ms, Gone)[p] = Append(queues[p], m)
    BY <1>2, <1>5, <1>3a, <2>1 DEF Offered
  <2>3. InRoom(members, p) => InRoom(ms, p)
    BY <2>1
  <2>4. ViewSound(Append(queues[p], m), member_information[c], state[c], ms, p)
    BY <1>3, <2>3, ViewInformed DEF m
  <2> QED
    BY <1>1, <2>2, <2>4
<1> QED
  BY <1>4, <1>5

(* Informing keeps types and connections.                                  *)
LEMMA InformedLinks ==
    ASSUME NEW queues \in [Peers -> Seq(DownMessages)], NEW ms, Listing(ms) \in Lists, NEW Gone,
           client_end \in [Peers -> {"open", "shut"}]
    PROVE  /\ Informed(queues, ms, Gone) \in [Peers -> Seq(DownMessages)]
           /\ \A r \in Peers : \A se, u :
                 LinkSound(se, client_end[r], u, queues[r]) =>
                    LinkSound(se, client_end[r], u, Informed(queues, ms, Gone)[r])
<1> DEFINE m == [type |-> "RoomInformation", list |-> Listing(ms)]
<1>1. m \in DownMessages /\ m # Disconnected
  BY InformationMade
<1> HIDE DEF m
<1>2. \A r \in Peers : Informed(queues, ms, Gone)[r] =
         IF server_end[r] = "open" /\ r \notin Gone
         THEN Offered(client_end[r], queues[r], m) ELSE queues[r]
  BY InformedQueues DEF m
<1>3. \A r \in Peers : Informed(queues, ms, Gone)[r] \in Seq(DownMessages)
  BY <1>1, <1>2, OfferedType
<1>4. Informed(queues, ms, Gone) \in [Peers -> Seq(DownMessages)]
  BY <1>3 DEF Informed
<1>5. ASSUME NEW r \in Peers, NEW se, NEW u, LinkSound(se, client_end[r], u, queues[r])
      PROVE  LinkSound(se, client_end[r], u, Informed(queues, ms, Gone)[r])
  <2>1. LinkSound(se, client_end[r], u, Offered(client_end[r], queues[r], m))
    BY <1>1, <1>5, OfferedLink
  <2> QED
    BY <1>2, <1>5, <2>1
<1> QED
  BY <1>4, <1>5

(* The same of a message to one client.                                    *)
LEMMA SentLinks ==
    ASSUME NEW queues \in [Peers -> Seq(DownMessages)], NEW p \in Peers,
           NEW m \in DownMessages, m # Disconnected, client_end \in [Peers -> {"open", "shut"}]
    PROVE  /\ Sent(queues, p, m) \in [Peers -> Seq(DownMessages)]
           /\ \A r \in Peers : \A se, u :
                 LinkSound(se, client_end[r], u, queues[r]) =>
                    LinkSound(se, client_end[r], u, Sent(queues, p, m)[r])
<1>1. \A r \in Peers :
         Sent(queues, p, m)[r] = IF r = p THEN Offered(client_end[p], queues[p], m) ELSE queues[r]
  BY SentQueues
<1>2. \A r \in Peers : Sent(queues, p, m)[r] \in Seq(DownMessages)
  BY <1>1, OfferedType
<1>3. Sent(queues, p, m) \in [Peers -> Seq(DownMessages)]
  BY <1>2 DEF Sent
<1>4. ASSUME NEW r \in Peers, NEW se, NEW u, LinkSound(se, client_end[r], u, queues[r])
      PROVE  LinkSound(se, client_end[r], u, Sent(queues, p, m)[r])
  <2>1. LinkSound(se, client_end[r], u, Offered(client_end[r], queues[r], m))
    BY <1>4, OfferedLink
  <2> QED
    BY <1>1, <1>4, <2>1
<1> QED
  BY <1>3, <1>4

(***************************************************************************)
(* The list of members.                                                    *)
(***************************************************************************)
(* The slots are a number.                                                 *)
LEMMA SlotsNat == member_slots \in Nat /\ member_slots > 0
BY RoomAssumption

(* What is told of the members.                                            *)
LEMMA ListingType ==
    ASSUME NEW ms \in Seq(Entries), Len(ms) <= member_slots
    PROVE  /\ Listing(ms) \in Lists
           /\ Len(Listing(ms)) = Len(ms)
           /\ \A i \in 1..Len(ms) : Listing(ms)[i].nickname = ms[i].nickname
<1>1. Len(ms) \in Nat /\ Len(ms) \in 0..member_slots
  BY LenProperties, SlotsNat
<1>2. \A i \in 1..Len(ms) : ms[i] \in Entries
  BY ElementOfSeq
<1>3. \A i \in 1..Len(ms) :
         [nickname |-> ms[i].nickname, mac |-> ms[i].mac, game |-> ms[i].game] \in ListEntry
  BY <1>2 DEF Entries, ListEntry
<1>4. Listing(ms) \in [1..Len(ms) -> ListEntry]
  BY <1>3 DEF Listing
<1>5. Listing(ms) \in Lists
  BY <1>1, <1>4 DEF Lists
<1>6. Listing(ms) \in Seq(ListEntry)
  BY <1>1, <1>4, SeqDef
<1>7. Len(Listing(ms)) = Len(ms)
  BY <1>1, <1>4, <1>6
<1> QED
  BY <1>5, <1>7 DEF Listing

(* Without the first of S: the others are left, each once.                 *)
LEMMA WithoutFirstProperties ==
    ASSUME NEW ms \in Seq(Entries), NEW S, S \subseteq 1..Len(ms), S # {}
    PROVE  /\ Min(S) \in S
           /\ WithoutFirst(ms, S) \in Seq(Entries)
           /\ Len(WithoutFirst(ms, S)) = Len(ms) - 1
           /\ \A i \in 1..(Len(ms) - 1) :
                 WithoutFirst(ms, S)[i] = ms[IF i < Min(S) THEN i ELSE i + 1]
<1>1. S \subseteq Nat
  OBVIOUS
<1>2. Min(S) \in S /\ Min(S) \in 1..Len(ms)
  BY <1>1, MinNat
<1> QED
  BY <1>2, RemoveAtProperties DEF WithoutFirst

PairsOf(new, ms) ==
    \A i, j \in 1..Len(new) : i # j =>
        \E k, l \in 1..Len(ms) : k # l /\ new[i] = ms[k] /\ new[j] = ms[l]

RestOf(new, ms, S) ==
    /\ \A i \in 1..Len(new) : \E k \in 1..Len(ms) : new[i] = ms[k] /\ (S # {} => k # Min(S))
    /\ \A k \in 1..Len(ms) : S = {} \/ k # Min(S) => \E i \in 1..Len(new) : new[i] = ms[k]

LEMMA FewerMembers ==
    ASSUME NEW ms \in Seq(Entries), NEW S, S \subseteq 1..Len(ms), NEW new, new = WithoutFirst(ms, S)
    PROVE  /\ new \in Seq(Entries) /\ Len(new) <= Len(ms)
           /\ PairsOf(new, ms) /\ RestOf(new, ms, S)
<1>0. Len(ms) \in Nat
  BY LenProperties
<1>1. CASE S = {}
  <2>1. new = ms
    BY <1>1 DEF WithoutFirst
  <2> QED
    BY <1>0, <1>1, <2>1 DEF PairsOf, RestOf
<1>2. CASE S # {}
  <2>1. PICK h : h = Min(S)
    OBVIOUS
  <2>2. /\ h \in 1..Len(ms) /\ new \in Seq(Entries) /\ Len(new) = Len(ms) - 1
        /\ \A i \in 1..(Len(ms) - 1) : new[i] = ms[IF i < h THEN i ELSE i + 1]
    BY <1>2, <2>1, WithoutFirstProperties
  <2>3. ASSUME NEW i \in 1..Len(new)
        PROVE  \E k \in 1..Len(ms) : new[i] = ms[k] /\ k # h
    <3>1. CASE i < h
      BY <1>0, <2>2, <3>1
    <3>2. CASE ~(i < h)
      BY <1>0, <2>2, <3>2
    <3> QED
      BY <3>1, <3>2
  <2>4. ASSUME NEW i \in 1..Len(new), NEW j \in 1..Len(new), i # j
        PROVE  \E k, l \in 1..Len(ms) : k # l /\ new[i] = ms[k] /\ new[j] = ms[l]
    <3>1. PICK k : k = IF i < h THEN i ELSE i + 1
      OBVIOUS
    <3>2. PICK l : l = IF j < h THEN j ELSE j + 1
      OBVIOUS
    <3>3. k \in 1..Len(ms) /\ l \in 1..Len(ms) /\ k # l
      BY <1>0, <2>2, <2>4, <3>1, <3>2
    <3>4. new[i] = ms[k] /\ new[j] = ms[l]
      BY <2>2, <3>1, <3>2
    <3> QED
      BY <3>3, <3>4
  <2>5. ASSUME NEW k \in 1..Len(ms), k # h
        PROVE  \E i \in 1..Len(new) : new[i] = ms[k]
    <3>1. PICK i : i = IF k < h THEN k ELSE k - 1
      OBVIOUS
    <3>2. i \in 1..Len(new) /\ (IF i < h THEN i ELSE i + 1) = k
      BY <1>0, <2>2, <2>5, <3>1
    <3> QED
      BY <2>2, <3>2
  <2>6. Len(new) <= Len(ms)
    BY <1>0, <2>2
  <2>7. \A i \in 1..Len(new) : \E k \in 1..Len(ms) : new[i] = ms[k] /\ (S # {} => k # Min(S))
    BY <2>1, <2>3
  <2>8. \A k \in 1..Len(ms) : S = {} \/ k # Min(S) => \E i \in 1..Len(new) : new[i] = ms[k]
    BY <1>2, <2>1, <2>5
  <2> QED
    BY <2>2, <2>4, <2>6, <2>7, <2>8 DEF PairsOf, RestOf
<1> QED
  BY <1>1, <1>2

(* Whoever is left is in the room once.                                    *)
LEMMA FewerDistinct ==
    ASSUME Types, MembersInv, NEW S, S \subseteq 1..Len(members),
           members' = WithoutFirst(members, S)
    PROVE  /\ members' \in Seq(Entries) /\ Len(members') <= member_slots
           /\ MembersDistinct' /\ ClientsDistinct'
           /\ RestOf(members', members, S)
<1>1. PICK ms \in Seq(Entries) : ms = members
  BY DEF Types
<1>2. PICK new : new = members'
  OBVIOUS
<1>3. /\ new \in Seq(Entries) /\ Len(new) <= Len(ms)
      /\ PairsOf(new, ms) /\ RestOf(new, ms, S)
  <2>1. S \subseteq 1..Len(ms) /\ new = WithoutFirst(ms, S)
    BY <1>1, <1>2
  <2> QED
    BY <2>1, FewerMembers
<1>4. Len(new) <= member_slots
  <2>1. Len(new) \in Nat /\ Len(ms) \in Nat
    BY <1>3, LenProperties
  <2> QED
    BY <1>1, <1>3, <2>1, SlotsNat DEF Types
<1>5. ASSUME NEW i \in 1..Len(new), NEW j \in 1..Len(new), i # j
      PROVE  /\ new[i].nickname # new[j].nickname /\ new[i].mac # new[j].mac
             /\ new[i].peer # new[j].peer /\ new[i].client # new[j].client
  <2>1. PICK k \in 1..Len(ms), l \in 1..Len(ms) : k # l /\ new[i] = ms[k] /\ new[j] = ms[l]
    BY <1>3, <1>5 DEF PairsOf
  <2> QED
    BY <1>1, <2>1 DEF MembersInv, MembersDistinct, ClientsDistinct
<1>6. MembersDistinct' /\ ClientsDistinct'
  BY <1>2, <1>5 DEF MembersDistinct, ClientsDistinct
<1> QED
  BY <1>1, <1>2, <1>3, <1>4, <1>6

(* The connection of the member that goes is without member, and the       *)
(* others keep theirs.                                                     *)
LEMMA MemberRemoved ==
    ASSUME Types, MembersInv, NEW S, S \subseteq 1..Len(members), S # {},
           members' = WithoutFirst(members, S)
    PROVE  /\ Min(S) \in S
           /\ members[Min(S)].peer \in Peers
           /\ ~InRoom(members', members[Min(S)].peer)
           /\ \A r \in Peers : r # members[Min(S)].peer /\ InRoom(members, r) => InRoom(members', r)
<1>0. Min(S) \in S
  <2>1. S \subseteq Nat
    OBVIOUS
  <2> QED
    BY <2>1, MinNat
<1>1. PICK h \in 1..Len(members) : h = Min(S)
  BY <1>0
<1>2. members[h].peer \in Peers
  <2>1. members[h] \in Entries
    BY ElementOfSeq DEF Types
  <2> QED
    BY <2>1 DEF Entries
<1>3. /\ \A i \in 1..Len(members') : \E k \in 1..Len(members) : members'[i] = members[k] /\ k # h
      /\ \A k \in 1..Len(members) : k # h => \E i \in 1..Len(members') : members'[i] = members[k]
  BY <1>1, FewerDistinct DEF RestOf
<1>4. ~InRoom(members', members[h].peer)
  <2> SUFFICES ASSUME NEW i \in 1..Len(members'), members'[i].peer = members[h].peer
               PROVE  FALSE
    BY DEF InRoom
  <2>1. PICK k \in 1..Len(members) : members'[i] = members[k] /\ k # h
    BY <1>3
  <2> QED
    BY <2>1 DEF MembersInv, MembersDistinct
<1>5. ASSUME NEW r \in Peers, r # members[h].peer, InRoom(members, r)
      PROVE  InRoom(members', r)
  <2>1. PICK k \in 1..Len(members) : members[k].peer = r
    BY <1>5 DEF InRoom
  <2>2. PICK i \in 1..Len(members') : members'[i] = members[k]
    BY <1>3, <1>5, <2>1
  <2> QED
    BY <2>1, <2>2 DEF InRoom
<1> QED
  BY <1>0, <1>1, <1>2, <1>4, <1>5

(* When the member on a connection, if any, goes.                          *)
LEMMA PeerRemoved ==
    ASSUME Types, MembersInv, NEW p \in Peers, members' = WithoutFirst(members, MembersAt(p))
    PROVE  /\ ~InRoom(members', p)
           /\ \A r \in Peers : r # p /\ InRoom(members, r) => InRoom(members', r)
<1>1. CASE MembersAt(p) = {}
  BY <1>1 DEF WithoutFirst, MembersAt, InRoom
<1>2. CASE MembersAt(p) # {}
  <2>1. MembersAt(p) \subseteq 1..Len(members)
    BY DEF MembersAt
  <2>2. Min(MembersAt(p)) \in MembersAt(p)
    BY <1>2, <2>1, MemberRemoved
  <2>3. members[Min(MembersAt(p))].peer = p
    BY <2>2 DEF MembersAt
  <2> QED
    BY <1>2, <2>1, <2>3, MemberRemoved
<1> QED
  BY <1>1, <1>2

(* Being in the room is having a member on the connection.                 *)
LEMMA InRoomMembersAt ==
    \A p : InRoom(members, p) <=> MembersAt(p) # {}
BY DEF InRoom, MembersAt

(***************************************************************************)
(* The next event of a connection.                                         *)
(***************************************************************************)
LEMMA FromTail ==
    ASSUME NEW q \in Seq(UpMessages), q # <<>>, NEW c, From(q, c)
    PROVE  /\ From(Tail(q), c)
           /\ Head(q).type = "JoinRequest" => Head(q).client = c
<1>1. /\ Len(Tail(q)) = Len(q) - 1 /\ Len(q) \in Nat /\ Len(q) > 0 /\ Head(q) = q[1]
      /\ \A i \in 1..Len(Tail(q)) : Tail(q)[i] = q[i + 1]
  BY HeadTailProperties, EmptySeq
<1>2. ASSUME NEW n \in 1..Len(Tail(q)), Tail(q)[n].type = "JoinRequest"
      PROVE  Tail(q)[n].client = c
  <2>1. n + 1 \in 1..Len(q) /\ Tail(q)[n] = q[n + 1]
    BY <1>1
  <2> QED
    BY <1>2, <2>1 DEF From
<1>3. Head(q).type = "JoinRequest" => Head(q).client = c
  <2>1. 1 \in 1..Len(q)
    BY <1>1
  <2> QED
    BY <1>1, <2>1 DEF From
<1> QED
  BY <1>2, <1>3 DEF From

LEMMA EventMessage ==
    ASSUME Types, Links, NEW p \in Peers, NEW type, Event(p, type), type # "Disconnect"
    PROVE  /\ server_end[p] = "open" /\ up[p] # <<>>
           /\ Head(up[p]) \in ClientMessages /\ Head(up[p]).type = type
           /\ Tail(up[p]) \in Seq(UpMessages)
           /\ LinkSound(server_end[p], client_end[p], Tail(up[p]), down[p])
           /\ \A c : From(up[p], c) => From(Tail(up[p]), c)
           /\ \A c : From(up[p], c) /\ type = "JoinRequest" => Head(up[p]).client = c
<1>1. /\ up[p] \in Seq(UpMessages) /\ up[p] # <<>> /\ server_end[p] = "open"
      /\ Head(up[p]).type = type
      /\ LinkSound(server_end[p], client_end[p], up[p], down[p])
  BY DEF Event, Types, Links
<1>2. Head(up[p]) \in UpMessages /\ Head(up[p]) # Disconnected
  BY <1>1, TailEnds DEF LinkSound, Disconnected
<1>3. Head(up[p]) \in ClientMessages
  BY <1>2 DEF UpMessages
<1>4. /\ Tail(up[p]) \in Seq(UpMessages) /\ EndsOnce(Tail(up[p]))
      /\ EndsIn(Tail(up[p])) <=> EndsIn(up[p])
  BY <1>1, <1>2, TailEnds DEF LinkSound
<1>5. LinkSound(server_end[p], client_end[p], Tail(up[p]), down[p])
  BY <1>1, <1>4 DEF LinkSound
<1>6. \A c : From(up[p], c) => From(Tail(up[p]), c) /\ (type = "JoinRequest" => Head(up[p]).client = c)
  BY <1>1, FromTail
<1> QED
  BY <1>1, <1>2, <1>3, <1>4, <1>5, <1>6

(* When it is taken from its queue.                                        *)
LEMMA ConsumedQueues ==
    ASSUME Types, Links, NEW p \in Peers, NEW type, Event(p, type), type # "Disconnect", Consumed(p)
    PROVE  /\ up' \in [Peers -> Seq(UpMessages)]
           /\ \A r \in Peers : LinkSound(server_end[r], client_end[r], up'[r], down[r])
           /\ \A r \in Peers : \A c : From(up[r], c) => From(up'[r], c)
<1>1. /\ Tail(up[p]) \in Seq(UpMessages)
      /\ LinkSound(server_end[p], client_end[p], Tail(up[p]), down[p])
      /\ \A c : From(up[p], c) => From(Tail(up[p]), c)
  BY EventMessage
<1>2. up \in [Peers -> Seq(UpMessages)] /\ up' = [up EXCEPT ![p] = Tail(up[p])]
  BY DEF Types, Consumed
<1>3. \A r \in Peers : up'[r] = IF r = p THEN Tail(up[p]) ELSE up[r]
  BY <1>2
<1>4. up' \in [Peers -> Seq(UpMessages)]
  BY <1>1, <1>2
<1>5. \A r \in Peers : LinkSound(server_end[r], client_end[r], up'[r], down[r])
  BY <1>1, <1>3 DEF Links
<1>6. \A r \in Peers : \A c : From(up[r], c) => From(up'[r], c)
  BY <1>1, <1>3
<1> QED
  BY <1>4, <1>5, <1>6

(***************************************************************************)
(* What a step leaves alone.                                               *)
(***************************************************************************)
LEMMA EndsStay ==
    ASSUME Ends, UNCHANGED <<server, client_end, loop, ui>>
    PROVE  Ends'
BY DEF Ends

(* Members keep their connection and client.                               *)
SameOwners ==
    \A i \in 1..Len(members') : \E k \in 1..Len(members) :
        members'[i].peer = members[k].peer /\ members'[i].client = members[k].client

LEMMA OwnedStay ==
    ASSUME Owned, UNCHANGED <<send_list, server>>,
           \A p \in Peers : server_end'[p] = "open" => server_end[p] = "open",
           \A p \in Peers : \A c : server_end'[p] = "open" /\ From(up[p], c) => From(up'[p], c),
           SameOwners
    PROVE  Owned'
<1>1. \A c \in Clients : From(send_list'[c], c)
  BY DEF Owned
<1>2. ASSUME NEW p \in Peers, server_end'[p] = "open"
      PROVE  \E c \in Clients : Owner(p, c)'
  <2>1. server_end[p] = "open"
    BY <1>2
  <2>2. PICK c \in Clients : Owner(p, c)
    BY <2>1 DEF Owned
  <2>3. From(up'[p], c)
    BY <1>2, <2>2 DEF Owner
  <2>4. \A d \in Clients : server'[d] = p => d = c
    BY <2>2 DEF Owner
  <2>5. \A i \in 1..Len(members') : members'[i].peer = p => members'[i].client = c
    BY <2>2 DEF Owner, SameOwners
  <2> QED
    BY <2>3, <2>4, <2>5 DEF Owner
<1> QED
  BY <1>1, <1>2 DEF Owned

LEMMA SameMembersOwners ==
    ASSUME UNCHANGED members
    PROVE  SameOwners
BY DEF SameOwners

LEMMA MembersInvStay ==
    ASSUME MembersInv, UNCHANGED <<members, server_end>>
    PROVE  MembersInv'
BY DEF MembersInv, MembersDistinct, ClientsDistinct, MembersConnected

LEMMA ViewsStay ==
    ASSUME Types, Views, UNCHANGED <<members, down, member_information, state, server>>
    PROVE  Views'
BY DEF Views

(* The views after a step of the server, which leaves the clients alone.   *)
LEMMA ViewsOfServerStep ==
    ASSUME UNCHANGED <<member_information, state, server>>,
           \A c \in Clients : server[c] # NoPeer =>
              ViewSound(down'[server[c]], member_information[c], state[c], members', server[c])
    PROVE  Views'
BY DEF Views

(***************************************************************************)
(* The steps of the server.                                                *)
(***************************************************************************)
LEMMA HandleModUnbanInv ==
    ASSUME RoomInv, NEW p \in Peers, HandleModUnban(p)
    PROVE  RoomInv'
<1>1. /\ Event(p, "ModUnban") /\ Consumed(p)
      /\ UNCHANGED <<room, members, server_end, client_end, down, state, ui, loop, server, send_list,
                     member_information>>
  BY DEF HandleModUnban, clientVars
<1>2. /\ up' \in [Peers -> Seq(UpMessages)]
      /\ \A r \in Peers : LinkSound(server_end[r], client_end[r], up'[r], down[r])
      /\ \A r \in Peers : \A c : From(up[r], c) => From(up'[r], c)
  <2>1. "ModUnban" # "Disconnect"
    OBVIOUS
  <2> QED
    BY <1>1, <2>1, ConsumedQueues DEF RoomInv
<1>3. Types'
  BY <1>1, <1>2 DEF RoomInv, Types
<1>4. Ends' /\ MembersInv' /\ Views'
  BY <1>1, EndsStay, MembersInvStay, ViewsStay DEF RoomInv
<1>5. Links'
  BY <1>1, <1>2 DEF Links
<1>6. Owned'
  BY <1>1, <1>2, OwnedStay, SameMembersOwners DEF RoomInv
<1> QED
  BY <1>3, <1>4, <1>5, <1>6 DEF RoomInv

(* The chat goes to members, who have the list with the sender.            *)
LEMMA HandleChatPacketInv ==
    ASSUME RoomInv, NEW p \in Peers, HandleChatPacket(p)
    PROVE  RoomInv'
<1>1. /\ Event(p, "ChatMessage") /\ Consumed(p)
      /\ UNCHANGED <<room, members, server_end, client_end, state, ui, loop, server, send_list,
                     member_information>>
  BY DEF HandleChatPacket, clientVars, roomVars
<1>2. /\ up' \in [Peers -> Seq(UpMessages)]
      /\ \A r \in Peers : LinkSound(server_end[r], client_end[r], up'[r], down[r])
      /\ \A r \in Peers : \A c : From(up[r], c) => From(up'[r], c)
  <2>1. "ChatMessage" # "Disconnect"
    OBVIOUS
  <2> QED
    BY <1>1, <2>1, ConsumedQueues DEF RoomInv
<1>3. /\ down \in [Peers -> Seq(DownMessages)] /\ client_end \in [Peers -> {"open", "shut"}]
      /\ members \in Seq(Entries) /\ Len(members) <= member_slots
  BY DEF RoomInv, Types
<1>4. ASSUME MembersAt(p) # {}
      PROVE  \E nickname \in Nicknames :
                /\ Listed(Listing(members), nickname)
                /\ \A r \in Peers : down'[r] =
                     IF r \in OtherMembers(p)
                     THEN Offered(client_end[r], down[r], [type |-> "ChatMessage", from |-> nickname])
                     ELSE down[r]
                /\ down' = [r \in Peers |-> down'[r]]
  <2>1. MembersAt(p) \subseteq Nat /\ MembersAt(p) \subseteq 1..Len(members)
    BY DEF MembersAt
  <2>2. PICK k \in 1..Len(members) : k = Min(MembersAt(p))
    BY <1>4, <2>1, MinNat
  <2>3. members[k] \in Entries
    BY <1>3, ElementOfSeq
  <2>4. PICK nickname \in Nicknames : nickname = members[k].nickname
    BY <2>3 DEF Entries
  <2>5. Listed(Listing(members), nickname)
    <3>1. Len(Listing(members)) = Len(members) /\ Listing(members)[k].nickname = members[k].nickname
      BY <1>3, ListingType
    <3> QED
      BY <2>4, <3>1 DEF Listed
  <2> DEFINE chat == [type |-> "ChatMessage", from |-> nickname]
  <2>6. down' = [q \in Peers |-> IF q \in OtherMembers(p) THEN Sent(down, q, chat)[q] ELSE down[q]]
    BY <1>4, <2>2, <2>4 DEF HandleChatPacket
  <2> HIDE DEF chat
  <2>7. \A r \in Peers : Sent(down, r, chat)[r] = Offered(client_end[r], down[r], chat)
    BY <1>3, SentQueues, SMTT(30)
  <2>8. \A r \in Peers : down'[r] =
           IF r \in OtherMembers(p) THEN Offered(client_end[r], down[r], chat) ELSE down[r]
    BY <2>6, <2>7
  <2>9. down' = [r \in Peers |-> down'[r]]
    BY <2>6
  <2> QED
    BY <2>5, <2>8, <2>9 DEF chat
<1>5. ASSUME MembersAt(p) = {}
      PROVE  down' = down
  BY <1>5 DEF HandleChatPacket
<1>6. /\ down' \in [Peers -> Seq(DownMessages)]
      /\ \A r \in Peers : LinkSound(server_end[r], client_end[r], up'[r], down'[r])
      /\ \A c \in Clients : server[c] # NoPeer =>
            ViewSound(down'[server[c]], member_information[c], state[c], members, server[c])
  <2>1. CASE MembersAt(p) = {}
    BY <1>2, <1>3, <1>5, <2>1 DEF RoomInv, Views
  <2>2. CASE MembersAt(p) # {}
    <3>1. PICK nickname \in Nicknames :
                /\ Listed(Listing(members), nickname)
                /\ \A r \in Peers : down'[r] =
                     IF r \in OtherMembers(p)
                     THEN Offered(client_end[r], down[r], [type |-> "ChatMessage", from |-> nickname])
                     ELSE down[r]
                /\ down' = [r \in Peers |-> down'[r]]
      BY <1>4, <2>2
    <3> DEFINE chat == [type |-> "ChatMessage", from |-> nickname]
    <3>2. chat \in DownMessages /\ chat # Disconnected /\ chat.type = "ChatMessage" /\ chat.from = nickname
      BY DownMessagesMade DEF Disconnected
    <3>3. \A r \in Peers : down'[r] =
             IF r \in OtherMembers(p) THEN Offered(client_end[r], down[r], chat) ELSE down[r]
      BY <3>1
    <3> HIDE DEF chat
    <3>4. \A r \in Peers : down'[r] \in Seq(DownMessages)
      BY <1>3, <3>2, <3>3, OfferedType
    <3>5. down' \in [Peers -> Seq(DownMessages)]
      BY <3>1, <3>4
    <3>6. ASSUME NEW r \in Peers
          PROVE  LinkSound(server_end[r], client_end[r], up'[r], down'[r])
      <4>1. LinkSound(server_end[r], client_end[r], up'[r], Offered(client_end[r], down[r], chat))
        BY <1>2, <1>3, <3>2, OfferedLink
      <4> QED
        BY <1>2, <3>3, <4>1
    <3>7. ASSUME NEW c \in Clients, server[c] # NoPeer
          PROVE  ViewSound(down'[server[c]], member_information[c], state[c], members, server[c])
      <4>1. PICK r \in Peers : r = server[c]
        BY <3>7 DEF RoomInv, Types
      <4>2. /\ ViewSound(down[r], member_information[c], state[c], members, r)
            /\ client_end[r] = "open" /\ EndsOnce(down[r])
        BY <3>7, <4>1 DEF RoomInv, Views, Ends, Links, LinkSound
      <4>3. CASE r \in OtherMembers(p)
        <5>1. InRoom(members, r)
          BY <4>3, InRoomMembersAt DEF OtherMembers
        <5>2. ~EndsIn(down[r]) => Listed(Latest(down[r], member_information[c], Len(down[r])), nickname)
          BY <3>1, <4>2, <5>1 DEF ViewSound
        <5>3. ViewSound(Offered("open", down[r], chat), member_information[c], state[c], members, r)
          BY <1>3, <3>2, <4>2, <5>2, ViewOffered
        <5> QED
          BY <3>3, <4>1, <4>2, <4>3, <5>3
      <4>4. CASE r \notin OtherMembers(p)
        BY <3>3, <4>1, <4>2, <4>4
      <4> QED
        BY <4>3, <4>4
    <3> QED
      BY <3>5, <3>6, <3>7
  <2> QED
    BY <2>1, <2>2
<1>7. Types'
  BY <1>1, <1>2, <1>6 DEF RoomInv, Types
<1>8. Ends' /\ MembersInv'
  BY <1>1, EndsStay, MembersInvStay DEF RoomInv
<1>9. Links'
  BY <1>1, <1>6 DEF Links
<1>10. Owned'
  BY <1>1, <1>2, OwnedStay, SameMembersOwners DEF RoomInv
<1>11. Views'
  BY <1>1, <1>6, ViewsOfServerStep
<1> QED
  BY <1>7, <1>8, <1>9, <1>10, <1>11 DEF RoomInv

(* What a step that informs everybody, of members ms, has to show.         *)
LEMMA InformedStep ==
    ASSUME RoomInv, NEW ms \in Seq(Entries), Len(ms) <= member_slots,
           \A r \in Peers : server_end[r] = "open" /\ InRoom(members, r) => InRoom(ms, r)
    PROVE  /\ Listing(ms) \in Lists
           /\ Informed(down, ms, {}) \in [Peers -> Seq(DownMessages)]
           /\ \A r \in Peers : \A u :
                 LinkSound(server_end[r], client_end[r], u, down[r]) =>
                    LinkSound(server_end[r], client_end[r], u, Informed(down, ms, {})[r])
           /\ \A c \in Clients : server[c] # NoPeer =>
                 ViewSound(Informed(down, ms, {})[server[c]], member_information[c], state[c], ms, server[c])
<1>1. Listing(ms) \in Lists
  BY ListingType
<1>2. down \in [Peers -> Seq(DownMessages)] /\ client_end \in [Peers -> {"open", "shut"}] /\ Types /\ Ends
  BY DEF RoomInv, Types
<1>3. \A r \in Peers : client_end[r] = "open" /\ (server_end[r] # "open" \/ r \in {}) => EndsIn(down[r])
  BY DEF RoomInv, Links, LinkSound
<1>4. \A c \in Clients : server[c] # NoPeer =>
         ViewSound(down[server[c]], member_information[c], state[c], members, server[c])
  BY DEF RoomInv, Views
<1>5. \A r \in Peers : server_end[r] = "open" /\ r \notin {} /\ InRoom(members, r) => InRoom(ms, r)
  OBVIOUS
<1>6. \A c \in Clients : server[c] # NoPeer =>
         ViewSound(Informed(down, ms, {})[server[c]], member_information[c], state[c], ms, server[c])
  BY <1>1, <1>2, <1>3, <1>4, <1>5, InformedViews
<1>7. /\ Informed(down, ms, {}) \in [Peers -> Seq(DownMessages)]
      /\ \A r \in Peers : \A se, u :
            LinkSound(se, client_end[r], u, down[r]) =>
               LinkSound(se, client_end[r], u, Informed(down, ms, {})[r])
  BY <1>1, <1>2, InformedLinks
<1> QED
  BY <1>1, <1>6, <1>7

LEMMA HandleGameNameInv ==
    ASSUME RoomInv, NEW p \in Peers, HandleGameName(p)
    PROVE  RoomInv'
<1>1. /\ Event(p, "SetGameInfo") /\ Consumed(p)
      /\ down' = Informed(down, members', {})
      /\ UNCHANGED <<room, server_end, client_end, state, ui, loop, server, send_list,
                     member_information>>
  BY DEF HandleGameName, clientVars
<1>2. /\ up' \in [Peers -> Seq(UpMessages)]
      /\ \A r \in Peers : LinkSound(server_end[r], client_end[r], up'[r], down[r])
      /\ \A r \in Peers : \A c : From(up[r], c) => From(up'[r], c)
      /\ Head(up[p]) \in ClientMessages /\ Head(up[p]).type = "SetGameInfo"
  <2>1. "SetGameInfo" # "Disconnect"
    OBVIOUS
  <2> QED
    BY <1>1, <2>1, ConsumedQueues, EventMessage DEF RoomInv
<1>3. PICK game \in Games : game = Head(up[p]).game
  BY <1>2, ClientMessageFields
<1>4. /\ members' \in Seq(Entries) /\ Len(members') = Len(members)
      /\ \A i \in 1..Len(members) :
            /\ members'[i].peer = members[i].peer /\ members'[i].client = members[i].client
            /\ members'[i].nickname = members[i].nickname /\ members'[i].mac = members[i].mac
  <2>0. members \in Seq(Entries)
    BY DEF RoomInv, Types
  <2>1. CASE MembersAt(p) = {}
    <3>1. members' = members
      BY <2>1 DEF HandleGameName
    <3> QED
      BY <2>0, <3>1
  <2>2. CASE MembersAt(p) # {}
    <3>1. MembersAt(p) \subseteq Nat /\ MembersAt(p) \subseteq 1..Len(members)
      BY DEF MembersAt
    <3>2. PICK k \in 1..Len(members) : k = Min(MembersAt(p))
      BY <2>2, <3>1, MinNat
    <3>3. members' = [members EXCEPT ![k].game = game]
      BY <1>3, <2>2, <3>2 DEF HandleGameName
    <3>4. PICK e : e = [members[k] EXCEPT !.game = game]
      OBVIOUS
    <3>5. members' = [members EXCEPT ![k] = e]
      BY <3>3, <3>4
    <3>6. members[k] \in Entries
      BY <2>0, ElementOfSeq
    <3>7. /\ e \in Entries
          /\ e.peer = members[k].peer /\ e.client = members[k].client
          /\ e.nickname = members[k].nickname /\ e.mac = members[k].mac
      BY <3>4, <3>6 DEF Entries
    <3>8. /\ members' \in Seq(Entries) /\ Len(members') = Len(members)
          /\ \A i \in 1..Len(members) : members'[i] = IF i = k THEN e ELSE members[i]
      BY <2>0, <3>5, <3>7, ExceptSeq
    <3> QED
      BY <3>7, <3>8
  <2> QED
    BY <2>1, <2>2
<1>5. Len(members') <= member_slots
  BY <1>4 DEF RoomInv, Types
<1>6. \A r \in Peers : server_end[r] = "open" /\ InRoom(members, r) => InRoom(members', r)
  BY <1>4 DEF InRoom
<1>7. /\ down' \in [Peers -> Seq(DownMessages)]
      /\ \A r \in Peers : LinkSound(server_end[r], client_end[r], up'[r], down'[r])
      /\ \A c \in Clients : server[c] # NoPeer =>
            ViewSound(down'[server[c]], member_information[c], state[c], members', server[c])
  <2>1. PICK ms \in Seq(Entries) : ms = members'
    BY <1>4
  <2>2. Len(ms) <= member_slots
    BY <1>5, <2>1
  <2>3. \A r \in Peers : server_end[r] = "open" /\ InRoom(members, r) => InRoom(ms, r)
    BY <1>6, <2>1
  <2>4. /\ Informed(down, ms, {}) \in [Peers -> Seq(DownMessages)]
        /\ \A r \in Peers : \A u :
              LinkSound(server_end[r], client_end[r], u, down[r]) =>
                 LinkSound(server_end[r], client_end[r], u, Informed(down, ms, {})[r])
        /\ \A c \in Clients : server[c] # NoPeer =>
              ViewSound(Informed(down, ms, {})[server[c]], member_information[c], state[c], ms, server[c])
    BY <2>2, <2>3, InformedStep
  <2>5. down' = Informed(down, ms, {})
    BY <1>1, <2>1
  <2> QED
    BY <1>2, <2>1, <2>4, <2>5
<1>8. Types'
  BY <1>1, <1>2, <1>4, <1>5, <1>7 DEF RoomInv, Types
<1>9. Ends'
  BY <1>1, EndsStay DEF RoomInv
<1>10. MembersInv'
  BY <1>1, <1>4 DEF RoomInv, MembersInv, MembersDistinct, ClientsDistinct, MembersConnected
<1>11. Links'
  BY <1>1, <1>7 DEF Links
<1>12. Owned'
  <2>1. SameOwners
    BY <1>4 DEF SameOwners
  <2> QED
    BY <1>1, <1>2, <2>1, OwnedStay DEF RoomInv
<1>13. Views'
  BY <1>1, <1>7, ViewsOfServerStep
<1> QED
  BY <1>8, <1>9, <1>10, <1>11, <1>12, <1>13 DEF RoomInv

(* A request that is refused changes nothing but what the client is told.  *)
LEMMA RefusedInv ==
    ASSUME RoomInv, NEW p \in Peers, Event(p, "JoinRequest"), Consumed(p),
           down' = Sent(down, p, EndMessage), UNCHANGED members,
           UNCHANGED <<room, server_end, client_end, state, ui, loop, server, send_list,
                       member_information>>
    PROVE  RoomInv'
<1>1. /\ up' \in [Peers -> Seq(UpMessages)]
      /\ \A r \in Peers : LinkSound(server_end[r], client_end[r], up'[r], down[r])
      /\ \A r \in Peers : \A c : From(up[r], c) => From(up'[r], c)
  <2>1. "JoinRequest" # "Disconnect"
    OBVIOUS
  <2> QED
    BY <2>1, ConsumedQueues DEF RoomInv
<1>2. /\ down \in [Peers -> Seq(DownMessages)] /\ client_end \in [Peers -> {"open", "shut"}]
  BY DEF RoomInv, Types
<1>3. /\ down' \in [Peers -> Seq(DownMessages)]
      /\ \A r \in Peers : \A se, u :
            LinkSound(se, client_end[r], u, down[r]) => LinkSound(se, client_end[r], u, down'[r])
  BY <1>2, SentLinks, DownMessagesMade
<1>4. ASSUME NEW c \in Clients, server[c] # NoPeer
      PROVE  ViewSound(down'[server[c]], member_information[c], state[c], members, server[c])
  <2>1. PICK r \in Peers : r = server[c]
    BY <1>4 DEF RoomInv, Types
  <2>2. /\ ViewSound(down[r], member_information[c], state[c], members, r)
        /\ client_end[r] = "open" /\ EndsOnce(down[r])
    BY <1>4, <2>1 DEF RoomInv, Views, Ends, Links, LinkSound
  <2>3. down'[r] = IF r = p THEN Offered("open", down[r], EndMessage) ELSE down[r]
    BY <1>2, <2>2, SentQueues
  <2>4. ViewSound(Offered("open", down[r], EndMessage), member_information[c], state[c], members, r)
    BY <1>2, <2>2, ViewOffered, DownMessagesMade
  <2> QED
    BY <2>1, <2>2, <2>3, <2>4
<1>5. Types'
  BY <1>1, <1>3 DEF RoomInv, Types
<1>6. Ends' /\ MembersInv'
  BY EndsStay, MembersInvStay DEF RoomInv
<1>7. Links'
  BY <1>1, <1>3 DEF Links
<1>8. Owned'
  BY <1>1, OwnedStay, SameMembersOwners DEF RoomInv
<1>9. Views'
  BY <1>4, ViewsOfServerStep
<1> QED
  BY <1>5, <1>6, <1>7, <1>8, <1>9 DEF RoomInv

(* A request that is accepted: whoever sent it has no other place, since   *)
(* all requests of a connection are from one client.                       *)
LEMMA AcceptedMembers ==
    ASSUME RoomInv, NEW p \in Peers, Event(p, "JoinRequest"), ~Refuses(Head(up[p])),
           NEW mac \in AssignedMacs(Head(up[p])),
           members' = Append(members, [peer |-> p, client |-> Head(up[p]).client,
                                       nickname |-> Head(up[p]).nickname, mac |-> mac, game |-> NoGame]),
           UNCHANGED server_end
    PROVE  /\ members' \in Seq(Entries) /\ Len(members') <= member_slots
           /\ Len(members') = Len(members) + 1
           /\ \A i \in 1..Len(members) : members'[i] = members[i]
           /\ members'[Len(members) + 1].peer = p
           /\ members'[Len(members) + 1].client = Head(up[p]).client
           /\ MembersInv'
<1> DEFINE r == Head(up[p])
           e == [peer |-> p, client |-> r.client, nickname |-> r.nickname, mac |-> mac, game |-> NoGame]
<1>1. /\ server_end[p] = "open" /\ r \in ClientMessages /\ r.type = "JoinRequest"
      /\ \A c : From(up[p], c) => r.client = c
  <2>1. "JoinRequest" # "Disconnect"
    OBVIOUS
  <2> QED
    BY <2>1, EventMessage DEF RoomInv
<1>2. /\ r.client \in Clients /\ r.nickname \in Nicknames /\ r.mac \in MacAddresses \cup {NoPreferredMac}
  BY <1>1, ClientMessageFields
<1>3. /\ Len(members) < member_slots /\ r.mac \notin MacsTaken
      /\ \A i \in 1..Len(members) : members[i].nickname # r.nickname /\ members[i].client # r.client
  <2>1. members \in Seq(Entries)
    BY DEF RoomInv, Types
  <2>2. Len(members) \in Nat
    BY <2>1, LenProperties
  <2> QED
    BY <2>2, SlotsNat DEF Refuses, Named
<1>4. mac \in MacAddresses /\ \A i \in 1..Len(members) : members[i].mac # mac
  BY <1>2, <1>3 DEF AssignedMacs, MacsTaken
<1>5. \A i \in 1..Len(members) : members[i].peer # p
  <2>1. PICK c \in Clients : Owner(p, c)
    BY <1>1 DEF RoomInv, Owned
  <2>2. r.client = c
    BY <1>1, <2>1 DEF Owner
  <2> QED
    BY <1>3, <2>1, <2>2 DEF Owner
<1>6. e \in Entries
  BY <1>2, <1>4 DEF Entries
<1>7. /\ e.peer = p /\ e.client = r.client /\ e.nickname = r.nickname /\ e.mac = mac
  OBVIOUS
<1>8. members' = Append(members, e) /\ members \in Seq(Entries) /\ Len(members) \in Nat
  BY LenProperties DEF RoomInv, Types
<1> HIDE DEF e, r
<1>9. /\ members' \in Seq(Entries) /\ Len(members') = Len(members) + 1
      /\ \A i \in 1..Len(members) : members'[i] = members[i]
      /\ members'[Len(members) + 1] = e
  BY <1>6, <1>8, AppendProperties
<1>10. Len(members') <= member_slots
  BY <1>3, <1>8, <1>9, SlotsNat
<1>11. \A i \in 1..Len(members') : i \in 1..Len(members) \/ i = Len(members) + 1
  BY <1>8, <1>9
<1>12. ASSUME NEW i \in 1..Len(members'), NEW j \in 1..Len(members'), i # j
       PROVE  /\ members'[i].nickname # members'[j].nickname /\ members'[i].mac # members'[j].mac
              /\ members'[i].peer # members'[j].peer /\ members'[i].client # members'[j].client
  <2>1. CASE i \in 1..Len(members) /\ j \in 1..Len(members)
    BY <1>9, <1>12, <2>1 DEF RoomInv, MembersInv, MembersDistinct, ClientsDistinct
  <2>2. CASE i \in 1..Len(members) /\ j = Len(members) + 1
    BY <1>3, <1>4, <1>5, <1>7, <1>9, <2>2
  <2>3. CASE i = Len(members) + 1 /\ j \in 1..Len(members)
    <3>1. members'[i] = e /\ members'[j] = members[j]
      BY <1>9, <2>3
    <3> QED
      BY <1>3, <1>4, <1>5, <1>7, <2>3, <3>1
  <2> QED
    BY <1>11, <1>12, <2>1, <2>2, <2>3
<1>13. MembersDistinct' /\ ClientsDistinct'
  BY <1>12 DEF MembersDistinct, ClientsDistinct
<1>14. MembersConnected'
  <2> SUFFICES ASSUME NEW i \in 1..Len(members')
               PROVE  server_end[members'[i].peer] = "open"
    BY DEF MembersConnected
  <2>1. CASE i \in 1..Len(members)
    BY <1>9, <2>1 DEF RoomInv, MembersInv, MembersConnected
  <2>2. CASE i = Len(members) + 1
    BY <1>1, <1>7, <1>9, <2>2
  <2> QED
    BY <1>11, <2>1, <2>2
<1> QED
  BY <1>7, <1>9, <1>10, <1>13, <1>14 DEF MembersInv, r

LEMMA AcceptedInv ==
    ASSUME RoomInv, NEW p \in Peers, Event(p, "JoinRequest"), Consumed(p), ~Refuses(Head(up[p])),
           NEW mac \in AssignedMacs(Head(up[p])),
           members' = Append(members, [peer |-> p, client |-> Head(up[p]).client,
                                       nickname |-> Head(up[p]).nickname, mac |-> mac, game |-> NoGame]),
           down' = Welcome(p, members',
                           [type |-> "JoinSuccess", mod |-> Head(up[p]).client \in Moderators]),
           UNCHANGED <<room, server_end, client_end, state, ui, loop, server, send_list,
                       member_information>>
    PROVE  RoomInv'
<1>1. /\ up' \in [Peers -> Seq(UpMessages)]
      /\ \A r \in Peers : LinkSound(server_end[r], client_end[r], up'[r], down[r])
      /\ \A r \in Peers : \A c : From(up[r], c) => From(up'[r], c)
      /\ server_end[p] = "open"
      /\ \A c : From(up[p], c) => Head(up[p]).client = c
  <2>1. "JoinRequest" # "Disconnect"
    OBVIOUS
  <2> QED
    BY <2>1, ConsumedQueues, EventMessage DEF RoomInv
<1>2. PICK new \in Seq(Entries) : new = members'
  BY AcceptedMembers
<1>3. /\ Len(new) <= member_slots /\ Len(new) = Len(members) + 1 /\ Len(members) \in Nat
      /\ \A i \in 1..Len(members) : new[i] = members[i]
      /\ new[Len(members) + 1].peer = p
      /\ new[Len(members) + 1].client = Head(up[p]).client
      /\ MembersInv'
  BY <1>2, AcceptedMembers, LenProperties DEF RoomInv, Types
<1>4. \A r \in Peers : server_end[r] = "open" /\ InRoom(members, r) => InRoom(new, r)
  BY <1>3 DEF InRoom
<1>5. /\ Listing(new) \in Lists
      /\ Informed(down, new, {}) \in [Peers -> Seq(DownMessages)]
      /\ \A r \in Peers : \A u :
            LinkSound(server_end[r], client_end[r], u, down[r]) =>
               LinkSound(server_end[r], client_end[r], u, Informed(down, new, {})[r])
      /\ \A c \in Clients : server[c] # NoPeer =>
            ViewSound(Informed(down, new, {})[server[c]], member_information[c], state[c], new, server[c])
  BY <1>3, <1>4, InformedStep
<1>6. PICK told \in [Peers -> Seq(DownMessages)] : told = Informed(down, new, {})
  BY <1>5
<1>7. PICK b \in BOOLEAN : b = (Head(up[p]).client \in Moderators)
  <2>1. CASE Head(up[p]).client \in Moderators
    <3>1. (Head(up[p]).client \in Moderators) = TRUE
      BY <2>1
    <3> QED
      BY <3>1
  <2>2. CASE Head(up[p]).client \notin Moderators
    <3>1. (Head(up[p]).client \in Moderators) = FALSE
      BY <2>2
    <3> QED
      BY <3>1
  <2> QED
    BY <2>1, <2>2
<1> DEFINE success == [type |-> "JoinSuccess", mod |-> b]
<1>8. success \in DownMessages /\ success # Disconnected
  BY DownMessagesMade DEF Disconnected
<1>9. down' = Sent(told, p, success)
  BY <1>2, <1>6, <1>7 DEF Welcome
<1>10. client_end \in [Peers -> {"open", "shut"}]
  BY DEF RoomInv, Types
<1>11. InRoom(new, p) /\ Listing(new) # <<>>
  <2>1. Len(members) + 1 \in 1..Len(new)
    BY <1>3
  <2>2. Len(Listing(new)) = Len(new) /\ Len(new) # 0
    BY <1>3, ListingType
  <2>3. Listing(new) # <<>>
    BY <2>2, EmptySeq
  <2> QED
    BY <1>3, <2>1, <2>3 DEF InRoom
<1> HIDE DEF success
<1>12. /\ down' \in [Peers -> Seq(DownMessages)]
       /\ \A r \in Peers : LinkSound(server_end[r], client_end[r], up'[r], down'[r])
  <2>1. /\ down' \in [Peers -> Seq(DownMessages)]
        /\ \A r \in Peers : \A se, u :
              LinkSound(se, client_end[r], u, told[r]) => LinkSound(se, client_end[r], u, down'[r])
    BY <1>8, <1>9, <1>10, SentLinks
  <2>2. \A r \in Peers : LinkSound(server_end[r], client_end[r], up'[r], told[r])
    BY <1>1, <1>5, <1>6
  <2> QED
    BY <2>1, <2>2
<1>13. ASSUME NEW c \in Clients, server[c] # NoPeer
       PROVE  ViewSound(down'[server[c]], member_information[c], state[c], new, server[c])
  <2>1. PICK r \in Peers : r = server[c]
    BY <1>13 DEF RoomInv, Types
  <2>2. /\ ViewSound(told[r], member_information[c], state[c], new, r)
        /\ client_end[r] = "open" /\ told[r] \in Seq(DownMessages)
    BY <1>5, <1>6, <1>13, <2>1 DEF RoomInv, Ends
  <2>3. down'[r] = IF r = p THEN Offered("open", told[r], success) ELSE told[r]
    BY <1>9, <2>2, SentQueues
  <2>4. CASE r = p /\ ~EndsIn(told[r])
    <3>1. ViewSound(Append(told[r], success), member_information[c], state[c], new, r)
      BY <1>11, <2>2, <2>4, ViewSuccess DEF success
    <3> QED
      BY <2>1, <2>3, <2>4, <3>1 DEF Offered
  <2>5. CASE r # p \/ EndsIn(told[r])
    BY <2>1, <2>2, <2>3, <2>5 DEF Offered
  <2> QED
    BY <2>4, <2>5
<1>14. Types'
  BY <1>1, <1>2, <1>3, <1>12 DEF RoomInv, Types
<1>15. Ends'
  BY EndsStay DEF RoomInv
<1>16. Links'
  BY <1>12 DEF Links
<1>17. Owned'
  <2>1. \A c \in Clients : From(send_list'[c], c)
    BY DEF RoomInv, Owned
  <2>2. ASSUME NEW q \in Peers, server_end'[q] = "open"
        PROVE  \E c \in Clients : Owner(q, c)'
    <3>1. PICK c \in Clients : Owner(q, c)
      BY <2>2 DEF RoomInv, Owned
    <3>2. From(up'[q], c) /\ \A d \in Clients : server'[d] = q => d = c
      BY <1>1, <3>1 DEF Owner
    <3>3. ASSUME NEW i \in 1..Len(new), new[i].peer = q
          PROVE  new[i].client = c
      <4>1. CASE i \in 1..Len(members)
        BY <1>3, <3>1, <3>3, <4>1 DEF Owner
      <4>2. CASE i = Len(members) + 1
        BY <1>1, <1>3, <3>1, <3>3, <4>2 DEF Owner
      <4> QED
        BY <1>3, <4>1, <4>2
    <3> QED
      BY <1>2, <3>2, <3>3 DEF Owner
  <2> QED
    BY <2>1, <2>2 DEF Owned
<1>18. Views'
  BY <1>2, <1>13, ViewsOfServerStep
<1> QED
  BY <1>3, <1>14, <1>15, <1>16, <1>17, <1>18 DEF RoomInv

LEMMA HandleJoinRequestInv ==
    ASSUME RoomInv, NEW p \in Peers, HandleJoinRequest(p)
    PROVE  RoomInv'
<1>1. /\ Event(p, "JoinRequest") /\ Consumed(p)
      /\ UNCHANGED <<room, server_end, client_end, state, ui, loop, server, send_list,
                     member_information>>
  BY DEF HandleJoinRequest, clientVars
<1>2. CASE down' = Sent(down, p, EndMessage) /\ UNCHANGED members
  BY <1>1, <1>2, RefusedInv
<1>3. ASSUME NEW mac \in AssignedMacs(Head(up[p])), ~Refuses(Head(up[p])),
             members' = Append(members, [peer |-> p, client |-> Head(up[p]).client,
                                         nickname |-> Head(up[p]).nickname, mac |-> mac, game |-> NoGame]),
             down' = Welcome(p, members',
                             [type |-> "JoinSuccess", mod |-> Head(up[p]).client \in Moderators])
      PROVE  RoomInv'
  BY <1>1, <1>3, AcceptedInv
<1>4. \/ down' = Sent(down, p, EndMessage) /\ UNCHANGED members
      \/ \E mac \in AssignedMacs(Head(up[p])) :
            /\ ~Refuses(Head(up[p]))
            /\ members' = Append(members, [peer |-> p, client |-> Head(up[p]).client,
                                           nickname |-> Head(up[p]).nickname, mac |-> mac, game |-> NoGame])
            /\ down' = Welcome(p, members',
                               [type |-> "JoinSuccess", mod |-> Head(up[p]).client \in Moderators])
  BY Zenon DEF HandleJoinRequest
<1> QED
  BY <1>2, <1>3, <1>4, Zenon

(***************************************************************************)
(* Disconnections that the server handles or starts.                       *)
(***************************************************************************)
(* A queue with nothing but the news of the disconnection.                 *)
LEMMA OnlyDisconnected ==
    /\ <<Disconnected>> \in Seq(UpMessages) /\ <<Disconnected>> \in Seq(DownMessages)
    /\ EndsIn(<<Disconnected>>) /\ EndsOnce(<<Disconnected>>)
    /\ \A c : From(<<Disconnected>>, c)
    /\ \A info : SenseMade(<<Disconnected>>, info)
<1> DEFINE q == <<Disconnected>>
<1>1. Disconnected \in UpMessages /\ Disconnected \in DownMessages /\ Disconnected.type = "Disconnect"
  BY DEF UpMessages, DownMessages, Disconnected
<1>2. q \in Seq(UpMessages) /\ q \in Seq(DownMessages) /\ Len(q) = 1 /\ q[1] = Disconnected /\ q # <<>>
  BY <1>1
<1> HIDE DEF q
<1>3. EndsIn(q) /\ EndsOnce(q)
  BY <1>2 DEF EndsIn, EndsOnce, Last
<1>4. \A n \in 1..Len(q) : q[n].type = "Disconnect"
  BY <1>1, <1>2
<1>5. \A c : From(q, c)
  BY <1>4 DEF From
<1>6. \A info : SenseMade(q, info)
  BY <1>4 DEF SenseMade
<1> QED
  BY <1>2, <1>3, <1>5, <1>6 DEF q

(* The event of a disconnection is the last of its queue.                  *)
LEMMA DisconnectEvent ==
    ASSUME Types, Links, NEW p \in Peers, Event(p, "Disconnect")
    PROVE  EndsIn(up[p])
<1>1. /\ up[p] \in Seq(UpMessages) /\ up[p] # <<>> /\ Head(up[p]).type = "Disconnect" /\ EndsOnce(up[p])
  BY DEF Event, Types, Links, LinkSound
<1>2. Head(up[p]) \in UpMessages /\ Head(up[p]) = up[p][1] /\ Len(up[p]) \in Nat /\ Len(up[p]) > 0
  BY <1>1, HeadTailProperties, EmptySeq
<1>3. Head(up[p]) = Disconnected
  <2>1. CASE Head(up[p]) \in ClientMessages
    <3>1. Head(up[p]).type # "Disconnect"
      BY <2>1, ClientMessageFields
    <3> QED
      BY <1>1, <3>1
  <2> QED
    BY <1>2, <2>1 DEF UpMessages
<1>4. Len(up[p]) = 1
  <2>1. 1 \in 1..Len(up[p]) /\ up[p][1] = Disconnected
    BY <1>2, <1>3
  <2> QED
    BY <1>1, <2>1 DEF EndsOnce
<1> QED
  BY <1>1, <1>2, <1>3, <1>4 DEF EndsIn, Last

(* Members that lose their place keep their connection till then.          *)
LEMMA ConnectedAfter ==
    ASSUME Types, MembersInv, NEW p \in Peers, NEW S, S \subseteq 1..Len(members),
           members' = WithoutFirst(members, S), ~InRoom(members', p), NEW se,
           server_end' = [server_end EXCEPT ![p] = se]
    PROVE  MembersInv' /\ SameOwners
<1>1. /\ MembersDistinct' /\ ClientsDistinct' /\ RestOf(members', members, S)
  BY FewerDistinct
<1>2. SameOwners
  BY <1>1 DEF RestOf, SameOwners
<1>3. MembersConnected'
  <2> SUFFICES ASSUME NEW i \in 1..Len(members')
               PROVE  server_end'[members'[i].peer] = "open"
    BY DEF MembersConnected
  <2>1. PICK k \in 1..Len(members) : members'[i] = members[k]
    BY <1>1 DEF RestOf
  <2>2. members[k] \in Entries
    BY ElementOfSeq DEF Types
  <2>3. members[k].peer \in Peers /\ server_end[members[k].peer] = "open"
    BY <2>2 DEF Entries, MembersInv, MembersConnected
  <2>4. members[k].peer # p
    BY <2>1 DEF InRoom
  <2> QED
    BY <2>1, <2>3, <2>4 DEF Types
<1> QED
  BY <1>1, <1>2, <1>3 DEF MembersInv

LEMMA HandleClientDisconnectionInv ==
    ASSUME RoomInv, NEW p \in Peers, HandleClientDisconnection(p)
    PROVE  RoomInv'
<1>1. /\ server_end[p] = "closing" \/ Event(p, "Disconnect")
      /\ server_end' = [server_end EXCEPT ![p] = "free"]
      /\ up' = [up EXCEPT ![p] = <<>>]
      /\ members' = WithoutFirst(members, MembersAt(p))
      /\ down' = Informed(down, members', {p})
      /\ UNCHANGED <<room, client_end, state, ui, loop, server, send_list, member_information>>
  BY DEF HandleClientDisconnection, clientVars
<1>2. /\ down \in [Peers -> Seq(DownMessages)] /\ client_end \in [Peers -> {"open", "shut"}]
      /\ server_end \in [Peers -> {"free", "open", "closing"}] /\ up \in [Peers -> Seq(UpMessages)]
      /\ Types /\ Ends /\ Links /\ Owned /\ MembersInv /\ Views
  BY DEF RoomInv, Types
<1>3. server_end[p] # "open" \/ EndsIn(up[p])
  BY <1>1, <1>2, DisconnectEvent
<1>4. client_end[p] = "open" => EndsIn(down[p])
  BY <1>3 DEF RoomInv, Links, LinkSound
<1>5. MembersAt(p) \subseteq 1..Len(members)
  BY DEF MembersAt
<1>6. /\ members' \in Seq(Entries) /\ Len(members') <= member_slots
      /\ MembersInv' /\ SameOwners
      /\ ~InRoom(members', p)
      /\ \A r \in Peers : r # p /\ InRoom(members, r) => InRoom(members', r)
  BY <1>1, <1>2, <1>5, FewerDistinct, PeerRemoved, ConnectedAfter
<1>7. PICK ms \in Seq(Entries) : ms = members'
  BY <1>6
<1>8. Listing(ms) \in Lists /\ down' = Informed(down, ms, {p})
  BY <1>1, <1>6, <1>7, ListingType
<1>9. /\ down' \in [Peers -> Seq(DownMessages)]
      /\ \A r \in Peers : \A se, u :
            LinkSound(se, client_end[r], u, down[r]) => LinkSound(se, client_end[r], u, down'[r])
  BY <1>2, <1>8, InformedLinks
<1>10. \A r \in Peers : LinkSound(server_end'[r], client_end[r], up'[r], down'[r])
  <2> SUFFICES ASSUME NEW r \in Peers
               PROVE  LinkSound(server_end'[r], client_end[r], up'[r], down[r])
    BY <1>9
  <2>1. LinkSound(server_end[r], client_end[r], up[r], down[r])
    BY DEF RoomInv, Links
  <2>2. CASE r = p
    <3>1. server_end'[r] = "free" /\ up'[r] = <<>>
      BY <1>1, <1>2, <2>2
    <3> QED
      BY <1>4, <2>1, <2>2, <3>1, EmptyEnds DEF LinkSound
  <2>3. CASE r # p
    <3>1. server_end'[r] = server_end[r] /\ up'[r] = up[r]
      BY <1>1, <1>2, <2>3
    <3> QED
      BY <2>1, <3>1
  <2> QED
    BY <2>2, <2>3
<1>11. \A c \in Clients : server[c] # NoPeer =>
          ViewSound(down'[server[c]], member_information[c], state[c], members', server[c])
  <2>1. \A r \in Peers : client_end[r] = "open" /\ (server_end[r] # "open" \/ r \in {p}) => EndsIn(down[r])
    BY <1>4 DEF RoomInv, Links, LinkSound
  <2>2. \A c \in Clients : server[c] # NoPeer =>
           ViewSound(down[server[c]], member_information[c], state[c], members, server[c])
    BY DEF RoomInv, Views
  <2>3. \A r \in Peers : server_end[r] = "open" /\ r \notin {p} /\ InRoom(members, r) => InRoom(ms, r)
    BY <1>6, <1>7
  <2>4. \A c \in Clients : server[c] # NoPeer =>
           ViewSound(Informed(down, ms, {p})[server[c]], member_information[c], state[c], ms, server[c])
    BY <1>2, <1>8, <2>1, <2>2, <2>3, InformedViews
  <2> QED
    BY <1>7, <1>8, <2>4
<1>12. Types'
  <2>1. server_end' \in [Peers -> {"free", "open", "closing"}]
    BY <1>1, <1>2
  <2>2. up' \in [Peers -> Seq(UpMessages)]
    <3>1. <<>> \in Seq(UpMessages)
      BY EmptySeq
    <3> QED
      BY <1>1, <1>2, <3>1
  <2> QED
    BY <1>1, <1>2, <1>6, <1>9, <2>1, <2>2 DEF Types
<1>13. Ends' /\ Links'
  BY <1>1, <1>2, <1>10, EndsStay DEF Links
<1>14. Owned'
  <2>1. \A r \in Peers : server_end'[r] = "open" => server_end[r] = "open" /\ up'[r] = up[r]
    BY <1>1, <1>2
  <2> QED
    BY <1>1, <1>2, <1>6, <2>1, OwnedStay
<1>15. Views'
  BY <1>1, <1>11, ViewsOfServerStep
<1> QED
  BY <1>6, <1>12, <1>13, <1>14, <1>15 DEF RoomInv

(* What a farewell leaves of a queue.                                      *)
LEMMA FarewellProperties ==
    ASSUME NEW q \in Seq(DownMessages), ~EndsIn(q), EndsOnce(q), NEW rest \in Farewell(q)
    PROVE  /\ rest \in Seq(DownMessages) /\ EndsIn(rest) /\ EndsOnce(rest)
           /\ \A info, st, ms, p : ViewSound(q, info, st, ms, p) =>
                 \A new : ViewSound(rest, info, st, new, p)
<1> DEFINE a == Append(q, EndMessage)
<1>1. EndMessage \in DownMessages /\ EndMessage # Disconnected /\ Disconnected \in DownMessages
      /\ EndMessage.type = "End"
  BY DownMessagesMade
<1>2. a \in Seq(DownMessages) /\ EndsOnce(a) /\ ~EndsIn(a)
  BY <1>1, AppendEnds, AppendProperties
<1>3. ASSUME NEW info, NEW st, NEW ms, NEW p, ViewSound(q, info, st, ms, p)
      PROVE  ViewSound(a, info, st, ms, p)
  BY <1>1, <1>3, ViewAppend
<1> HIDE DEF a
<1>4. rest \in CutOff(a)
  BY DEF Farewell, a
<1>5. rest \in Seq(DownMessages) /\ EndsIn(rest) /\ EndsOnce(rest)
  BY <1>1, <1>2, <1>4, CutOffProperties
<1>6. ASSUME NEW info, NEW st, NEW ms, NEW p, ViewSound(q, info, st, ms, p), NEW new
      PROVE  ViewSound(rest, info, st, new, p)
  <2>1. SenseMade(a, info)
    BY <1>3, <1>6 DEF ViewSound
  <2> QED
    BY <1>2, <1>4, <2>1, ViewCutOff
<1> QED
  BY <1>5, <1>6

(* A kick or a ban.                                                        *)
LEMMA DismissInv ==
    ASSUME RoomInv, NEW p \in Peers, NEW nickname, Event(p, "Moderate"), Named(nickname) # {},
           NEW t, t = members[Min(Named(nickname))].peer, Dismiss(t, nickname),
           up' = [up EXCEPT ![p] = Tail(@), ![t] = <<>>],
           UNCHANGED <<room, client_end, state, ui, loop, server, send_list, member_information>>
    PROVE  RoomInv'
<1>1. /\ members' = WithoutFirst(members, Named(nickname))
      /\ server_end' = [server_end EXCEPT ![t] = "closing"]
  BY DEF Dismiss
<1>2. /\ down \in [Peers -> Seq(DownMessages)] /\ client_end \in [Peers -> {"open", "shut"}]
      /\ server_end \in [Peers -> {"free", "open", "closing"}] /\ up \in [Peers -> Seq(UpMessages)]
      /\ Types /\ Ends /\ Links /\ Owned /\ MembersInv /\ Views
  BY DEF RoomInv, Types
<1>3. /\ server_end[p] = "open" /\ Tail(up[p]) \in Seq(UpMessages)
      /\ LinkSound(server_end[p], client_end[p], Tail(up[p]), down[p])
      /\ \A c : From(up[p], c) => From(Tail(up[p]), c)
  <2>1. "Moderate" # "Disconnect"
    OBVIOUS
  <2> QED
    BY <1>2, <2>1, EventMessage
<1>4. Named(nickname) \subseteq 1..Len(members)
  BY DEF Named
<1>5. /\ t \in Peers /\ ~InRoom(members', t)
      /\ \A r \in Peers : r # t /\ InRoom(members, r) => InRoom(members', r)
  BY <1>1, <1>2, <1>4, MemberRemoved
<1>6. /\ members' \in Seq(Entries) /\ Len(members') <= member_slots
      /\ MembersInv' /\ SameOwners
  BY <1>1, <1>2, <1>4, <1>5, FewerDistinct, ConnectedAfter
<1>7. PICK ms \in Seq(Entries) : ms = members'
  BY <1>6
<1>8. PICK rest \in Farewell(down[t]) :
         down' = InformOthers([down EXCEPT ![t] = IF client_end[t] = "shut" \/ EndsIn(@)
                                                  THEN @ ELSE rest], members', t)
  BY DEF Dismiss
<1>9. PICK d : d = IF client_end[t] = "shut" \/ EndsIn(down[t]) THEN down[t] ELSE rest
  OBVIOUS
<1>10. PICK queues : queues = [down EXCEPT ![t] = d]
  OBVIOUS
<1>11. down' = Informed(queues, ms, {t}) /\ Listing(ms) \in Lists
  <2>1. down' = InformOthers(queues, members', t)
    BY <1>8, <1>9, <1>10
  <2>2. Listing(ms) \in Lists
    BY <1>6, <1>7, ListingType
  <2> QED
    BY <1>7, <2>1, <2>2 DEF InformOthers
<1>12. down[t] \in Seq(DownMessages) /\ LinkSound(server_end[t], client_end[t], up[t], down[t])
  BY <1>2, <1>5 DEF Links
<1>13. /\ d \in Seq(DownMessages) /\ EndsOnce(d)
       /\ client_end[t] = "open" => EndsIn(d)
       /\ client_end[t] = "shut" => d = <<>>
       /\ \A info, st, mms, q : ViewSound(down[t], info, st, mms, q) =>
             (client_end[t] = "open" => \A new : ViewSound(d, info, st, new, q))
  <2>1. CASE client_end[t] = "shut"
    BY <1>9, <1>12, <2>1, EmptyEnds DEF LinkSound
  <2>2. CASE client_end[t] # "shut" /\ EndsIn(down[t])
    <3>1. d = down[t]
      BY <1>9, <2>2
    <3>2. \A info, st, mms, q : ViewSound(down[t], info, st, mms, q) => \A new : ViewSound(d, info, st, new, q)
      BY <1>12, <2>2, <3>1, ViewOfEnded, ZenonT(60) DEF ViewSound
    <3> QED
      BY <1>12, <2>2, <3>1, <3>2 DEF LinkSound
  <2>3. CASE client_end[t] # "shut" /\ ~EndsIn(down[t])
    <3>1. d = rest
      BY <1>9, <2>3
    <3>2. EndsOnce(down[t])
      BY <1>12 DEF LinkSound
    <3>3. /\ rest \in Seq(DownMessages) /\ EndsIn(rest) /\ EndsOnce(rest)
          /\ \A info, st, mms, q : ViewSound(down[t], info, st, mms, q) =>
                \A new : ViewSound(rest, info, st, new, q)
      BY <1>12, <2>3, <3>2, FarewellProperties
    <3> QED
      BY <2>3, <3>1, <3>3
  <2> QED
    BY <2>1, <2>2, <2>3
<1>14. /\ queues \in [Peers -> Seq(DownMessages)]
       /\ \A r \in Peers : queues[r] = IF r = t THEN d ELSE down[r]
  BY <1>2, <1>10, <1>13
<1>15. /\ down' \in [Peers -> Seq(DownMessages)]
       /\ \A r \in Peers : \A se, u :
             LinkSound(se, client_end[r], u, queues[r]) => LinkSound(se, client_end[r], u, down'[r])
  BY <1>2, <1>11, <1>14, InformedLinks
<1>16. \A r \in Peers : up'[r] = IF r = t THEN <<>> ELSE IF r = p THEN Tail(up[p]) ELSE up[r]
  BY <1>2, <1>5
<1>17. \A r \in Peers : LinkSound(server_end'[r], client_end[r], up'[r], down'[r])
  <2> SUFFICES ASSUME NEW r \in Peers
               PROVE  LinkSound(server_end'[r], client_end[r], up'[r], queues[r])
    BY <1>15
  <2>1. LinkSound(server_end[r], client_end[r], up[r], down[r])
    BY <1>2 DEF Links
  <2>2. CASE r = t
    <3>1. server_end'[r] = "closing" /\ up'[r] = <<>> /\ queues[r] = d
      BY <1>1, <1>2, <1>14, <1>16, <2>2
    <3> QED
      BY <1>13, <2>2, <3>1, EmptyEnds DEF LinkSound
  <2>3. CASE r # t
    <3>1. server_end'[r] = server_end[r] /\ queues[r] = down[r]
          /\ up'[r] = IF r = p THEN Tail(up[p]) ELSE up[r]
      BY <1>1, <1>2, <1>14, <1>16, <2>3
    <3> QED
      BY <1>3, <2>1, <3>1
  <2> QED
    BY <2>2, <2>3
<1>18. \A c \in Clients : server[c] # NoPeer =>
          ViewSound(down'[server[c]], member_information[c], state[c], members', server[c])
  <2>1. \A r \in Peers : client_end[r] = "open" /\ (server_end[r] # "open" \/ r \in {t}) => EndsIn(queues[r])
    BY <1>2, <1>13, <1>14 DEF Links, LinkSound
  <2>2. \A c \in Clients : server[c] # NoPeer =>
           ViewSound(queues[server[c]], member_information[c], state[c], members, server[c])
    <3> SUFFICES ASSUME NEW c \in Clients, server[c] # NoPeer
                 PROVE  ViewSound(queues[server[c]], member_information[c], state[c], members, server[c])
      OBVIOUS
    <3>1. PICK r \in Peers : r = server[c]
      BY <1>2 DEF Types
    <3>2. ViewSound(down[r], member_information[c], state[c], members, r) /\ client_end[r] = "open"
      BY <1>2, <3>1 DEF Views, Ends
    <3> QED
      BY <1>13, <1>14, <3>1, <3>2
  <2>3. \A r \in Peers : server_end[r] = "open" /\ r \notin {t} /\ InRoom(members, r) => InRoom(ms, r)
    BY <1>5, <1>7
  <2>4. \A c \in Clients : server[c] # NoPeer =>
           ViewSound(Informed(queues, ms, {t})[server[c]], member_information[c], state[c], ms, server[c])
    BY <1>2, <1>11, <1>14, <2>1, <2>2, <2>3, InformedViews
  <2> QED
    BY <1>7, <1>11, <2>4
<1>19. Types'
  <2>1. server_end' \in [Peers -> {"free", "open", "closing"}]
    BY <1>1, <1>2
  <2>2. up' \in [Peers -> Seq(UpMessages)]
    <3>1. <<>> \in Seq(UpMessages)
      BY EmptySeq
    <3> QED
      BY <1>2, <1>3, <3>1
  <2> QED
    BY <1>2, <1>6, <1>15, <2>1, <2>2 DEF Types
<1>20. Ends' /\ Links'
  BY <1>2, <1>17, EndsStay DEF Links
<1>21. Owned'
  <2>1. \A r \in Peers : server_end'[r] = "open" => server_end[r] = "open" /\ r # t
    BY <1>1, <1>2, <1>5
  <2>2. \A r \in Peers : \A c : server_end'[r] = "open" /\ From(up[r], c) => From(up'[r], c)
    BY <1>3, <1>16, <2>1
  <2> QED
    BY <1>2, <1>6, <2>1, <2>2, OwnedStay
<1>22. Views'
  BY <1>18, ViewsOfServerStep
<1> QED
  BY <1>6, <1>19, <1>20, <1>21, <1>22 DEF RoomInv

LEMMA HandleModPacketInv ==
    ASSUME RoomInv, NEW p \in Peers, HandleModPacket(p)
    PROVE  RoomInv'
<1> DEFINE nickname == Head(up[p]).nickname
<1>1. /\ Event(p, "Moderate")
      /\ UNCHANGED <<room, client_end, state, ui, loop, server, send_list, member_information>>
  BY DEF HandleModPacket, clientVars
<1>2. CASE HasModPermission(p) /\ Named(nickname) # {}
  <2>1. PICK t : t = members[Min(Named(nickname))].peer
    OBVIOUS
  <2>2. Dismiss(t, nickname) /\ up' = [up EXCEPT ![p] = Tail(@), ![t] = <<>>]
    BY <1>2, <2>1 DEF HandleModPacket
  <2> HIDE DEF nickname
  <2> QED
    BY <1>1, <1>2, <2>1, <2>2, DismissInv
<1>3. CASE ~(HasModPermission(p) /\ Named(nickname) # {})
  <2>1. Consumed(p) /\ UNCHANGED <<members, server_end, down>>
    BY <1>3 DEF HandleModPacket
  <2>2. /\ up' \in [Peers -> Seq(UpMessages)]
        /\ \A r \in Peers : LinkSound(server_end[r], client_end[r], up'[r], down[r])
        /\ \A r \in Peers : \A c : From(up[r], c) => From(up'[r], c)
    <3>1. "Moderate" # "Disconnect"
      OBVIOUS
    <3> QED
      BY <1>1, <2>1, <3>1, ConsumedQueues DEF RoomInv
  <2>3. Types'
    BY <1>1, <2>1, <2>2 DEF RoomInv, Types
  <2>4. Ends' /\ MembersInv' /\ Views'
    BY <1>1, <2>1, EndsStay, MembersInvStay, ViewsStay DEF RoomInv
  <2>5. Links'
    BY <1>1, <2>1, <2>2 DEF Links
  <2>6. Owned'
    BY <1>1, <2>1, <2>2, OwnedStay, SameMembersOwners DEF RoomInv
  <2> QED
    BY <2>3, <2>4, <2>5, <2>6 DEF RoomInv
<1> QED
  BY <1>2, <1>3

(* A connection breaks: both sides will find out, and what was on its way  *)
(* is lost.                                                                *)
LEMMA LoseLinkInv ==
    ASSUME RoomInv, NEW p \in Peers, LoseLink(p)
    PROVE  RoomInv'
<1>1. /\ Intact(p)
      /\ up' = [up EXCEPT ![p] = <<Disconnected>>]
      /\ down' = [down EXCEPT ![p] = <<Disconnected>>]
      /\ UNCHANGED <<room, members, server_end, client_end, state, ui, loop, server, send_list,
                     member_information>>
  BY DEF LoseLink, roomVars, clientVars
<1>2. /\ up \in [Peers -> Seq(UpMessages)] /\ down \in [Peers -> Seq(DownMessages)]
      /\ Types /\ Ends /\ Links /\ Owned /\ MembersInv /\ Views
  BY DEF RoomInv, Types
<1>3. /\ up' \in [Peers -> Seq(UpMessages)] /\ down' \in [Peers -> Seq(DownMessages)]
      /\ \A r \in Peers : /\ up'[r] = IF r = p THEN <<Disconnected>> ELSE up[r]
                          /\ down'[r] = IF r = p THEN <<Disconnected>> ELSE down[r]
  BY <1>1, <1>2, OnlyDisconnected
<1>4. server_end[p] = "open" /\ client_end[p] = "open"
  BY <1>1 DEF Intact, ReachesServer
<1>5. Types'
  BY <1>1, <1>2, <1>3 DEF Types
<1>6. Ends' /\ MembersInv'
  BY <1>1, <1>2, EndsStay, MembersInvStay
<1>7. Links'
  <2> SUFFICES ASSUME NEW r \in Peers
               PROVE  LinkSound(server_end[r], client_end[r], up'[r], down'[r])
    BY <1>1 DEF Links
  <2>1. CASE r = p
    <3>1. LinkSound("open", "open", <<Disconnected>>, <<Disconnected>>)
      BY OnlyDisconnected DEF LinkSound
    <3> QED
      BY <1>3, <1>4, <2>1, <3>1
  <2>2. CASE r # p
    BY <1>2, <1>3, <2>2 DEF Links
  <2> QED
    BY <2>1, <2>2
<1>8. Owned'
  <2>1. \A r \in Peers : \A c : From(up[r], c) => From(up'[r], c)
    BY <1>3, OnlyDisconnected
  <2> QED
    BY <1>1, <1>2, <2>1, OwnedStay, SameMembersOwners
<1>9. Views'
  <2>1. ASSUME NEW c \in Clients, server[c] # NoPeer
        PROVE  ViewSound(down'[server[c]], member_information[c], state[c], members, server[c])
    <3>1. PICK r \in Peers : r = server[c]
      BY <1>2, <2>1 DEF Types
    <3>2. ViewSound(down[r], member_information[c], state[c], members, r)
      BY <1>2, <2>1, <3>1 DEF Views
    <3>3. ViewSound(<<Disconnected>>, member_information[c], state[c], members, r)
      BY OnlyDisconnected, ViewOfEnded
    <3> QED
      BY <1>3, <3>1, <3>2, <3>3
  <2> QED
    BY <1>1, <2>1, ViewsOfServerStep
<1> QED
  BY <1>5, <1>6, <1>7, <1>8, <1>9 DEF RoomInv

(* The room is destroyed: members may be told before the host is gone.     *)
LEMMA ToldQueue ==
    ASSUME NEW q \in Seq(DownMessages), ~EndsIn(q), EndsOnce(q)
    PROVE  /\ q \o <<EndMessage, Disconnected>> \in Seq(DownMessages)
           /\ EndsIn(q \o <<EndMessage, Disconnected>>) /\ EndsOnce(q \o <<EndMessage, Disconnected>>)
           /\ \A info : SenseMade(q, info) => SenseMade(q \o <<EndMessage, Disconnected>>, info)
<1> DEFINE a == Append(q, EndMessage)
           b == Append(a, Disconnected)
<1>1. /\ EndMessage \in DownMessages /\ EndMessage # Disconnected /\ Disconnected \in DownMessages
      /\ EndMessage.type = "End" /\ Disconnected.type = "Disconnect"
  BY DownMessagesMade
<1>2. a \in Seq(DownMessages) /\ EndsOnce(a) /\ ~EndsIn(a)
  BY <1>1, AppendEnds, AppendProperties
<1>3. \A info : SenseMade(q, info) => SenseMade(a, info)
  BY <1>1, AppendSense
<1>4. b = q \o <<EndMessage, Disconnected>>
  BY <1>1
<1> HIDE DEF a
<1>5. b \in Seq(DownMessages) /\ EndsOnce(b) /\ EndsIn(b)
  BY <1>1, <1>2, AppendEnds, AppendProperties
<1>6. \A info : SenseMade(a, info) => SenseMade(b, info)
  BY <1>1, <1>2, AppendSense
<1> HIDE DEF b
<1> QED
  BY <1>3, <1>4, <1>5, <1>6

LEMMA DestroyInv ==
    ASSUME RoomInv, Destroy
    PROVE  RoomInv'
<1>1. /\ room' = "Closed" /\ members' = <<>>
      /\ server_end' = [p \in Peers |-> "free"] /\ up' = [p \in Peers |-> <<>>]
      /\ UNCHANGED <<client_end, state, ui, loop, server, send_list, member_information>>
  BY DEF Destroy, clientVars
<1>2. PICK told \in SUBSET Peers :
          down' = [p \in Peers |->
                     IF client_end[p] = "shut" \/ EndsIn(down[p]) THEN down[p]
                     ELSE IF p \in told /\ MembersAt(p) # {}
                          THEN down[p] \o <<EndMessage, Disconnected>>
                          ELSE <<Disconnected>>]
  BY DEF Destroy
<1>3. /\ down \in [Peers -> Seq(DownMessages)] /\ client_end \in [Peers -> {"open", "shut"}]
      /\ Types /\ Ends /\ Links /\ Owned /\ Views
  BY DEF RoomInv, Types
<1>4. ASSUME NEW p \in Peers
      PROVE  /\ down'[p] \in Seq(DownMessages) /\ EndsOnce(down'[p])
             /\ client_end[p] = "open" => EndsIn(down'[p])
             /\ client_end[p] = "shut" => down'[p] = <<>>
             /\ \A info : client_end[p] = "open" /\ SenseMade(down[p], info) => SenseMade(down'[p], info)
  <2>1. down[p] \in Seq(DownMessages) /\ LinkSound(server_end[p], client_end[p], up[p], down[p])
    BY <1>3 DEF Links
  <2>2. CASE client_end[p] = "shut" \/ EndsIn(down[p])
    <3>1. down'[p] = down[p]
      BY <1>2, <2>2
    <3> QED
      BY <2>1, <2>2, <3>1 DEF LinkSound
  <2>3. CASE ~(client_end[p] = "shut" \/ EndsIn(down[p])) /\ p \in told /\ MembersAt(p) # {}
    <3>1. down'[p] = down[p] \o <<EndMessage, Disconnected>>
      BY <1>2, <2>3
    <3>2. EndsOnce(down[p]) /\ ~EndsIn(down[p])
      BY <2>1, <2>3 DEF LinkSound
    <3>3. /\ down'[p] \in Seq(DownMessages) /\ EndsIn(down'[p]) /\ EndsOnce(down'[p])
          /\ \A info : SenseMade(down[p], info) => SenseMade(down'[p], info)
      BY <2>1, <3>1, <3>2, ToldQueue
    <3> QED
      BY <2>3, <3>3
  <2>4. CASE ~(client_end[p] = "shut" \/ EndsIn(down[p])) /\ ~(p \in told /\ MembersAt(p) # {})
    <3>1. down'[p] = <<Disconnected>>
      BY <1>2, <2>4
    <3> QED
      BY <2>4, <3>1, OnlyDisconnected
  <2> QED
    BY <2>2, <2>3, <2>4
<1>5. down' \in [Peers -> Seq(DownMessages)]
  BY <1>2, <1>4
<1>6. Types'
  <2>1. <<>> \in Seq(Entries) /\ Len(<<>>) <= member_slots /\ <<>> \in Seq(UpMessages)
    BY EmptySeq, SlotsNat
  <2>2. up' \in [Peers -> Seq(UpMessages)] /\ server_end' \in [Peers -> {"free", "open", "closing"}]
    BY <1>1, <2>1
  <2> QED
    BY <1>1, <1>3, <1>5, <2>1, <2>2 DEF Types
<1>7. Ends'
  BY <1>1, <1>3, EndsStay
<1>8. Links'
  <2> SUFFICES ASSUME NEW p \in Peers
               PROVE  LinkSound("free", client_end[p], <<>>, down'[p])
    BY <1>1 DEF Links
  <2> QED
    BY <1>3, <1>4, EmptyEnds DEF LinkSound
<1>9. Owned'
  BY <1>1, <1>3 DEF Owned
<1>10. MembersInv'
  <2>1. Len(members') = 0
    BY <1>1, EmptySeq
  <2> QED
    BY <2>1 DEF MembersInv, MembersDistinct, ClientsDistinct, MembersConnected
<1>11. Views'
  <2>1. ASSUME NEW c \in Clients, server[c] # NoPeer
        PROVE  ViewSound(down'[server[c]], member_information[c], state[c], members', server[c])
    <3>1. PICK r \in Peers : r = server[c]
      BY <1>3, <2>1 DEF Types
    <3>2. SenseMade(down[r], member_information[c]) /\ client_end[r] = "open"
      BY <1>3, <2>1, <3>1 DEF Views, ViewSound, Ends
    <3>3. SenseMade(down'[r], member_information[c]) /\ EndsIn(down'[r]) /\ down'[r] \in Seq(DownMessages)
      BY <1>4, <3>2
    <3> QED
      BY <3>1, <3>3, ViewOfEnded
  <2> QED
    BY <1>1, <2>1, ViewsOfServerStep
<1> QED
  BY <1>6, <1>7, <1>8, <1>9, <1>10, <1>11 DEF RoomInv

(***************************************************************************)
(* The steps of the clients.                                               *)
(***************************************************************************)
LEMMA OwnedOfClientStep ==
    ASSUME Owned, UNCHANGED <<members, server_end>>,
           \A d \in Clients : From(send_list'[d], d),
           \A p \in Peers : \A d \in Clients : server'[d] = p => server[d] = p,
           \A p \in Peers : \A d \in Clients :
              server_end[p] = "open" /\ Owner(p, d) => From(up'[p], d)
    PROVE  Owned'
<1>1. ASSUME NEW p \in Peers, server_end'[p] = "open"
      PROVE  \E d \in Clients : Owner(p, d)'
  <2>1. PICK d \in Clients : Owner(p, d)
    BY <1>1 DEF Owned
  <2>2. From(up'[p], d)
    BY <1>1, <2>1
  <2>3. /\ \A e \in Clients : server'[e] = p => e = d
        /\ \A i \in 1..Len(members') : members'[i].peer = p => members'[i].client = d
    BY <2>1 DEF Owner
  <2> QED
    BY <2>2, <2>3 DEF Owner
<1> QED
  BY <1>1 DEF Owned

(* What a client that is not in the room in its own view is told.          *)
LEMMA ViewLeft ==
    ASSUME NEW q, NEW info, NEW st, NEW new, NEW ms, NEW p, ViewSound(q, info, st, ms, p),
           new \in {"Joined", "Moderator"} => new = st
    PROVE  ViewSound(q, info, new, ms, p)
BY DEF ViewSound

(* A step of a client that leaves what it sends and receives alone.        *)
LEMMA ClientStepInv ==
    ASSUME RoomInv, NEW c \in Clients,
           UNCHANGED <<room, members, server_end, client_end, up, down, server, member_information>>,
           state' \in [Clients -> {"Idle", "Joining", "Joined", "Moderator"}],
           ui' \in [Clients -> {"idle", "connecting", "leaving"}],
           loop' \in [Clients -> {"none", "check", "service", "done"}],
           send_list' \in [Clients -> Seq(ClientMessages)],
           \A d \in Clients : From(send_list'[d], d),
           \A d \in Clients : state'[d] \in {"Joined", "Moderator"} => state'[d] = state[d],
           \A d \in Clients : loop'[d] = "done" \/ (loop'[d] = "none" /\ ui'[d] # "connecting")
              => server[d] = NoPeer
    PROVE  RoomInv'
<1>1. Types /\ Ends /\ Links /\ Owned /\ MembersInv /\ Views
  BY DEF RoomInv
<1>2. Types'
  BY <1>1 DEF Types
<1>3. Ends'
  BY <1>1 DEF Ends
<1>4. Links'
  BY <1>1 DEF Links
<1>5. Owned'
  BY <1>1, OwnedOfClientStep DEF Owner
<1>6. MembersInv'
  BY <1>1, MembersInvStay
<1>7. Views'
  <2> SUFFICES ASSUME NEW d \in Clients, server[d] # NoPeer
               PROVE  ViewSound(down[server[d]], member_information[d], state'[d], members, server[d])
    BY DEF Views
  <2>1. ViewSound(down[server[d]], member_information[d], state[d], members, server[d])
    BY <1>1 DEF Views
  <2> QED
    BY <2>1, ViewLeft
<1> QED
  BY <1>2, <1>3, <1>4, <1>5, <1>6, <1>7 DEF RoomInv

LEMMA LeaveInv ==
    ASSUME RoomInv, NEW c \in Clients, Leave(c)
    PROVE  RoomInv'
<1>1. /\ ui[c] = "idle" /\ loop[c] # "none"
      /\ state' = [state EXCEPT ![c] = "Idle"] /\ ui' = [ui EXCEPT ![c] = "leaving"]
      /\ UNCHANGED <<room, members, server_end, client_end, up, down, server, member_information,
                     loop, send_list>>
  BY DEF Leave, roomVars, linkVars
<1>2. Types /\ Ends /\ Owned
  BY DEF RoomInv
<1> QED
  BY <1>1, <1>2, ClientStepInv, ZenonT(60) DEF Types, Ends, Owned

LEMMA LeaveReturnsInv ==
    ASSUME RoomInv, NEW c \in Clients, LeaveReturns(c)
    PROVE  RoomInv'
<1>1. /\ ui[c] = "leaving" /\ loop[c] = "done"
      /\ ui' = [ui EXCEPT ![c] = "idle"] /\ loop' = [loop EXCEPT ![c] = "none"]
      /\ UNCHANGED <<room, members, server_end, client_end, up, down, server, member_information,
                     state, send_list>>
  BY DEF LeaveReturns, roomVars, linkVars
<1>2. Types /\ Ends /\ Owned
  BY DEF RoomInv
<1> QED
  BY <1>1, <1>2, ClientStepInv, ZenonT(60) DEF Types, Ends, Owned

LEMMA EnterLoopInv ==
    ASSUME RoomInv, NEW c \in Clients, EnterLoop(c)
    PROVE  RoomInv'
<1>1. /\ loop' = [loop EXCEPT ![c] = "service"]
      /\ UNCHANGED <<room, members, server_end, client_end, up, down, server, member_information,
                     state, ui, send_list>>
  BY DEF EnterLoop, roomVars, linkVars
<1>2. Types /\ Ends /\ Owned
  BY DEF RoomInv
<1>3. /\ loop' \in [Clients -> {"none", "check", "service", "done"}]
      /\ \A d \in Clients : loop'[d] = IF d = c THEN "service" ELSE loop[d]
  BY <1>1, <1>2 DEF Types
<1>4. \A d \in Clients : loop'[d] = "done" \/ (loop'[d] = "none" /\ ui'[d] # "connecting")
         => server[d] = NoPeer
  BY <1>1, <1>2, <1>3 DEF Ends
<1> QED
  BY <1>1, <1>2, <1>3, <1>4, ClientStepInv DEF Types, Owned

(* What a client queues is its own.                                        *)
LEMMA FromAppend ==
    ASSUME NEW q \in Seq(ClientMessages), NEW m \in ClientMessages, NEW c, From(q, c),
           m.type = "JoinRequest" => m.client = c
    PROVE  Append(q, m) \in Seq(ClientMessages) /\ From(Append(q, m), c)
<1>1. /\ Append(q, m) \in Seq(ClientMessages) /\ Len(Append(q, m)) = Len(q) + 1 /\ Len(q) \in Nat
      /\ \A i \in 1..Len(q) : Append(q, m)[i] = q[i]
      /\ Append(q, m)[Len(q) + 1] = m
  BY AppendProperties, LenProperties
<1>2. ASSUME NEW n \in 1..Len(Append(q, m)), Append(q, m)[n].type = "JoinRequest"
      PROVE  Append(q, m)[n].client = c
  <2>1. n \in 1..Len(q) \/ n = Len(q) + 1
    BY <1>1
  <2> QED
    BY <1>1, <1>2, <2>1 DEF From
<1> QED
  BY <1>1, <1>2 DEF From

LEMMA SendInv ==
    ASSUME RoomInv, NEW c \in Clients, Send(c)
    PROVE  RoomInv'
<1>1. PICK m \in Requests[c] : send_list' = [send_list EXCEPT ![c] = Append(@, m)]
  BY DEF Send
<1>2. UNCHANGED <<room, members, server_end, client_end, up, down, server, member_information,
                  state, ui, loop>>
  BY DEF Send, roomVars, linkVars
<1>3. Types /\ Ends /\ Owned
  BY DEF RoomInv
<1>4. m \in ClientMessages /\ m.type # "JoinRequest"
  <2>1. m.type \in {"ChatMessage", "SetGameInfo", "Moderate", "ModUnban"}
    BY RoomAssumption
  <2>2. m \in UNION {JoinRequests[d] \cup Requests[d] : d \in Clients}
    OBVIOUS
  <2> QED
    BY <2>1, <2>2, Zenon DEF ClientMessages
<1>5. send_list \in [Clients -> Seq(ClientMessages)] /\ \A d \in Clients : From(send_list[d], d)
  BY <1>3 DEF Types, Owned
<1>6. Append(send_list[c], m) \in Seq(ClientMessages) /\ From(Append(send_list[c], m), c)
  BY <1>4, <1>5, FromAppend
<1>7. send_list' \in [Clients -> Seq(ClientMessages)] /\ \A d \in Clients : From(send_list'[d], d)
  BY <1>1, <1>5, <1>6
<1> QED
  BY <1>2, <1>3, <1>7, ClientStepInv DEF Types, Ends

LEMMA ConnectedInv ==
    ASSUME RoomInv, NEW c \in Clients, Connected(c)
    PROVE  RoomInv'
<1>1. PICK request \in JoinRequests[c], game \in Games :
          send_list' = [send_list EXCEPT ![c] =
                           @ \o <<request, [type |-> "SetGameInfo", game |-> game]>>]
  BY DEF Connected
<1>2. /\ ui' = [ui EXCEPT ![c] = "idle"] /\ loop' = [loop EXCEPT ![c] = "check"]
      /\ UNCHANGED <<room, members, server_end, client_end, up, down, server, member_information, state>>
  BY DEF Connected, roomVars, linkVars
<1>3. Types /\ Ends /\ Owned
  BY DEF RoomInv
<1> DEFINE info == [type |-> "SetGameInfo", game |-> game]
           q == send_list[c]
<1>4. /\ request \in ClientMessages /\ request.client = c
      /\ info \in ClientMessages /\ info.type # "JoinRequest"
  <2>1. request.client = c
    BY RoomAssumption
  <2>2. request \in UNION {JoinRequests[d] \cup Requests[d] : d \in Clients}
    OBVIOUS
  <2>3. info \in [type : {"SetGameInfo"}, game : Games]
    OBVIOUS
  <2> QED
    BY <2>1, <2>2, <2>3, Zenon DEF ClientMessages
<1>5. send_list \in [Clients -> Seq(ClientMessages)] /\ \A d \in Clients : From(send_list[d], d)
  BY <1>3 DEF Types, Owned
<1> HIDE DEF info
<1>6. Append(q, request) \in Seq(ClientMessages) /\ From(Append(q, request), c)
  BY <1>4, <1>5, FromAppend
<1>7. /\ Append(Append(q, request), info) \in Seq(ClientMessages)
      /\ From(Append(Append(q, request), info), c)
  BY <1>4, <1>6, FromAppend
<1>8. q \o <<request, info>> = Append(Append(q, request), info)
  <2>1. q \in Seq(ClientMessages)
    BY <1>5
  <2> HIDE DEF q
  <2> QED
    BY <1>4, <2>1
<1>9. send_list' \in [Clients -> Seq(ClientMessages)] /\ \A d \in Clients : From(send_list'[d], d)
  <2>1. send_list' = [send_list EXCEPT ![c] = Append(Append(q, request), info)]
    BY <1>1, <1>8 DEF info
  <2> QED
    BY <1>5, <1>7, <2>1
<1>10. /\ ui' \in [Clients -> {"idle", "connecting", "leaving"}]
       /\ loop' \in [Clients -> {"none", "check", "service", "done"}]
       /\ state' \in [Clients -> {"Idle", "Joining", "Joined", "Moderator"}]
  BY <1>2, <1>3 DEF Types
<1>11. \A d \in Clients : loop'[d] = "done" \/ (loop'[d] = "none" /\ ui'[d] # "connecting")
          => server[d] = NoPeer
  BY <1>2, <1>3 DEF Types, Ends
<1> QED
  BY <1>2, <1>9, <1>10, <1>11, ClientStepInv

(* A client disconnects: the server finds out, unless it knows already.    *)
LEMMA FromCutOff ==
    ASSUME NEW q \in Seq(UpMessages), NEW c, From(q, c), ~EndsIn(q), EndsOnce(q), NEW r \in CutOff(q)
    PROVE  From(r, c)
<1>1. Disconnected \in UpMessages /\ Disconnected.type # "JoinRequest"
  BY DEF UpMessages, Disconnected
<1>2. PICK n \in 0..Len(q) : /\ Len(r) = n + 1 /\ r[n + 1] = Disconnected
                             /\ \A i \in 1..n : r[i] = q[i]
  BY <1>1, CutOffProperties
<1>3. Len(q) \in Nat /\ n \in Nat
  BY LenProperties
<1>4. ASSUME NEW i \in 1..Len(r), r[i].type = "JoinRequest"
      PROVE  r[i].client = c
  <2>1. i \in 1..n \/ i = n + 1
    BY <1>2, <1>3
  <2>2. i # n + 1
    BY <1>1, <1>2, <1>4
  <2>3. i \in 1..Len(q) /\ r[i] = q[i]
    BY <1>2, <1>3, <2>1, <2>2
  <2> QED
    BY <1>4, <2>3 DEF From
<1> QED
  BY <1>4 DEF From

LEMMA HangUpInv ==
    ASSUME RoomInv, NEW c \in Clients, HangUp(c),
           UNCHANGED <<room, members, server_end, send_list>>,
           state' \in [Clients -> {"Idle", "Joining", "Joined", "Moderator"}],
           ui' \in [Clients -> {"idle", "connecting", "leaving"}],
           loop' \in [Clients -> {"none", "check", "service", "done"}],
           member_information' \in [Clients -> Lists],
           \A d \in Clients \ {c} : /\ state'[d] = state[d] /\ ui'[d] = ui[d] /\ loop'[d] = loop[d]
                                    /\ member_information'[d] = member_information[d]
    PROVE  RoomInv'
<1>1. /\ Types /\ Ends /\ Links /\ Owned /\ MembersInv /\ Views
      /\ server \in [Clients -> Peers \cup {NoPeer}] /\ client_end \in [Peers -> {"open", "shut"}]
      /\ up \in [Peers -> Seq(UpMessages)] /\ down \in [Peers -> Seq(DownMessages)]
  BY DEF RoomInv, Types
<1>2. /\ server' \in [Clients -> Peers \cup {NoPeer}]
      /\ \A d \in Clients : server'[d] = IF d = c THEN NoPeer ELSE server[d]
  BY <1>1 DEF HangUp
<1>3. NoPeer \notin Peers
  BY DEF NoPeer, Peers
<1>4. /\ client_end' \in [Peers -> {"open", "shut"}] /\ down' \in [Peers -> Seq(DownMessages)]
      /\ \A p \in Peers : /\ client_end'[p] = IF p = server[c] THEN "shut" ELSE client_end[p]
                          /\ down'[p] = IF p = server[c] THEN <<>> ELSE down[p]
  <2>1. CASE server[c] = NoPeer
    BY <1>1, <1>3, <2>1 DEF HangUp
  <2>2. CASE server[c] # NoPeer
    <3>1. <<>> \in Seq(DownMessages)
      BY EmptySeq
    <3>2. /\ client_end' = [client_end EXCEPT ![server[c]] = "shut"]
          /\ down' = [down EXCEPT ![server[c]] = <<>>]
      BY <2>2 DEF HangUp
    <3> QED
      BY <1>1, <2>2, <3>1, <3>2
  <2> QED
    BY <2>1, <2>2
<1>5. /\ up' \in [Peers -> Seq(UpMessages)]
      /\ \A p \in Peers : p # server[c] \/ ~ReachesServer(p) => up'[p] = up[p]
      /\ \A p \in Peers : p = server[c] /\ ReachesServer(p) => up'[p] \in CutOff(up[p])
  <2>1. CASE server[c] # NoPeer /\ ReachesServer(server[c])
    <3>1. PICK r \in Peers : r = server[c]
      BY <1>1, <2>1
    <3>2. PICK rest \in CutOff(up[r]) : up' = [up EXCEPT ![r] = rest]
      BY <2>1, <3>1 DEF HangUp
    <3>3. /\ up[r] \in Seq(UpMessages) /\ ~EndsIn(up[r]) /\ EndsOnce(up[r])
          /\ Disconnected \in UpMessages
      BY <1>1, <2>1, <3>1 DEF Links, LinkSound, ReachesServer, UpMessages
    <3>4. rest \in Seq(UpMessages)
      BY <3>2, <3>3, CutOffProperties
    <3>5. /\ up' \in [Peers -> Seq(UpMessages)]
          /\ \A p \in Peers : up'[p] = IF p = r THEN rest ELSE up[p]
      BY <1>1, <3>2, <3>4
    <3>6. \A p \in Peers : p # r \/ ~ReachesServer(p) => up'[p] = up[p]
      BY <2>1, <3>1, <3>5
    <3>7. \A p \in Peers : p = r => up'[p] \in CutOff(up[p])
      BY <3>2, <3>5
    <3> QED
      BY <3>1, <3>5, <3>6, <3>7
  <2>2. CASE ~(server[c] # NoPeer /\ ReachesServer(server[c]))
    <3>1. up' = up
      BY <2>2 DEF HangUp
    <3> QED
      BY <1>1, <1>3, <2>2, <3>1
  <2> QED
    BY <2>1, <2>2
<1>6. Types'
  BY <1>1, <1>2, <1>4, <1>5 DEF Types
<1>7. Ends'
  <2>1. \A d \in Clients : server'[d] # NoPeer => d # c /\ server'[d] = server[d] /\ server[d] \in Peers
    BY <1>1, <1>2
  <2>2. \A d \in Clients : server'[d] # NoPeer => client_end'[server'[d]] = "open"
    BY <1>1, <1>4, <2>1 DEF Ends
  <2>3. \A d, e \in Clients : server'[d] = server'[e] /\ server'[d] # NoPeer => d = e
    BY <1>1, <2>1 DEF Ends
  <2>4. \A p \in Peers : client_end'[p] = "open" => \E d \in Clients : server'[d] = p
    BY <1>1, <1>2, <1>4 DEF Ends
  <2>5. \A d \in Clients :
           loop'[d] = "done" \/ (loop'[d] = "none" /\ ui'[d] # "connecting") => server'[d] = NoPeer
    BY <1>1, <1>2 DEF Ends
  <2> QED
    BY <2>2, <2>3, <2>4, <2>5 DEF Ends
<1>8. Links'
  <2> SUFFICES ASSUME NEW p \in Peers
               PROVE  LinkSound(server_end[p], client_end'[p], up'[p], down'[p])
    BY DEF Links
  <2>1. LinkSound(server_end[p], client_end[p], up[p], down[p])
    BY <1>1 DEF Links
  <2>2. CASE p # server[c]
    BY <1>4, <1>5, <2>1, <2>2
  <2>3. CASE p = server[c]
    <3>1. client_end'[p] = "shut" /\ down'[p] = <<>>
      BY <1>4, <2>3
    <3>2. CASE ReachesServer(p)
      <4>1. /\ up[p] \in Seq(UpMessages) /\ ~EndsIn(up[p]) /\ EndsOnce(up[p]) /\ Disconnected \in UpMessages
            /\ server_end[p] = "open" /\ up'[p] \in CutOff(up[p])
        BY <1>1, <1>5, <2>1, <2>3, <3>2 DEF LinkSound, ReachesServer, UpMessages
      <4>2. EndsIn(up'[p]) /\ EndsOnce(up'[p])
        BY <4>1, CutOffProperties
      <4> QED
        BY <3>1, <4>1, <4>2, EmptyEnds DEF LinkSound
    <3>3. CASE ~ReachesServer(p)
      <4>1. up'[p] = up[p]
        BY <1>5, <3>3
      <4>2. server_end[p] # "open" \/ EndsIn(up[p])
        BY <3>3 DEF ReachesServer
      <4>3. (server_end[p] # "open" => up[p] = <<>>) /\ EndsOnce(up[p])
        BY <2>1 DEF LinkSound
      <4> QED
        BY <3>1, <4>1, <4>2, <4>3, EmptyEnds DEF LinkSound
    <3> QED
      BY <3>2, <3>3
  <2> QED
    BY <2>2, <2>3
<1>9. Owned'
  <2>1. ASSUME NEW p \in Peers, NEW d \in Clients, server_end[p] = "open", Owner(p, d)
        PROVE  From(up'[p], d)
    <3>1. From(up[p], d)
      BY <2>1 DEF Owner
    <3>2. CASE p = server[c] /\ ReachesServer(p)
      <4>1. up[p] \in Seq(UpMessages) /\ ~EndsIn(up[p]) /\ EndsOnce(up[p]) /\ up'[p] \in CutOff(up[p])
        BY <1>1, <1>5, <3>2 DEF Links, LinkSound, ReachesServer
      <4> QED
        BY <3>1, <4>1, FromCutOff
    <3>3. CASE ~(p = server[c] /\ ReachesServer(p))
      BY <1>5, <3>1, <3>3
    <3> QED
      BY <3>2, <3>3
  <2>2. \A p \in Peers : \A d \in Clients : server'[d] = p => server[d] = p
    BY <1>2, <1>3
  <2>3. \A d \in Clients : From(send_list'[d], d)
    BY <1>1 DEF Owned
  <2> QED
    BY <1>1, <2>1, <2>2, <2>3, OwnedOfClientStep
<1>10. MembersInv'
  BY <1>1, MembersInvStay
<1>11. Views'
  <2> SUFFICES ASSUME NEW d \in Clients, server'[d] # NoPeer
               PROVE  ViewSound(down'[server'[d]], member_information'[d], state'[d], members, server'[d])
    BY DEF Views
  <2>1. d # c /\ server'[d] = server[d] /\ server[d] \in Peers
    BY <1>1, <1>2
  <2>2. server[d] # server[c]
    BY <1>1, <1>3, <2>1 DEF Ends
  <2>3. ViewSound(down[server[d]], member_information[d], state[d], members, server[d])
    BY <1>1, <1>3, <2>1 DEF Views
  <2> QED
    BY <1>4, <2>1, <2>2, <2>3
<1> QED
  BY <1>6, <1>7, <1>8, <1>9, <1>10, <1>11 DEF RoomInv

LEMMA CouldNotConnectInv ==
    ASSUME RoomInv, NEW c \in Clients, CouldNotConnect(c)
    PROVE  RoomInv'
<1>1. /\ HangUp(c) /\ ui' = [ui EXCEPT ![c] = "idle"] /\ state' = [state EXCEPT ![c] = "Idle"]
      /\ UNCHANGED <<room, members, server_end, loop, send_list, member_information>>
  BY DEF CouldNotConnect, roomVars
<1>2. Types
  BY DEF RoomInv
<1> QED
  BY <1>1, <1>2, HangUpInv DEF Types

LEMMA DisconnectInv ==
    ASSUME RoomInv, NEW c \in Clients, Disconnect(c)
    PROVE  RoomInv'
<1>1. /\ HangUp(c) /\ loop' = [loop EXCEPT ![c] = "done"]
      /\ member_information' = [member_information EXCEPT ![c] = <<>>]
      /\ UNCHANGED <<room, members, server_end, state, ui, send_list>>
  BY DEF Disconnect, roomVars
<1>2. Types
  BY DEF RoomInv
<1>3. <<>> \in Lists
  <2>1. <<>> \in [1..0 -> ListEntry]
    OBVIOUS
  <2>2. 0 \in 0..member_slots
    BY SlotsNat
  <2> QED
    BY <2>1, <2>2 DEF Lists
<1>4. member_information' \in [Clients -> Lists]
  BY <1>1, <1>2, <1>3 DEF Types
<1> QED
  BY <1>1, <1>2, <1>4, HangUpInv DEF Types

(* A client gets a peer that neither side uses, or none.                   *)
LEMMA JoinInv ==
    ASSUME RoomInv, NEW c \in Clients, Join(c)
    PROVE  RoomInv'
<1>1. /\ Types /\ Ends /\ Links /\ Owned /\ MembersInv /\ Views
      /\ server \in [Clients -> Peers \cup {NoPeer}] /\ client_end \in [Peers -> {"open", "shut"}]
      /\ server_end \in [Peers -> {"free", "open", "closing"}]
      /\ state \in [Clients -> {"Idle", "Joining", "Joined", "Moderator"}]
  BY DEF RoomInv, Types
<1>2. /\ ui[c] = "idle" /\ loop[c] = "none"
      /\ state' = [state EXCEPT ![c] = "Joining"] /\ ui' = [ui EXCEPT ![c] = "connecting"]
      /\ UNCHANGED <<room, members, up, down, loop, send_list, member_information>>
  BY DEF Join, roomVars
<1>3. CASE room = "Closed" \/ FreePeers = {}
  <2>1. UNCHANGED <<server_end, client_end, server>>
    BY <1>3 DEF Join
  <2> QED
    BY <1>1, <1>2, <2>1, ClientStepInv, ZenonT(60) DEF Types, Ends, Owned
<1>4. CASE ~(room = "Closed" \/ FreePeers = {})
  <2>1. PICK p : p = Min(FreePeers)
    OBVIOUS
  <2>2. /\ server_end' = [server_end EXCEPT ![p] = "open"]
        /\ client_end' = [client_end EXCEPT ![p] = "open"]
        /\ server' = [server EXCEPT ![c] = p]
    BY <1>4, <2>1 DEF Join
  <2>3. p \in Peers /\ server_end[p] = "free" /\ client_end[p] = "shut" /\ NoPeer \notin Peers
    <3>1. FreePeers \subseteq Nat
      BY SlotsNat DEF FreePeers, Peers
    <3>2. Min(FreePeers) \in FreePeers
      BY <1>4, <3>1, MinNat
    <3> QED
      BY <2>1, <3>2 DEF FreePeers, NoPeer, Peers
  <2>4. up[p] = <<>> /\ down[p] = <<>>
    BY <1>1, <2>3 DEF Links, LinkSound
  <2>5. server[c] = NoPeer /\ \A d \in Clients : server[d] # p
    BY <1>1, <1>2, <2>3 DEF Ends
  <2>6. ~InRoom(members, p)
    BY <1>1, <2>3 DEF InRoom, MembersInv, MembersConnected
  <2>7. /\ \A d \in Clients : server'[d] = IF d = c THEN p ELSE server[d]
        /\ \A q \in Peers : /\ server_end'[q] = IF q = p THEN "open" ELSE server_end[q]
                            /\ client_end'[q] = IF q = p THEN "open" ELSE client_end[q]
    BY <1>1, <2>2
  <2>8. Types'
    BY <1>1, <1>2, <2>2, <2>3 DEF Types
  <2>9. Ends'
    <3>1. \A d \in Clients : server'[d] # NoPeer => client_end'[server'[d]] = "open"
      BY <1>1, <2>3, <2>7 DEF Ends
    <3>2. \A d, e \in Clients : server'[d] = server'[e] /\ server'[d] # NoPeer => d = e
      BY <1>1, <2>5, <2>7 DEF Ends
    <3>3. \A q \in Peers : client_end'[q] = "open" => \E d \in Clients : server'[d] = q
      BY <1>1, <2>3, <2>5, <2>7 DEF Ends
    <3>4. \A d \in Clients :
             loop'[d] = "done" \/ (loop'[d] = "none" /\ ui'[d] # "connecting") => server'[d] = NoPeer
      BY <1>1, <1>2, <2>7 DEF Ends, Types
    <3> QED
      BY <3>1, <3>2, <3>3, <3>4 DEF Ends
  <2>10. Links'
    <3> SUFFICES ASSUME NEW q \in Peers
                 PROVE  LinkSound(server_end'[q], client_end'[q], up[q], down[q])
      BY <1>2 DEF Links
    <3>1. CASE q = p
      <4>1. LinkSound("open", "open", <<>>, <<>>)
        BY EmptyEnds DEF LinkSound
      <4> QED
        BY <2>4, <2>7, <3>1, <4>1
    <3>2. CASE q # p
      BY <1>1, <2>7, <3>2 DEF Links
    <3> QED
      BY <3>1, <3>2
  <2>11. Owned'
    <3>1. \A d \in Clients : From(send_list'[d], d)
      BY <1>1, <1>2 DEF Owned
    <3>2. ASSUME NEW q \in Peers, server_end'[q] = "open"
          PROVE  \E d \in Clients : Owner(q, d)'
      <4>1. CASE q = p
        <5>1. From(up'[q], c)
          <6>1. up'[q] = <<>> /\ Len(<<>>) = 0
            BY <1>2, <2>4, <4>1, EmptySeq
          <6> QED
            BY <6>1 DEF From
        <5>2. \A d \in Clients : server'[d] = q => d = c
          BY <2>5, <2>7, <4>1
        <5>3. \A i \in 1..Len(members') : members'[i].peer # q
          BY <1>2, <2>6, <4>1 DEF InRoom
        <5> QED
          BY <5>1, <5>2, <5>3 DEF Owner
      <4>2. CASE q # p
        <5>1. server_end[q] = "open"
          BY <2>7, <3>2, <4>2
        <5>2. PICK d \in Clients : Owner(q, d)
          BY <1>1, <5>1 DEF Owned
        <5>3. \A e \in Clients : server'[e] = q => e = d
          BY <2>7, <4>2, <5>2 DEF Owner
        <5> QED
          BY <1>2, <5>2, <5>3 DEF Owner
      <4> QED
        BY <4>1, <4>2
    <3> QED
      BY <3>1, <3>2 DEF Owned
  <2>12. MembersInv'
    <3>1. \A i \in 1..Len(members) : members[i].peer \in Peers
      <4>1. members \in Seq(Entries)
        BY <1>1 DEF Types
      <4>2. \A i \in 1..Len(members) : members[i] \in Entries
        BY <4>1
      <4> QED
        BY <4>2 DEF Entries
    <3>2. MembersConnected'
      BY <1>1, <1>2, <2>7, <3>1 DEF MembersInv, MembersConnected
    <3> QED
      BY <1>1, <1>2, <3>2 DEF MembersInv, MembersDistinct, ClientsDistinct
  <2>13. Views'
    <3> SUFFICES ASSUME NEW d \in Clients, server'[d] # NoPeer
                 PROVE  ViewSound(down[server'[d]], member_information[d], state'[d], members, server'[d])
      BY <1>2 DEF Views
    <3>1. CASE d = c
      <4>1. server'[d] = p /\ state'[d] = "Joining"
        BY <1>1, <1>2, <2>7, <3>1
      <4> QED
        BY <2>4, <2>6, <4>1, ViewEmpty
    <3>2. CASE d # c
      <4>1. server'[d] = server[d] /\ state'[d] = state[d]
        BY <1>1, <1>2, <2>7, <3>2
      <4> QED
        BY <1>1, <4>1 DEF Views
    <3> QED
      BY <3>1, <3>2
  <2> QED
    BY <2>8, <2>9, <2>10, <2>11, <2>12, <2>13 DEF RoomInv
<1> QED
  BY <1>3, <1>4

(* What a client sends is its own, and is sent only while the server can   *)
(* receive it.                                                             *)
LEMMA FromConcat ==
    ASSUME NEW q \in Seq(UpMessages), NEW s \in Seq(ClientMessages), NEW c, From(q, c), From(s, c)
    PROVE  From(q \o s, c)
<1>1. s \in Seq(UpMessages)
  BY SeqMonotonic DEF UpMessages
<1>2. /\ Len(q \o s) = Len(q) + Len(s) /\ Len(q) \in Nat /\ Len(s) \in Nat
      /\ \A i \in 1..(Len(q) + Len(s)) : (q \o s)[i] = IF i <= Len(q) THEN q[i] ELSE s[i - Len(q)]
  BY <1>1, ConcatProperties, LenProperties
<1>3. ASSUME NEW n \in 1..Len(q \o s), (q \o s)[n].type = "JoinRequest"
      PROVE  (q \o s)[n].client = c
  <2>1. CASE n <= Len(q)
    <3>1. n \in 1..Len(q) /\ (q \o s)[n] = q[n]
      BY <1>2, <2>1
    <3> QED
      BY <1>3, <3>1 DEF From
  <2>2. CASE ~(n <= Len(q))
    <3>1. PICK k : k = n - Len(q)
      OBVIOUS
    <3>2. k \in 1..Len(s) /\ (q \o s)[n] = s[k]
      BY <1>2, <2>2, <3>1
    <3> QED
      BY <1>3, <3>2 DEF From
  <2> QED
    BY <2>1, <2>2
<1> QED
  BY <1>3 DEF From

LEMMA SendPacketsProperties ==
    ASSUME RoomInv, NEW c \in Clients, SendPackets(c)
    PROVE  /\ send_list' \in [Clients -> Seq(ClientMessages)]
           /\ \A d \in Clients : From(send_list'[d], d)
           /\ up' \in [Peers -> Seq(UpMessages)]
           /\ \A p \in Peers : ~ReachesServer(p) => up'[p] = up[p]
           /\ \A p \in Peers : ReachesServer(p) => EndsOnce(up'[p]) /\ ~EndsIn(up'[p])
           /\ \A p \in Peers : \A d \in Clients :
                 server_end[p] = "open" /\ Owner(p, d) => From(up'[p], d)
<1>1. /\ Links /\ Owned /\ server \in [Clients -> Peers \cup {NoPeer}] /\ NoPeer \notin Peers
      /\ up \in [Peers -> Seq(UpMessages)] /\ send_list \in [Clients -> Seq(ClientMessages)]
  BY DEF RoomInv, Types, NoPeer, Peers
<1>2. /\ send_list' \in [Clients -> Seq(ClientMessages)]
      /\ \A d \in Clients : From(send_list'[d], d)
  <2>1. <<>> \in Seq(ClientMessages) /\ From(<<>>, c)
    <3>1. Len(<<>>) = 0 /\ <<>> \in Seq(ClientMessages)
      BY EmptySeq
    <3> QED
      BY <3>1 DEF From
  <2>2. send_list' = [send_list EXCEPT ![c] = <<>>]
    BY DEF SendPackets
  <2>3. \A d \in Clients : From(send_list[d], d)
    BY <1>1 DEF Owned
  <2> QED
    BY <1>1, <2>1, <2>2, <2>3
<1>3. \A p \in Peers : EndsOnce(up[p])
  BY <1>1 DEF Links, LinkSound
<1>4. CASE server[c] # NoPeer /\ ReachesServer(server[c])
  <2>1. PICK p \in Peers : p = server[c] /\ ReachesServer(p)
    BY <1>1, <1>4
  <2>2. up' = [up EXCEPT ![p] = up[p] \o send_list[c]]
    BY <1>4, <2>1 DEF SendPackets
  <2>3. /\ up[p] \o send_list[c] \in Seq(UpMessages)
        /\ EndsOnce(up[p] \o send_list[c]) /\ ~EndsIn(up[p] \o send_list[c])
    BY <1>1, <1>3, <2>1, ConcatEnds DEF ReachesServer
  <2>4. /\ up' \in [Peers -> Seq(UpMessages)]
        /\ \A q \in Peers : up'[q] = IF q = p THEN up[p] \o send_list[c] ELSE up[q]
    BY <1>1, <2>2, <2>3
  <2>5. ASSUME NEW q \in Peers, NEW d \in Clients, Owner(q, d)
        PROVE  From(up'[q], d)
    <3>1. From(up[q], d)
      BY <2>5 DEF Owner
    <3>2. CASE q = p
      <4>1. d = c
        BY <2>1, <2>5, <3>2 DEF Owner
      <4>2. From(up[p] \o send_list[c], c)
        BY <1>1, <3>1, <3>2, <4>1, FromConcat DEF Owned
      <4> QED
        BY <2>4, <3>2, <4>1, <4>2
    <3>3. CASE q # p
      BY <2>4, <3>1, <3>3
    <3> QED
      BY <3>2, <3>3
  <2>6. \A q \in Peers : ~ReachesServer(q) => up'[q] = up[q]
    BY <2>1, <2>4
  <2>7. \A q \in Peers : ReachesServer(q) => EndsOnce(up'[q]) /\ ~EndsIn(up'[q])
    BY <1>3, <2>3, <2>4 DEF ReachesServer
  <2> QED
    BY <1>2, <2>4, <2>5, <2>6, <2>7
<1>5. CASE ~(server[c] # NoPeer /\ ReachesServer(server[c]))
  <2>1. up' = up
    BY <1>5 DEF SendPackets
  <2>2. \A p \in Peers : \A d \in Clients : Owner(p, d) => From(up[p], d)
    BY DEF Owner
  <2>3. \A q \in Peers : ReachesServer(q) => EndsOnce(up[q]) /\ ~EndsIn(up[q])
    BY <1>3 DEF ReachesServer
  <2> QED
    BY <1>1, <1>2, <2>1, <2>2, <2>3
<1> QED
  BY <1>4, <1>5

LEMMA HeadDisconnected ==
    ASSUME NEW q \in Seq(DownMessages), q # <<>>, EndsOnce(q), Head(q) = Disconnected
    PROVE  EndsIn(q)
<1>1. Len(q) \in Nat /\ Len(q) > 0 /\ q[1] = Disconnected
  <2>1. Head(q) = q[1]
    BY HeadTailProperties
  <2>2. Len(q) \in Nat /\ Len(q) > 0
    BY EmptySeq
  <2> QED
    BY <2>1, <2>2
<1>2. 1 = Len(q)
  <2>1. PICK n \in 1..Len(q) : n = 1
    BY <1>1
  <2>2. q[n] = Disconnected
    BY <1>1, <2>1
  <2> QED
    BY <2>1, <2>2 DEF EndsOnce
<1> QED
  BY <1>1, <1>2 DEF EndsIn, Last

(* One event, if there is one, and what the client has to send.            *)
LEMMA ServiceInv ==
    ASSUME RoomInv, NEW c \in Clients, Service(c)
    PROVE  RoomInv'
<1> DEFINE p == server[c]
           q == down[p]
           m == Head(q)
<1>1. /\ Types /\ Ends /\ Links /\ Owned /\ MembersInv /\ Views
      /\ server \in [Clients -> Peers \cup {NoPeer}] /\ client_end \in [Peers -> {"open", "shut"}]
      /\ down \in [Peers -> Seq(DownMessages)] /\ NoPeer \notin Peers
      /\ state \in [Clients -> {"Idle", "Joining", "Joined", "Moderator"}]
      /\ member_information \in [Clients -> Lists]
  BY DEF RoomInv, Types, NoPeer, Peers
<1>2. /\ loop[c] = "service" /\ loop' = [loop EXCEPT ![c] = "check"] /\ SendPackets(c)
      /\ UNCHANGED <<room, members, server_end, ui>>
  BY DEF Service, roomVars
<1>3. /\ send_list' \in [Clients -> Seq(ClientMessages)]
      /\ \A d \in Clients : From(send_list'[d], d)
      /\ up' \in [Peers -> Seq(UpMessages)]
      /\ \A r \in Peers : ~ReachesServer(r) => up'[r] = up[r]
      /\ \A r \in Peers : ReachesServer(r) => EndsOnce(up'[r]) /\ ~EndsIn(up'[r])
      /\ \A r \in Peers : \A d \in Clients :
            server_end[r] = "open" /\ Owner(r, d) => From(up'[r], d)
  BY <1>2, SendPacketsProperties
<1>4. ASSUME NEW r \in Peers, NEW d, LinkSound(server_end[r], client_end[r], up[r], d)
      PROVE  LinkSound(server_end[r], client_end[r], up'[r], d)
  <2>1. CASE ReachesServer(r)
    BY <1>3, <1>4, <2>1 DEF LinkSound, ReachesServer
  <2>2. CASE ~ReachesServer(r)
    BY <1>3, <1>4, <2>2
  <2> QED
    BY <2>1, <2>2
<1>5. MembersInv'
  BY <1>1, <1>2, MembersInvStay
<1>6. CASE Waiting(c) = <<>>
  <2>1. UNCHANGED <<state, member_information, down, client_end, server>>
    BY <1>6 DEF Service
  <2>2. Types'
    BY <1>1, <1>2, <1>3, <2>1 DEF Types
  <2>3. Ends'
    BY <1>1, <1>2, <2>1 DEF Ends, Types
  <2>4. Links'
    BY <1>1, <1>2, <1>4, <2>1 DEF Links
  <2>5. Owned'
    BY <1>1, <1>2, <1>3, <2>1, OwnedOfClientStep
  <2>6. Views'
    BY <1>1, <1>2, <2>1, ViewsStay
  <2> QED
    BY <1>5, <2>2, <2>3, <2>4, <2>5, <2>6 DEF RoomInv
<1>7. CASE Waiting(c) # <<>>
  <2>1. p \in Peers /\ q \in Seq(DownMessages) /\ q # <<>>
    BY <1>1, <1>7 DEF Waiting
  <2>2. /\ down' = [down EXCEPT ![p] = Tail(@)]
        /\ state' = [state EXCEPT ![c] = StateAfter(c, m)]
        /\ member_information' =
              IF m.type = "RoomInformation" THEN [member_information EXCEPT ![c] = m.list]
              ELSE member_information
        /\ IF m.type = "Disconnect"
           THEN client_end' = [client_end EXCEPT ![p] = "shut"]
                /\ server' = [server EXCEPT ![c] = NoPeer]
           ELSE UNCHANGED <<client_end, server>>
    BY <1>7, Zenon DEF Service, ReceiveEvent
  <2>3. /\ LinkSound(server_end[p], client_end[p], up[p], q)
        /\ client_end[p] = "open" /\ EndsOnce(q)
        /\ ViewSound(q, member_information[c], state[c], members, p)
    BY <1>1, <2>1 DEF Links, LinkSound, Ends, Views
  <2>4. /\ Tail(q) \in Seq(DownMessages) /\ m \in DownMessages /\ EndsOnce(Tail(q))
        /\ m = Disconnected => Tail(q) = <<>> /\ EndsIn(q)
        /\ m # Disconnected => (EndsIn(Tail(q)) <=> EndsIn(q))
    <3>1. /\ Tail(q) \in Seq(DownMessages) /\ m \in DownMessages /\ EndsOnce(Tail(q))
          /\ m = Disconnected => Tail(q) = <<>>
          /\ m # Disconnected => (EndsIn(Tail(q)) <=> EndsIn(q))
      BY <2>1, <2>3, TailEnds
    <3>2. m = Disconnected => EndsIn(q)
      BY <2>1, <2>3, HeadDisconnected
    <3> QED
      BY <3>1, <3>2
  <2>5. /\ m.type = "Disconnect" <=> m = Disconnected
        /\ m.type = "RoomInformation" => m.list \in Lists
    BY <2>4, DownMessageFields
  <2>6. /\ down' \in [Peers -> Seq(DownMessages)]
        /\ \A r \in Peers : down'[r] = IF r = p THEN Tail(q) ELSE down[r]
    BY <1>1, <2>1, <2>2, <2>4
  <2>7. /\ member_information' \in [Clients -> Lists]
        /\ member_information'[c] = InfoAfter(member_information[c], m)
        /\ \A d \in Clients \ {c} : member_information'[d] = member_information[d]
    BY <1>1, <2>2, <2>5 DEF InfoAfter
  <2>8. /\ state' \in [Clients -> {"Idle", "Joining", "Joined", "Moderator"}]
        /\ state'[c] = StateAfter(c, m)
        /\ \A d \in Clients \ {c} : state'[d] = state[d]
    <3>1. StateAfter(c, m) \in {"Idle", "Joining", "Joined", "Moderator"}
      BY <1>1 DEF StateAfter
    <3> QED
      BY <1>1, <2>2, <3>1
  <2>9. /\ server' \in [Clients -> Peers \cup {NoPeer}] /\ client_end' \in [Peers -> {"open", "shut"}]
        /\ \A d \in Clients : server'[d] = IF d = c /\ m = Disconnected THEN NoPeer ELSE server[d]
        /\ \A r \in Peers : client_end'[r] = IF r = p /\ m = Disconnected THEN "shut" ELSE client_end[r]
    <3>1. CASE m = Disconnected
      BY <1>1, <2>1, <2>2, <2>5, <3>1
    <3>2. CASE m # Disconnected
      BY <1>1, <2>1, <2>2, <2>5, <3>2
    <3> QED
      BY <3>1, <3>2
  <2> HIDE DEF m, q
  <2>10. Types'
    BY <1>1, <1>2, <1>3, <2>6, <2>7, <2>8, <2>9 DEF Types
  <2>11. Ends'
    <3>1. \A d \in Clients : server'[d] # NoPeer => client_end'[server'[d]] = "open"
      BY <1>1, <2>1, <2>9 DEF Ends
    <3>2. \A d, e \in Clients : server'[d] = server'[e] /\ server'[d] # NoPeer => d = e
      BY <1>1, <2>9 DEF Ends
    <3>3. \A r \in Peers : client_end'[r] = "open" => \E d \in Clients : server'[d] = r
      BY <1>1, <2>9 DEF Ends
    <3>4. \A d \in Clients :
             loop'[d] = "done" \/ (loop'[d] = "none" /\ ui'[d] # "connecting") => server'[d] = NoPeer
      BY <1>1, <1>2, <2>9 DEF Ends, Types
    <3> QED
      BY <3>1, <3>2, <3>3, <3>4 DEF Ends
  <2>12. Links'
    <3> SUFFICES ASSUME NEW r \in Peers
                 PROVE  LinkSound(server_end[r], client_end'[r], up'[r], down'[r])
      BY <1>2 DEF Links
    <3>1. CASE r # p
      <4>1. LinkSound(server_end[r], client_end[r], up'[r], down[r])
        BY <1>1, <1>4 DEF Links
      <4> QED
        BY <2>6, <2>9, <3>1, <4>1
    <3>2. CASE r = p /\ m = Disconnected
      <4>1. server_end[p] # "open" \/ EndsIn(up[p])
        BY <2>3, <2>4, <3>2 DEF LinkSound
      <4>2. up'[p] = up[p]
        BY <1>3, <2>1, <4>1 DEF ReachesServer
      <4>3. (server_end[p] # "open" => up[p] = <<>>) /\ EndsOnce(up[p])
        BY <2>3 DEF LinkSound
      <4>4. client_end'[p] = "shut" /\ down'[p] = <<>>
        BY <2>1, <2>4, <2>6, <2>9, <3>2
      <4> QED
        BY <3>2, <4>1, <4>2, <4>3, <4>4, EmptyEnds DEF LinkSound
    <3>3. CASE r = p /\ m # Disconnected
      <4>1. LinkSound(server_end[p], client_end[p], up[p], Tail(q))
        BY <2>3, <2>4, <3>3 DEF LinkSound
      <4>2. LinkSound(server_end[p], client_end[p], up'[p], Tail(q))
        BY <1>4, <2>1, <4>1
      <4> QED
        BY <2>1, <2>6, <2>9, <3>3, <4>2
    <3> QED
      BY <3>1, <3>2, <3>3
  <2>13. Owned'
    <3>1. \A r \in Peers : \A d \in Clients : server'[d] = r => server[d] = r
      BY <1>1, <2>9
    <3> QED
      BY <1>1, <1>2, <1>3, <3>1, OwnedOfClientStep
  <2>14. Views'
    <3> SUFFICES ASSUME NEW d \in Clients, server'[d] # NoPeer
                 PROVE  ViewSound(down'[server'[d]], member_information'[d], state'[d], members, server'[d])
      BY <1>2 DEF Views
    <3>1. server'[d] = server[d] /\ server[d] \in Peers /\ server[d] # NoPeer
      BY <1>1, <2>9
    <3>2. CASE d # c
      <4>1. server[d] # p
        BY <1>1, <2>1, <3>1, <3>2 DEF Ends
      <4>2. ViewSound(down[server[d]], member_information[d], state[d], members, server[d])
        BY <1>1, <3>1 DEF Views
      <4>3. down'[server[d]] = down[server[d]]
        BY <2>6, <3>1, <4>1
      <4>4. state'[d] = state[d] /\ member_information'[d] = member_information[d]
        BY <2>7, <2>8, <3>2
      <4> QED
        BY <3>1, <4>2, <4>3, <4>4
    <3>3. CASE d = c
      <4>1. m # Disconnected
        BY <1>1, <2>9, <3>1, <3>3
      <4>2. state'[c] \in {"Joined", "Moderator"} =>
               m.type = "JoinSuccess" \/ (m.type # "End" /\ state[c] \in {"Joined", "Moderator"})
        BY <2>8 DEF StateAfter
      <4>3. ViewSound(Tail(q), InfoAfter(member_information[c], m), state'[c], members, p)
        BY <2>1, <2>3, <4>1, <4>2, ViewTail DEF m
      <4> QED
        BY <2>1, <2>6, <2>7, <3>1, <3>3, <4>3
    <3> QED
      BY <3>2, <3>3
  <2> QED
    BY <1>5, <2>10, <2>11, <2>12, <2>13, <2>14 DEF RoomInv
<1> QED
  BY <1>6, <1>7

(***************************************************************************)
(* The invariant holds.                                                    *)
(***************************************************************************)
LEMMA InitInv ==
    ASSUME Init
    PROVE  RoomInv
<1>1. /\ Len(<<>>) = 0 /\ \A S : <<>> \in Seq(S)
  BY EmptySeq
<1>2. <<>> \in Lists
  <2>1. <<>> \in [1..0 -> ListEntry]
    OBVIOUS
  <2>2. 0 \in 0..member_slots
    BY SlotsNat
  <2> QED
    BY <2>1, <2>2 DEF Lists
<1>3. Types
  <2>1. members = <<>> /\ Len(members) <= member_slots /\ members \in Seq(Entries)
    BY <1>1, SlotsNat DEF Init
  <2>2. /\ up \in [Peers -> Seq(UpMessages)] /\ down \in [Peers -> Seq(DownMessages)]
        /\ send_list \in [Clients -> Seq(ClientMessages)]
    BY <1>1 DEF Init
  <2>3. member_information \in [Clients -> Lists]
    BY <1>2 DEF Init
  <2> QED
    BY <2>1, <2>2, <2>3 DEF Init, Types
<1>4. Ends
  BY DEF Init, Ends
<1>5. Links
  <2>1. LinkSound("free", "shut", <<>>, <<>>)
    BY EmptyEnds DEF LinkSound
  <2> QED
    BY <2>1 DEF Init, Links
<1>6. Owned
  <2>1. \A c \in Clients : From(send_list[c], c)
    <3>1. \A c : From(<<>>, c)
      BY <1>1 DEF From
    <3> QED
      BY <3>1 DEF Init
  <2> QED
    BY <2>1 DEF Init, Owned
<1>7. MembersInv
  BY <1>1 DEF Init, MembersInv, MembersDistinct, ClientsDistinct, MembersConnected
<1>8. Views
  BY DEF Init, Views
<1> QED
  BY <1>3, <1>4, <1>5, <1>6, <1>7, <1>8 DEF RoomInv

LEMMA StutterInv ==
    ASSUME RoomInv, UNCHANGED vars
    PROVE  RoomInv'
<1>1. UNCHANGED <<room, members, server_end, client_end, up, down, state, ui, loop, server,
                  send_list, member_information>>
  BY DEF vars, roomVars, linkVars, clientVars
<1>2. Types' /\ Ends' /\ Links' /\ MembersInv' /\ Views'
  BY <1>1, EndsStay, MembersInvStay, ViewsStay DEF RoomInv, Types, Links
<1>3. Owned'
  BY <1>1, OwnedOfClientStep DEF RoomInv, Owned, Owner
<1> QED
  BY <1>2, <1>3 DEF RoomInv

LEMMA NextInv ==
    ASSUME RoomInv, Next
    PROVE  RoomInv'
<1>1. CASE Destroy
  BY <1>1, DestroyInv
<1>2. ASSUME NEW p \in Peers, ServerStep(p)
      PROVE  RoomInv'
  BY <1>2, HandleJoinRequestInv, HandleGameNameInv, HandleChatPacketInv, HandleModPacketInv,
     HandleModUnbanInv, HandleClientDisconnectionInv DEF ServerStep
<1>3. ASSUME NEW p \in Peers, LoseLink(p)
      PROVE  RoomInv'
  BY <1>3, LoseLinkInv
<1>4. ASSUME NEW c \in Clients, Join(c) \/ Send(c) \/ Leave(c)
      PROVE  RoomInv'
  BY <1>4, JoinInv, SendInv, LeaveInv
<1>5. ASSUME NEW c \in Clients, UserReturns(c)
      PROVE  RoomInv'
  BY <1>5, ConnectedInv, CouldNotConnectInv, LeaveReturnsInv DEF UserReturns
<1>6. ASSUME NEW c \in Clients, LoopStep(c)
      PROVE  RoomInv'
  BY <1>6, EnterLoopInv, DisconnectInv, ServiceInv DEF LoopStep
<1> QED
  BY <1>1, <1>2, <1>3, <1>4, <1>5, <1>6 DEF Next

(* The members, the connections and what is in the queues fit together, in *)
(* every interleaving of the server loop with the threads of the clients   *)
(* (room.cpp:255-320, 980-1005, room_member.cpp:128-260).                  *)
THEOREM RoomInvariant == Spec => []RoomInv
<1>1. Init => RoomInv
  BY InitInv
<1>2. RoomInv /\ [Next]_vars => RoomInv'
  BY NextInv, StutterInv
<1> QED
  BY <1>1, <1>2, PTL DEF Spec

(***************************************************************************)
(* Who is a member, and who is banned.                                     *)
(***************************************************************************)
(* A member is on a connection that it had before, or its address is not   *)
(* banned.                                                                 *)
NewcomersAllowed ==
    \A i \in 1..Len(members') :
        \/ \E k \in 1..Len(members) :
              members'[i].peer = members[k].peer /\ members'[i].client = members[k].client
        \/ Addresses[members'[i].client] \cap banned = {}

LEMMA NewcomersOfStep ==
    ASSUME RoomInv, [Next]_vars
    PROVE  NewcomersAllowed
<1>1. Types /\ MembersInv /\ members \in Seq(Entries)
  BY DEF RoomInv, Types
<1>2. CASE SameOwners
  BY <1>2 DEF SameOwners, NewcomersAllowed
<1>3. ASSUME NEW S, S \subseteq 1..Len(members), members' = WithoutFirst(members, S)
      PROVE  SameOwners
  BY <1>1, <1>3, FewerDistinct DEF RestOf, SameOwners
<1>4. CASE UNCHANGED members
  BY <1>2, <1>4, SameMembersOwners
<1>5. CASE Destroy
  <2>1. Len(members') = 0
    BY <1>5, EmptySeq DEF Destroy
  <2> QED
    BY <2>1 DEF NewcomersAllowed
<1>6. ASSUME NEW p \in Peers, HandleJoinRequest(p)
      PROVE  NewcomersAllowed
  <2>1. CASE UNCHANGED members
    BY <1>4, <2>1
  <2>2. CASE ~UNCHANGED members
    <3>1. PICK mac \in AssignedMacs(Head(up[p])) :
             /\ ~Refuses(Head(up[p]))
             /\ members' = Append(members, [peer |-> p, client |-> Head(up[p]).client,
                                            nickname |-> Head(up[p]).nickname, mac |-> mac, game |-> NoGame])
      BY <1>6, <2>2, Zenon DEF HandleJoinRequest
    <3>2. Event(p, "JoinRequest") /\ UNCHANGED server_end
      BY <1>6 DEF HandleJoinRequest
    <3>3. /\ Len(members') = Len(members) + 1
          /\ \A i \in 1..Len(members) : members'[i] = members[i]
          /\ members'[Len(members) + 1].client = Head(up[p]).client
      BY <3>1, <3>2, AcceptedMembers
    <3>4. Addresses[Head(up[p]).client] \cap banned = {}
      BY <3>1 DEF Refuses
    <3>5. Len(members) \in Nat
      BY <1>1, LenProperties
    <3>6. \A i \in 1..Len(members') : i \in 1..Len(members) \/ i = Len(members) + 1
      BY <3>3, <3>5
    <3> QED
      BY <3>3, <3>4, <3>6 DEF NewcomersAllowed
  <2> QED
    BY <2>1, <2>2
<1>7. ASSUME NEW p \in Peers, HandleGameName(p)
      PROVE  NewcomersAllowed
  <2>1. SameOwners
    <3>1. CASE MembersAt(p) = {}
      BY <1>7, <3>1, SameMembersOwners DEF HandleGameName
    <3>2. CASE MembersAt(p) # {}
      <4>1. MembersAt(p) \subseteq Nat /\ MembersAt(p) \subseteq 1..Len(members)
        BY DEF MembersAt
      <4>2. PICK k \in 1..Len(members) : k = Min(MembersAt(p))
        BY <3>2, <4>1, MinNat
      <4>3. PICK e : e = [members[k] EXCEPT !.game = Head(up[p]).game]
        OBVIOUS
      <4>4. members' = [members EXCEPT ![k] = e]
        BY <1>7, <3>2, <4>2, <4>3 DEF HandleGameName
      <4>5. members[k] \in Entries
        BY <1>1, ElementOfSeq
      <4>6. e.peer = members[k].peer /\ e.client = members[k].client
        BY <4>3, <4>5 DEF Entries
      <4>7. DOMAIN members = 1..Len(members) /\ Len(members) \in Nat
        BY <1>1, LenProperties
      <4>8. DOMAIN members' = 1..Len(members)
            /\ \A i \in 1..Len(members) : members'[i] = IF i = k THEN e ELSE members[i]
        BY <4>4, <4>7
      <4>9. Len(members') = Len(members)
        BY <4>7, <4>8
      <4> QED
        BY <4>6, <4>8, <4>9 DEF SameOwners
    <3> QED
      BY <3>1, <3>2
  <2> QED
    BY <1>2, <2>1
<1>8. ASSUME NEW p \in Peers, HandleModPacket(p)
      PROVE  NewcomersAllowed
  <2>1. CASE UNCHANGED members
    BY <1>4, <2>1
  <2>2. CASE ~UNCHANGED members
    <3>1. PICK nickname : members' = WithoutFirst(members, Named(nickname))
      BY <1>8, <2>2 DEF HandleModPacket, Dismiss
    <3>2. Named(nickname) \subseteq 1..Len(members)
      BY DEF Named
    <3> QED
      BY <1>2, <1>3, <3>1, <3>2
  <2> QED
    BY <2>1, <2>2
<1>9. ASSUME NEW p \in Peers, HandleClientDisconnection(p)
      PROVE  NewcomersAllowed
  <2>1. MembersAt(p) \subseteq 1..Len(members) /\ members' = WithoutFirst(members, MembersAt(p))
    BY <1>9 DEF HandleClientDisconnection, MembersAt
  <2> QED
    BY <1>2, <1>3, <2>1
<1>10. ASSUME NEW p \in Peers, HandleChatPacket(p) \/ HandleModUnban(p) \/ LoseLink(p)
       PROVE  UNCHANGED members
  BY <1>10 DEF HandleChatPacket, HandleModUnban, LoseLink, roomVars
<1>11. ASSUME NEW c \in Clients,
              Join(c) \/ Send(c) \/ Leave(c) \/ UserReturns(c) \/ LoopStep(c)
       PROVE  UNCHANGED members
  BY <1>11 DEF Join, Send, Leave, UserReturns, Connected, CouldNotConnect, LeaveReturns,
               LoopStep, EnterLoop, Disconnect, Service, roomVars
<1>12. CASE UNCHANGED vars
  BY <1>4, <1>12 DEF vars, roomVars
<1> QED
  BY <1>4, <1>5, <1>6, <1>7, <1>8, <1>9, <1>10, <1>11, <1>12 DEF Next, ServerStep

(* A ban adds the addresses of one client, which is out.                   *)
BanOf(t) ==
    /\ banned' \subseteq banned \cup Addresses[t]
    /\ \A i \in 1..Len(members') : members'[i].client # t

LEMMA BansOfStep ==
    ASSUME RoomInv, [Next]_vars
    PROVE  banned' \subseteq banned \/ \E t \in Clients : BanOf(t)
<1>1. Types /\ MembersInv /\ members \in Seq(Entries)
  BY DEF RoomInv, Types
<1>2. ASSUME NEW p \in Peers, HandleModPacket(p)
      PROVE  banned' \subseteq banned \/ \E t \in Clients : BanOf(t)
  <2> DEFINE nickname == Head(up[p]).nickname
             k == Min(Named(nickname))
  <2>1. CASE HasModPermission(p) /\ Named(nickname) # {}
    <3>1. /\ members' = WithoutFirst(members, Named(nickname))
          /\ banned' = banned \cup (IF Head(up[p]).ban THEN Addresses[members[k].client] ELSE {})
      BY <1>2, <2>1 DEF HandleModPacket, Dismiss
    <3>2. Named(nickname) \subseteq 1..Len(members)
      BY DEF Named
    <3> HIDE DEF nickname
    <3>3. k \in 1..Len(members)
      BY <1>1, <2>1, <3>1, <3>2, MemberRemoved
    <3>4. RestOf(members', members, Named(nickname))
      BY <1>1, <3>1, <3>2, FewerDistinct
    <3>5. members[k].client \in Clients
      <4>1. members[k] \in Entries
        BY <1>1, <3>3, ElementOfSeq
      <4> QED
        BY <4>1 DEF Entries
    <3>6. ASSUME NEW i \in 1..Len(members')
          PROVE  members'[i].client # members[k].client
      <4>1. PICK l \in 1..Len(members) : members'[i] = members[l] /\ l # k
        BY <2>1, <3>4 DEF RestOf
      <4> QED
        BY <1>1, <3>3, <4>1 DEF MembersInv, ClientsDistinct
    <3>7. banned' \subseteq banned \cup Addresses[members[k].client]
      BY <3>1
    <3> QED
      BY <3>5, <3>6, <3>7 DEF BanOf
  <2>2. CASE ~(HasModPermission(p) /\ Named(nickname) # {})
    BY <1>2, <2>2 DEF HandleModPacket
  <2> QED
    BY <2>1, <2>2
<1>3. ASSUME NEW p \in Peers, HandleModUnban(p)
      PROVE  banned' \subseteq banned
  BY <1>3 DEF HandleModUnban
<1>4. ASSUME NEW p \in Peers, \/ HandleJoinRequest(p) \/ HandleGameName(p) \/ HandleChatPacket(p)
                              \/ HandleClientDisconnection(p) \/ LoseLink(p)
      PROVE  banned' = banned
  BY <1>4 DEF HandleJoinRequest, HandleGameName, HandleChatPacket, HandleClientDisconnection, LoseLink,
              roomVars
<1>5. ASSUME NEW c \in Clients,
             Join(c) \/ Send(c) \/ Leave(c) \/ UserReturns(c) \/ LoopStep(c)
      PROVE  banned' = banned
  BY <1>5 DEF Join, Send, Leave, UserReturns, Connected, CouldNotConnect, LeaveReturns,
              LoopStep, EnterLoop, Disconnect, Service, roomVars
<1>6. CASE Destroy \/ UNCHANGED vars
  BY <1>6 DEF Destroy, vars, roomVars
<1> QED
  BY <1>2, <1>3, <1>4, <1>5, <1>6 DEF Next, ServerStep

BansKnown == banned \subseteq UNION {Addresses[c] : c \in Clients}

LEMMA BansKnownStep ==
    ASSUME RoomInv, BansKnown, [Next]_vars
    PROVE  BansKnown'
BY BansOfStep DEF BansKnown, BanOf

(* TypeOK and the lists without what depends on the addresses.             *)
LEMMA TypesSuffice ==
    ASSUME RoomInv, BansKnown
    PROVE  TypeOK
<1>1. Types /\ members \in Seq(Entries) /\ Len(members) <= member_slots
  BY DEF RoomInv, Types
<1>2. Listing(members) \in Lists
  BY <1>1, ListingType
<1>3. \A i \in 1..Len(members) : members[i].peer \in Peers /\ members[i].client \in Clients
  <2>1. \A i \in 1..Len(members) : members[i] \in Entries
    BY <1>1, ElementOfSeq
  <2> QED
    BY <2>1 DEF Entries
<1> QED
  BY <1>1, <1>2, <1>3 DEF TypeOK, Types, BansKnown

(***************************************************************************)
(* The properties.                                                         *)
(***************************************************************************)
(* Every variable has its type, the room is never fuller than its slots,   *)
(* and no two members share a nickname, an address or a connection, all of *)
(* which are of peers that the server is connected to (room.cpp:303-417,   *)
(* 980-1005).                                                              *)
THEOREM MembersStayDistinct == Spec => [](TypeOK /\ MembersDistinct /\ MembersConnected)
<1>1. Init => BansKnown
  BY RoomAssumption DEF Init, BansKnown
<1>2. RoomInv /\ BansKnown /\ [Next]_vars => BansKnown'
  BY BansKnownStep
<1>3. RoomInv /\ BansKnown => TypeOK /\ MembersDistinct /\ MembersConnected
  BY TypesSuffice DEF RoomInv, MembersInv
<1> QED
  BY <1>1, <1>2, <1>3, RoomInvariant, PTL DEF Spec

(* Nobody whose address is banned gets into the room: the ban lists are    *)
(* looked up when the request is handled, not when it was sent             *)
(* (room.cpp:380-400).                                                     *)
THEOREM BannedAreRefused == Spec => [][NewcomersAllowed]_vars
<1>1. RoomInv /\ [Next]_vars => [NewcomersAllowed]_vars
  BY NewcomersOfStep
<1> QED
  BY <1>1, RoomInvariant, PTL DEF Spec

(* A ban puts its target out of the room, but adds all the addresses of    *)
(* the target: another member with one of them would stay.  Clients with   *)
(* addresses of their own are never members while they are banned          *)
(* (room.cpp:380-400, 461-520).                                            *)
OwnAddressesOnly == \A c, d \in Clients : c # d => Addresses[c] \cap Addresses[d] = {}

LEMMA BannedAreOutStep ==
    ASSUME OwnAddressesOnly, RoomInv, BannedAreOut, [Next]_vars
    PROVE  BannedAreOut'
<1>1. RoomInv'
  BY NextInv, StutterInv
<1>2. NewcomersAllowed
  BY NewcomersOfStep
<1>3. \A i \in 1..Len(members') : members'[i].client \in Clients
  <2>1. members' \in Seq(Entries)
    BY <1>1 DEF RoomInv, Types
  <2>2. \A i \in 1..Len(members') : members'[i] \in Entries
    BY <2>1, ElementOfSeq
  <2> QED
    BY <2>2 DEF Entries
<1>4. ASSUME NEW i \in 1..Len(members')
      PROVE  Addresses[members'[i].client] \cap banned = {}
  BY <1>2, <1>4 DEF NewcomersAllowed, BannedAreOut
<1>5. CASE banned' \subseteq banned
  BY <1>4, <1>5 DEF BannedAreOut
<1>6. ASSUME NEW t \in Clients, BanOf(t)
      PROVE  BannedAreOut'
  <2>1. ASSUME NEW i \in 1..Len(members')
        PROVE  Addresses[members'[i].client] \cap banned' = {}
    <3>1. Addresses[members'[i].client] \cap Addresses[t] = {}
      BY <1>3, <1>6, <2>1 DEF BanOf, OwnAddressesOnly
    <3> QED
      BY <1>4, <1>6, <2>1, <3>1 DEF BanOf
  <2> QED
    BY <2>1 DEF BannedAreOut
<1> QED
  BY <1>5, <1>6, BansOfStep

THEOREM MembersStaySound == OwnAddressesOnly /\ Spec => []MembersSound
<1> SUFFICES ASSUME OwnAddressesOnly
             PROVE  Spec => []MembersSound
  OBVIOUS
<1>1. Init => BannedAreOut
  <2>1. Len(<<>>) = 0
    BY EmptySeq
  <2> QED
    BY <2>1 DEF Init, BannedAreOut
<1>2. RoomInv /\ BannedAreOut /\ [Next]_vars => BannedAreOut'
  BY BannedAreOutStep
<1>3. (TypeOK /\ MembersDistinct /\ MembersConnected) /\ BannedAreOut => MembersSound
  BY DEF MembersSound
<1> QED
  BY <1>1, <1>2, <1>3, RoomInvariant, MembersStayDistinct, PTL DEF Spec

(* The list that a client is going to have is that of the one client that  *)
(* has the peer.                                                           *)
LEMMA LatestOfClient ==
    ASSUME RoomInv, NEW c \in Clients, NEW n
    PROVE  server[c] # NoPeer => LatestList(server[c], n) = Latest(down[server[c]], member_information[c], n)
<1> SUFFICES ASSUME server[c] # NoPeer
             PROVE  LatestList(server[c], n) = Latest(down[server[c]], member_information[c], n)
  OBVIOUS
<1>1. \A d \in Clients : server[d] = server[c] => d = c
  BY DEF RoomInv, Ends
<1>2. (CHOOSE d \in Clients : server[d] = server[c]) = c
  BY <1>1
<1> QED
  BY <1>2 DEF LatestList, Latest

(* A connection that is open for the client, as it is while anything is on *)
(* its way to the client, is that of one client.                           *)
LEMMA ClientOfPeer ==
    ASSUME RoomInv, NEW p \in Peers, client_end[p] = "open" \/ down[p] # <<>>
    PROVE  \E c \in Clients : server[c] = p /\ server[c] # NoPeer
<1>1. client_end[p] = "open"
  <2>1. client_end[p] \in {"open", "shut"}
    BY DEF RoomInv, Types
  <2> QED
    BY <2>1 DEF RoomInv, Links, LinkSound
<1>2. p # NoPeer
  BY DEF NoPeer, Peers
<1> QED
  BY <1>1, <1>2 DEF RoomInv, Ends

LEMMA ViewsConvergeThen ==
    ASSUME RoomInv
    PROVE  ViewsConverge
<1> SUFFICES ASSUME NEW i \in 1..Len(members), Intact(members[i].peer)
             PROVE  LatestList(members[i].peer, Len(down[members[i].peer])) = Listing(members)
  BY DEF ViewsConverge
<1>1. PICK p : p = members[i].peer
  OBVIOUS
<1>2. p \in Peers
  <2>1. members[i] \in Entries
    BY ElementOfSeq DEF RoomInv, Types
  <2> QED
    BY <1>1, <2>1 DEF Entries
<1>3. client_end[p] = "open" /\ ~EndsIn(down[p]) /\ InRoom(members, p)
  BY <1>1 DEF Intact, InRoom
<1>4. PICK c \in Clients : server[c] = p /\ server[c] # NoPeer
  BY <1>2, <1>3, ClientOfPeer
<1>5. ViewSound(down[p], member_information[c], state[c], members, p)
  BY <1>4 DEF RoomInv, Views
<1>6. Latest(down[p], member_information[c], Len(down[p])) = Listing(members)
  BY <1>3, <1>5 DEF ViewSound
<1> QED
  BY <1>1, <1>4, <1>6, LatestOfClient

(* "Notify everyone that the room information has changed" (room.cpp:410): *)
(* whatever joins, games, kicks and lost connections overlapped, a member  *)
(* that is still connected has, or is being sent, the list as it is.       *)
THEOREM MembersKnowEachOther == Spec => []ViewsConverge
<1>1. RoomInv => ViewsConverge
  BY ViewsConvergeThen
<1> QED
  BY <1>1, RoomInvariant, PTL

LEMMA ListsArriveFirstThen ==
    ASSUME RoomInv
    PROVE  ListsArriveFirst
<1>1. ASSUME NEW p \in Peers, NEW n \in 1..Len(down[p])
      PROVE  /\ down[p][n].type = "ChatMessage" => Listed(LatestList(p, n), down[p][n].from)
             /\ down[p][n].type = "JoinSuccess" => LatestList(p, n) # <<>>
  <2>1. down[p] # <<>>
    BY <1>1, EmptySeq
  <2>2. PICK c \in Clients : server[c] = p /\ server[c] # NoPeer
    BY <2>1, ClientOfPeer
  <2>3. SenseMade(down[p], member_information[c])
    BY <2>2 DEF RoomInv, Views, ViewSound
  <2>4. LatestList(p, n) = Latest(down[p], member_information[c], n)
    BY <2>2, LatestOfClient
  <2> QED
    BY <2>3, <2>4 DEF SenseMade
<1>2. ChatFromListed
  BY <1>1 DEF ChatFromListed, Listed
<1>3. NoAssertionFails
  BY <1>1 DEF NoAssertionFails
<1> QED
  BY <1>2, <1>3 DEF ListsArriveFirst

(* A list with the sender comes before a chat message, and a list before   *)
(* the news of success (room.cpp:897-945, room_member.cpp:185).            *)
THEOREM ListsComeFirst == Spec => []ListsArriveFirst
<1>1. RoomInv => ListsArriveFirst
  BY ListsArriveFirstThen
<1> QED
  BY <1>1, RoomInvariant, PTL

(* A client that thinks it is in the room is a member, or is going to be   *)
(* told (room_member.cpp:179-246).                                         *)
THEOREM JoinedAreMembers == Spec => []JoinedIsMember
<1>1. ASSUME RoomInv
      PROVE  JoinedIsMember
  <2> SUFFICES ASSUME NEW c \in Clients, state[c] \in {"Joined", "Moderator"}, server[c] # NoPeer
               PROVE  \/ MembersAt(server[c]) # {}
                      \/ \E n \in 1..Len(down[server[c]]) :
                            down[server[c]][n].type \in {"End", "Disconnect"}
    BY DEF JoinedIsMember
  <2>1. ViewSound(down[server[c]], member_information[c], state[c], members, server[c])
    BY <1>1 DEF RoomInv, Views
  <2>2. InRoom(members, server[c]) \/ Ended(down[server[c]], 1)
    BY <2>1 DEF ViewSound
  <2> QED
    BY <2>2, InRoomMembersAt DEF Ended
<1> QED
  BY <1>1, RoomInvariant, PTL
=============================================================================
