------------------------------- MODULE Room -------------------------------
(***************************************************************************)
(* Multiplayer rooms: the server loop of network/room.cpp, the user thread *)
(* and the network thread of every client (network/room_member.cpp), and   *)
(* the ENet connections between them.                                      *)
(*                                                                         *)
(* ENet is external: reliable and ordered in each direction, a connection  *)
(* may break at any time, and each side finds out by a "Disconnect" that   *)
(* follows what still arrives.  Disconnecting drops what the other side    *)
(* has not received yet, or a part of it.                                  *)
(***************************************************************************)
EXTENDS Integers, Sequences, FiniteSets, SequencesExt

CONSTANTS
    Clients,
    Moderators,         \* clients whose user data grants permissions
    Addresses,          \* a client's IP address and, if verified, username
    Nicknames,
    MacAddresses,
    NoPreferredMac,
    Games,              \* game infos; NoGame is the empty one
    NoGame,
    InitialBans,        \* the ban lists that a room may be created with
    JoinRequests,       \* what a client may join with; fit says whether the
                        \* password and the version are right
    Requests,           \* what the user of a client may send when connected
    member_slots,
    MaxMoves,           \* bound: calls of Join, Send, Leave, Destroy, lost links
    MaxSent,            \* bound: packets of a client not received yet
    MaxDown             \* bound: packets of the server not received yet

NoPeer == -1
Peers == 0..member_slots    \* the peers of the server, one more than slots

ASSUME RoomAssumption ==
    /\ Moderators \subseteq Clients
    /\ member_slots \in Nat \ {0}
    /\ MaxMoves \in Nat /\ MaxSent \in Nat /\ MaxDown \in Nat
    /\ Cardinality(MacAddresses) >= member_slots
    /\ NoPreferredMac \notin MacAddresses
    /\ \A c \in Clients : \A r \in JoinRequests[c] :
          /\ r.type = "JoinRequest" /\ r.client = c /\ r.nickname \in Nicknames /\ r.fit \in BOOLEAN
          /\ r.mac \in MacAddresses \cup {NoPreferredMac}
    /\ \A c \in Clients : \A r \in Requests[c] :
          /\ r.type \in {"ChatMessage", "SetGameInfo", "Moderate", "ModUnban"}
          /\ r.type = "SetGameInfo" => r.game \in Games
    /\ \A bans \in InitialBans : bans \subseteq UNION {Addresses[c] : c \in Clients}

VARIABLES
    room,               \* Room: state
    members, banned,
    server_end, client_end, up, down,   \* connections, by peer
    state,              \* RoomMember: state, of each client
    ui, loop,           \* where its two threads are
    server,             \* the peer it talks to
    send_list, member_information,
    moves               \* user calls and lost links so far: for the bound only

roomVars == <<room, members, banned>>
linkVars == <<server_end, client_end, up, down>>
clientVars == <<state, ui, loop, server, send_list, member_information>>
vars == <<roomVars, linkVars, clientVars, moves>>

Init ==
    /\ room = "Open" /\ members = <<>> /\ banned \in InitialBans
    /\ server_end = [p \in Peers |-> "free"]
    /\ client_end = [p \in Peers |-> "shut"]
    /\ up = [p \in Peers |-> <<>>] /\ down = [p \in Peers |-> <<>>]
    /\ state = [c \in Clients |-> "Idle"]
    /\ ui = [c \in Clients |-> "idle"] /\ loop = [c \in Clients |-> "none"]
    /\ server = [c \in Clients |-> NoPeer]
    /\ send_list = [c \in Clients |-> <<>>]
    /\ member_information = [c \in Clients |-> <<>>]
    /\ moves = 0

Move == moves < MaxMoves /\ moves' = moves + 1

IsConnected(c) == state[c] \in {"Joining", "Joined", "Moderator"}

(***************************************************************************)
(* Connections.                                                            *)
(***************************************************************************)
Disconnected == [type |-> "Disconnect"]
EndsIn(queue) == queue # <<>> /\ Last(queue) = Disconnected

ReachesServer(p) == server_end[p] = "open" /\ ~EndsIn(up[p])
Intact(p) == ReachesServer(p) /\ client_end[p] = "open" /\ ~EndsIn(down[p])

(* queues with m sent to p (enet_peer_send).                               *)
Sent(queues, p, m) ==
    IF client_end[p] = "open" /\ ~EndsIn(queues[p])
    THEN [queues EXCEPT ![p] = Append(@, m)] ELSE queues

(* What may be left of a queue when its sender disconnects.                *)
CutOff(queue) == {SubSeq(queue, 1, n) \o <<Disconnected>> : n \in 0..Len(queue)}

LoseLink(p) ==
    /\ Intact(p) /\ Move
    /\ up' = [up EXCEPT ![p] = <<Disconnected>>]
    /\ down' = [down EXCEPT ![p] = <<Disconnected>>]
    /\ UNCHANGED <<roomVars, server_end, client_end, clientVars>>

(***************************************************************************)
(* The server loop: one event at a time.  Status messages, and replies     *)
(* that clients only show, are left out.                                   *)
(***************************************************************************)
(* All refusals, and the farewells of kicks, bans and closing.             *)
EndMessage == [type |-> "End"]

Listing(ms) == [i \in 1..Len(ms) |->
    [nickname |-> ms[i].nickname, mac |-> ms[i].mac, game |-> ms[i].game]]

(* BroadcastRoomInformation, with the peers in Gone disconnecting.         *)
Informed(queues, ms, Gone) ==
    [p \in Peers |->
        IF server_end[p] = "open" /\ p \notin Gone
        THEN Sent(queues, p, [type |-> "RoomInformation", list |-> Listing(ms)])[p]
        ELSE queues[p]]

Drained == \A p \in Peers : Len(down[p]) <= MaxDown

Event(p, type) ==
    /\ room = "Open" /\ Drained
    /\ server_end[p] = "open" /\ up[p] # <<>> /\ Head(up[p]).type = type

Consumed(p) == up' = [up EXCEPT ![p] = Tail(@)]

MembersAt(p) == {i \in 1..Len(members) : members[i].peer = p}
Named(nickname) == {i \in 1..Len(members) : members[i].nickname = nickname}
HasModPermission(p) == \E i \in MembersAt(p) : members[i].client \in Moderators
MacsTaken == {members[i].mac : i \in 1..Len(members)}

(* Faulty: bans are not looked up.                                         *)
RefusesUnlessBanned(r) ==
    \/ Len(members) >= member_slots \/ ~r.fit \/ r.mac \in MacsTaken
    \/ Named(r.nickname) # {} \/ \E i \in 1..Len(members) : members[i].client = r.client

Refuses(r) ==
    \/ Len(members) >= member_slots \/ ~r.fit \/ r.mac \in MacsTaken
    \/ Named(r.nickname) # {} \/ Addresses[r.client] \cap banned # {}
    \/ \E i \in 1..Len(members) : members[i].client = r.client

AssignedMacs(r) ==
    IF r.mac = NoPreferredMac THEN MacAddresses \ MacsTaken ELSE {r.mac}

(* What a new member is told.                                              *)
Welcome(p, ms, m) == Sent(Informed(down, ms, {}), p, m)

HandleJoinRequest(p) ==
    LET r == Head(up[p]) IN
    /\ Event(p, "JoinRequest") /\ Consumed(p)
    /\ \/ /\ Refuses(r)
          /\ down' = Sent(down, p, EndMessage) /\ UNCHANGED members
       \/ \E mac \in AssignedMacs(r) :
             /\ ~Refuses(r)
             /\ members' = Append(members, [peer |-> p, client |-> r.client, nickname |-> r.nickname,
                                            mac |-> mac, game |-> NoGame])
             /\ down' = Welcome(p, members',
                                [type |-> "JoinSuccess", mod |-> r.client \in Moderators])
    /\ UNCHANGED <<room, banned, server_end, client_end, clientVars, moves>>

HandleGameName(p) ==
    /\ Event(p, "SetGameInfo") /\ Consumed(p)
    /\ members' = IF MembersAt(p) = {} THEN members
                  ELSE [members EXCEPT ![Min(MembersAt(p))].game = Head(up[p]).game]
    /\ down' = Informed(down, members', {})
    /\ UNCHANGED <<room, banned, server_end, client_end, clientVars, moves>>

(* Faulty: whoever is connected gets to see it.                            *)
AllOthers(p) == {q \in Peers \ {p} : server_end[q] = "open"}
OtherMembers(p) == {q \in Peers \ {p} : MembersAt(q) # {}}

HandleChatPacket(p) ==
    LET sender == members[Min(MembersAt(p))]
        chat == [type |-> "ChatMessage", from |-> sender.nickname] IN
    /\ Event(p, "ChatMessage") /\ Consumed(p)
    /\ down' = IF MembersAt(p) = {} THEN down
               ELSE [q \in Peers |-> IF q \in OtherMembers(p)
                                     THEN Sent(down, q, chat)[q] ELSE down[q]]
    /\ UNCHANGED <<roomVars, server_end, client_end, clientVars, moves>>

WithoutFirst(ms, S) == IF S = {} THEN ms ELSE RemoveAt(ms, Min(S))

(* Faulty: the target, or the others, are not told.                        *)
KeepQueue(queue) == {queue}
Farewell(queue) == CutOff(Append(queue, EndMessage))

InformNobody(queues, ms, t) == queues
InformOthers(queues, ms, t) == Informed(queues, ms, {t})

(* A kick, and a ban, which also bans the addresses of the target.         *)
Dismiss(t, nickname) ==
    /\ members' = WithoutFirst(members, Named(nickname))
    /\ server_end' = [server_end EXCEPT ![t] = "closing"]
    /\ \E rest \in Farewell(down[t]) :
          down' = InformOthers([down EXCEPT ![t] = IF client_end[t] = "shut" \/ EndsIn(@)
                                                   THEN @ ELSE rest], members', t)

HandleModPacket(p) ==
    LET r == Head(up[p])
        i == Min(Named(r.nickname))
        t == members[i].peer IN
    /\ Event(p, "Moderate")
    /\ IF HasModPermission(p) /\ Named(r.nickname) # {}
       THEN /\ Dismiss(t, r.nickname)
            /\ banned' = banned \cup (IF r.ban THEN Addresses[members[i].client] ELSE {})
            /\ up' = [up EXCEPT ![p] = Tail(@), ![t] = <<>>]
       ELSE Consumed(p) /\ UNCHANGED <<members, banned, server_end, down>>
    /\ UNCHANGED <<room, client_end, clientVars, moves>>

HandleModUnban(p) ==
    /\ Event(p, "ModUnban") /\ Consumed(p)
    /\ banned' = IF HasModPermission(p) THEN banned \ {Head(up[p]).address} ELSE banned
    /\ UNCHANGED <<room, members, server_end, client_end, down, clientVars, moves>>

(* The client disconnected, acknowledged being disconnected, or timed out. *)
HandleClientDisconnection(p) ==
    /\ room = "Open" /\ Drained
    /\ server_end[p] = "closing" \/ Event(p, "Disconnect")
    /\ server_end' = [server_end EXCEPT ![p] = "free"]
    /\ up' = [up EXCEPT ![p] = <<>>]
    /\ members' = WithoutFirst(members, MembersAt(p))
    /\ down' = Informed(down, members', {p})
    /\ UNCHANGED <<room, banned, client_end, clientVars, moves>>

(* Destroy: the members are told and disconnected, the host is gone.       *)
Destroy ==
    /\ room = "Open" /\ room' = "Closed" /\ members' = <<>> /\ Move
    /\ server_end' = [p \in Peers |-> "free"]
    /\ up' = [p \in Peers |-> <<>>]
    /\ \E told \in SUBSET Peers :
          down' = [p \in Peers |->
                     IF client_end[p] = "shut" \/ EndsIn(down[p]) THEN down[p]
                     ELSE IF p \in told /\ MembersAt(p) # {}
                          THEN down[p] \o <<EndMessage, Disconnected>>
                          ELSE <<Disconnected>>]
    /\ UNCHANGED <<banned, client_end, clientVars>>

(***************************************************************************)
(* The user thread of a client: Join, Leave and what users send.  A Join   *)
(* while the network thread exists starts with the steps of Leave.         *)
(***************************************************************************)
FreePeers == {p \in Peers : server_end[p] = "free" /\ client_end[p] = "shut"}

Join(c) ==
    /\ ui[c] = "idle" /\ loop[c] = "none" /\ Move
    /\ state' = [state EXCEPT ![c] = "Joining"]
    /\ ui' = [ui EXCEPT ![c] = "connecting"]
    /\ IF room = "Closed" \/ FreePeers = {}
       THEN UNCHANGED <<server_end, client_end, server>>
       ELSE LET p == Min(FreePeers) IN
            /\ server_end' = [server_end EXCEPT ![p] = "open"]
            /\ client_end' = [client_end EXCEPT ![p] = "open"]
            /\ server' = [server EXCEPT ![c] = p]
    /\ UNCHANGED <<roomVars, up, down, loop, send_list, member_information>>

(* enet_peer_disconnect of the client, which then ignores what arrives.    *)
HangUp(c) ==
    LET p == server[c] IN
    /\ server' = [server EXCEPT ![c] = NoPeer]
    /\ IF p = NoPeer THEN UNCHANGED <<client_end, up, down>>
       ELSE /\ client_end' = [client_end EXCEPT ![p] = "shut"]
            /\ down' = [down EXCEPT ![p] = <<>>]
            /\ IF ReachesServer(p)
               THEN \E rest \in CutOff(up[p]) : up' = [up EXCEPT ![p] = rest]
               ELSE UNCHANGED up

CouldNotConnect(c) ==
    /\ ui[c] = "connecting" /\ ui' = [ui EXCEPT ![c] = "idle"]
    /\ state' = [state EXCEPT ![c] = "Idle"]
    /\ HangUp(c)
    /\ UNCHANGED <<roomVars, server_end, loop, send_list, member_information, moves>>

(* The network thread starts; the join request and the game info, which    *)
(* the user thread queues next, are the first that it finds.               *)
Connected(c) ==
    /\ ui[c] = "connecting" /\ server[c] # NoPeer
    /\ ui' = [ui EXCEPT ![c] = "idle"] /\ loop' = [loop EXCEPT ![c] = "check"]
    /\ \E request \in JoinRequests[c], game \in Games :
          send_list' = [send_list EXCEPT ![c] =
                           @ \o <<request, [type |-> "SetGameInfo", game |-> game]>>]
    /\ UNCHANGED <<roomVars, linkVars, state, server, member_information, moves>>

Send(c) ==
    /\ ui[c] = "idle" /\ IsConnected(c) /\ Move
    /\ Len(send_list[c]) + (IF server[c] = NoPeer THEN 0 ELSE Len(up[server[c]])) < MaxSent
    /\ \E m \in Requests[c] : send_list' = [send_list EXCEPT ![c] = Append(@, m)]
    /\ UNCHANGED <<roomVars, linkVars, state, ui, loop, server, member_information>>

Leave(c) ==
    /\ ui[c] = "idle" /\ loop[c] # "none" /\ Move
    /\ state' = [state EXCEPT ![c] = "Idle"]
    /\ ui' = [ui EXCEPT ![c] = "leaving"]
    /\ UNCHANGED <<roomVars, linkVars, loop, server, send_list, member_information>>

LeaveReturns(c) ==
    /\ ui[c] = "leaving" /\ loop[c] = "done"
    /\ ui' = [ui EXCEPT ![c] = "idle"] /\ loop' = [loop EXCEPT ![c] = "none"]
    /\ UNCHANGED <<roomVars, linkVars, state, server, send_list, member_information, moves>>

(***************************************************************************)
(* The network thread of a client (MemberLoop): the test of the loop, one  *)
(* event and the packets to send, and Disconnect at the end.               *)
(***************************************************************************)
EnterLoop(c) ==
    /\ loop[c] = "check" /\ IsConnected(c)
    /\ loop' = [loop EXCEPT ![c] = "service"]
    /\ UNCHANGED <<roomVars, linkVars, state, ui, server, send_list, member_information, moves>>

Disconnect(c) ==
    /\ loop[c] = "check" /\ ~IsConnected(c)
    /\ loop' = [loop EXCEPT ![c] = "done"]
    /\ member_information' = [member_information EXCEPT ![c] = <<>>]
    /\ HangUp(c)
    /\ UNCHANGED <<roomVars, server_end, state, ui, send_list, moves>>

SendPackets(c) ==
    /\ send_list' = [send_list EXCEPT ![c] = <<>>]
    /\ up' = IF server[c] # NoPeer /\ ReachesServer(server[c])
             THEN [up EXCEPT ![server[c]] = @ \o send_list[c]] ELSE up

Waiting(c) == IF server[c] = NoPeer THEN <<>> ELSE down[server[c]]

(* The state after a message.  Faulty: a lost connection is not noticed.   *)
StateIfConnected(c, m) ==
    IF m.type = "JoinSuccess" THEN IF m.mod THEN "Moderator" ELSE "Joined"
    ELSE IF m.type = "End" THEN "Idle" ELSE state[c]

StateAfter(c, m) ==
    IF m.type = "JoinSuccess" THEN IF m.mod THEN "Moderator" ELSE "Joined"
    ELSE IF m.type = "End" \/ (m.type = "Disconnect" /\ state[c] # "Joining") THEN "Idle"
    ELSE state[c]

(* Once disconnected the peer is of no use, though server still names it.  *)
ReceiveEvent(c) ==
    LET p == server[c]
        m == Head(down[p]) IN
    /\ down' = [down EXCEPT ![p] = Tail(@)]
    /\ state' = [state EXCEPT ![c] = StateAfter(c, m)]
    /\ member_information' =
          IF m.type = "RoomInformation" THEN [member_information EXCEPT ![c] = m.list]
          ELSE member_information
    /\ IF m.type = "Disconnect"
       THEN client_end' = [client_end EXCEPT ![p] = "shut"]
            /\ server' = [server EXCEPT ![c] = NoPeer]
       ELSE UNCHANGED <<client_end, server>>

Service(c) ==
    /\ loop[c] = "service"
    /\ loop' = [loop EXCEPT ![c] = "check"]
    /\ IF Waiting(c) # <<>> THEN ReceiveEvent(c)
       ELSE UNCHANGED <<state, member_information, down, client_end, server>>
    /\ SendPackets(c)
    /\ UNCHANGED <<roomVars, server_end, ui, moves>>

ServerStep(p) ==
    \/ HandleJoinRequest(p) \/ HandleGameName(p) \/ HandleChatPacket(p)
    \/ HandleModPacket(p) \/ HandleModUnban(p) \/ HandleClientDisconnection(p)
UserReturns(c) ==
    Connected(c) \/ CouldNotConnect(c) \/ LeaveReturns(c)
LoopStep(c) == EnterLoop(c) \/ Disconnect(c) \/ Service(c)

Next ==
    \/ Destroy
    \/ \E p \in Peers : ServerStep(p) \/ LoseLink(p)
    \/ \E c \in Clients : Join(c) \/ Send(c) \/ Leave(c) \/ UserReturns(c) \/ LoopStep(c)

Spec == Init /\ [][Next]_vars

(* Threads run, and ENet reports what arrives and what is lost; nobody has *)
(* to join, send or leave, and no connection has to break.                 *)
FairSpec ==
    /\ Spec
    /\ \A p \in Peers : WF_vars(ServerStep(p))
    /\ \A c \in Clients : WF_vars(UserReturns(c)) /\ WF_vars(LoopStep(c))

(***************************************************************************)
(* Properties.                                                             *)
(***************************************************************************)
ListEntry == [nickname : Nicknames, mac : MacAddresses, game : Games \cup {NoGame}]
Lists == UNION {[1..n -> ListEntry] : n \in 0..member_slots}

(* Every variable has its type; the room never has more members than slots. *)
TypeOK ==
    /\ room \in {"Open", "Closed"}
    /\ Listing(members) \in Lists
    /\ \A i \in 1..Len(members) : members[i].peer \in Peers /\ members[i].client \in Clients
    /\ banned \subseteq UNION {Addresses[c] : c \in Clients}
    /\ server_end \in [Peers -> {"free", "open", "closing"}]
    /\ client_end \in [Peers -> {"open", "shut"}]
    /\ state \in [Clients -> {"Idle", "Joining", "Joined", "Moderator"}]
    /\ ui \in [Clients -> {"idle", "connecting", "leaving"}]
    /\ loop \in [Clients -> {"none", "check", "service", "done"}]
    /\ server \in [Clients -> Peers \cup {NoPeer}]
    /\ member_information \in [Clients -> Lists]

(* No two members share a nickname, an address or a connection, although   *)
(* several join requests can arrive on one connection: a request that was  *)
(* not sent before Leave goes out in the next session (room.cpp:303-417).  *)
MembersDistinct ==
    \A i, j \in 1..Len(members) : i # j =>
        /\ members[i].nickname # members[j].nickname
        /\ members[i].mac # members[j].mac
        /\ members[i].peer # members[j].peer

(* The peer of a member is one that the server is connected to: ENet hands *)
(* a peer out again, and no member is left behind on it (room.cpp:980-1005). *)
MembersConnected ==
    \A i \in 1..Len(members) : server_end[members[i].peer] = "open"

(* Nobody is a member whose address is banned, whatever was on its way     *)
(* when the ban was given (room.cpp:380-400, 461-520).                     *)
BannedAreOut ==
    \A i \in 1..Len(members) : Addresses[members[i].client] \cap banned = {}

(* The list of members is sound.                                           *)
MembersSound == TypeOK /\ MembersDistinct /\ MembersConnected /\ BannedAreOut

LatestList(p, n) ==
    LET at == {i \in 1..n : down[p][i].type = "RoomInformation"} IN
    IF at = {} THEN member_information[CHOOSE c \in Clients : server[c] = p] ELSE down[p][Max(at)].list

(* "Notify everyone that the room information has changed" (room.cpp:410): *)
(* once all that was sent has arrived, every member lists all members with *)
(* their addresses and games.                                              *)
ViewsConverge ==
    \A i \in 1..Len(members) :
        LET p == members[i].peer IN
        Intact(p) => LatestList(p, Len(down[p])) = Listing(members)

(* When a chat message arrives, its sender is on the list of the receiver  *)
(* (room.cpp:897-945 against the broadcasts on the same channel).          *)
ChatFromListed ==
    \A p \in Peers : \A n \in 1..Len(down[p]) :
        down[p][n].type = "ChatMessage" =>
            \E i \in 1..Len(LatestList(p, n)) :
                LatestList(p, n)[i].nickname = down[p][n].from

(* "We have not yet received member information." (room_member.cpp:185):   *)
(* the assertion holds when the news of success arrives.                   *)
NoAssertionFails ==
    \A p \in Peers : \A n \in 1..Len(down[p]) :
        down[p][n].type = "JoinSuccess" => LatestList(p, n) # <<>>

(* What a member receives makes sense: the list comes before what refers   *)
(* to it.                                                                  *)
ListsArriveFirst == ChatFromListed /\ NoAssertionFails

(* A client that thinks it is in the room is, or the news of its removal   *)
(* is on its way (room_member.cpp:179-246).                                *)
JoinedIsMember ==
    \A c \in Clients :
        state[c] \in {"Joined", "Moderator"} /\ server[c] # NoPeer =>
            \/ MembersAt(server[c]) # {}
            \/ \E n \in 1..Len(down[server[c]]) :
                  down[server[c]][n].type \in {"End", "Disconnect"}

(* Once users and the network leave it alone, the room and its clients     *)
(* come to agree on who is in it, whatever connections broke, and however  *)
(* joins, kicks and disconnections overlapped (room.cpp:980-1005,          *)
(* room_member.cpp:221-246).                                               *)
Agreement ==
    \A c \in Clients :
        state[c] \in {"Joined", "Moderator"} <=> \E i \in 1..Len(members) : members[i].client = c

AgreesInTheEnd == <>[]Agreement
=============================================================================
