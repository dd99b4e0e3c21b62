-------------------------------- MODULE MCRoom --------------------------------
(* Constants of the TLC runs of Room: a moderator c1 and another client,   *)
(* who may take the moderator's nickname and address.                      *)
EXTENDS Room

CONSTANTS c1, c2, n1, n2, m1, m2, a1, a2, g1

OwnAddresses == [c \in Clients |-> IF c = c1 THEN {a1} ELSE {a2}]

BanLists == {{}, {a2}}

Joining(c, n, m) ==
    [type |-> "JoinRequest", client |-> c, nickname |-> n, mac |-> m, fit |-> TRUE]
Wishes == [c \in Clients |->
    IF c = c1 THEN {Joining(c, n1, m1)}
    ELSE {Joining(c, n1, NoPreferredMac), Joining(c, n2, m1), Joining(c, n2, NoPreferredMac)}]

Chat == [type |-> "ChatMessage"]
Ban(n) == [type |-> "Moderate", nickname |-> n, ban |-> TRUE]
Kick(n) == [type |-> "Moderate", nickname |-> n, ban |-> FALSE]
Unban(a) == [type |-> "ModUnban", address |-> a]

Orders == [c \in Clients |->
    IF c = c1 THEN {Chat, Kick(n2), Ban(n1), Ban(n2), Unban(a2)} ELSE {Chat, Ban(n1)}]
=============================================================================
