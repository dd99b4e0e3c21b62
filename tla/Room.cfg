CONSTANTS
  c1 = c1
  c2 = c2
  n1 = n1
  n2 = n2
  m1 = m1
  m2 = m2
  a1 = a1
  a2 = a2
  g1 = g1
  NoGame = NoGame
  NoPreferredMac = NoPreferredMac
  Clients = {c1, c2}
  Moderators = {c1}
  Addresses <- OwnAddresses
  Nicknames = {n1, n2}
  MacAddresses = {m1, m2}
  Games = {g1}
  InitialBans <- BanLists
  JoinRequests <- Wishes
  Requests <- Orders
  member_slots = 2
  MaxMoves = 3
  MaxSent = 1
  MaxDown = 1
SPECIFICATION FairSpec
CHECK_DEADLOCK FALSE
INVARIANTS
  MembersSound
  ViewsConverge
  ListsArriveFirst
  JoinedIsMember
PROPERTIES
  AgreesInTheEnd
