CHECK_DEADLOCK FALSE
CONSTANTS
  NoThread = NoThread
  c1 = c1
  c2 = c2
  v1 = v1
  v2 = v2
  s1 = s1
  s2 = s2
  h1 = h1
  h2 = h2
  port = port
  srv = srv
  Clients = {c1, c2}
  Servers = {v1}
  Sessions = {s1, s2, h1, h2}
  Ports = {port, srv}
  HlePorts = {srv}
  PortOf <- PortOf4
  Users <- Users4
  MaxSessions <- Limits
  TerminateDuringAsync = FALSE
SPECIFICATION FairSpec
INVARIANTS
  TypeOK
  NoAssertionFails
  NoLostRequest
PROPERTIES
  ImplementsChannel
  HandlersAnswer
