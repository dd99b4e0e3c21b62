CHECK_DEADLOCK FALSE
CONSTANTS
  NoThread = NoThread
  c1 = c1
  c2 = c2
  v1 = v1
  v2 = v2
  s1 = s1
  s2 = s2
  h1 = h1
  h2 = h2
  port = port
  srv = srv
  Clients = {c1, c2}
  Servers = {}
  Sessions = {h1}
  Ports = {srv}
  HlePorts = {srv}
  PortOf <- PortOfService
  Users <- UsersOfService
  MaxSessions <- Limits
  TerminateDuringAsync = TRUE
SPECIFICATION Spec
INVARIANTS
  WakeupFindsThread
