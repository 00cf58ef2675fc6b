SPECIFICATION FairSpec
CONSTANTS
  Requests = {r1, r2}
  ServerIds = {s1, s2}
  ContainerIds = {c1, c2}
  Users = {u1}
  Admins = {}
  Names = {n1}
  PortLo = 25565
  PortHi = 25565
  MaxServers = 2
  ProbeHost = FALSE
  HeldPorts = {}
  Handlers = {"create", "start", "stop"}
  Faults = {"docker"}
  None = None
CHECK_DEADLOCK FALSE
INVARIANTS TypeOK LiveContainersAreKnown
PROPERTIES RequestsEnd TransientStatusSettles
