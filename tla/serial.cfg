SPECIFICATION Spec
CONSTANTS
  Requests = {r1}
  ServerIds = {s1, s2, s3}
  ContainerIds = {c1, c2, c3, c4, c5}
  Users = {u1}
  Admins = {}
  Names = {n1}
  PortLo = 25565
  PortHi = 25566
  MaxServers = 3
  ProbeHost = FALSE
  HeldPorts = {25566}
  Handlers = {"create", "start", "stop", "delete", "wipe", "rename"}
  Faults = {"docker"}
  None = None
SYMMETRY Symmetry
CHECK_DEADLOCK FALSE
INVARIANTS SerialAgreement
PROPERTIES WipedWorldIsGone
