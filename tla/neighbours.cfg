SPECIFICATION Spec
CONSTANTS
  Requests = {r1, r2}
  ServerIds = {s1, s2, s3}
  ContainerIds = {c1, c2, c3, c4}
  Users = {u1}
  Admins = {}
  Names = {n1}
  PortLo = 25565
  PortHi = 25568
  MaxServers = 1
  ProbeHost = TRUE
  HeldPorts = {25566}
  Handlers = {"create", "start", "wipe", "rename"}
  Faults = {}
  None = None
SYMMETRY Symmetry
CHECK_DEADLOCK FALSE
INVARIANTS RecordsPointHome CapOvershoot
PROPERTIES OthersUntouched PortsAreLeased
