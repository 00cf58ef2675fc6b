SPECIFICATION Spec
CONSTANTS
  Requests = {r1, r2}
  ServerIds = {s1}
  ContainerIds = {c1, c2, c3}
  Users = {u1}
  Admins = {}
  Names = {n1}
  PortLo = 25565
  PortHi = 25565
  MaxServers = 1
  ProbeHost = FALSE
  HeldPorts = {}
  Handlers = {"create", "start", "stop", "delete", "wipe", "rename"}
  Faults = {"cancel", "docker", "crash", "rm"}
  None = None
SYMMETRY Symmetry
CHECK_DEADLOCK FALSE
INVARIANTS MutexHeldToPick
PROPERTIES StartNeverRemoves WorldSurvives CallsRunOut
