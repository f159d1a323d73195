SPECIFICATION Spec
CONSTANTS
  User = {"ana", "bob"}
  FirstAdmin = "ana"
  Password = {"p0", "p1"}
  FirstPassword = "p0"
  Patchers = {"e1", "e2"}
  Clients = {"r1"}
  Bodies <- MCRemovals
  MaxSessions = 2
  MaxPatches = 2
  MaxFaults = 0
INVARIANT
  AdminRemains
CHECK_DEADLOCK FALSE
