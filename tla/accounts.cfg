SPECIFICATION Spec
CONSTANTS
  User = {"ana", "bob"}
  FirstAdmin = "ana"
  Password = {"p0", "p1"}
  FirstPassword = "p0"
  Patchers = {"edit"}
  Clients = {"r1"}
  Bodies <- MCBodies
  MaxSessions = 2
  MaxPatches = 3
  MaxFaults = 1
INVARIANTS
  TypeOK
  AdminRemains
  DisableEndsSessions
CHECK_DEADLOCK FALSE
