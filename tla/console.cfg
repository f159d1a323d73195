SPECIFICATION Spec
CONSTANTS
  MaxIp = 2
  MaxUser = 2
  Window = 2
  MaxBuckets = 3
  Here = "here"
  There = "there"
  Name = "name"
  Liaison = {"a", "b"}
  History <- MCHistory
  OnTime <- MCOnTime
  SummerFrom = 49
  SummerTo = 2017
  HeatHours = 90
  FirstDefault = "a"
  Now = 100
  MaxRequests = 2
  MaxChanges = 1
INVARIANTS
  TypeOK
  ScopeAgrees
  SkeletonEnds
  DetailIsOfDay
  CellTellsDay
  SignedInStays
  LoginLimited
