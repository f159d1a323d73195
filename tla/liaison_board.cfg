SPECIFICATION FairSpec
CONSTANTS
  nice = nice
  menton = menton
  Id = {l1, l2}
  Route = {nice, menton}
  SeedRoute = nice
  Request = {r1}
  Body <- OtherRoute
  Train <- OneTrain
  Status = {"on_time", "unknown"}
  Scenarios <- MCScenarios
INVARIANTS
  TypeOK
  OneDefault
  HalfLiaisons
  CountedOnce
  NothingLeftBehind
PROPERTIES
  EditsSurviveRestart
  BoardCatchesUp
CHECK_DEADLOCK FALSE
