SPECIFICATION FairSpec
CONSTANTS
  NotifyStepMinutes = 5
  MinDelayMinutes = 5
  AlertKinds = {"delay", "cancellation"}
  Pollers = {"worker"}
  Workers = {"worker"}
  Injectors = {"api"}
  Boards = {"train"}
  Stubs = {"stub"}
  Readings <- MCDelayReadings
  Switch <- MCEmailSwitched
  ClaimLimit = 1
  FetchMayFail = FALSE
  MaxReports = 2
  MaxFaults = 0
  MaxClears = 0
INVARIANTS
  DecisionFresh
  HistoryIsComplete
  EveryChannelTried
PROPERTY
  QueueDrains
