SPECIFICATION Spec
CONSTANTS
  NotifyStepMinutes = 5
  MinDelayMinutes = 5
  AlertKinds = {"delay", "cancellation"}
  Pollers = {"loop"}
  Workers = {}
  Injectors = {}
  Boards = {"train"}
  Stubs = {}
  Readings <- MCDelayReadings
  Switch <- MCBothChannels
  ClaimLimit = 1
  FetchMayFail = TRUE
  MaxReports = 2
  MaxFaults = 0
  MaxClears = 1
PROPERTY
  LinkedDeliveriesCleared
