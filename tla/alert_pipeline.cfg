SPECIFICATION Spec
CONSTANTS
  NotifyStepMinutes = 10
  MinDelayMinutes = 5
  AlertKinds = {"delay", "cancellation"}
  Pollers = {"worker", "loop"}
  Workers = {"worker"}
  Injectors = {}
  Boards = {"train"}
  Stubs = {}
  Readings <- MCReadings
  Switch <- MCEmailOnly
  ClaimLimit = 1
  FetchMayFail = TRUE
  MaxReports = 2
  MaxFaults = 1
  MaxClears = 1
INVARIANTS
  TypeOK
  OneHolder
  UnforcedMailOnce
  MarkedHasJob
  StrandedJobsAreFaults
  HistoryIsReal
PROPERTY
  QueuePromise
