SPECIFICATION Spec
CONSTANTS
  Journeys <- MCJourneys
  Departures <- MCDepartures
  Delays = {0, 15, 130}
  Period = 5
  Horizon = 4320
INVARIANTS
  TypeOK
  WatchFollowsSchedule
  LastWordSeen
CHECK_DEADLOCK FALSE
