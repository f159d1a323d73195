SPECIFICATION Spec
CONSTANTS
  Journeys <- MCAllDay
  Departures = {1740}
  Delays = {0, 15}
  Period = 5
  Horizon = 1800
INVARIANT
  WatchAsSpecified
CHECK_DEADLOCK FALSE
