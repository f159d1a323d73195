SPECIFICATION Spec
CONSTANTS
  Train = {"east", "west"}
  Station <- MCStation
  Journey <- MCJourney
  Calls <- MCCalls
  Base <- MCBase
  Within <- MCWithin
  Shows <- MCShows
  Names <- MCNames
  Severities <- MCSeverities
  MinDelay <- MCMinDelay
  Corridor <- MCCorridor
  Identified = {"nice", "monaco"}
  Order <- MCOrder
  Windows <- MCAlways
  Token = {"new"}
  Valid = {"new"}
  EnvProvider = "navitia"
  Failures <- MCFailures
  Forms = {"status", "noReal", "impact", "named", "message", "gone"}
  Delays = {5}
  Ttl = 1
  MaxNow = 3
  MaxSkips = 2
  MaxChanges = 0
  MaxFaults = 1
PROPERTIES
  NoFalseAlarm
INVARIANTS
  NothingMissed
  RightWay
  BoardIsAnnounced
