SPECIFICATION FairSpec
CONSTANTS
  Train = {"east"}
  Station <- MCStation
  Journey <- MCJourney
  Calls <- MCCalls
  Base <- MCBase
  Within <- MCWithin
  Shows <- MCShows
  Names <- MCNames
  Severities <- MCSeverities
  MinDelay <- MCMinDelay
  Corridor <- MCCorridor
  Identified = {"nice", "monaco"}
  Order <- OneTrain
  Windows <- MCWindows
  Token = {"old", "new"}
  Valid = {"new"}
  EnvProvider = "stub"
  Failures = {{}}
  Forms = {"gone"}
  Delays = {0}
  Ttl = 0
  MaxNow = 0
  MaxSkips = 0
  MaxChanges = 1
  MaxFaults = 2
INVARIANTS
  TypeOK
  QuotaCounts
  ResultIsOne
  CheckIsOfToken
PROPERTIES
  PollsGoOn
