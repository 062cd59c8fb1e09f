SPECIFICATION FairSpec
CONSTANTS
  MaxSessions = 1
  Method = "HS"
  Audio = "SW"
  Events <- AllEvents
INVARIANTS
  TypeOK
  StopLeavesNothing
  OneDeletes
  KickIsReported
PROPERTIES
  StopReturns
  EndIsTold
  StartIsDecided
