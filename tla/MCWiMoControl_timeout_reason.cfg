SPECIFICATION Spec
CONSTANTS
  MaxSessions = 1
  Method = "SW"
  Audio = "NONE"
  Events <- SilenceOnly
INVARIANTS
  TimeoutIsReported
