SPECIFICATION Spec
CONSTANTS
  MaxSessions = 2
  Method = "TS"
  Audio = "NONE"
  Events <- QuitOnly
INVARIANTS
  ThreadsOutliveNothing
  PointerIsOwn
  SuccessIsOfTheSession
