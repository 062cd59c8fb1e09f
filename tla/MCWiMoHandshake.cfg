SPECIFICATION FairSpec
CONSTANTS
  a = a
  b = b
  All = All
  Devices <- TwoDevices
  Timings <- AllTimings
  NoSize = TRUE
  MaxRestarts = 2
INVARIANTS
  TypeOK
  FreshSession
  ServerIsDevice
  StepNeedsGrant
  VideoGoesToGranted
PROPERTIES
  PairingSpec
  Decides
