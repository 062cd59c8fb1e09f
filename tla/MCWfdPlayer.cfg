SPECIFICATION FairSpec
CONSTANTS
  Ids <- SessionIds
  Fds <- Descriptors
  NoSession = NoSession
  NoSink = NoSink
  Request <- Requests4
  MaxCSeq = 6
  MaxEvents = 2
  MaxReports = 1
  MaxStream = 1
INVARIANTS
  TypeOK
  ChecksHold
  TransportIsOwn
  NoLostInterrupt
PROPERTIES
  StopReturns
  LossIsTold
CHECK_DEADLOCK FALSE
