SPECIFICATION Spec
CONSTANTS
  Ids <- SessionIds
  Fds <- Descriptors
  NoSession = NoSession
  NoSink = NoSink
  Request <- Requests4
  MaxCSeq = 6
  MaxEvents = 2
  MaxReports = 1
  MaxStream = 1
INVARIANT RepliesAreSent
CHECK_DEADLOCK FALSE
