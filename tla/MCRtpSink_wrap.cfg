SPECIFICATION Spec
CONSTANTS
  s1 = s1
  s2 = s2
  looper = looper
  binder = binder
  Looper = looper
  Binder <- Binders
  NumBuffers = 2
  SeqNumbers = 5
  SeqMod = 5
  MaxDropout = 3
  MaxMisorder = 2
  NoThread = NoThread
  NoSsrc = NoSsrc
  Ssrc <- OneSource
  Starts <- FirstIsZero
  MaxPos = 7
  MaxStray = 1
  MaxLate = 1
  MaxLoss = 1
  MaxRestarts = 0
  MaxMail = 2
PROPERTIES
  CorrectOrder
CHECK_DEADLOCK FALSE
