SPECIFICATION Spec
CONSTANTS
  s1 = s1
  s2 = s2
  looper = looper
  binder = binder
  Looper = looper
  Binder <- Binders
  NumBuffers = 2
  SeqNumbers = 5
  SeqMod = 5
  MaxDropout = 3
  MaxMisorder = 2
  NoThread = NoThread
  NoSsrc = NoSsrc
  Ssrc <- Sources2
  Starts <- FirstNumbers
  MaxPos = 5
  MaxStray = 2
  MaxLate = 5
  MaxLoss = 4
  MaxRestarts = 1
  MaxMail = 2
SYMMETRY SourcesAlike
INVARIANTS
  TypeOK
  NoMissedWork
  NothingNewDropped
PROPERTIES
  PlayerSpec
  SendingOrder
  AskedOnce
CHECK_DEADLOCK FALSE
