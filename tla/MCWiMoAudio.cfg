SPECIFICATION FairSpec
CONSTANTS
  N = 4
  R = 2
  Sizes <- SomeSizes
  Methods = {"hs", "zte", "sw", "caller"}
  MaxValid = 4
INVARIANTS
  TypeOK
  ValidInRange
  CopiesInBounds
  SentInOrder
  HeldWhileUsed
PROPERTIES
  SendDataReturns
  UnInitReturns
