SPECIFICATION MCSpec
CONSTANTS
  Methods <- AllMethods
  Numbers = 6
INVARIANTS
  TypeOK
  WholeFrames
PROPERTIES
  SentInOrder
  VideoGoesOn
