CONSTANTS
  MaxLen = 5
  MaxTime = 4
SPECIFICATION FairSpec
INVARIANTS
  TypeOK
  InBounds
  SearchCorrect
PROPERTY
  Terminates
