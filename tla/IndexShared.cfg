CONSTANTS
  RulePkts <- SharedRules
  PubPkts <- NumberPackets
  MaxRules = 3
  Includes <- StringIncludes
SPECIFICATION Spec
CHECK_DEADLOCK FALSE
INVARIANTS
  TypeOK
  MatchesExactly
  ConstraintsShared
