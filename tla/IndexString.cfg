CONSTANTS
  RulePkts <- StringRules
  PubPkts <- StringPackets
  MaxRules = 2
  Includes <- StringIncludes
SPECIFICATION Spec
CHECK_DEADLOCK FALSE
INVARIANT
  MatchesExactly
