CONSTANTS
  Rules <- CheckedRules
  Contents <- RuleContents
  MaxPkts = 4
  MaxStep = 2
  MaxRoles <- Roles
  InOrder <- Stamped
SPECIFICATION Spec
CHECK_DEADLOCK FALSE
INVARIANTS
  TypeOK
  StacksSorted
PROPERTIES
  ResultsMatchMeaning
  ResultsSound
  StatesTrimmed
