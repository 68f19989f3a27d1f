CONSTANTS
  Rules <- AcrossRules
  Contents <- RuleContents
  MaxPkts = 4
  MaxStep = 3
  MaxRoles <- Roles
  InOrder <- Stamped
SPECIFICATION Spec
CHECK_DEADLOCK FALSE
PROPERTY
  ResultsMatchMeaning
