CONSTANTS
  NaN = NaN
  TimeNow = 1000
  MAX_RULE_NUM = 2
  MAX_RECURSION_DEPTH = 2
  MAX_GEN = 6
  MAX_NUM_ATTR = 2
  MAX_RULE_FIELDS = 3
  MAX_NUM_AGGREGATES = 1
  MAX_NEGATIONS_NUM = 1
  MAX_PARAMETERS_NUM = 1
  Setups <- MCSetups
SPECIFICATION Spec
INVARIANTS
  TypeOK
  PagesExclusive
  DeviceCoherent
PROPERTY
  GPUResultsMatch
CHECK_DEADLOCK FALSE
