CONSTANTS
  NumProc = 1
  Callers = {c1}
  MaxRules = 1
  MaxPublications = 1
  MaxRecursionDepth = 0
  SerializedCalls = TRUE
  StartupSettled = FALSE
SPECIFICATION FairSpec
PROPERTY EveryCallReturns
CHECK_DEADLOCK FALSE
