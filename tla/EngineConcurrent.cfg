CONSTANTS
  NumProc = 2
  Callers = {c1, c2}
  MaxRules = 2
  MaxPublications = 1
  MaxRecursionDepth = 0
  SerializedCalls = FALSE
  StartupSettled = TRUE
SPECIFICATION Spec
SYMMETRY CallerSymmetry
INVARIANT BarrierHolds
