CONSTANTS
  NumProc = 2
  Callers = {c1, c2}
  MaxRules = 2
  MaxPublications = 1
  MaxRecursionDepth = 1
  SerializedCalls = TRUE
  StartupSettled = TRUE
SPECIFICATION FairSpec
INVARIANTS
  TypeOK
  BarrierHolds
  NoUseAfterFree
  ListenersGetAllResults
  RangesPartitionRules
  RuleExclusion
  RecursionBounded
PROPERTIES
  ImplementsAtomicEngine
  EveryCallReturns
  DestructionEnds
