SPECIFICATION Spec
CONSTANTS
  NumTargets = 3
  FaultTypes <- MCLibrary
  MaxFailures = 2
  Interruptible = TRUE
INVARIANTS
  TypeOK
  FailureSpoilsOneTarget
  LostOnlyHalfRedeployed
  InjectedIsFaulty
  LeftBehindExplained
CHECK_DEADLOCK FALSE
