SPECIFICATION Spec
CONSTANTS
  NumTargets = 1
  FaultTypes <- MCGenerated
  MaxFailures = 0
  Interruptible = FALSE
INVARIANT InjectedIsFaulty
CHECK_DEADLOCK FALSE
