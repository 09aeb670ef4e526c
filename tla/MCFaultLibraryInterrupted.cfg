SPECIFICATION Spec
CONSTANTS
  NumTargets = 1
  FaultTypes <- MCLibrary
  MaxFailures = 0
  Interruptible = TRUE
INVARIANT NothingLeftBehind
CHECK_DEADLOCK FALSE
