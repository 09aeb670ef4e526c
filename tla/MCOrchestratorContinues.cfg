SPECIFICATION Spec
CONSTANTS
  p1 = p1
  p2 = p2
  p3 = p3
  p4 = p4
  None = None
  Problems <- MCThreeProblems
  Docker <- MCOneDocker
  Late <- MCLate
  MaxSteps = 2
  MaxSigints = 1
  DriverContinues = TRUE
INVARIANT
  ScoredInPlace
CHECK_DEADLOCK FALSE
