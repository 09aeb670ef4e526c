SPECIFICATION Spec
CONSTANTS
  p1 = p1
  p2 = p2
  p3 = p3
  p4 = p4
  None = None
  Problems <- MCTwoProblems
  Docker <- MCOneDocker
  Late <- MCLate
  MaxSteps = 1
  MaxSigints = 0
  DriverContinues = TRUE
INVARIANT ExitRecovers
CHECK_DEADLOCK FALSE
