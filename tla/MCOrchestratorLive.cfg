SPECIFICATION FairSpec
CONSTANTS
  p1 = p1
  p2 = p2
  p3 = p3
  p4 = p4
  None = None
  Problems <- MCTwoProblems
  Docker <- MCOneDocker
  Late <- MCLate
  MaxSteps = 2
  MaxSigints = 2
  DriverContinues = FALSE
PROPERTY EventuallyRecovered
CHECK_DEADLOCK FALSE
