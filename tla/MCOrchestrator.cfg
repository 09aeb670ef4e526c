SPECIFICATION Spec
CONSTANTS
  p1 = p1
  p2 = p2
  p3 = p3
  p4 = p4
  None = None
  Problems <- MCProblems
  Docker <- MCDocker
  Late <- MCLate
  MaxSteps = 2
  MaxSigints = 3
  DriverContinues = FALSE
INVARIANTS
  TypeOK
  HandlerIffOwed
  SoleFault
  CleanBetween
  RecoverOnlyOwed
  ExitRecovers
  ScoredInPlace
PROPERTY KeepsLifecycle
CHECK_DEADLOCK FALSE
