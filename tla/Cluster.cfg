SPECIFICATION ClusterSpec
CONSTANTS
  Apps = {"hotel", "social", "astronomy"}
  MaxProblems = 3
  MaxErrors = 2
  MaxPolls = 2
  Namespaces = {"hotel", "astronomy", "social"}
  NodePorts = {"social"}
  MetricPorts = 3
  MaxCalls = 6
  MaxEmpty = 1
  MaxMoves = 2
INVARIANTS
  TypesOK
  OwnApplication
  CleanSlate
  TelemetryInPlace
  OwnWorkload
  ForeignTracesExplained
  MissedOnce
PROPERTY
  CallsEnd
CHECK_DEADLOCK FALSE
