SPECIFICATION ProgramSpec
CONSTANTS
  Requests = {"r1", "r2"}
  Apps = {"hotel", "social"}
  AtOnce = 2
  Clients = {"one", "two"}
  Payloads = {"first", "second"}
  Model <- TwoModels
  Threads = {"one", "two", "three"}
  ThreadPayloads = {"first"}
  ThreadModel <- OneModel
  MaxAlive = 3
  Missing = "missing"
  Hosts <- TwoHosts
  MaxPolls = 2
  MaxRuns = 4
  MaxSetups = 2
INVARIANTS
  TypesOK
  ResultsOfOwnProblem
  LeftBehindExplained
  WholeCache
  OtherModelExplained
  ReportsAreTrue
PROPERTIES
  PresentMachinesOnly
  ProgramsEnd
CHECK_DEADLOCK FALSE
