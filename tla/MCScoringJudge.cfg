SPECIFICATION Spec
CONSTANTS
  Pool <- MCOfEachTask
  Forms <- MCForms
  MaxSteps = 1
  MaxSessions = 2
  Qualitative = TRUE
PROPERTY JudgedOnOwnTrace
CHECK_DEADLOCK FALSE
