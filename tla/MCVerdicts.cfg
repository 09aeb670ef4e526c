SPECIFICATION VerdictSpec
CONSTANTS
  Pool <- MCPool
  Forms <- MCForms
  MaxSteps = 2
  MaxSessions = 1
  Qualitative = FALSE
  JudgedPool <- MCOfEachTask
  JudgedSteps = 1
  JudgedSessions = 2
  Mitigations <- MCMitigations
  MaxPolls = 2
  MaxActions = 2
  MaxErrors = 1
  Assessments <- MCOnboarding
  MaxRounds = 3
  Messages <- MCMessages
  MaxLines = 5
  Untimed = 5
  Window = 2
INVARIANTS
  TypesOK
  MarksMatchAnswer
  SubmissionDecides
  RaisesForAReason
  TruthfulWhileItLasts
  SuccessIsEarned
  NegativeHasReason
  ToldTheTruth
  TrimsRepetitionsOnly
CHECK_DEADLOCK FALSE
