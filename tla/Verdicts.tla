------------------------------ MODULE Verdicts ------------------------------
(* What an agent is shown and how its answer is judged: the scoring of     *)
(* answers, within a session and over two, the evals of mitigations, the   *)
(* onboarding evaluator and the shortening of the logs.  They keep no      *)
(* state in common, so a behaviour runs one of them, and the others stay   *)
(* where they began.                                                       *)
EXTENDS Scoring

CONSTANTS
  JudgedPool, JudgedSteps, JudgedSessions,       \* see Scoring: with the judge
  Mitigations, MaxPolls, MaxActions, MaxErrors,  \* see Mitigation
  Assessments, MaxRounds,                        \* see Onboarding
  Messages, MaxLines, Untimed, Window            \* see LogDedup

VARIABLES
  part,  \* the part that runs
  m_pc, m_problem, m_value, m_exists, m_mine, m_others, m_trace, m_normal,
  m_polls, m_actions, m_errors, m_verdict,
  o_pc, o_problem, o_fault, o_app, o_rounds, o_right, o_repaired, o_moved,
  o_response, o_success, o_broke, o_saved,
  raw, result, size

mitigationVars ==
  <<m_pc, m_problem, m_value, m_exists, m_mine, m_others, m_trace, m_normal,
    m_polls, m_actions, m_errors, m_verdict>>
onboardingVars ==
  <<o_pc, o_problem, o_fault, o_app, o_rounds, o_right, o_repaired, o_moved,
    o_response, o_success, o_broke, o_saved>>
logVars == <<raw, result, size>>
verdictVars == <<part, vars, mitigationVars, onboardingVars, logVars>>

-----------------------------------------------------------------------------
(* Sessions of one process, with the judge.                                *)
Judged == INSTANCE Scoring WITH
  Pool <- JudgedPool, MaxSteps <- JudgedSteps, MaxSessions <- JudgedSessions,
  Qualitative <- TRUE

Mitigation == INSTANCE Mitigation WITH
  Pool <- Mitigations, Qualitative <- TRUE,
  pc <- m_pc, problem <- m_problem, value <- m_value, exists <- m_exists,
  mine <- m_mine, others <- m_others, trace <- m_trace, normal <- m_normal, polls <- m_polls,
  actions <- m_actions, errors <- m_errors, verdict <- m_verdict

Onboarding == INSTANCE Onboarding WITH
  Pool <- Assessments,
  pc <- o_pc, problem <- o_problem, fault <- o_fault, app <- o_app,
  rounds <- o_rounds, right <- o_right, repaired <- o_repaired, moved <- o_moved,
  response <- o_response, success <- o_success, broke <- o_broke,
  saved <- o_saved

Log == INSTANCE LogDedup

ASSUME VerdictAssumption ==
  /\ ScoringAssumption /\ Judged!ScoringAssumption
  /\ Mitigation!MitigationAssumption
  /\ Onboarding!OnboardingAssumption
  /\ Log!LogAssumption

-----------------------------------------------------------------------------
(* A part that does not run begins in one way only.                        *)
AnyOf(S) == CHOOSE x \in S : TRUE

VerdictInit ==
  /\ part \in {"scoring", "sessions", "mitigation", "onboarding", "log"}
  /\ IF part = "scoring" THEN Init
     ELSE Judged!Init /\ (part # "sessions" => problem = AnyOf(JudgedPool))
  /\ Mitigation!Init /\ (part # "mitigation" => m_problem = AnyOf(Mitigations))
  /\ Onboarding!Init /\ (part # "onboarding" => o_problem = AnyOf(Assessments))
  /\ IF part = "log" THEN Log!Init ELSE raw = <<>> /\ result = <<>> /\ size = 1

Scorer(p) == part = p /\ UNCHANGED <<part, mitigationVars, onboardingVars, logVars>>
Evals == part = "mitigation" /\ UNCHANGED <<part, vars, onboardingVars, logVars>>
Evaluator == part = "onboarding" /\ UNCHANGED <<part, vars, mitigationVars, logVars>>
GetLogs == part = "log" /\ UNCHANGED <<part, vars, mitigationVars, onboardingVars>>

VerdictNext ==
  \/ Scorer("scoring") /\ Next
  \/ Scorer("sessions") /\ Judged!Next
  \/ Evals /\ Mitigation!Next
  \/ Evaluator /\ Onboarding!Next
  \/ GetLogs /\ Log!Next

VerdictSpec == VerdictInit /\ [][VerdictNext]_verdictVars

-----------------------------------------------------------------------------
(* Every part is in a state of its types.                                  *)
TypesOK ==
  /\ IF part = "scoring" THEN TypeOK ELSE Judged!TypeOK
  /\ Mitigation!TypeOK /\ Onboarding!TypeOK /\ Log!TypeOK

(* eval raises for a reason: what was submitted, a special token in the    *)
(* environment's text (quantitative.py:33) or, with it, the judge          *)
(* (qualitative.py:29).                                                    *)
RaisesForAReason ==
  IF part = "scoring" THEN RaisesExplained ELSE Judged!RaisesExplained

(* A mitigation succeeds only when what its eval looks at, the attribute   *)
(* or the pods, is in order (scale_pod_social_net.py:178).                 *)
SuccessIsEarned == Mitigation!SuccessIsEarned

(* A mitigation fails, and its eval raises, for a reason, which may be one *)
(* that has nothing to do with the cluster                                 *)
(* (scale_pod_social_net.py:200, mitigation.py:76).                        *)
NegativeHasReason == Mitigation!NegativeHasReason

(* The onboarding evaluator records what it has announced, unless the pods *)
(* of a mitigation have changed in between, and calls nothing invalid that *)
(* was right but a detection (onboarding_evaluator.py:189, assessment.py:33)*)
ToldTheTruth == Onboarding!ToldTheTruth

(* The log an agent is shown has lost its repetitions and nothing else     *)
(* (log_deduplication.py:121, .env.example:59).                            *)
TrimsRepetitionsOnly == Log!TrimsRepetitionsOnly

=============================================================================
