----------------------------- MODULE Onboarding -----------------------------
(***************************************************************************)
(* The onboarding assessment: a second session runner, which goes on until *)
(* a submission is valid and evaluates that submission once more at the    *)
(* end.  It has no critical sections, no exit handlers and no limit of     *)
(* rounds, and whatever raises in it ends the process.                     *)
(***************************************************************************)
EXTENDS Problems, Integers

CONSTANTS
  Pool,      \* the problems
  MaxRounds  \* bound on the rounds of the dialogue

OnboardingAssumption ==
  /\ \A p \in Pool : p.task \in Tasks
  /\ MaxRounds \in Nat

VARIABLES
  pc,        \* where the process is
  problem,   \* the problem
  fault,     \* "out", "in" or "recovered"
  app,       \* "none", "deployed" or "gone"
  rounds,    \* rounds of the dialogue
  right,     \* the last answer names the fault
  repaired,  \* the pods are in order, as an eval of mitigation sees them
  moved,     \* they have changed since the eval of the last submission
  response,  \* "text", "valid" or "invalid"
  success,   \* results["success"]: "unset", "yes" or "no"
  broke,     \* the eval of the last submission raised
  saved      \* the results have been written

pods == <<repaired, moved>>
vars == <<pc, problem, fault, app, rounds, right, pods, response, success, broke, saved>>

Ends == {"done", "dead"}

TypeOK ==
  /\ pc \in {"deploy", "inject", "workload", "ask", "env", "final", "save",
             "recover", "cleanup"} \union Ends
  /\ problem \in Pool
  /\ fault \in {"out", "in", "recovered"}
  /\ app \in {"none", "deployed", "gone"}
  /\ rounds \in 0 .. MaxRounds
  /\ {right, repaired, moved, broke, saved} \subseteq BOOLEAN
  /\ response \in {"text", "valid", "invalid"}
  /\ success \in {"unset", "yes", "no"}

Init ==
  /\ pc = "deploy"
  /\ problem \in Pool
  /\ fault = "out" /\ app = "none" /\ rounds = 0
  /\ right = FALSE /\ repaired = FALSE /\ moved = FALSE
  /\ response = "text" /\ success = "unset" /\ broke = FALSE /\ saved = FALSE

Goto(from, to) == pc = from /\ pc' = to

(* What raises ends the process: nothing is taken back.                    *)
Raises ==
  /\ pc \notin Ends
  /\ pc' = "dead"
  /\ fault' \in {fault, IF pc = "inject" THEN "in" ELSE fault}
  /\ UNCHANGED <<problem, app, rounds, right, pods, response, success, broke, saved>>

(* init_problem: OpenEBS, Prometheus and the application anew, the fault,  *)
(* the workload.                                                           *)
Deploy ==
  /\ Goto("deploy", "inject")
  /\ app' = "deployed"
  /\ UNCHANGED <<problem, fault, rounds, right, pods, response, success, broke, saved>>

Inject ==
  /\ Goto("inject", "workload")
  /\ fault' = "in"
  /\ UNCHANGED <<problem, app, rounds, right, pods, response, success, broke, saved>>

StartWorkload ==
  /\ Goto("workload", "ask")
  /\ UNCHANGED <<problem, fault, app, rounds, right, pods, response, success, broke, saved>>

(* The user types a command; some change the cluster.                      *)
AskAgent ==
  /\ Goto("ask", "env")
  /\ rounds < MaxRounds /\ rounds' = rounds + 1
  /\ UNCHANGED <<problem, fault, app, right, pods, response, success, broke, saved>>

Act ==
  /\ Goto("env", "ask")
  /\ response' = "text"
  /\ UNCHANGED <<problem, fault, app, rounds, right, pods, success, broke, saved>>

(* Whatever the user does, the pods come and go; after the second eval     *)
(* nothing looks at them any more.                                         *)
Drift ==
  /\ pc \notin {"save", "recover", "cleanup"} \union Ends
  /\ fault = "in" /\ problem.task = "mitigation"
  /\ repaired' = ~repaired /\ moved' = TRUE
  /\ UNCHANGED <<pc, problem, fault, app, rounds, right, response, success, broke, saved>>

(* results["success"] after an eval: a detection does not set it.          *)
Success(r) ==
  CASE problem.task = "detection" -> success
    [] problem.task = "mitigation" -> IF repaired THEN "yes" ELSE "no"
    [] OTHER -> IF r THEN "yes" ELSE "no"

(* ask_env with submit: eval at once, and what raises in it is an invalid  *)
(* submission; a valid one ends the dialogue.                              *)
Submit(r) ==
  /\ pc = "env"
  /\ right' = r /\ moved' = FALSE
  /\ \/ /\ success' = Success(r) /\ broke' = FALSE
        /\ response' = IF success' = "yes" THEN "valid" ELSE "invalid"
     \/ /\ success' \in {success, Success(r)} /\ broke' = TRUE
        /\ response' = "invalid"
  /\ pc' = IF response' = "valid" THEN "final" ELSE "ask"
  /\ UNCHANGED <<problem, fault, app, rounds, repaired, saved>>

(* Mutation of FinalEval: the results of the first one are kept.           *)
FinalEvalReused ==
  /\ Goto("final", "save")
  /\ UNCHANGED <<problem, fault, app, rounds, right, pods, response, success, broke, saved>>

(* The second eval, whose results are the ones that are kept.              *)
FinalEval ==
  /\ Goto("final", "save")
  /\ success' = Success(right)
  /\ UNCHANGED <<problem, fault, app, rounds, right, pods, response, broke, saved>>

Save ==
  /\ Goto("save", "recover")
  /\ saved' = TRUE
  /\ UNCHANGED <<problem, fault, app, rounds, right, pods, response, success, broke>>

Recover ==
  /\ Goto("recover", "cleanup")
  /\ fault' = "recovered"
  /\ UNCHANGED <<problem, app, rounds, right, pods, response, success, broke, saved>>

Cleanup ==
  /\ Goto("cleanup", "done")
  /\ app' = "gone"
  /\ UNCHANGED <<problem, fault, rounds, right, pods, response, success, broke, saved>>

Next ==
  \/ Deploy \/ Inject \/ StartWorkload
  \/ AskAgent \/ Act \/ Drift
  \/ \E r \in BOOLEAN : Submit(r)
  \/ FinalEval \/ Save \/ Recover \/ Cleanup
  \/ Raises

Spec == Init /\ [][Next]_vars

-----------------------------------------------------------------------------
(* What the results say: the success that had been announced, of a right   *)
(* answer; but for a mitigation, whose second eval looks at the pods once  *)
(* more: then what they are by that time, which is something else only if  *)
(* they have changed since the first one.                                  *)
Recorded ==
  /\ problem.task = "mitigation" =>
       (success = "yes" <=> repaired) /\ (moved \/ success = "yes")
  /\ problem.task # "mitigation" => success = "yes" /\ right

(* They are what is saved; and a detection, whose eval sets no "success",  *)
(* never comes that far.                                                   *)
RecordedAsAnnounced == saved => Recorded /\ problem.task # "detection"

(* "If your solution is incorrect, it will tell you" (assessment.py:33):   *)
(* what is called invalid was not right, or the pods not in order, when it *)
(* was submitted, unless eval raised; but for detections.                  *)
RightIsAccepted ==
  response = "invalid" /\ ~broke =>
    /\ problem.task = "mitigation" => ~repaired \/ moved
    /\ problem.task \notin {"detection", "mitigation"} => ~right

(* What the user is told of a solution is what the assessment goes by.     *)
ToldTheTruth == RecordedAsAnnounced /\ RightIsAccepted

-----------------------------------------------------------------------------
(* The inductive invariant: the dialogue ends with an answer, or pods,     *)
(* that an eval has found right, and the second eval looks at the same     *)
(* answer and at the pods as they are by then.                             *)
FoundRight ==
  /\ success = "yes"
  /\ problem.task = "mitigation" => repaired \/ moved
  /\ problem.task # "mitigation" => right

FinalIsRight ==
  /\ pc = "final" => FoundRight
  /\ pc = "save" \/ saved => Recorded
  /\ saved => pc \in {"recover", "cleanup"} \union Ends
  /\ problem.task = "detection" => success = "unset"

IInv == TypeOK /\ FinalIsRight /\ ToldTheTruth

=============================================================================
