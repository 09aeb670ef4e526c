----------------------------- MODULE Mitigation -----------------------------
(***************************************************************************)
(* The evals of the mitigation problems.  The agent works on the cluster   *)
(* and submits; eval then counts the tokens of the trace and asks the      *)
(* judge, as in every task, reads the attribute the fault had changed, if  *)
(* it looks at it at all, and lists the pods of the namespace, while the   *)
(* kubelets go on.  The evals are copies of each other that differ in what *)
(* they guard and compare; Problems gives each family its kind of check.   *)
(***************************************************************************)
EXTENDS Problems, Integers, Sequences, FiniteSetsExt

CONSTANTS
  Pool,        \* the mitigation problems to choose from
  MaxPolls,    \* polls of wait_for_ready (12 in the code: 60 s, every 5 s)
  MaxActions,  \* bound on what the agent does to the cluster
  MaxErrors,   \* bound on the API calls that fail during eval
  Qualitative  \* qualitative_eval of the configuration

MitigationAssumption ==
  /\ \A p \in Pool : p.task = "mitigation"
  /\ MaxPolls \in Nat \ {0}
  /\ MaxActions \in Nat
  /\ MaxErrors \in Nat
  /\ Qualitative \in BOOLEAN

-----------------------------------------------------------------------------
(* The state of a pod, each of one container.                              *)
PodStates ==
  {"unscheduled", "creating", "pulling", "starting", "ready",
   "error", "completed", "crashLoop"}

(* What a kubelet, or the scheduler, may do with a pod.                    *)
Moves ==
  {<<"unscheduled", "creating">>, <<"creating", "starting">>,
   <<"creating", "pulling">>, <<"pulling", "creating">>,
   <<"starting", "ready">>, <<"starting", "error">>, <<"ready", "error">>,
   <<"ready", "completed">>, <<"ready", "starting">>, <<"error", "crashLoop">>,
   <<"completed", "crashLoop">>, <<"crashLoop", "starting">>}

(* The fields of status.container_statuses the evals look at.  A pod that  *)
(* no node has taken has none.                                             *)
HasStatuses(s) == s # "unscheduled"

Waiting(s) ==
  CASE s = "creating" -> "ContainerCreating"
    [] s = "pulling" -> "ImagePullBackOff"
    [] s = "crashLoop" -> "CrashLoopBackOff"
    [] OTHER -> "no"

Terminated(s) ==
  CASE s = "error" -> "Error" [] s = "completed" -> "Completed" [] OTHER -> "no"

Ready(s) == s = "ready"

-----------------------------------------------------------------------------
(* A container that spoils the verdict.  wrong_bin_usage has its own list  *)
(* of reasons and, for a container that waits, looks at nothing else.      *)
Abnormal(check, s) ==
  IF check = "binary" /\ Waiting(s) # "no"
  THEN Waiting(s) \in {"CrashLoopBackOff", "Error", "ImagePullBackOff", "ErrImagePull"}
  ELSE \/ Waiting(s) = "CrashLoopBackOff"
       \/ Terminated(s) \notin {"no", "Completed"}
       \/ ~Ready(s)

(* Some evals skip a pod without container statuses; in the others the     *)
(* loop over None raises.                                                  *)
Guarded(check) == check \in {"port", "exists", "guarded"}

(* The loop over the pods in the order of the list.  It breaks after a pod *)
(* when the verdict is negative by then, which it may be from the start.   *)
Scan(check, pods, normal) ==
  LET Raises(i) == ~HasStatuses(pods[i]) /\ ~Guarded(check)
      Stop(i)   == \/ ~normal
                   \/ Raises(i)
                   \/ HasStatuses(pods[i]) /\ Abnormal(check, pods[i])
      stops     == {i \in DOMAIN pods : Stop(i)}
  IN  IF stops = {} THEN IF normal THEN "success" ELSE "failure"
      ELSE IF Raises(Min(stops)) THEN "raised" ELSE "failure"

(* The test of wait_for_ready.                                             *)
AllReady(pods) == pods # <<>> /\ \A i \in DOMAIN pods : Ready(pods[i])

-----------------------------------------------------------------------------
VARIABLES
  pc,        \* "dialogue", "common", "eval", "read" or "done"
  problem,   \* the problem
  value,     \* of the attribute the fault is about: "faulty", "right", "other"
  exists,    \* the object that has the attribute exists
  mine,      \* the pods of the faulty service
  others,    \* a pod listed before them and one listed after them
  trace,     \* of the session: "plain", with a "special" token, or "unjudged"
  normal,    \* all_normal, as far as the attribute is concerned
  polls,     \* polls of wait_for_ready
  actions,   \* what the agent has done, bounded
  errors,    \* API calls that failed, bounded
  verdict    \* "none", "success", "failure" or "raised"

cluster == <<value, exists, mine, others>>
vars == <<pc, problem, cluster, trace, normal, polls, actions, errors, verdict>>

Check == problem.family.check
List == <<others[1]>> \o mine \o <<others[2]>>

TypeOK ==
  /\ pc \in {"dialogue", "common", "eval", "read", "done"}
  /\ problem \in Pool
  /\ value \in {"faulty", "right", "other"}
  /\ exists \in BOOLEAN
  /\ mine \in Seq(PodStates) /\ Len(mine) \in 0 .. 2
  /\ others \in [1 .. 2 -> PodStates]
  /\ trace \in {"plain", "special", "unjudged"}
  /\ normal \in BOOLEAN
  /\ polls \in 0 .. MaxPolls - 1
  /\ actions \in 0 .. MaxActions
  /\ errors \in 0 .. MaxErrors
  /\ verdict \in {"none", "success", "failure", "raised"}

(* Pods of the faulty service under a value of the attribute.              *)
Replicas(p, v) ==
  IF p.family.check = "replicas"
  THEN CASE v = "faulty" -> 0 [] v = "right" -> 1 [] v = "other" -> 2
  ELSE 1

(* The fault is in, and its pods are what it makes of them.                *)
Init ==
  /\ pc = "dialogue"
  /\ problem \in Pool
  /\ value = "faulty" /\ exists = TRUE
  /\ mine = [i \in 1 .. Replicas(problem, "faulty") |->
               IF Check = "exists" THEN "unscheduled" ELSE "ready"]
  /\ others = <<"ready", "ready">>
  /\ trace = "plain" /\ normal = TRUE
  /\ polls = 0 /\ actions = 0 /\ errors = 0
  /\ verdict = "none"

Acts ==
  /\ pc = "dialogue" /\ actions < MaxActions
  /\ actions' = actions + 1
  /\ UNCHANGED <<pc, problem, trace, normal, polls, errors, verdict>>

(* The agent gives the attribute a value; unless it is a service's, the    *)
(* pods are replaced.                                                      *)
Change(v) ==
  /\ exists /\ Acts
  /\ value' = v
  /\ mine' = IF Check = "port" THEN mine
             ELSE [i \in 1 .. Replicas(problem, v) |-> "unscheduled"]
  /\ UNCHANGED <<exists, others>>

(* The agent deletes the object.                                           *)
Delete ==
  /\ exists /\ Acts
  /\ exists' = FALSE
  /\ mine' = IF Check = "port" THEN mine ELSE <<>>
  /\ UNCHANGED <<value, others>>

(* The agent deletes another service's pod, and its controller makes one.  *)
Restart(i) ==
  /\ Acts
  /\ others' = [others EXCEPT ![i] = "unscheduled"]
  /\ UNCHANGED <<value, exists, mine>>

(* The cluster goes on until the verdict.                                  *)
Stuck(s) == Check = "exists" /\ value = "faulty" /\ s = "unscheduled"

Kubelet ==
  /\ pc # "done"
  /\ \/ \E i \in DOMAIN mine : \E s \in PodStates :
          /\ <<mine[i], s>> \in Moves /\ ~Stuck(mine[i])
          /\ mine' = [mine EXCEPT ![i] = s]
          /\ UNCHANGED others
     \/ \E i \in 1 .. 2 : \E s \in PodStates :
          /\ <<others[i], s>> \in Moves
          /\ others' = [others EXCEPT ![i] = s]
          /\ UNCHANGED mine
  /\ UNCHANGED <<pc, problem, value, exists, trace, normal, polls, actions, errors,
                 verdict>>

(* What the environment answers may have a special token of the tokenizer  *)
(* in it.                                                                  *)
AnswerSpecial ==
  /\ pc = "dialogue"
  /\ trace' = "special"
  /\ UNCHANGED <<pc, problem, cluster, normal, polls, actions, errors, verdict>>

Submit ==
  /\ pc = "dialogue"
  /\ pc' = "common"
  /\ UNCHANGED <<problem, cluster, trace, normal, polls, actions, errors, verdict>>

-----------------------------------------------------------------------------
Ends(v) ==
  /\ pc' = "done"
  /\ verdict' = v
  /\ UNCHANGED <<problem, cluster, normal, polls, actions>>

(* common_eval, which every eval calls first and none of them in a try:    *)
(* counting the tokens raises at a special one, and the judge may raise.   *)
CommonEval ==
  /\ pc = "common"
  /\ UNCHANGED errors
  /\ \/ /\ trace = "plain" /\ pc' = "eval"
        /\ UNCHANGED <<problem, cluster, trace, normal, polls, actions, verdict>>
     \/ trace = "special" /\ Ends("raised") /\ UNCHANGED trace
     \/ trace = "plain" /\ Qualitative /\ Ends("raised") /\ trace' = "unjudged"

(* A call of the API fails: the exception leaves eval, but for the one     *)
(* that wrong_bin_usage catches.                                           *)
CallRaises ==
  /\ errors < MaxErrors
  /\ errors' = errors + 1
  /\ UNCHANGED trace
  /\ \/ pc = "eval" /\ Check # "wait" /\ Ends("raised")
     \/ pc = "read" /\ Ends(IF Check = "binary" THEN "failure" ELSE "raised")

(* The deployment's replicas, wanted and available.                        *)
Available == Cardinality({i \in DOMAIN mine : Ready(mine[i])})

(* Mutation of ReplicasRight: only the available ones count.               *)
ReplicasAvailable == Available >= 1

ReplicasRight == value = "right" /\ Available = 1

(* The evals that read the attribute first.  An object that is gone raises *)
(* (the comparison with None in scale_pod is never reached).               *)
ReadPort ==
  /\ pc = "eval" /\ Check = "port"
  /\ IF ~exists THEN Ends("raised") /\ UNCHANGED errors
     ELSE IF value # "right" THEN Ends("failure") /\ UNCHANGED errors
     ELSE /\ pc' = "read"
          /\ UNCHANGED <<problem, cluster, normal, polls, actions, errors, verdict>>
  /\ UNCHANGED trace

ReadReplicas ==
  /\ pc = "eval" /\ Check = "replicas"
  /\ IF ~exists THEN Ends("raised") /\ UNCHANGED errors
     ELSE /\ pc' = "read"
          /\ normal' = ReplicasRight
          /\ UNCHANGED <<problem, cluster, polls, actions, errors, verdict>>
  /\ UNCHANGED trace

ScanAfterRead ==
  /\ pc = "read" /\ Check \in {"port", "replicas"}
  /\ Ends(Scan(Check, List, normal))
  /\ UNCHANGED <<errors, trace>>

(* assign_non_existent_node asks first whether a pod of the service is     *)
(* listed at all.                                                          *)
ScanExisting ==
  /\ pc = "eval" /\ Check = "exists"
  /\ Ends(IF mine = <<>> THEN "failure" ELSE Scan(Check, List, TRUE))
  /\ UNCHANGED <<errors, trace>>

(* The evals that look at the pods and at nothing else.                    *)
ScanOnly ==
  /\ pc = "eval" /\ Check \in {"pods", "guarded"}
  /\ Ends(Scan(Check, List, TRUE))
  /\ UNCHANGED <<errors, trace>>

(* wrong_bin_usage: the pods first, then the command of the deployment.    *)
ScanThenRead ==
  /\ pc = "eval" /\ Check = "binary"
  /\ UNCHANGED <<errors, trace>>
  /\ IF Scan(Check, List, TRUE) # "success" THEN Ends(Scan(Check, List, TRUE))
     ELSE /\ pc' = "read"
          /\ UNCHANGED <<problem, cluster, normal, polls, actions, verdict>>

ReadCommand ==
  /\ pc = "read" /\ Check = "binary"
  /\ Ends(IF exists /\ value = "right" THEN "success" ELSE "failure")
  /\ UNCHANGED <<errors, trace>>

(* Mutation of Poll: the limit is tested before the pods are.              *)
PollShort ==
  /\ pc = "eval" /\ Check = "wait"
  /\ UNCHANGED <<errors, trace>>
  /\ IF polls = MaxPolls - 1 THEN Ends("failure")
     ELSE IF AllReady(List) THEN Ends("success")
     ELSE /\ polls' = polls + 1
          /\ UNCHANGED <<pc, problem, cluster, normal, actions, verdict>>

(* misconfig_app and the generated problems: wait_for_ready, whose timeout *)
(* is a failure and whose polls may fail themselves.                       *)
Poll ==
  /\ pc = "eval" /\ Check = "wait"
  /\ UNCHANGED trace
  /\ \E fails \in BOOLEAN :
       /\ fails => errors < MaxErrors
       /\ errors' = IF fails THEN errors + 1 ELSE errors
       /\ IF ~fails /\ AllReady(List)
          THEN Ends("success")
          ELSE IF polls = MaxPolls - 1 THEN Ends("failure")
          ELSE /\ polls' = polls + 1
               /\ UNCHANGED <<pc, problem, cluster, normal, actions, verdict>>

Evaluate ==
  \/ CommonEval
  \/ CallRaises
  \/ ReadPort
  \/ ReadReplicas
  \/ ScanAfterRead
  \/ ScanExisting
  \/ ScanOnly
  \/ ScanThenRead
  \/ ReadCommand
  \/ Poll

Next ==
  \/ \E v \in {"right", "other"} : Change(v)
  \/ Delete
  \/ \E i \in 1 .. 2 : Restart(i)
  \/ Kubelet
  \/ AnswerSpecial
  \/ Submit
  \/ Evaluate

Spec == Init /\ [][Next]_vars

-----------------------------------------------------------------------------
(* Where an eval looks at the attribute, a success means that it is right; *)
(* where it looks at no more than the pods, that they are all ready.       *)
SuccessMeansRepaired ==
  verdict = "success" /\ Check \in {"port", "replicas", "binary"}
    => exists /\ value = "right"

(* A success means that every pod is ready, but for the pods a guard skips *)
(* and, in wrong_bin_usage, those that changed since they were listed.     *)
SuccessMeansReady ==
  verdict = "success" /\ Check # "binary" =>
    /\ Check \in {"pods", "replicas", "wait"} => AllReady(List)
    /\ \A i \in DOMAIN List : HasStatuses(List[i]) => Ready(List[i])

(* A success is one of the cluster that eval has looked at.                *)
SuccessIsEarned == SuccessMeansRepaired /\ SuccessMeansReady

(* A negative verdict has a reason the agent could have seen: a pod that   *)
(* is not ready, a wrong attribute or a missing object, or an error.       *)
FailureHasReason ==
  verdict = "failure" =>
    \/ ~AllReady(List)
    \/ value # "right" \/ ~exists
    \/ errors > 0
    \/ Check = "replicas" /\ ~normal

(* eval raises, and the session is without a verdict, only for a trace     *)
(* with a special token, or on which the judge has raised, for a pod that  *)
(* waits for a node in an eval without the guard, for an object that is    *)
(* gone, or for a failing call.                                            *)
RaiseHasReason ==
  verdict = "raised" =>
    \/ trace # "plain"
    \/ errors > 0
    \/ ~exists /\ Check \in {"port", "replicas"}
    \/ ~Guarded(Check) /\ \E i \in DOMAIN List : ~HasStatuses(List[i])

(* A session that common_eval could not take has no verdict, whatever the  *)
(* cluster is like, and every other that does not succeed has its reason.  *)
NegativeHasReason ==
  /\ FailureHasReason /\ RaiseHasReason
  /\ verdict \in {"success", "failure"} => trace = "plain"

-----------------------------------------------------------------------------
(* The inductive invariant: what has been read while pods are still to be  *)
(* listed, which eval may have found an attribute wrong by then, when pods *)
(* are missing, and that nothing comes after a verdict.                    *)
ReadIsRight ==
  pc = "read" =>
    /\ Check \in {"port", "replicas", "binary"}
    /\ Check = "port" => exists /\ value = "right"
    /\ Check = "replicas" => exists /\ (normal => value = "right")

AttributeOf == ~normal => Check = "replicas"

PodsOf == Check = "exists" /\ mine = <<>> => ~exists

VerdictLast ==
  /\ verdict # "none" => pc = "done"
  /\ verdict \in {"success", "failure"} \/ pc \in {"eval", "read"} => trace = "plain"

IInv ==
  /\ TypeOK /\ ReadIsRight /\ AttributeOf /\ PodsOf /\ VerdictLast
  /\ SuccessIsEarned /\ NegativeHasReason

=============================================================================
