---------------------------- MODULE FaultLibrary ----------------------------
(***************************************************************************)
(* The fault library under generators/fault, and the life of one fault:    *)
(* injection and registration, what an agent does to the system, recovery, *)
(* and the second recovery that atexit runs when the first one raised.     *)
(*                                                                         *)
(* Each fault type edits one attribute of each target service by a short   *)
(* script of cluster commands.  A command can go wrong in two ways.  It    *)
(* raises out of the script; or, since KubeCtl.exec_command returns the    *)
(* error text like any output and KubeCtl.patch_service only prints an     *)
(* ApiException, it fails and the script goes on.                          *)
(*                                                                         *)
(* redeploy_without_pv, which deletes a namespace, and no_op, which does   *)
(* nothing, are not of this form.  The driver is the one of Orchestrator   *)
(* that ends with the first exception.                                     *)
(***************************************************************************)
EXTENDS Integers, Sequences, FiniteSets

CONSTANTS
  NumTargets,    \* length of the list of target services
  FaultTypes,    \* the fault types to choose from
  MaxFailures,   \* bound on the commands the cluster lets fail
  Interruptible  \* one Ctrl-C may be struck at the terminal

ASSUME FaultLibraryAssumption ==
  /\ NumTargets \in Nat \ {0}
  /\ MaxFailures \in Nat
  /\ Interruptible \in BOOLEAN

(* What the attribute of an object may be: as deployed, as the fault makes *)
(* it, some other value; or the object does not exist.                     *)
Values == {"good", "bad", "own", "gone"}

Ops == {"inject", "recover"}

-----------------------------------------------------------------------------
(* The library.  A "set" writes its value over any other; a "swap" only    *)
(* replaces the opposite value, as 9999 replaces 9090; a "create" writes   *)
(* it even where nothing was.  The scripts name their commands by how they *)
(* behave: get, delete, apply, run and restart are child processes; fetch, *)
(* list, patch and replace are API calls.                                  *)

Fault(script, inject, recover) ==
  [script |-> script, inject |-> inject, recover |-> recover]

Patch == <<"get", "patch">>
FlagPatch == <<"get", "patch", "restart">>
Command == <<"run">>
Replace == <<"fetch", "replace">>
InPods == <<"list", "run", "restart">>
Upgrade == <<"run", "list", "restart">>

(* Mutation of Redeploy: applied before the old object is deleted.         *)
RedeployInverted == <<"get", "apply", "delete">>

(* Mutation of Redeploy: kubectl create.                                   *)
RedeployByCreate == <<"get", "delete", "create">>

Redeploy == <<"get", "delete", "apply">>

misconfig_k8s == Fault(Patch, "swap", "swap")
scale_pods_to_zero == Fault(Command, "set", "set")
assign_to_non_existent_node == Fault(Redeploy, "set", "set")
wrong_bin_usage == Fault(Redeploy, "swap", "swap")
container_stop == Fault(Replace, "set", "set")
model_misconfig == Fault(Command, "swap", "swap")
revoke_auth == Fault(InPods, "swap", "swap")
storage_user_unregistered == Fault(InPods, "set", "set")
misconfig_app == Fault(Replace, "set", "set")
auth_miss_mongodb == Fault(Upgrade, "create", "create")
feature_flag == Fault(FlagPatch, "set", "set")
chaos_experiment == Fault(Command, "set", "set")
disk_woreout == Fault(Command, "set", "set")

Library ==
  [misconfig_k8s |-> misconfig_k8s,
   scale_pods_to_zero |-> scale_pods_to_zero,
   assign_to_non_existent_node |-> assign_to_non_existent_node,
   wrong_bin_usage |-> wrong_bin_usage,
   container_stop |-> container_stop,
   model_misconfig |-> model_misconfig,
   revoke_auth |-> revoke_auth,
   storage_user_unregistered |-> storage_user_unregistered,
   misconfig_app |-> misconfig_app,
   auth_miss_mongodb |-> auth_miss_mongodb,
   feature_flag |-> feature_flag,
   chaos_experiment |-> chaos_experiment,
   disk_woreout |-> disk_woreout]

(* The types whose effect is not carried by an object that may be missing. *)
Unattached == {"chaos_experiment", "disk_woreout"}

(* The types without a loop: one object, edited once, whatever the targets.*)
AtOnce == Unattached \union {"feature_flag"}

Objects(t) == IF t \in AtOnce THEN 1 .. 1 ELSE 1 .. NumTargets

(* Mutation of Reach: the loop stops short of the last target.             *)
ReachShort(t) == IF t \in DOMAIN Library THEN Cardinality(Objects(t)) - 1 ELSE 0

(* How far the loop gets: a type without a method of its name is only      *)
(* reported as unknown.                                                    *)
Reach(t) == IF t \in DOMAIN Library THEN Cardinality(Objects(t)) ELSE 0

(* What an operation means to leave where it found v.                      *)
Edit(t, o, v) ==
  LET from == IF o = "inject" THEN "good" ELSE "bad"
      to   == IF o = "inject" THEN "bad" ELSE "good"
      reached == CASE Library[t][o] = "set" -> Values \ {"gone"}
                   [] Library[t][o] = "swap" -> {from, to}
                   [] Library[t][o] = "create" -> Values
  IN  IF v \in reached THEN to ELSE v

-----------------------------------------------------------------------------
VARIABLES
  type,        \* the problem's fault type
  res,         \* the attribute of each object
  phase,       \* where the process is
  op,          \* the operation that runs, or the last one
  at,          \* the object the loop is at
  script,      \* commands of the script still to run, <<>> at the loop's head
  seen,        \* what was read and edited, about to be written
  registered,  \* exit_cleanup_fault is registered
  struck,      \* the Ctrl-C was struck
  before,      \* res when the operation began
  failures,    \* commands of the operation that failed silently
  spent        \* commands that failed in all

loop == <<at, script, seen>>
count == <<failures, spent>>
vars == <<type, res, phase, op, loop, registered, struck, before, count>>

Running == {"injecting", "recovering", "exitRecovering"}
Returned == {"register", "unregister", "exitRecovered"}
Phases == {"start", "dialogue", "exit", "over"} \union Running \union Returned

TypeOK ==
  /\ type \in FaultTypes
  /\ res \in [Objects(type) -> Values]
  /\ phase \in Phases
  /\ op \in Ops
  /\ at \in 1 .. NumTargets + 1
  /\ script \in Seq({"get", "fetch", "list", "delete", "apply", "run",
                     "patch", "replace", "restart"})
  /\ seen \in Values
  /\ registered \in BOOLEAN
  /\ struck \in BOOLEAN
  /\ before \in [Objects(type) -> Values]
  /\ spent \in 0 .. MaxFailures + 1
  /\ failures \in 0 .. spent

Init ==
  /\ type \in FaultTypes
  /\ res = [i \in Objects(type) |-> "good"]
  /\ phase = "start"
  /\ op = "inject"
  /\ at = 1 /\ script = <<>> /\ seen = "good"
  /\ registered = FALSE
  /\ struck = FALSE
  /\ before = res
  /\ failures = 0 /\ spent = 0

-----------------------------------------------------------------------------
(* An operation: FaultInjector._inject or _recover finds the method of the *)
(* type, which loops over the targets and runs the script on each.         *)

Begin(from, to, o) ==
  /\ phase = from /\ phase' = to
  /\ op' = o
  /\ at' = 1
  /\ before' = res
  /\ failures' = 0
  /\ UNCHANGED <<type, res, script, seen, struck, spent>>

Take ==
  /\ phase \in Running
  /\ script = <<>> /\ at =< Reach(type)
  /\ script' = Library[type].script
  /\ UNCHANGED <<type, res, phase, op, at, seen, registered, struck, before, count>>

(* The script goes on after its first command.                             *)
Advance ==
  /\ script' = Tail(script)
  /\ at' = IF Len(script) = 1 THEN at + 1 ELSE at
  /\ UNCHANGED <<type, phase, op, registered, before>>

(* The exception leaves the operation: what it had done stays.             *)
Raise ==
  /\ phase' = IF phase = "recovering" THEN "exit" ELSE "over"
  /\ script' = <<>>
  /\ UNCHANGED <<type, res, op, at, seen, registered, before>>

Reaches(commands) ==
  phase \in Running /\ script # <<>> /\ Head(script) \in commands

Read ==
  /\ Reaches({"get", "fetch"}) /\ res[at] # "gone"
  /\ seen' = Edit(type, op, res[at])
  /\ Advance
  /\ UNCHANGED <<res, struck, count>>

(* The error text is no JSON and no deployment; the API raises.            *)
ReadMissing ==
  /\ Reaches({"get", "fetch"}) /\ res[at] = "gone"
  /\ Raise
  /\ UNCHANGED <<struck, count>>

Delete ==
  /\ Reaches({"delete"})
  /\ res' = [res EXCEPT ![at] = "gone"]
  /\ Advance
  /\ UNCHANGED <<seen, struck, count>>

Write ==
  /\ Reaches({"apply", "patch", "replace"})
  /\ res' = [res EXCEPT ![at] = seen]
  /\ Advance
  /\ UNCHANGED <<seen, struck, count>>

Run ==
  /\ Reaches({"run"})
  /\ res' = [res EXCEPT ![at] = Edit(type, op, res[at])]
  /\ Advance
  /\ UNCHANGED <<seen, struck, count>>

(* Listing the pods, restarting them: no attribute changes.                *)
ListOrRestart ==
  /\ Reaches({"list", "restart"})
  /\ Advance
  /\ UNCHANGED <<res, seen, struck, count>>

Raising == {"get", "fetch", "list", "replace"}
Silent == {"delete", "apply", "run", "patch", "restart"}

CommandRaises ==
  /\ Reaches(Raising)
  /\ spent < MaxFailures
  /\ spent' = spent + 1
  /\ Raise
  /\ UNCHANGED <<struck, failures>>

(* Also: disk_woreout finds no process to inject its fault into.           *)
CommandFails ==
  /\ Reaches(Silent)
  /\ spent < MaxFailures
  /\ spent' = spent + 1
  /\ failures' = failures + 1
  /\ Advance
  /\ UNCHANGED <<res, seen, struck>>

Strike == Interruptible /\ ~struck /\ struck' = TRUE

(* Ctrl-C in a critical section, between two commands or in an API call.   *)
Deferred ==
  /\ phase \in {"injecting", "recovering"}
  /\ Strike
  /\ UNCHANGED <<type, res, phase, op, loop, registered, before, count>>

(* Ctrl-C at the terminal reaches a child process as well: the program     *)
(* defers it and sees a command that failed.                               *)
CommandInterrupted ==
  /\ phase \in {"injecting", "recovering"}
  /\ Reaches({"get", "delete", "apply", "run", "restart"})
  /\ Strike
  /\ spent' = spent + 1
  /\ IF Head(script) = "get"
     THEN Raise /\ UNCHANGED failures
     ELSE Advance /\ failures' = failures + 1 /\ UNCHANGED <<res, seen>>

(* atexit runs the recovery outside any critical section.                  *)
ExitInterrupted ==
  /\ phase = "exitRecovering"
  /\ Strike
  /\ spent' = spent + 1
  /\ Raise
  /\ UNCHANGED failures

Return(from, to) ==
  /\ phase = from /\ phase' = to
  /\ script = <<>>
  /\ from \in Running => at > Reach(type)
  /\ UNCHANGED <<type, res, op, loop, before, count>>

-----------------------------------------------------------------------------
(* The life of the fault: orchestrator.py:74-79, 177-181, 197-199, 233-235.*)

Inject ==
  /\ Begin("start", "injecting", "inject")
  /\ UNCHANGED registered

InjectReturns ==
  /\ Return("injecting", "register")
  /\ UNCHANGED <<registered, struck>>

(* Mutation of Register: the deferred Ctrl-C comes first.                  *)
RegisterUnlessStruck ==
  /\ Return("register", IF struck THEN "exit" ELSE "dialogue")
  /\ registered' = ~struck
  /\ UNCHANGED struck

Register ==
  /\ Return("register", IF struck THEN "exit" ELSE "dialogue")
  /\ registered' = TRUE
  /\ UNCHANGED struck

(* During the dialogue the agent may do anything to a target, good or bad; *)
(* a chaos experiment may expire.                                          *)
AgentActs(i, v) ==
  /\ phase = "dialogue"
  /\ type \in Unattached => v \in {"good", "bad"}
  /\ res' = [res EXCEPT ![i] = v]
  /\ UNCHANGED <<type, phase, op, loop, registered, struck, before, count>>

(* Ctrl-C ends the dialogue.                                               *)
DialogueInterrupted ==
  /\ Return("dialogue", "exit")
  /\ Strike
  /\ UNCHANGED registered

Recover ==
  /\ Begin("dialogue", "recovering", "recover")
  /\ UNCHANGED registered

RecoverReturns ==
  /\ Return("recovering", "unregister")
  /\ UNCHANGED <<registered, struck>>

Unregister ==
  /\ Return("unregister", "exit")
  /\ registered' = FALSE
  /\ UNCHANGED struck

(* exit_cleanup_fault.                                                     *)
ExitRecover ==
  /\ registered
  /\ Begin("exit", "exitRecovering", "recover")
  /\ registered' = FALSE

ExitRecoverReturns ==
  /\ Return("exitRecovering", "exitRecovered")
  /\ UNCHANGED <<registered, struck>>

Exit ==
  /\ \/ Return("exit", "over") /\ ~registered
     \/ Return("exitRecovered", "over")
  /\ UNCHANGED <<registered, struck>>

Operation == \/ Take
             \/ Read \/ ReadMissing \/ Delete \/ Write \/ Run \/ ListOrRestart
             \/ CommandRaises \/ CommandFails
             \/ Deferred \/ CommandInterrupted \/ ExitInterrupted

Life == \/ Inject \/ InjectReturns \/ Register
        \/ \E i \in DOMAIN res, v \in Values : AgentActs(i, v)
        \/ DialogueInterrupted
        \/ Recover \/ RecoverReturns \/ Unregister
        \/ ExitRecover \/ ExitRecoverReturns \/ Exit

Next == Operation \/ Life

Spec == Init /\ [][Next]_vars

-----------------------------------------------------------------------------
(* An operation that returned has done, on every object, exactly what the  *)
(* type means to do to what it found there, but for one object per command *)
(* that failed on the way without being noticed.  So a recovery keeps the  *)
(* agent's own repair, and repeats safely after one that raised.           *)
FailureSpoilsOneTarget ==
  phase \in Returned =>
    Cardinality({i \in DOMAIN res : res[i] # Edit(type, op, before[i])}) =< failures

(* An operation that finds an object leaves it missing only where it is a  *)
(* redeployment, between the deletion and the application, or if one of    *)
(* its commands failed.                                                    *)
LostOnlyHalfRedeployed ==
  phase \in Running \union Returned =>
    \A i \in DOMAIN res : res[i] = "gone" /\ before[i] # "gone" =>
      /\ Library[type].script = Redeploy
      /\ failures > 0 \/ (at = i /\ script # <<>> /\ Head(script) = "apply")

(* inject_fault has returned and no command failed: every object is faulty,*)
(* which is what the problem's eval takes for granted.                     *)
InjectedIsFaulty ==
  phase = "register" /\ failures = 0 => \A i \in DOMAIN res : res[i] = "bad"

(* A target is still faulty when the process is gone only if a command     *)
(* failed, or if an earlier target of the list was missing, at which every *)
(* recovery of a type that reads first raises before it reaches the rest.  *)
LeftBehindExplained ==
  phase = "over" =>
    \A j \in DOMAIN res : res[j] = "bad" =>
      \/ spent > 0
      \/ /\ Head(Library[type].script) \in {"get", "fetch"}
         /\ \E i \in 1 .. j - 1 : res[i] = "gone"

(* The critical section defers Ctrl-C: it leaves no fault in the system    *)
(* behind (critical_section.py:19-28).                                     *)
NothingLeftBehind ==
  phase = "over" => \A i \in DOMAIN res : res[i] # "bad"

-----------------------------------------------------------------------------
(* The inductive invariant.  What is left of a script, by what its target  *)
(* is when no command on it has failed: as it was found, read and about to *)
(* be written, deleted, or edited.                                         *)
Whole == {Patch, FlagPatch, Command, Replace, InPods, Upgrade, Redeploy}
Fresh == Whole \union {<<"run", "restart">>}
ReadIn == {<<"patch">>, <<"patch", "restart">>, <<"replace">>, <<"delete", "apply">>}
Deleted == {<<"apply">>}
Edited == {<<"restart">>, <<"list", "restart">>}
Remainders == Fresh \union ReadIn \union Deleted \union Edited

Aim(i) == Edit(type, op, before[i])

OnTrack ==
  /\ script \in Fresh => res[at] = before[at]
  /\ script \in ReadIn => res[at] = before[at] /\ seen = Aim(at)
  /\ script \in Deleted => res[at] = "gone" /\ seen = Aim(at)
  /\ script \in Edited => res[at] = Aim(at)

(* The type has its method; where the loop and the script are, and which   *)
(* script it is.                                                           *)
Placed ==
  /\ type \in DOMAIN Library
  /\ at =< Reach(type) + 1
  /\ phase \in Returned => at > Reach(type)
  /\ script # <<>> =>
       phase \in Running /\ at =< Reach(type) /\ script \in Remainders
  /\ script \in Whole => script = Library[type].script
  /\ script \in Deleted \union {<<"delete", "apply">>} => Library[type].script = Redeploy
  /\ seen # "gone"

(* Only a Ctrl-C goes beyond the failures of the cluster.                  *)
Spent == spent =< MaxFailures + (IF struck THEN 1 ELSE 0)

(* The targets behind the loop are as meant but for one per failure, those *)
(* before it as found, and the one it is at is on its way or spoilt.       *)
Spoilt == {i \in 1 .. at - 1 : res[i] # Aim(i)}

Counted ==
  phase \in Running \union Returned =>
    /\ \A i \in DOMAIN res : i > at \/ (i = at /\ script = <<>>) => res[i] = before[i]
    /\ Cardinality(Spoilt) =< failures
    /\ script # <<>> => OnTrack \/ Cardinality(Spoilt) < failures

LostByRedeploy ==
  phase \in Running \union Returned =>
    \A i \in DOMAIN res :
      res[i] = "gone" /\ before[i] # "gone" => Library[type].script = Redeploy

(* The injection finds every target good, the recoveries are recoveries.   *)
FromGood ==
  /\ phase = "start" => \A i \in DOMAIN res : res[i] = "good"
  /\ phase \in {"injecting", "register"} =>
       op = "inject" /\ \A i \in DOMAIN res : before[i] = "good"
  /\ phase \in {"recovering", "unregister", "exitRecovering", "exitRecovered"} =>
       op = "recover"

(* A fault that may still be there has its handler.                        *)
Owed ==
  /\ phase \in {"dialogue", "recovering"} => registered
  /\ phase = "exit" /\ ~registered /\ spent = 0 =>
       \A i \in DOMAIN res : res[i] # "bad"

IInv ==
  /\ TypeOK /\ Placed /\ Spent /\ Counted /\ LostByRedeploy /\ FromGood /\ Owed
  /\ LeftBehindExplained

=============================================================================
