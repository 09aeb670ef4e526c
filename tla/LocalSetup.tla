----------------------------- MODULE LocalSetup -----------------------------
(***************************************************************************)
(* setup_aiopslab_mode_b of deploy.py: the laptop is brought into a state  *)
(* from which the cluster can be used.  Every step appends a status to a   *)
(* table and none ends the function; the table alone decides the result.   *)
(* The user may repair something and run the command again.                *)
(***************************************************************************)
EXTENDS Integers, Sequences

CONSTANTS MaxRuns  \* bound on the runs of the command

LocalSetupAssumption == MaxRuns \in Nat

Tools == {"kubectl", "helm", "poetry"}

Steps ==
  <<"kubectl", "helm", "kubeconfig", "access", "config", "submodules",
    "poetry", "python", "install">>

VARIABLES
  at,          \* the step, 0 when the command does not run
  table,       \* the statuses so far
  result,      \* what the last run returned: "none", "ok" or "needs_action"
  runs,        \* runs so far
  path,        \* the tools on the PATH
  python,      \* there is a Python of at least 3.11
  kubeconfig,  \* ~/.kube/config: "none", "present", or "dead" and of no use
  example,     \* config.yml.example is there
  config,      \* config.yml: "none", "other" or the "controller"'s
  submodules,  \* aiopslab-applications has content
  installed    \* poetry install has succeeded

laptop == <<path, python, kubeconfig, example, config, submodules, installed>>
vars == <<at, table, result, runs, laptop>>

Statuses == {"OK", "INSTALLED", "UPDATED", "SKIPPED", "MISSING", "FAILED"}

TypeOK ==
  /\ at \in 0 .. Len(Steps)
  /\ table \in Seq(Statuses)
  /\ IF at = 0 THEN Len(table) \in {0, Len(Steps)} ELSE Len(table) = at - 1
  /\ result \in {"none", "ok", "needs_action"}
  /\ runs \in 0 .. MaxRuns
  /\ path \subseteq Tools
  /\ {python, example, submodules, installed} \subseteq BOOLEAN
  /\ kubeconfig \in {"none", "present", "dead"}
  /\ config \in {"none", "other", "controller"}

Init ==
  /\ at = 0 /\ table = <<>> /\ result = "none" /\ runs = 0
  /\ path \in SUBSET Tools
  /\ python \in BOOLEAN /\ example \in BOOLEAN
  /\ kubeconfig \in {"none", "present", "dead"}
  /\ config \in {"none", "other"}
  /\ submodules = FALSE /\ installed = FALSE

Start ==
  /\ at = 0 /\ runs < MaxRuns
  /\ at' = 1 /\ table' = <<>> /\ result' = "none" /\ runs' = runs + 1
  /\ UNCHANGED laptop

(* Between two runs the user repairs something.                            *)
Repair ==
  /\ at = 0 /\ runs \in 1 .. MaxRuns - 1
  /\ \/ path' = Tools /\ UNCHANGED <<python, kubeconfig>>
     \/ python' = TRUE /\ UNCHANGED <<path, kubeconfig>>
     \/ kubeconfig' = "present" /\ UNCHANGED <<path, python>>
  /\ UNCHANGED <<at, table, result, runs, example, config, submodules, installed>>

-----------------------------------------------------------------------------
Is(step) == at # 0 /\ Steps[at] = step

Appends(status) ==
  /\ table' = Append(table, status)
  /\ UNCHANGED runs

(* Statuses that need no action.                                           *)
Fine == {"OK", "INSTALLED", "UPDATED", "SKIPPED"}

Reports(status) ==
  /\ Appends(status)
  /\ IF at < Len(Steps) THEN at' = at + 1 /\ UNCHANGED result
     ELSE /\ at' = 0
          /\ result' = IF \A i \in DOMAIN table' : table'[i] \in Fine
                       THEN "ok" ELSE "needs_action"

(* kubectl, helm, poetry: installed when missing; what counts is whether   *)
(* the tool is on the PATH afterwards.                                     *)
Tool(t) ==
  /\ Is(t)
  /\ \/ t \in path /\ Reports("OK") /\ UNCHANGED path
     \/ t \notin path /\ Reports("INSTALLED") /\ path' = path \union {t}
     \/ t \notin path /\ Reports("FAILED") /\ UNCHANGED path
  /\ UNCHANGED <<python, kubeconfig, example, config, submodules, installed>>

Kubeconfig ==
  /\ Is("kubeconfig")
  /\ Reports(IF kubeconfig = "none" THEN "MISSING" ELSE "OK")
  /\ UNCHANGED laptop

(* kubectl get nodes, where both of its conditions are met by now.         *)
Access ==
  /\ Is("access")
  /\ IF "kubectl" \in path /\ kubeconfig # "none"
     THEN \/ kubeconfig = "present" /\ Reports("OK")
          \/ Reports("FAILED")
     ELSE Reports("SKIPPED")
  /\ UNCHANGED laptop

(* config.yml is rewritten, or made from the example.                      *)
Config ==
  /\ Is("config")
  /\ IF config # "none" THEN Reports("UPDATED") /\ config' = "controller"
     ELSE IF example THEN Reports("OK") /\ config' = "controller"
     ELSE Reports("FAILED") /\ UNCHANGED config
  /\ UNCHANGED <<path, python, kubeconfig, example, submodules, installed>>

Submodules ==
  /\ Is("submodules")
  /\ \/ Reports("OK") /\ submodules' = TRUE
     \/ ~submodules /\ Reports("FAILED") /\ UNCHANGED submodules
  /\ UNCHANGED <<path, python, kubeconfig, example, config, installed>>

(* _find_python311_plus.                                                   *)
Python ==
  /\ Is("python")
  /\ Reports(IF python THEN "OK" ELSE "MISSING")
  /\ UNCHANGED laptop

PoetryInstall ==
  /\ Is("install")
  /\ IF "poetry" \in path /\ python
     THEN \/ Reports("OK") /\ installed' = TRUE
          \/ Reports("FAILED") /\ UNCHANGED installed
     ELSE Reports("SKIPPED") /\ UNCHANGED installed
  /\ UNCHANGED <<path, python, kubeconfig, example, config, submodules>>

Next ==
  \/ Start
  \/ Repair
  \/ \E t \in Tools : Tool(t)
  \/ Kubeconfig
  \/ Access
  \/ Config
  \/ Submodules
  \/ Python
  \/ PoetryInstall

Spec == Init /\ [][Next]_vars

-----------------------------------------------------------------------------
(* "True if all critical steps succeeded" (deploy.py:323), although a step *)
(* that was skipped counts as fine: then everything that is needed is      *)
(* there and the cluster has answered.                                     *)
OkMeansUsable ==
  result = "ok" =>
    /\ path = Tools /\ python /\ kubeconfig = "present"
    /\ config = "controller" /\ submodules /\ installed

(* A step is skipped only after one that needs action has been reported,   *)
(* so that the table never hides what was not done.                        *)
SkipIsExplained ==
  \A i \in DOMAIN table :
    table[i] = "SKIPPED" => \E j \in 1 .. i : table[j] \in {"MISSING", "FAILED"}

(* Neither the result nor the table of the setup hides what is missing.    *)
TableIsTrue == OkMeansUsable /\ SkipIsExplained

-----------------------------------------------------------------------------
(* The inductive invariant: what a fine status of a step says, that only   *)
(* two steps are skipped, and that a run has no result before its end.     *)
There(step) ==
  /\ step \in Tools => step \in path
  /\ step = "kubeconfig" => kubeconfig # "none"
  /\ step = "access" => kubeconfig = "present"
  /\ step = "config" => config = "controller"
  /\ step = "submodules" => submodules
  /\ step = "python" => python
  /\ step = "install" => installed

FineIsThere ==
  \A i \in DOMAIN table :
    table[i] \in Fine /\ table[i] # "SKIPPED" => There(Steps[i])

SkippedSteps ==
  \A i \in DOMAIN table : table[i] = "SKIPPED" => Steps[i] \in {"access", "install"}

ResultAtEnd == at # 0 => result = "none"

IInv == TypeOK /\ TableIsTrue /\ FineIsThere /\ SkippedSteps /\ ResultAtEnd

=============================================================================
