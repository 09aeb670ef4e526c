----------------------------- MODULE Deployment -----------------------------
(***************************************************************************)
(* scripts/terraform/deploy.py and generate_inventory.py: the commands     *)
(* --apply, --plan, --setup-only and --destroy, run one after another from *)
(* a shell.  A command is a sequence of steps, each an external program    *)
(* that may fail, be interrupted, or leave half of its work; what outlives *)
(* a command is the state of Terraform with the machines, the Ansible      *)
(* inventory and the kubeconfig.  Machines that are destroyed and made     *)
(* again are another generation.                                           *)
(***************************************************************************)
EXTENDS Integers, Sequences, SequencesExt

CONSTANTS
  Hosts,     \* the controller and the workers, in the order they are waited for
  MaxPolls,  \* polls of one host (timeout over interval, 30 in the code)
  MaxRuns    \* bound on the commands of a behaviour

DeploymentAssumption ==
  /\ Hosts \in Seq(STRING) /\ Hosts # <<>>
  /\ MaxPolls \in Nat \ {0}
  /\ MaxRuns \in Nat

Actions == {"plan", "apply", "destroy", "setup_only"}
Modes == {"A", "B"}

(* The arguments main accepts: one of the actions, --dev only with mode A. *)
Accepted(chosen, mode, dev) ==
  /\ \E a \in Actions : chosen = {a}
  /\ dev => mode = "A"

(* Mutation of Steps: setup_only trusts the inventory it finds.            *)
StepsNoInventory(action) ==
  CASE action = "apply" ->
         <<"init", "plan", "apply", "outputs", "inventory", "ssh",
           "common", "cluster", "setup">>
    [] action = "plan" -> <<"init", "plan">>
    [] action = "setup_only" -> <<"outputs", "setup">>
    [] action = "destroy" -> <<"confirm", "destroy_plan", "destroy">>

(* What each command does, step by step.                                   *)
Steps(action) ==
  CASE action = "apply" ->
         <<"init", "plan", "apply", "outputs", "inventory", "ssh",
           "common", "cluster", "setup">>
    [] action = "plan" -> <<"init", "plan">>
    [] action = "setup_only" -> <<"outputs", "inventory", "setup">>
    [] action = "destroy" -> <<"confirm", "destroy_plan", "destroy">>

-----------------------------------------------------------------------------
VARIABLES
  action,     \* the command, "none" at first
  mode,       \* "A" on the controller or "B" on the laptop
  at,         \* its step, 0 when no command runs
  exit,       \* how the last one ended: "none", "ok", "failed", "traceback"
  runs,       \* commands so far
  host,       \* wait_for_all_hosts: the host it waits for
  polls,      \* and how often it has tried
  vms,        \* the machines: "none", "partial" or "full"
  gen,        \* their generation
  up,         \* hosts that answer on the SSH port
  prepared,   \* playbooks that succeeded on them
  api,        \* their cluster answers
  inventory,  \* generation in inventory.yml, 0 none, -1 cut short
  kubeconfig, \* generation in ~/.kube/config, 0 none, -1 another cluster's
  aiopslab    \* generation AIOpsLab was last set up for, 0 none, -1 another

process == <<action, mode, at, exit, runs>>
waiting == <<host, polls>>
machines == <<vms, gen, up, prepared, api>>
files == <<inventory, kubeconfig, aiopslab>>
vars == <<process, waiting, machines, files>>

Running == at # 0
Step == Steps(action)[at]
All == ToSet(Hosts)

TypeOK ==
  /\ action \in Actions \union {"none"}
  /\ mode \in Modes
  /\ at = 0 \/ at \in DOMAIN Steps(action)
  /\ exit \in {"none", "ok", "failed", "traceback"}
  /\ runs \in 0 .. MaxRuns
  /\ host \in DOMAIN Hosts
  /\ polls \in 0 .. MaxPolls - 1
  /\ vms \in {"none", "partial", "full"}
  /\ gen \in 0 .. MaxRuns
  /\ up \subseteq All
  /\ prepared \subseteq {"common", "cluster"}
  /\ api \in BOOLEAN
  /\ inventory \in -1 .. gen
  /\ kubeconfig \in -1 .. gen
  /\ aiopslab \in -1 .. gen

(* The user may have a kubeconfig already.                                 *)
Init ==
  /\ action = "none" /\ mode = "B" /\ at = 0 /\ exit = "none" /\ runs = 0
  /\ host = 1 /\ polls = 0
  /\ vms = "none" /\ gen = 0 /\ up = {} /\ prepared = {} /\ api = FALSE
  /\ inventory = 0 /\ kubeconfig \in {-1, 0} /\ aiopslab = 0

(* main: refused arguments exit with 1 before anything is done.            *)
Start(chosen, m, dev) ==
  /\ ~Running /\ runs < MaxRuns
  /\ runs' = runs + 1
  /\ mode' = m
  /\ IF Accepted(chosen, m, dev)
     THEN action' \in chosen /\ at' = 1 /\ exit' = "none"
     ELSE action' = "none" /\ at' = 0 /\ exit' = "failed"
  /\ host' = 1 /\ polls' = 0
  /\ UNCHANGED <<machines, files>>

Exits(how) ==
  /\ at' = 0 /\ exit' = how
  /\ UNCHANGED <<action, mode, runs>>

Proceeds ==
  IF at = Len(Steps(action)) THEN Exits("ok")
  ELSE at' = at + 1 /\ UNCHANGED <<action, mode, exit, runs>>

At(step) == Running /\ Step = step

(* Every command catches what its steps raise and Ctrl-C, but for          *)
(* --destroy, which catches Ctrl-C alone.                                  *)
Fails ==
  \/ Exits("failed")
  \/ action = "destroy" /\ Exits("traceback")

(* terraform init and plan, the destroy plan, the confirmation: nothing to *)
(* keep but that they may fail.                                            *)
Prepare ==
  /\ \E s \in {"init", "plan", "confirm", "destroy_plan"} : At(s)
  /\ Proceeds \/ Fails
  /\ UNCHANGED <<waiting, machines, files>>

(* terraform apply makes the machines that are missing; one that fails may *)
(* leave some of them.                                                     *)
Apply ==
  /\ At("apply")
  /\ \/ Proceeds /\ vms' = "full"
     \/ Fails /\ vms' \in {vms, IF vms = "none" THEN "partial" ELSE vms}
  /\ gen' = IF vms # "full" /\ vms' = "full" THEN gen + 1 ELSE gen
  /\ UNCHANGED <<waiting, up, prepared, api, files>>

(* terraform output is empty when there is nothing.                        *)
GetOutputs ==
  /\ At("outputs")
  /\ \/ Proceeds /\ vms # "none"
     \/ Fails
  /\ UNCHANGED <<waiting, machines, files>>

(* generate_inventory.py refuses outputs that miss one of the machines; a  *)
(* write that fails leaves a file cut short.                               *)
GenerateInventory ==
  /\ At("inventory")
  /\ \/ Proceeds /\ vms = "full" /\ inventory' = gen
     \/ Fails /\ inventory' \in {inventory, IF vms = "full" THEN -1 ELSE inventory}
  /\ UNCHANGED <<waiting, machines, kubeconfig, aiopslab>>

(* Mutation of WaitForSsh: no timeout.                                     *)
WaitForSshForever ==
  /\ At("ssh")
  /\ IF Hosts[host] \in up
     THEN IF host = Len(Hosts) THEN Proceeds /\ UNCHANGED waiting
          ELSE host' = host + 1 /\ polls' = 0 /\ UNCHANGED process
     ELSE UNCHANGED <<waiting, process>>
  /\ UNCHANGED <<machines, files>>

(* A poll of wait_for_ssh; the hosts are waited for one after another, and *)
(* their keys scanned at the end, where a failure is a warning.            *)
WaitForSsh ==
  /\ At("ssh")
  /\ \/ /\ Hosts[host] \in up
        /\ IF host = Len(Hosts) THEN Proceeds /\ UNCHANGED waiting
           ELSE host' = host + 1 /\ polls' = 0 /\ UNCHANGED process
     \/ /\ Hosts[host] \notin up
        /\ IF polls < MaxPolls - 1 THEN polls' = polls + 1 /\ UNCHANGED <<process, host>>
           ELSE Fails /\ UNCHANGED waiting
     \/ Fails /\ UNCHANGED waiting
  /\ UNCHANGED <<machines, files>>

(* A playbook needs the inventory file and can do its work on the machines *)
(* named there.                                                            *)
Reaches == inventory = gen /\ up = All

CommonPlaybook ==
  /\ At("common")
  /\ \/ Proceeds /\ Reaches /\ prepared' = prepared \union {"common"}
     \/ Fails /\ UNCHANGED prepared
  /\ UNCHANGED <<waiting, vms, gen, up, api, files>>

(* Mutation of ClusterPlaybook: its exit code is not looked at.            *)
ClusterPlaybookUnchecked ==
  /\ At("cluster")
  /\ Proceeds
  /\ UNCHANGED <<waiting, machines, files>>

(* The cluster's playbook starts the control plane, fetches its kubeconfig *)
(* and lets the workers join; it may fail after each.                      *)
ClusterPlaybook ==
  /\ At("cluster")
  /\ \/ /\ Proceeds /\ Reaches
        /\ prepared' = prepared \union {"cluster"}
        /\ api' = TRUE /\ kubeconfig' = gen
     \/ /\ Fails /\ UNCHANGED prepared
        /\ \/ UNCHANGED <<api, kubeconfig>>
           \/ Reaches /\ api' = TRUE /\ kubeconfig' \in {kubeconfig, gen}
  /\ UNCHANGED <<waiting, vms, gen, up, inventory, aiopslab>>

(* deploy does not look at the result of the setup, setup_only returns it. *)
SetupResult(ok) == IF ok \/ action = "apply" THEN Proceeds ELSE Fails

(* kubectl get nodes succeeds on the laptop.  Whatever cluster the         *)
(* kubeconfig names may answer, another one or that of earlier machines.   *)
SomeClusterAnswers == kubeconfig # 0 /\ (kubeconfig = gen => api)

(* The setup of AIOpsLab: a playbook in mode A, LocalSetup in mode B; both *)
(* end with a look at the cluster.  Addresses of an old inventory may have *)
(* been taken by machines that let the playbook in.                        *)
Setup ==
  /\ At("setup")
  /\ \/ /\ IF mode = "A" THEN inventory \in 1 .. gen /\ (inventory = gen => up = All /\ api)
           ELSE SomeClusterAnswers
        /\ SetupResult(TRUE)
        /\ aiopslab' = IF mode = "A" THEN inventory ELSE kubeconfig
     \/ SetupResult(FALSE) /\ UNCHANGED aiopslab
     \/ Fails /\ UNCHANGED aiopslab
  /\ UNCHANGED <<waiting, machines, inventory, kubeconfig>>

(* Applying the destroy plan; when it fails, some machines may be left.    *)
Destroy ==
  /\ At("destroy")
  /\ \/ Proceeds /\ vms' = "none"
     \/ Fails /\ vms' \in {vms, IF vms = "full" THEN "partial" ELSE vms}
  /\ IF vms' = "full" THEN UNCHANGED <<up, prepared, api>>
     ELSE up' = {} /\ prepared' = {} /\ api' = FALSE
  /\ UNCHANGED <<waiting, gen, files>>

(* A machine boots.                                                        *)
Boot(h) ==
  /\ vms = "full" /\ h \notin up
  /\ up' = up \union {h}
  /\ UNCHANGED <<process, waiting, vms, gen, prepared, api, files>>

Work ==
  \/ Prepare
  \/ Apply
  \/ GetOutputs
  \/ GenerateInventory
  \/ WaitForSsh
  \/ CommonPlaybook
  \/ ClusterPlaybook
  \/ Setup
  \/ Destroy

Next ==
  \/ \E chosen \in SUBSET Actions, m \in Modes, dev \in BOOLEAN : Start(chosen, m, dev)
  \/ Work
  \/ \E h \in All : Boot(h)

(* The programs a command starts come to an end.                           *)
Spec == Init /\ [][Next]_vars /\ WF_vars(Work)

-----------------------------------------------------------------------------
Ended(a) == exit = "ok" /\ action = a

(* Mode B sets up for whatever cluster the kubeconfig names (370, 381).    *)
(* That it is the one of the present machines is known only once the       *)
(* cluster's playbook of an --apply has succeeded on them.                 *)
Trusted == mode = "A" \/ "cluster" \in prepared

(* An exit code of 0 tells the truth: --apply leaves a cluster on the      *)
(* present machines that the inventory and the kubeconfig name, --destroy  *)
(* leaves nothing, --setup-only has set AIOpsLab up for these machines, or *)
(* in mode B, after no complete --apply, for another cluster.              *)
ExitZeroIsTrue ==
  /\ Ended("apply") =>
       /\ vms = "full" /\ prepared = {"common", "cluster"} /\ api
       /\ inventory = gen /\ kubeconfig = gen
  /\ Ended("destroy") => vms = "none"
  /\ Ended("setup_only") =>
       IF Trusted THEN aiopslab = gen /\ api ELSE aiopslab = kubeconfig

(* AIOpsLab is never set up on, and the kubeconfig never fetched from,     *)
(* machines of an earlier generation that an old inventory still names;    *)
(* only mode B after no complete --apply can set it up for another cluster.*)
PresentMachinesOnly ==
  [][/\ aiopslab' # aiopslab /\ Trusted => aiopslab' = gen
     /\ kubeconfig' # kubeconfig => kubeconfig' = gen /\ inventory = gen]_vars

(* Every command ends, with or without machines that boot.                 *)
CommandEnds == Running ~> ~Running

-----------------------------------------------------------------------------
(* The inductive invariant: what a command has done by each of its steps,  *)
(* and a generation of machines for no more than each command.             *)
Begun == Running => exit = "none" /\ action \in Actions

Generations ==
  /\ gen <= runs
  /\ Running /\ action = "apply" /\ at <= 3 => gen < runs

Applied ==
  Running /\ action = "apply" =>
    /\ at > 3 => vms = "full"
    /\ at > 5 => inventory = gen
    /\ at > 7 => "common" \in prepared
    /\ at > 8 => "cluster" \in prepared /\ api /\ kubeconfig = gen

SetUpFor == Running /\ action = "setup_only" /\ at > 2 => inventory = gen

(* Playbooks succeeded only on machines that are all still there, and the  *)
(* cluster's has fetched the kubeconfig.                                   *)
Fetched ==
  /\ vms # "full" => prepared = {}
  /\ "cluster" \in prepared => api /\ kubeconfig = gen

IInv ==
  TypeOK /\ Begun /\ Generations /\ Applied /\ SetUpFor /\ Fetched /\ ExitZeroIsTrue

=============================================================================
