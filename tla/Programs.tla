------------------------------ MODULE Programs ------------------------------
(* The programs around a session: the HTTP service, the cache of the       *)
(* clients, the deployment of a cluster and the setup of the laptop.  They *)
(* keep no state in common, so a behaviour runs one of them, and the       *)
(* others stay where they began.                                           *)
EXTENDS SimulateService, Sequences

CONSTANTS
  Clients, Payloads, Model,                \* see LLMCache: clients in turn
  Threads, ThreadPayloads, ThreadModel,    \* and clients alive at a time
  MaxAlive,                                \* so many
  Missing,
  Hosts, MaxPolls, MaxRuns,                \* see Deployment
  MaxSetups                                \* runs of the local setup

VARIABLES
  part,  \* the program that runs
  c_file, c_cache, c_pc, c_payload, c_answer, c_saved, c_mixed, c_spoilt,
  d_action, d_mode, d_at, d_exit, d_runs, d_host, d_polls, d_vms, d_gen, d_up,
  d_prepared, d_api, d_inventory, d_kubeconfig, d_aiopslab,
  l_at, l_table, l_result, l_runs, l_path, l_python, l_kubeconfig, l_example,
  l_config, l_submodules, l_installed

cacheVars == <<c_file, c_cache, c_pc, c_payload, c_answer, c_saved, c_mixed, c_spoilt>>
deploymentVars ==
  <<d_action, d_mode, d_at, d_exit, d_runs, d_host, d_polls, d_vms, d_gen, d_up,
    d_prepared, d_api, d_inventory, d_kubeconfig, d_aiopslab>>
laptopVars ==
  <<l_at, l_table, l_result, l_runs, l_path, l_python, l_kubeconfig, l_example,
    l_config, l_submodules, l_installed>>
programVars == <<part, vars, cacheVars, deploymentVars, laptopVars>>

-----------------------------------------------------------------------------
(* Clients of several models, one alive at a time.                         *)
InTurn == INSTANCE LLMCache WITH
  MaxAlive <- 1,
  file <- c_file, cache <- c_cache, pc <- c_pc, payload <- c_payload,
  answer <- c_answer, saved <- c_saved, mixed <- c_mixed, spoilt <- c_spoilt

(* Clients of one process, which may be alive together.                    *)
Together == INSTANCE LLMCache WITH
  Clients <- Threads, Payloads <- ThreadPayloads, Model <- ThreadModel,
  file <- c_file, cache <- c_cache, pc <- c_pc, payload <- c_payload,
  answer <- c_answer, saved <- c_saved, mixed <- c_mixed, spoilt <- c_spoilt

Deploying == INSTANCE Deployment WITH
  action <- d_action, mode <- d_mode, at <- d_at, exit <- d_exit, runs <- d_runs,
  host <- d_host, polls <- d_polls, vms <- d_vms, gen <- d_gen, up <- d_up,
  prepared <- d_prepared, api <- d_api, inventory <- d_inventory,
  kubeconfig <- d_kubeconfig, aiopslab <- d_aiopslab

Laptop == INSTANCE LocalSetup WITH
  MaxRuns <- MaxSetups,
  at <- l_at, table <- l_table, result <- l_result, runs <- l_runs,
  path <- l_path, python <- l_python, kubeconfig <- l_kubeconfig,
  example <- l_example, config <- l_config, submodules <- l_submodules,
  installed <- l_installed

ASSUME ProgramAssumption ==
  /\ InTurn!LLMCacheAssumption /\ Together!LLMCacheAssumption
  /\ Deploying!DeploymentAssumption
  /\ Laptop!LocalSetupAssumption

-----------------------------------------------------------------------------
(* A program that does not run begins in one way only.                     *)
AnyOf(S) == CHOOSE x \in S : TRUE

ProgramInit ==
  /\ part \in {"service", "clients", "threads", "deployment", "laptop"}
  /\ Init /\ (part # "service" => app = [r \in Requests |-> AnyOf(Apps)])
  /\ IF part = "threads" THEN Together!Init
     ELSE InTurn!Init /\ (part # "clients" => \A c \in Clients : c_payload[c] = AnyOf(Payloads))
  /\ Deploying!Init /\ (part # "deployment" => d_kubeconfig = 0)
  /\ Laptop!Init
  /\ part # "laptop" => l_path = {} /\ ~l_python /\ ~l_example /\ l_kubeconfig = "none" /\ l_config = "none"

Service == part = "service" /\ UNCHANGED <<part, cacheVars, deploymentVars, laptopVars>>
Asks(p) == part = p /\ UNCHANGED <<part, vars, deploymentVars, laptopVars>>
Deploys == part = "deployment" /\ UNCHANGED <<part, vars, cacheVars, laptopVars>>
SetsUp == part = "laptop" /\ UNCHANGED <<part, vars, cacheVars, deploymentVars>>

ProgramNext ==
  \/ Service /\ Next
  \/ Asks("clients") /\ InTurn!Next
  \/ Asks("threads") /\ Together!Next
  \/ Deploys /\ Deploying!Next
  \/ SetsUp /\ Laptop!Next

(* Every thread of the service goes on but in start_workload, and so does  *)
(* a deployment.                                                           *)
ProgramSpec ==
  /\ ProgramInit /\ [][ProgramNext]_programVars
  /\ \A r \in Requests : WF_programVars(Service /\ Work(r) /\ ~Polls(r))
  /\ WF_programVars(Deploys /\ Deploying!Work)

-----------------------------------------------------------------------------
(* Every program is in a state of its types.                               *)
TypesOK ==
  /\ TypeOK /\ Deploying!TypeOK /\ Laptop!TypeOK
  /\ IF part = "threads" THEN Together!TypeOK ELSE InTurn!TypeOK

(* With one client at a time a whole file has all that was stored; with    *)
(* several it can still be read, but for a kill or two writers at once     *)
(* (llm.py:38, llm.py:65).                                                 *)
WholeCache ==
  IF part = "threads" THEN Together!WholeCache ELSE InTurn!WholeCache

(* Another model's answer was in the file before (llm.py:298).             *)
OtherModelExplained ==
  IF part = "threads" THEN Together!OtherModelExplained ELSE InTurn!OtherModelExplained

(* What deploy.py and the local setup report is how things are             *)
(* (deploy.py:752, deploy.py:323, deploy.py:475).                          *)
ReportsAreTrue == Deploying!ExitZeroIsTrue /\ Laptop!TableIsTrue

(* An old inventory is never worked with (generate_inventory.py:181).      *)
PresentMachinesOnly == Deploying!PresentMachinesOnly

(* Every request is answered, unless the process exits or its workload     *)
(* polls for good, and every command of deploy.py ends.                    *)
ProgramsEnd == Answered /\ Deploying!CommandEnds

=============================================================================
