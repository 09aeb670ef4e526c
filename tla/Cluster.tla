------------------------------ MODULE Cluster ------------------------------
(* The parts of a session that wait for the cluster: the application,      *)
(* Prometheus and its storage, the workload and the forwards of the        *)
(* observers.  They keep no state in common, so a behaviour runs one of    *)
(* them, and the others stay where they began.                             *)
EXTENDS AppLifecycle

CONSTANTS
  Namespaces, NodePorts,           \* see PortForward
  MetricPorts, MaxCalls, MaxEmpty, MaxMoves

VARIABLES
  part,  \* the part that runs
  t_pc, t_begun, t_polls, t_errors, t_openebs, t_observe, t_claim, t_release,
  t_pods, t_cut, t_torn,
  w_pc, w_calls, w_map, w_job, w_errors, w_told, w_slow,
  f_pc, f_kind, f_target, f_port, f_attempt, f_started, f_answer, f_forwards,
  f_stray, f_up, f_missed, f_calls, f_empty, f_errors, f_moves

telemetryVars ==
  <<t_pc, t_begun, t_polls, t_errors, t_openebs, t_observe, t_claim, t_release,
    t_pods, t_cut, t_torn>>
workloadVars == <<w_pc, w_calls, w_map, w_job, w_errors, w_told, w_slow>>
forwardsVars ==
  <<f_pc, f_kind, f_target, f_port, f_attempt, f_started, f_answer, f_forwards,
    f_stray, f_up, f_missed, f_calls, f_empty, f_errors, f_moves>>
clusterVars == <<part, vars, telemetryVars, workloadVars, forwardsVars>>

Telemetry == INSTANCE Telemetry WITH
  Sessions <- MaxProblems,
  pc <- t_pc, begun <- t_begun, polls <- t_polls, errors <- t_errors,
  openebs <- t_openebs, observe <- t_observe, claim <- t_claim,
  release <- t_release, pods <- t_pods, cut <- t_cut, torn <- t_torn

Workload == INSTANCE WrkJob WITH
  MaxCalls <- MaxProblems,
  pc <- w_pc, calls <- w_calls, map <- w_map, job <- w_job, errors <- w_errors,
  told <- w_told, slow <- w_slow

PF == INSTANCE PortForward WITH
  pc <- f_pc, kind <- f_kind, target <- f_target, port <- f_port,
  attempt <- f_attempt, started <- f_started, answer <- f_answer,
  forwards <- f_forwards, stray <- f_stray, up <- f_up, missed <- f_missed,
  calls <- f_calls, empty <- f_empty, errors <- f_errors, moves <- f_moves

ASSUME ClusterAssumption ==
  /\ Telemetry!TelemetryAssumption
  /\ Workload!WrkJobAssumption
  /\ PF!PortAssumption

(* A part that does not run begins in one way only.                        *)
AnyOf(S) == CHOOSE x \in S : TRUE

ClusterInit ==
  /\ part \in {"application", "telemetry", "workload", "forwards"}
  /\ Init /\ (part # "application" => app = AnyOf(Apps))
  /\ Telemetry!Init
  /\ Workload!Init
  /\ PF!Init /\ (part # "forwards" => f_target = AnyOf(Namespaces))

Application ==
  part = "application" /\ UNCHANGED <<part, telemetryVars, workloadVars, forwardsVars>>
Prometheus == part = "telemetry" /\ UNCHANGED <<part, vars, workloadVars, forwardsVars>>
Wrk == part = "workload" /\ UNCHANGED <<part, vars, telemetryVars, forwardsVars>>
Observers == part = "forwards" /\ UNCHANGED <<part, vars, telemetryVars, workloadVars>>

ClusterNext ==
  \/ Application /\ Next
  \/ Prometheus /\ Telemetry!Next
  \/ Wrk /\ Workload!Next
  \/ Observers /\ PF!Next

(* The fairness of the parts: the program goes on, the cluster need not.   *)
ClusterSpec ==
  /\ ClusterInit /\ [][ClusterNext]_clusterVars
  /\ WF_clusterVars(Application /\ Work)
  /\ WF_clusterVars(Prometheus /\ Telemetry!Work)
  /\ WF_clusterVars(Wrk /\ Workload!Work)

-----------------------------------------------------------------------------
(* Every part is in a state of its types.                                  *)
TypesOK == TypeOK /\ Telemetry!TypeOK /\ Workload!TypeOK /\ PF!TypeOK

(* A session has its telemetry, on its storage, and leaves none of it to   *)
(* the next one, but for failing commands and a wait that ran out          *)
(* (orchestrator.py:63, orchestrator.py:207, prometheus.py:69).            *)
TelemetryInPlace == Telemetry!TelemetryInPlace

(* A workload reported as under way is the one asked for, and it lacks     *)
(* only for a reason (wrk.py:92, wrk.py:97).                               *)
OwnWorkload == Workload!OwnWorkload

(* An agent is shown another namespace's traces only through a forward     *)
(* that was kept (trace_api.py:100).                                       *)
ForeignTracesExplained == PF!ForeignTracesExplained

(* At most one call for metrics in a row fails (metric_api.py:161).        *)
MissedOnce == PF!MissedOnce

(* No part waits for the cluster for ever: the waits of an application and *)
(* of the telemetry have their limits, and a job whose pod is ready or has *)
(* failed is watched no longer (kubectl.py:98, wrk.py:111).                *)
CallsEnd == WaitsEnd /\ Telemetry!SetUpEnds /\ Workload!WatchEnds

=============================================================================
