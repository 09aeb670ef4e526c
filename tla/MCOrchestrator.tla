--------------------------- MODULE MCOrchestrator ---------------------------
(* Small instances of Orchestrator.  The problems are two on Kubernetes and *)
(* two on docker compose, the second of which puts its fault in by its      *)
(* start_workload (flower_model_misconfig); or one of each kind.            *)
EXTENDS Orchestrator

CONSTANTS p1, p2, p3, p4

MCProblems == {p1, p2, p3, p4}
MCDocker == {p3, p4}
MCLate == {p4}

MCThreeProblems == {p1, p2, p4}
MCTwoProblems == {p1, p4}
MCOneDocker == {p4}

=============================================================================
