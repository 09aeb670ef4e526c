---------------------------- MODULE MCPrograms ----------------------------
(* The values of the constants for TLC: two clients of two models, three   *)
(* of one model, a controller and a worker.                                *)
EXTENDS Programs

TwoModels == [c \in Clients |-> IF c = "one" THEN "gpt" ELSE "claude"]
OneModel == [c \in Threads |-> "gpt"]
TwoHosts == <<"controller", "worker">>

=============================================================================
