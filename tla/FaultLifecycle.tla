--------------------------- MODULE FaultLifecycle ---------------------------
(***************************************************************************)
(* What the benchmark promises about the system under test, whatever the   *)
(* harness does inside: the system carries the fault of at most one        *)
(* problem, no problem begins while a fault is in it, and a fault that was *)
(* taken out never comes back.                                             *)
(***************************************************************************)
CONSTANT Problems

VARIABLE phase   \* per problem: how far its fault has come

Phases == {"waiting", "begun", "faulty", "clean"}

ATypeOK == phase \in [Problems -> Phases]

NoFault == \A p \in Problems : phase[p] # "faulty"

AInit == phase = [p \in Problems |-> "waiting"]

Start(p) ==
  /\ NoFault
  /\ phase[p] = "waiting"
  /\ phase' = [phase EXCEPT ![p] = "begun"]

Strike(p) ==
  /\ NoFault
  /\ phase[p] = "begun"
  /\ phase' = [phase EXCEPT ![p] = "faulty"]

Heal(p) ==
  /\ phase[p] = "faulty"
  /\ phase' = [phase EXCEPT ![p] = "clean"]

ANext == \E p \in Problems : Start(p) \/ Strike(p) \/ Heal(p)

ASpec == AInit /\ [][ANext]_phase

=============================================================================
