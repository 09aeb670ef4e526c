--------------------------- MODULE Telemetry_proofs ---------------------------
(* What a session can count on of its telemetry, for any number of         *)
(* problems, of polls and of commands that fail.                           *)
EXTENDS Telemetry, TLAPS

(* Every step keeps the types; a poll is counted below the limit only.     *)
LEMMA TypeStep ==
  ASSUME TelemetryAssumption, TypeOK, Next
  PROVE  TypeOK'
<1> USE DEF TelemetryAssumption, TypeOK, Steps, cluster, Goes, NoPoll, Works,
            Fails
<1>1. CASE Begin
  <2>1. observe' \in BOOLEAN /\ claim' \in BOOLEAN /\ cut' \in BOOLEAN
        /\ torn' \in BOOLEAN
    BY <1>1, Zenon DEF Begin
  <2>2. QED
    BY <1>1, <2>1 DEF Begin
<1>2. CASE InstallOpenEBS
  BY <1>2 DEF InstallOpenEBS
<1>3. CASE WaitForOpenEBS
  BY <1>3 DEF WaitForOpenEBS, Wait
<1>4. CASE Status
  BY <1>4 DEF Status, Goes
<1>5. CASE DeleteClaim("delete-old", "uninstall-old")
  BY <1>5 DEF DeleteClaim, Goes
<1>6. CASE Uninstall("uninstall-old", "apply")
  <2>1. observe' \in BOOLEAN /\ claim' \in BOOLEAN /\ cut' \in BOOLEAN
        /\ torn' \in BOOLEAN
    BY <1>6, Zenon DEF Uninstall, Goes
  <2>2. QED
    BY <1>6, <2>1 DEF Uninstall, Goes
<1>7. CASE ApplyClaim
  BY <1>7 DEF ApplyClaim
<1>8. CASE Install
  <2>1. observe' \in BOOLEAN /\ claim' \in BOOLEAN /\ cut' \in BOOLEAN
        /\ torn' \in BOOLEAN
    BY <1>8, Zenon DEF Install
  <2>2. QED
    BY <1>8, <2>1 DEF Install
<1>9. CASE WaitForPrometheus
  <2>1. observe' \in BOOLEAN /\ claim' \in BOOLEAN /\ cut' \in BOOLEAN
        /\ torn' \in BOOLEAN
    BY <1>9, Zenon DEF WaitForPrometheus, Wait
  <2>2. QED
    BY <1>9, <2>1 DEF WaitForPrometheus, Wait
<1>10. CASE Dialogue
  BY <1>10 DEF Dialogue
<1>11. CASE Uninstall("uninstall", "delete")
  <2>1. observe' \in BOOLEAN /\ claim' \in BOOLEAN /\ cut' \in BOOLEAN
        /\ torn' \in BOOLEAN
    BY <1>11, Zenon DEF Uninstall, Goes
  <2>2. QED
    BY <1>11, <2>1 DEF Uninstall, Goes
<1>12. CASE DeleteClaim("delete", "close")
  BY <1>12 DEF DeleteClaim, Goes
<1>13. CASE CloseOpenEBS
  <2>1. observe' \in BOOLEAN /\ claim' \in BOOLEAN /\ cut' \in BOOLEAN
        /\ torn' \in BOOLEAN
    BY <1>13, Zenon DEF CloseOpenEBS
  <2>2. QED
    BY <1>13, <2>1 DEF CloseOpenEBS
<1>14. CASE Kubernetes
  BY <1>14 DEF Kubernetes
<1>15. QED
  BY <1>1, <1>2, <1>3, <1>4, <1>5, <1>6, <1>7, <1>8, <1>9, <1>10, <1>11,
     <1>12, <1>13, <1>14
     DEF Next, Work

(* A release has pods, and those that start are waited for or were given up.*)
LEMMA PodsStep ==
  ASSUME TypeOK, PodsOfRelease, Next
  PROVE  PodsOfRelease'
<1> USE DEF TypeOK, PodsOfRelease, cluster, Goes
<1>1. CASE Begin
  BY <1>1 DEF Begin
<1>2. CASE InstallOpenEBS
  BY <1>2 DEF InstallOpenEBS
<1>3. CASE WaitForOpenEBS
  BY <1>3 DEF WaitForOpenEBS, Wait
<1>4. CASE Status
  BY <1>4 DEF Status, Goes
<1>5. CASE DeleteClaim("delete-old", "uninstall-old")
  BY <1>5 DEF DeleteClaim, Goes
<1>6. CASE Uninstall("uninstall-old", "apply")
  BY <1>6 DEF Uninstall, Goes
<1>7. CASE ApplyClaim
  BY <1>7 DEF ApplyClaim
<1>8. CASE Install
  BY <1>8 DEF Install
<1>9. CASE WaitForPrometheus
  BY <1>9 DEF WaitForPrometheus, Wait
<1>10. CASE Dialogue
  BY <1>10 DEF Dialogue
<1>11. CASE Uninstall("uninstall", "delete")
  BY <1>11 DEF Uninstall, Goes
<1>12. CASE DeleteClaim("delete", "close")
  BY <1>12 DEF DeleteClaim, Goes
<1>13. CASE CloseOpenEBS
  BY <1>13 DEF CloseOpenEBS
<1>14. CASE Kubernetes
  BY <1>14 DEF Kubernetes
<1>15. QED
  BY <1>1, <1>2, <1>3, <1>4, <1>5, <1>6, <1>7, <1>8, <1>9, <1>10, <1>11,
     <1>12, <1>13, <1>14
     DEF Next, Work

(* Past its wait, OpenEBS is ready and stays so until it is closed.        *)
LEMMA StorageStep ==
  ASSUME TelemetryAssumption, TypeOK, StorageKept, Next
  PROVE  StorageKept'
<1> USE DEF TelemetryAssumption, TypeOK, StorageKept, cluster, Goes, Works,
            Fails
<1>1. CASE Begin
  BY <1>1 DEF Begin
<1>2. CASE InstallOpenEBS
  BY <1>2 DEF InstallOpenEBS
<1>3. CASE WaitForOpenEBS
  BY <1>3 DEF WaitForOpenEBS, Wait
<1>4. CASE Status
  BY <1>4 DEF Status, Goes
<1>5. CASE DeleteClaim("delete-old", "uninstall-old")
  BY <1>5 DEF DeleteClaim, Goes
<1>6. CASE Uninstall("uninstall-old", "apply")
  BY <1>6 DEF Uninstall, Goes
<1>7. CASE ApplyClaim
  BY <1>7 DEF ApplyClaim
<1>8. CASE Install
  BY <1>8 DEF Install
<1>9. CASE WaitForPrometheus
  BY <1>9 DEF WaitForPrometheus, Wait
<1>10. CASE Dialogue
  BY <1>10 DEF Dialogue
<1>11. CASE Uninstall("uninstall", "delete")
  BY <1>11 DEF Uninstall, Goes
<1>12. CASE DeleteClaim("delete", "close")
  BY <1>12 DEF DeleteClaim, Goes
<1>13. CASE CloseOpenEBS
  BY <1>13 DEF CloseOpenEBS
<1>14. CASE Kubernetes
  BY <1>14 DEF Kubernetes
<1>15. QED
  BY <1>1, <1>2, <1>3, <1>4, <1>5, <1>6, <1>7, <1>8, <1>9, <1>10, <1>11,
     <1>12, <1>13, <1>14
     DEF Next, Work

(* Taking down takes the pods first.                                       *)
LEMMA ApartStep ==
  ASSUME TelemetryAssumption, TypeOK, TakenApart, Next
  PROVE  TakenApart'
<1> USE DEF TelemetryAssumption, TypeOK, TakenApart, cluster, Goes, Works,
            Fails
<1>1. CASE Begin
  BY <1>1 DEF Begin
<1>2. CASE InstallOpenEBS
  BY <1>2 DEF InstallOpenEBS
<1>3. CASE WaitForOpenEBS
  BY <1>3 DEF WaitForOpenEBS, Wait
<1>4. CASE Status
  BY <1>4 DEF Status, Goes
<1>5. CASE DeleteClaim("delete-old", "uninstall-old")
  BY <1>5 DEF DeleteClaim, Goes
<1>6. CASE Uninstall("uninstall-old", "apply")
  BY <1>6 DEF Uninstall, Goes
<1>7. CASE ApplyClaim
  BY <1>7 DEF ApplyClaim
<1>8. CASE Install
  BY <1>8 DEF Install
<1>9. CASE WaitForPrometheus
  BY <1>9 DEF WaitForPrometheus, Wait
<1>10. CASE Dialogue
  BY <1>10 DEF Dialogue
<1>11. CASE Uninstall("uninstall", "delete")
  BY <1>11 DEF Uninstall, Goes
<1>12. CASE DeleteClaim("delete", "close")
  BY <1>12 DEF DeleteClaim, Goes
<1>13. CASE CloseOpenEBS
  BY <1>13 DEF CloseOpenEBS
<1>14. CASE Kubernetes
  BY <1>14 DEF Kubernetes
<1>15. QED
  BY <1>1, <1>2, <1>3, <1>4, <1>5, <1>6, <1>7, <1>8, <1>9, <1>10, <1>11,
     <1>12, <1>13, <1>14
     DEF Next, Work

(* What was taken down stays down until the next problem begins.           *)
LEMMA DownStep ==
  ASSUME TelemetryAssumption, TypeOK, PodsOfRelease, TakenApart, TakenDown, Next
  PROVE  TakenDown'
<1> USE DEF TelemetryAssumption, TypeOK, PodsOfRelease, TakenApart,
            TakenDown, cluster, Goes, Works, Fails
<1>1. CASE Begin
  BY <1>1 DEF Begin
<1>2. CASE InstallOpenEBS
  BY <1>2 DEF InstallOpenEBS
<1>3. CASE WaitForOpenEBS
  BY <1>3 DEF WaitForOpenEBS, Wait
<1>4. CASE Status
  BY <1>4 DEF Status, Goes
<1>5. CASE DeleteClaim("delete-old", "uninstall-old")
  BY <1>5 DEF DeleteClaim, Goes
<1>6. CASE Uninstall("uninstall-old", "apply")
  BY <1>6 DEF Uninstall, Goes
<1>7. CASE ApplyClaim
  BY <1>7 DEF ApplyClaim
<1>8. CASE Install
  BY <1>8 DEF Install
<1>9. CASE WaitForPrometheus
  BY <1>9 DEF WaitForPrometheus, Wait
<1>10. CASE Dialogue
  BY <1>10 DEF Dialogue
<1>11. CASE Uninstall("uninstall", "delete")
  BY <1>11 DEF Uninstall, Goes
<1>12. CASE DeleteClaim("delete", "close")
  BY <1>12 DEF DeleteClaim, Goes
<1>13. CASE CloseOpenEBS
  BY <1>13 DEF CloseOpenEBS
<1>14. CASE Kubernetes
  BY <1>14 DEF Kubernetes
<1>15. QED
  BY <1>1, <1>2, <1>3, <1>4, <1>5, <1>6, <1>7, <1>8, <1>9, <1>10, <1>11,
     <1>12, <1>13, <1>14
     DEF Next, Work

(* IInv holds when the program starts.                                     *)
LEMMA InitInv == ASSUME TelemetryAssumption PROVE Init => IInv
<1> SUFFICES ASSUME Init PROVE IInv
  OBVIOUS
<1>1. observe \in BOOLEAN /\ claim \in BOOLEAN /\ cut \in BOOLEAN
      /\ torn \in BOOLEAN
  BY Zenon DEF Init
<1>2. TypeOK
  BY <1>1 DEF TelemetryAssumption, Init, TypeOK, Steps
<1>3. QED
  BY <1>2 DEF Init, IInv, PodsOfRelease, StorageKept, TakenApart, TakenDown

(* IInv is kept by every step.                                             *)
LEMMA StepInv ==
  ASSUME TelemetryAssumption PROVE IInv /\ [Next]_vars => IInv'
<1> SUFFICES ASSUME IInv, [Next]_vars PROVE IInv'
  OBVIOUS
<1> USE DEF IInv
<1>1. CASE Next
  BY <1>1, TypeStep, PodsStep, StorageStep, ApartStep, DownStep
<1>2. CASE UNCHANGED vars
  BY <1>2
         DEF vars, cluster, TypeOK, PodsOfRelease, StorageKept, TakenApart,
             TakenDown
<1>3. QED
  BY <1>1, <1>2

(* IInv holds of every state that can be reached.                          *)
THEOREM Invariance == ASSUME TelemetryAssumption PROVE Spec => []IInv
  BY InitInv, StepInv, PTL DEF Spec

(* The variables keep their types.                                         *)
THEOREM TelemetryTypes == ASSUME TelemetryAssumption PROVE Spec => []TypeOK
<1>1. QED
  BY Invariance, PTL DEF IInv

(* A dialogue has Prometheus' pods unless an earlier wait for them had     *)
(* been given up, and nothing of the telemetry is left between two         *)
(* problems while no command fails (prometheus.py:69, orchestrator.py:207).*)
THEOREM TelemetryCountsOn ==
  ASSUME TelemetryAssumption
  PROVE  Spec => []TelemetryInPlace
<1>1. IInv => TelemetryInPlace
  BY DEF IInv, TypeOK, PodsOfRelease, StorageKept, TelemetryInPlace,
         NotReadyExplained, StorageFirst
<1>2. QED
  BY <1>1, Invariance, PTL

=============================================================================
