--------------------------- MODULE Cluster_proofs ---------------------------
(* What a problem can count on of its application, and the next problem of *)
(* its going; how the forwards of the observers explain what an agent is   *)
(* shown; and the two with the telemetry and the workload in one program:  *)
(* for any number of problems, polls, calls, ports and failing commands.   *)
EXTENDS Cluster, FiniteSetTheorems, TLAPS

-----------------------------------------------------------------------------
(* The application.                                                        *)

Pod(k) == [of : 1 .. k, ready : BOOLEAN, dying : BOOLEAN]

(* The two changes a pod sees keep all its other fields.                   *)
LEMMA PodFields ==
  ASSUME NEW k \in Nat, NEW p \in Pod(k)
  PROVE  /\ [p EXCEPT !.dying = TRUE] \in Pod(k)
         /\ [p EXCEPT !.dying = TRUE].of = p.of
         /\ [p EXCEPT !.dying = TRUE].ready = p.ready
         /\ [p EXCEPT !.ready = TRUE] \in Pod(k)
         /\ [p EXCEPT !.ready = TRUE].of = p.of
         /\ [p EXCEPT !.ready = TRUE].dying = p.dying
         /\ [p EXCEPT !.ready = TRUE].ready = TRUE
  BY DEF Pod

(* Pods that are deleted are the pods there were.                          *)
LEMMA DyingFacts ==
  ASSUME TypeOK
  PROVE  /\ Dying \subseteq Pod(n)
         /\ \A q \in Dying : \E p \in pods : q.of = p.of /\ q.ready = p.ready
         /\ \A q, r \in Dying : q.of = r.of => q = r
<1>1. n \in Nat /\ pods \subseteq Pod(n)
      /\ \A p, q \in pods : p.of = q.of => p = q
  BY AppLifecycleAssumption DEF TypeOK, Pod
<1>2. ASSUME NEW q \in Dying
      PROVE  \E p \in pods : q = [p EXCEPT !.dying = TRUE] /\ q \in Pod(n)
                              /\ q.of = p.of /\ q.ready = p.ready
  <2>1. PICK p \in pods : q = [p EXCEPT !.dying = TRUE]
    BY DEF Dying
  <2>2. QED
    BY <1>1, <2>1, PodFields
<1>3. ASSUME NEW q \in Dying, NEW r \in Dying, q.of = r.of
      PROVE  q = r
  <2>1. PICK p \in pods : q = [p EXCEPT !.dying = TRUE] /\ q.of = p.of
    BY <1>2
  <2>2. PICK o \in pods : r = [o EXCEPT !.dying = TRUE] /\ r.of = o.of
    BY <1>2
  <2>3. p = o
    BY <1>1, <1>3, <2>1, <2>2
  <2>4. QED
    BY <2>1, <2>2, <2>3
<1>4. QED
  BY <1>2, <1>3

(* And so are the pods when one of them gets ready.                        *)
LEMMA ReadyFacts ==
  ASSUME TypeOK, PodReady
  PROVE  /\ pods' \subseteq Pod(n)
         /\ \A q \in pods' : \E p \in pods : q.of = p.of /\ (p.ready => q.ready)
         /\ \A p \in pods : \E q \in pods' : q.of = p.of /\ q.dying = p.dying
         /\ \A q, r \in pods' : q.of = r.of => q = r
<1>1. n \in Nat /\ pods \subseteq Pod(n)
      /\ \A p, q \in pods : p.of = q.of => p = q
  BY AppLifecycleAssumption DEF TypeOK, Pod
<1>2. PICK p \in pods : pods' = (pods \ {p}) \union {[p EXCEPT !.ready = TRUE]}
  BY DEF PodReady
<1> DEFINE q == [p EXCEPT !.ready = TRUE]
<1>3. q \in Pod(n) /\ q.of = p.of /\ q.dying = p.dying /\ q.ready
  BY <1>1, PodFields
<1> HIDE DEF q
<1>4. pods' = (pods \ {p}) \union {q}
  BY <1>2 DEF q
<1>5. QED
  BY <1>1, <1>3, <1>4

(* The pods of a step are pods, one of each problem.                       *)
PodsTyped == pods \subseteq Pod(n) /\ \A p, q \in pods : p.of = q.of => p = q

(* A pod stays its problem's; an install adds one of its own problem.      *)
LEMMA PodsStep ==
  ASSUME TypeOK, OneTimeoutEach, PodsOfEarlier, Next
  PROVE  PodsTyped'
<1> USE AppLifecycleAssumption
       DEF PodsTyped, Pod, TypeOK, cluster, past, Waits, Goes, Succeeds, Fails
<1>1. CASE Construct
  BY <1>1 DEF Construct
<1>2. CASE CreateNamespace
  BY <1>2 DEF CreateNamespace
<1>3. CASE CreateExtras
  BY <1>3 DEF CreateExtras
<1>4. CASE Delete
  BY <1>4, DyingFacts DEF Delete, Uninstall
<1>5. CASE DeleteNamespace("delete_ns", "gone_before", "install")
  BY <1>5 DEF DeleteNamespace
<1>6. CASE WaitForDeletion("gone_before", "install")
  BY <1>6 DEF WaitForDeletion, Raises, Passes, Polls
<1>7. CASE Install
  BY <1>7 DEF Install
<1>8. CASE WaitForReady
  BY <1>8 DEF WaitForReady, Raises, Passes, Polls
<1>9. CASE Finish
  BY <1>9 DEF Finish
<1>10. CASE Cleanup
  BY <1>10, DyingFacts DEF Cleanup, Uninstall
<1>11. CASE DeleteNamespace("cleanup_ns", "gone_after", "idle")
  BY <1>11 DEF DeleteNamespace
<1>12. CASE WaitForDeletion("gone_after", "idle")
  BY <1>12 DEF WaitForDeletion, Raises, Passes, Polls
<1>13. CASE Kubernetes
  <2>1. CASE PodReady
    BY <1>13, <2>1, ReadyFacts DEF Kubernetes, PodReady
  <2>2. CASE PodGone
    BY <1>13, <2>2 DEF Kubernetes, PodGone
  <2>3. CASE NamespaceEmptied
    BY <1>13, <2>3, DyingFacts DEF Kubernetes, NamespaceEmptied
  <2>4. CASE NamespaceGone
    BY <1>13, <2>4 DEF Kubernetes, NamespaceGone
  <2>5. CASE PodCreated
    <3> DEFINE new == [of |-> release, ready |-> FALSE, dying |-> FALSE]
    <3>1. new \in Pod(n) /\ new.of = release
      BY <2>5 DEF PodCreated
    <3>2. pods' = pods \union {new} /\ n' = n /\ \A p \in pods : p.of # release
      BY <1>13, <2>5 DEF Kubernetes, PodCreated
    <3> HIDE DEF new
    <3>3. QED
      BY <3>1, <3>2
  <2>6. QED
    BY <1>13, <2>1, <2>2, <2>3, <2>4, <2>5 DEF Kubernetes
<1>14. CASE Leave
  BY <1>14 DEF Leave
<1>15. QED
  BY <1>1, <1>2, <1>3, <1>4, <1>5, <1>6, <1>7, <1>8, <1>9, <1>10, <1>11,
     <1>12, <1>13, <1>14
     DEF Next, Work

(* Every step keeps the types; a wait counts its polls below the limit.    *)
LEMMA TypeStep ==
  ASSUME TypeOK, OneTimeoutEach, PodsTyped', Next
  PROVE  TypeOK'
<1> USE AppLifecycleAssumption
       DEF OneTimeoutEach, PodsTyped, Pod, TypeOK, cluster, past, Waits, Goes,
           Succeeds, Fails
<1>1. CASE Construct
  BY <1>1 DEF Construct
<1>2. CASE CreateNamespace
  BY <1>2 DEF CreateNamespace
<1>3. CASE CreateExtras
  <2>1. extras' \in BOOLEAN
    BY <1>3, Zenon DEF CreateExtras
  <2>2. QED
    BY <1>3, <2>1 DEF CreateExtras
<1>4. CASE Delete
  BY <1>4 DEF Delete, Uninstall
<1>5. CASE DeleteNamespace("delete_ns", "gone_before", "install")
  BY <1>5 DEF DeleteNamespace
<1>6. CASE WaitForDeletion("gone_before", "install")
  BY <1>6 DEF WaitForDeletion, Raises, Passes, Polls
<1>7. CASE Install
  BY <1>7 DEF Install
<1>8. CASE WaitForReady
  BY <1>8 DEF WaitForReady, Raises, Passes, Polls
<1>9. CASE Finish
  BY <1>9 DEF Finish
<1>10. CASE Cleanup
  BY <1>10 DEF Cleanup, Uninstall
<1>11. CASE DeleteNamespace("cleanup_ns", "gone_after", "idle")
  BY <1>11 DEF DeleteNamespace
<1>12. CASE WaitForDeletion("gone_after", "idle")
  BY <1>12 DEF WaitForDeletion, Raises, Passes, Polls
<1>13. CASE Kubernetes
  <2>1. extras' \in BOOLEAN
    BY <1>13, Zenon
         DEF Kubernetes, PodCreated, PodReady, PodGone, NamespaceEmptied, NamespaceGone
  <2>2. QED
    BY <1>13, <2>1
         DEF Kubernetes, PodCreated, PodReady, PodGone, NamespaceEmptied, NamespaceGone
<1>14. CASE Leave
  BY <1>14 DEF Leave
<1>15. QED
  BY <1>1, <1>2, <1>3, <1>4, <1>5, <1>6, <1>7, <1>8, <1>9, <1>10, <1>11,
     <1>12, <1>13, <1>14
     DEF Next, Work

(* What is made in a namespace is made in one that is there.               *)
LEMMA AbsentStep ==
  ASSUME TypeOK, AbsentIsEmpty, Next
  PROVE  AbsentIsEmpty'
<1> USE AppLifecycleAssumption
       DEF AbsentIsEmpty, Dying, TypeOK, cluster, past, Waits, Goes, Succeeds,
           Fails
<1>1. CASE Construct
  BY <1>1 DEF Construct
<1>2. CASE CreateNamespace
  BY <1>2 DEF CreateNamespace
<1>3. CASE CreateExtras
  BY <1>3 DEF CreateExtras
<1>4. CASE Delete
  BY <1>4 DEF Delete, Uninstall
<1>5. CASE DeleteNamespace("delete_ns", "gone_before", "install")
  BY <1>5 DEF DeleteNamespace
<1>6. CASE WaitForDeletion("gone_before", "install")
  BY <1>6 DEF WaitForDeletion, Raises, Passes, Polls
<1>7. CASE Install
  BY <1>7 DEF Install
<1>8. CASE WaitForReady
  BY <1>8 DEF WaitForReady, Raises, Passes, Polls
<1>9. CASE Finish
  BY <1>9 DEF Finish
<1>10. CASE Cleanup
  BY <1>10 DEF Cleanup, Uninstall
<1>11. CASE DeleteNamespace("cleanup_ns", "gone_after", "idle")
  BY <1>11 DEF DeleteNamespace
<1>12. CASE WaitForDeletion("gone_after", "idle")
  BY <1>12 DEF WaitForDeletion, Raises, Passes, Polls
<1>13. CASE Kubernetes
  BY <1>13 DEF Kubernetes, PodCreated, PodReady, PodGone, NamespaceEmptied, NamespaceGone
<1>14. CASE Leave
  BY <1>14 DEF Leave
<1>15. QED
  BY <1>1, <1>2, <1>3, <1>4, <1>5, <1>6, <1>7, <1>8, <1>9, <1>10, <1>11,
     <1>12, <1>13, <1>14
     DEF Next, Work

(* A wait that runs out ends its problem.                                  *)
LEMMA TimeoutStep ==
  ASSUME TypeOK, OneTimeoutEach, Next
  PROVE  OneTimeoutEach'
<1> USE AppLifecycleAssumption
       DEF OneTimeoutEach, TypeOK, cluster, past, Waits, Goes, Succeeds, Fails
<1>1. CASE Construct
  BY <1>1 DEF Construct
<1>2. CASE CreateNamespace
  BY <1>2 DEF CreateNamespace
<1>3. CASE CreateExtras
  BY <1>3 DEF CreateExtras
<1>4. CASE Delete
  BY <1>4 DEF Delete, Uninstall
<1>5. CASE DeleteNamespace("delete_ns", "gone_before", "install")
  BY <1>5 DEF DeleteNamespace
<1>6. CASE WaitForDeletion("gone_before", "install")
  BY <1>6 DEF WaitForDeletion, Raises, Passes, Polls
<1>7. CASE Install
  BY <1>7 DEF Install
<1>8. CASE WaitForReady
  BY <1>8 DEF WaitForReady, Raises, Passes, Polls
<1>9. CASE Finish
  BY <1>9 DEF Finish
<1>10. CASE Cleanup
  BY <1>10 DEF Cleanup, Uninstall
<1>11. CASE DeleteNamespace("cleanup_ns", "gone_after", "idle")
  BY <1>11 DEF DeleteNamespace
<1>12. CASE WaitForDeletion("gone_after", "idle")
  BY <1>12 DEF WaitForDeletion, Raises, Passes, Polls
<1>13. CASE Kubernetes
  BY <1>13 DEF Kubernetes, PodCreated, PodReady, PodGone, NamespaceEmptied, NamespaceGone
<1>14. CASE Leave
  BY <1>14 DEF Leave
<1>15. QED
  BY <1>1, <1>2, <1>3, <1>4, <1>5, <1>6, <1>7, <1>8, <1>9, <1>10, <1>11,
     <1>12, <1>13, <1>14
     DEF Next, Work

(* Until its install, a problem finds only the pods of earlier ones.       *)
LEMMA EarlierStep ==
  ASSUME TypeOK, PodsOfEarlier, Next
  PROVE  PodsOfEarlier'
<1> USE AppLifecycleAssumption
       DEF PodsOfEarlier, TypeOK, cluster, past, Waits, Goes, Succeeds, Fails
<1>1. CASE Construct
  BY <1>1 DEF Construct
<1>2. CASE CreateNamespace
  BY <1>2 DEF CreateNamespace
<1>3. CASE CreateExtras
  BY <1>3 DEF CreateExtras
<1>4. CASE Delete
  BY <1>4, DyingFacts DEF Delete, Uninstall
<1>5. CASE DeleteNamespace("delete_ns", "gone_before", "install")
  BY <1>5 DEF DeleteNamespace
<1>6. CASE WaitForDeletion("gone_before", "install")
  BY <1>6 DEF WaitForDeletion, Raises, Passes, Polls
<1>7. CASE Install
  BY <1>7 DEF Install
<1>8. CASE WaitForReady
  BY <1>8 DEF WaitForReady, Raises, Passes, Polls
<1>9. CASE Finish
  BY <1>9 DEF Finish
<1>10. CASE Cleanup
  BY <1>10, DyingFacts DEF Cleanup, Uninstall
<1>11. CASE DeleteNamespace("cleanup_ns", "gone_after", "idle")
  BY <1>11 DEF DeleteNamespace
<1>12. CASE WaitForDeletion("gone_after", "idle")
  BY <1>12 DEF WaitForDeletion, Raises, Passes, Polls
<1>13. CASE Kubernetes
  <2>1. CASE PodReady
    BY <1>13, <2>1, ReadyFacts DEF Kubernetes, PodReady
  <2>2. CASE PodGone
    BY <1>13, <2>2 DEF Kubernetes, PodGone
  <2>3. CASE NamespaceEmptied
    BY <1>13, <2>3, DyingFacts DEF Kubernetes, NamespaceEmptied
  <2>4. CASE NamespaceGone
    BY <1>13, <2>4 DEF Kubernetes, NamespaceGone
  <2>5. CASE PodCreated
    BY <1>13, <2>5 DEF Kubernetes, PodCreated
  <2>6. QED
    BY <1>13, <2>1, <2>2, <2>3, <2>4, <2>5 DEF Kubernetes
<1>14. CASE Leave
  BY <1>14 DEF Leave
<1>15. QED
  BY <1>1, <1>2, <1>3, <1>4, <1>5, <1>6, <1>7, <1>8, <1>9, <1>10, <1>11,
     <1>12, <1>13, <1>14
     DEF Next, Work

(* Each step leaves the namespace as the next one expects it.              *)
LEMMA NamespaceStep ==
  ASSUME TypeOK, AbsentIsEmpty, OneTimeoutEach, Namespace, Next
  PROVE  Namespace'
<1> USE AppLifecycleAssumption
       DEF Quiet, Left, Last, AbsentIsEmpty, Namespace, OneTimeoutEach, TypeOK,
           cluster, past, Waits, Goes, Succeeds, Fails
<1>1. CASE Construct
  BY <1>1 DEF Construct
<1>2. CASE CreateNamespace
  BY <1>2 DEF CreateNamespace
<1>3. CASE CreateExtras
  BY <1>3 DEF CreateExtras
<1>4. CASE Delete
  BY <1>4 DEF Delete, Uninstall
<1>5. CASE DeleteNamespace("delete_ns", "gone_before", "install")
  BY <1>5 DEF DeleteNamespace
<1>6. CASE WaitForDeletion("gone_before", "install")
  BY <1>6 DEF WaitForDeletion, Raises, Passes, Polls
<1>7. CASE Install
  BY <1>7 DEF Install
<1>8. CASE WaitForReady
  BY <1>8 DEF WaitForReady, Raises, Passes, Polls
<1>9. CASE Finish
  BY <1>9 DEF Finish
<1>10. CASE Cleanup
  BY <1>10 DEF Cleanup, Uninstall
<1>11. CASE DeleteNamespace("cleanup_ns", "gone_after", "idle")
  BY <1>11 DEF DeleteNamespace
<1>12. CASE WaitForDeletion("gone_after", "idle")
  BY <1>12 DEF WaitForDeletion, Raises, Passes, Polls
<1>13. CASE Kubernetes
  BY <1>13 DEF Kubernetes, PodCreated, PodReady, PodGone, NamespaceEmptied, NamespaceGone
<1>14. CASE Leave
  BY <1>14 DEF Leave
<1>15. QED
  BY <1>1, <1>2, <1>3, <1>4, <1>5, <1>6, <1>7, <1>8, <1>9, <1>10, <1>11,
     <1>12, <1>13, <1>14
     DEF Next, Work

(* Each step leaves the release as the next one expects it.                *)
LEMMA ReleasedStep ==
  ASSUME TypeOK, AbsentIsEmpty, OneTimeoutEach, Namespace, Released, Next
  PROVE  Released'
<1> USE AppLifecycleAssumption
       DEF Quiet, Left, Last, AbsentIsEmpty, Namespace, Released,
           OneTimeoutEach, TypeOK, cluster, past, Waits, Goes, Succeeds, Fails
<1>1. CASE Construct
  BY <1>1 DEF Construct
<1>2. CASE CreateNamespace
  BY <1>2 DEF CreateNamespace
<1>3. CASE CreateExtras
  BY <1>3 DEF CreateExtras
<1>4. CASE Delete
  BY <1>4, DyingFacts DEF Delete, Uninstall
<1>5. CASE DeleteNamespace("delete_ns", "gone_before", "install")
  BY <1>5 DEF DeleteNamespace
<1>6. CASE WaitForDeletion("gone_before", "install")
  BY <1>6 DEF WaitForDeletion, Raises, Passes, Polls
<1>7. CASE Install
  BY <1>7 DEF Install
<1>8. CASE WaitForReady
  BY <1>8 DEF WaitForReady, Raises, Passes, Polls
<1>9. CASE Finish
  BY <1>9 DEF Finish
<1>10. CASE Cleanup
  BY <1>10, DyingFacts DEF Cleanup, Uninstall
<1>11. CASE DeleteNamespace("cleanup_ns", "gone_after", "idle")
  BY <1>11 DEF DeleteNamespace
<1>12. CASE WaitForDeletion("gone_after", "idle")
  BY <1>12 DEF WaitForDeletion, Raises, Passes, Polls
<1>13. CASE Kubernetes
  <2>1. CASE PodReady
    BY <1>13, <2>1, ReadyFacts DEF Kubernetes, PodReady
  <2>2. CASE PodGone
    BY <1>13, <2>2 DEF Kubernetes, PodGone
  <2>3. CASE NamespaceEmptied
    BY <1>13, <2>3, DyingFacts DEF Kubernetes, NamespaceEmptied
  <2>4. CASE NamespaceGone
    BY <1>13, <2>4 DEF Kubernetes, NamespaceGone
  <2>5. CASE PodCreated
    BY <1>13, <2>5 DEF Kubernetes, PodCreated
  <2>6. QED
    BY <1>13, <2>1, <2>2, <2>3, <2>4, <2>5 DEF Kubernetes
<1>14. CASE Leave
  BY <1>14 DEF Leave
<1>15. QED
  BY <1>1, <1>2, <1>3, <1>4, <1>5, <1>6, <1>7, <1>8, <1>9, <1>10, <1>11,
     <1>12, <1>13, <1>14
     DEF Next, Work

(* Without an overlap, the pods stay those of the problem.                 *)
LEMMA OwnPodsStep ==
  ASSUME TypeOK, AbsentIsEmpty, OneTimeoutEach, PodsOfEarlier, Namespace,
         Released, OwnPods, Next
  PROVE  OwnPods'
<1> USE AppLifecycleAssumption
       DEF Quiet, Left, Last, AbsentIsEmpty, Namespace, Released, OwnPods,
           PodsOfEarlier, OneTimeoutEach, TypeOK, cluster, past, Waits, Goes,
           Succeeds, Fails
<1>1. CASE Construct
  BY <1>1 DEF Construct
<1>2. CASE CreateNamespace
  BY <1>2 DEF CreateNamespace
<1>3. CASE CreateExtras
  BY <1>3 DEF CreateExtras
<1>4. CASE Delete
  BY <1>4, DyingFacts DEF Delete, Uninstall
<1>5. CASE DeleteNamespace("delete_ns", "gone_before", "install")
  BY <1>5 DEF DeleteNamespace
<1>6. CASE WaitForDeletion("gone_before", "install")
  BY <1>6 DEF WaitForDeletion, Raises, Passes, Polls
<1>7. CASE Install
  <2>1. pods' = pods /\ pc' = "ready" /\ app' = app /\ n' = n /\ left' = left
    BY <1>7 DEF Install
  <2>2. overlap' <=> pods # {}
    BY <1>7, Zenon DEF Install
  <2>3. CASE pods = {}
    BY <2>1, <2>2, <2>3
  <2>4. CASE pods # {}
    <3>1. Quiet' => Quiet /\ pc = "install" /\ app # "astronomy"
      BY <1>7, <2>4 DEF Install
    <3>2. Quiet' => app = "social" \/ (app = "hotel" /\ Left)
      BY <2>4, <3>1
    <3>3. pc' = "ready" /\ overlap' /\ (Left' <=> Left)
      BY <1>7, <2>1, <2>2, <2>4 DEF Install
    <3>4. QED
      BY <2>1, <3>2, <3>3
  <2>5. QED
    BY <2>3, <2>4
<1>8. CASE WaitForReady
  BY <1>8 DEF WaitForReady, Raises, Passes, Polls
<1>9. CASE Finish
  BY <1>9 DEF Finish
<1>10. CASE Cleanup
  BY <1>10, DyingFacts DEF Cleanup, Uninstall
<1>11. CASE DeleteNamespace("cleanup_ns", "gone_after", "idle")
  BY <1>11 DEF DeleteNamespace
<1>12. CASE WaitForDeletion("gone_after", "idle")
  BY <1>12 DEF WaitForDeletion, Raises, Passes, Polls
<1>13. CASE Kubernetes
  <2>1. CASE PodReady
    BY <1>13, <2>1, ReadyFacts DEF Kubernetes, PodReady
  <2>2. CASE PodGone
    BY <1>13, <2>2 DEF Kubernetes, PodGone
  <2>3. CASE NamespaceEmptied
    BY <1>13, <2>3, DyingFacts DEF Kubernetes, NamespaceEmptied
  <2>4. CASE NamespaceGone
    BY <1>13, <2>4 DEF Kubernetes, NamespaceGone
  <2>5. CASE PodCreated
    BY <1>13, <2>5 DEF Kubernetes, PodCreated
  <2>6. QED
    BY <1>13, <2>1, <2>2, <2>3, <2>4, <2>5 DEF Kubernetes
<1>14. CASE Leave
  BY <1>14 DEF Leave
<1>15. QED
  BY <1>1, <1>2, <1>3, <1>4, <1>5, <1>6, <1>7, <1>8, <1>9, <1>10, <1>11,
     <1>12, <1>13, <1>14
     DEF Next, Work

(* IInv holds when the program starts.                                     *)
LEMMA InitInv == Init => IInv
<1> SUFFICES ASSUME Init PROVE IInv
  OBVIOUS
<1> USE AppLifecycleAssumption DEF Init
<1>1. extras \in BOOLEAN /\ overlap \in BOOLEAN
  BY Zenon
<1>2. TypeOK
  BY <1>1 DEF TypeOK, Waits
<1>3. AbsentIsEmpty /\ OneTimeoutEach /\ PodsOfEarlier
  BY DEF AbsentIsEmpty, OneTimeoutEach, PodsOfEarlier
<1>4. Namespace /\ Released /\ OwnPods
  BY DEF Namespace, Released, OwnPods, Quiet, Left, Last
<1>5. QED
  BY <1>2, <1>3, <1>4 DEF IInv

(* IInv is kept by every step.                                             *)
LEMMA StepInv == IInv /\ [Next]_vars => IInv'
<1> SUFFICES ASSUME IInv, [Next]_vars PROVE IInv'
  OBVIOUS
<1> USE DEF IInv
<1>1. CASE Next
  BY <1>1, PodsStep, TypeStep, AbsentStep, TimeoutStep, EarlierStep,
     NamespaceStep, ReleasedStep, OwnPodsStep
<1>2. CASE UNCHANGED vars
  BY <1>2
         DEF vars, cluster, past, TypeOK, AbsentIsEmpty, OneTimeoutEach,
             PodsOfEarlier, Namespace, Released, OwnPods, Quiet, Left, Last
<1>3. QED
  BY <1>1, <1>2

(* IInv holds of every state that can be reached.                          *)
THEOREM Invariance == Spec => []IInv
  BY InitInv, StepInv, PTL DEF Spec

(* The variables keep their types, with one pod of a problem at a time.    *)
THEOREM LifecycleTypes == Spec => []TypeOK
<1>1. QED
  BY Invariance, PTL DEF IInv

(* What a problem finds of its application, from the inductive invariant.  *)
LEMMA OwnAndClean == IInv => OwnApplication /\ CleanSlate
<1> SUFFICES ASSUME IInv PROVE OwnApplication /\ CleanSlate
  OBVIOUS
<1>1. pc = "running" /\ Quiet /\ ~overlap
        => \E p \in pods : p.of = n /\ p.ready
  BY DEF IInv, OwnPods
<1>2. OwnApplication
  BY <1>1 DEF IInv, Released, OwnPods, OwnApplication
<1>3. CleanSlate
  BY DEF IInv, Namespace, Released, CleanSlate
<1>4. QED
  BY <1>2, <1>3

(* While no command fails without a word and no wait for a deletion is     *)
(* given up, a problem begins with its own release, and with a pod of it   *)
(* ready unless the wait was satisfied with pods on their way out, which   *)
(* takes a namespace that stays (kubectl.py:98, helm.py:56).               *)
THEOREM ProblemHasItsApplication == Spec => []OwnApplication
<1>1. QED
  BY OwnAndClean, Invariance, PTL

(* Under the same condition nothing is left of a problem that came to its  *)
(* cleanup, and nothing of one that did not when the next is installed     *)
(* (hotelres.py:87, astronomy_shop.py:42, orchestrator.py:205).            *)
THEOREM NothingOfTheLast == Spec => []CleanSlate
<1>1. QED
  BY OwnAndClean, Invariance, PTL

-----------------------------------------------------------------------------
(* The forwards of the observers.                                          *)

(* Cardinality means the same in the instance of PortForward.              *)
LEMMA PortCardinality ==
  /\ PF!KeptFew <=> Cardinality(PF!Kept) <= f_errors + f_empty
  /\ PF!KeptFew' <=> Cardinality(PF!Kept') <= f_errors' + f_empty'
<1>1. \A S : PF!Cardinality(S) = Cardinality(S)
  BY DEF PF!Cardinality, Cardinality
<1>2. QED
  BY <1>1, Zenon DEF PF!KeptFew

(* A set of numbers has a least one.                                       *)
LEMMA LeastNumber ==
  ASSUME NEW S \in SUBSET Nat, S # {}
  PROVE  \E k \in S : \A m \in S : k <= m
<1> DEFINE Below(k) == 1 .. k
           T == {Below(k) : k \in S}
<1>1. T \subseteq FiniteSubsetsOf(Nat) /\ T # {}
  <2>1. \A k \in S : Below(k) \in FiniteSubsetsOf(Nat)
    BY FS_Interval DEF FiniteSubsetsOf
  <2>2. QED
    BY <2>1
<1>2. PICK x \in T : \A y \in T : ~(<<y, x>> \in StrictSubsetOrdering(Nat))
  BY <1>1, FS_StrictSubsetOrderingWellFounded, WFMin
<1>3. PICK k \in S : x = Below(k)
  OBVIOUS
<1>4. ASSUME NEW m \in S, m < k PROVE FALSE
  <2>1. <<Below(m), Below(k)>> \in StrictSubsetOrdering(Nat)
    <3>1. Below(m) \subseteq Below(k) /\ k \in Below(k) /\ k \notin Below(m)
      BY <1>4
    <3>2. Below(m) \subseteq Nat /\ Below(k) \subseteq Nat
      BY <1>4
    <3>3. QED
      BY <3>1, <3>2 DEF StrictSubsetOrdering
  <2>2. QED
    BY <1>2, <1>3, <2>1
<1>5. QED
  BY <1>4

(* Ports are numbers, and there are finitely many.                         *)
LEMMA PortsNat ==
  ASSUME PF!PortAssumption
  PROVE  /\ PF!Ports \subseteq Nat /\ IsFiniteSet(PF!Ports)
         /\ PF!TracePort \in PF!Ports /\ PF!QueriedPort \in PF!Ports
         /\ PF!QueriedPort # PF!TracePort
         /\ PF!Ports \ {PF!TracePort} = 1 .. MetricPorts
         /\ \A p \in PF!Ports \ {PF!TracePort} : PF!QueriedPort <= p
<1>1. PF!Ports \subseteq 0 .. MetricPorts
  BY DEF PF!PortAssumption, PF!Ports, PF!TracePort, PF!QueriedPort
<1>2. IsFiniteSet(0 .. MetricPorts)
  BY FS_Interval DEF PF!PortAssumption
<1>3. IsFiniteSet(PF!Ports)
  BY <1>1, <1>2, FS_Subset, Zenon
<1>4. QED
  BY <1>3 DEF PF!PortAssumption, PF!Ports, PF!TracePort, PF!QueriedPort

(* find_free_port takes the first port that is not in use.                 *)
LEMMA FirstUnused ==
  ASSUME PF!PortAssumption, PF!Unused # {}
  PROVE  LET p == CHOOSE q \in PF!Unused : \A r \in PF!Unused : q <= r
         IN  p \in PF!Unused /\ \A r \in PF!Unused : p <= r
<1>1. PF!Unused \subseteq Nat
  BY PortsNat DEF PF!Unused
<1>2. \E p \in PF!Unused : \A r \in PF!Unused : p <= r
  BY <1>1, LeastNumber
<1>3. QED
  BY <1>2

(* What a port can lead to.                                                *)
LEMMA ForwardingsTyped ==
  ASSUME PF!PortAssumption
  PROVE  /\ PF!Free \in PF!Forwardings
         /\ \A t \in PF!Targets, b \in BOOLEAN :
              [to |-> t, live |-> b] \in PF!Forwardings
         /\ \A f \in PF!Forwardings : f.to \in PF!Targets \union {"nobody"}
              /\ f.live \in BOOLEAN
         /\ \A t \in PF!Targets, b \in BOOLEAN :
              [to |-> t, live |-> b] # PF!Free
         /\ ~PF!Free.live /\ PF!Free.to = "nobody" /\ "nobody" \notin PF!Targets
         /\ Namespaces \subseteq PF!Targets /\ "prometheus" \in PF!Targets
  BY DEF PF!Free, PF!Forwardings, PF!Targets, PF!PortAssumption

(* What a read leaves of a forward.                                        *)
LEMMA ReadLeaves ==
  ASSUME PF!PortAssumption, PF!TypeOK, NEW p \in PF!Ports
  PROVE  /\ PF!Read(p).left \in PF!Forwardings
         /\ PF!Read(p).left.live => PF!Read(p).left = f_forwards[p]
         /\ PF!Read(p).left.to \in {f_forwards[p].to, "nobody"}
         /\ PF!Read(p).left.to = "nobody" \/ f_forwards[p].live
         /\ PF!Read(p).answer \in PF!Targets \union {"nothing"}
         /\ f_forwards[p].live => PF!Read(p).left = f_forwards[p]
              /\ PF!Read(p).answer = f_forwards[p].to
         /\ ~f_forwards[p].live => PF!Read(p).left = PF!Free
              /\ PF!Read(p).answer = "nothing"
<1>1. CASE f_forwards[p].live
  <2>1. PF!Read(p) = [answer |-> f_forwards[p].to, left |-> f_forwards[p]]
    BY <1>1 DEF PF!Read
  <2>2. f_forwards[p] \in PF!Forwardings /\ f_forwards[p].to \in f_up
    BY <1>1 DEF PF!TypeOK
  <2>3. QED
    BY <1>1, <2>1, <2>2 DEF PF!TypeOK
<1>2. CASE ~f_forwards[p].live
  <2>1. PF!Read(p) = [answer |-> "nothing", left |-> PF!Free]
    BY <1>2 DEF PF!Read
  <2>2. QED
    BY <1>2, <2>1, ForwardingsTyped
<1>3. QED
  BY <1>1, <1>2

(* Every port leads somewhere or nowhere, and what is live is up.          *)
LEMMA ForwardsForwardings ==
  ASSUME PF!PortAssumption, PF!TypeOK, PF!OwnForward, PF!Next
  PROVE  /\ f_forwards' \in [PF!Ports -> PF!Forwardings]
         /\ \A p \in PF!Ports : f_forwards'[p].live
              => f_forwards'[p].to \in f_up'
<1> USE PortsNat, ForwardingsTyped DEF PF!TypeOK, PF!Calls, PF!call, PF!network
<1> DEFINE Goal == /\ f_forwards' \in [PF!Ports -> PF!Forwardings]
                   /\ \A p \in PF!Ports : f_forwards'[p].live
                        => f_forwards'[p].to \in f_up'
<1>1. ASSUME NEW space \in Namespaces, PF!GetTraces(space) PROVE Goal
  BY <1>1 DEF PF!GetTraces
<1>2. CASE PF!GetMetrics
  BY <1>2 DEF PF!GetMetrics
<1>3. CASE PF!Attempt
  <2>1. f_up' = f_up
    BY <1>3 DEF PF!Attempt
  <2>2. CASE UNCHANGED f_forwards
    BY <2>1, <2>2
  <2>3. CASE f_target \in f_up
               /\ f_forwards'
                    = [f_forwards EXCEPT ![f_port] = [to |-> f_target, live |-> TRUE]]
    <3>1. [to |-> f_target, live |-> TRUE] \in PF!Forwardings
      OBVIOUS
    <3>2. QED
      BY <2>1, <2>3, <3>1
  <2>4. QED
    BY <1>3, <2>2, <2>3 DEF PF!Attempt
<1>4. CASE PF!ReadTraces
  <2>1. PICK f \in {PF!Free, PF!Read(PF!TracePort).left} :
          f_forwards' = [f_forwards EXCEPT ![PF!TracePort] = f]
    BY <1>4 DEF PF!ReadTraces
  <2>2. f_up' = f_up
    BY <1>4 DEF PF!ReadTraces
  <2>3. f \in PF!Forwardings /\ (f.live => f.to \in f_up)
    BY <2>1, ReadLeaves
  <2>4. QED
    BY <2>1, <2>2, <2>3
<1>5. CASE PF!ReadMetrics
  <2>0. PICK q \in {f_port, PF!QueriedPort} :
          \E f \in {f_forwards[q], PF!Free, PF!Read(PF!QueriedPort).left} :
             f_forwards' = [f_forwards EXCEPT ![q] = f]
    BY <1>5 DEF PF!ReadMetrics
  <2>1. PICK f \in {f_forwards[q], PF!Free, PF!Read(PF!QueriedPort).left} :
          f_forwards' = [f_forwards EXCEPT ![q] = f]
    BY <2>0
  <2>2. f_up' = f_up
    BY <1>5 DEF PF!ReadMetrics
  <2>3. f \in PF!Forwardings /\ (f.live => f.to \in f_up)
    BY <2>1, ReadLeaves
  <2>4. QED
    BY <2>1, <2>2, <2>3
<1>6. ASSUME NEW t \in PF!Targets, PF!Goes(t) PROVE Goal
  BY <1>6 DEF PF!Goes
<1>7. ASSUME NEW t \in PF!Targets, PF!Comes(t) PROVE Goal
  BY <1>7 DEF PF!Comes
<1>8. ASSUME NEW p \in PF!Ports, PF!Ends(p) PROVE Goal
  BY <1>8 DEF PF!Ends
<1>9. QED
  BY <1>1, <1>2, <1>3, <1>4, <1>5, <1>6, <1>7, <1>8 DEF PF!Next

(* The variables of the forwards keep their types.                         *)
LEMMA ForwardsTypeStep ==
  ASSUME PF!PortAssumption, PF!TypeOK, PF!OwnForward, f_missed <= f_calls,
           PF!Next
  PROVE  PF!TypeOK' /\ (f_missed <= f_calls)'
<1> DEFINE Plain ==
      /\ f_pc \in {"idle", "attempt", "query"}
      /\ f_kind \in {"traces", "metrics"} /\ f_target \in PF!Targets
      /\ f_port \in PF!Ports /\ f_attempt \in 0 .. 3
      /\ f_answer \in PF!Targets \union {"nothing", "raised"}
      /\ f_up \subseteq PF!Targets
      /\ f_calls \in 0 .. MaxCalls /\ f_moves \in 0 .. MaxMoves
      /\ f_empty \in 0 .. MaxEmpty /\ f_errors \in 0 .. MaxErrors
      /\ f_missed \in 0 .. MaxCalls /\ f_missed <= f_calls
    Truths == f_started \in BOOLEAN /\ f_stray \in BOOLEAN
<1>0. Plain /\ Truths
  BY DEF PF!TypeOK
<1>p. MaxCalls \in Nat /\ MaxMoves \in Nat /\ MaxEmpty \in Nat
        /\ MaxErrors \in Nat
  BY DEF PF!PortAssumption
<1> SUFFICES Plain' /\ Truths'
  BY ForwardsForwardings DEF PF!TypeOK
<1> HIDE DEF Plain, Truths
<1> USE DEF PF!Calls, PF!call, PF!network, PF!Works, PF!Fails
<1>1. ASSUME NEW space \in Namespaces, PF!GetTraces(space) PROVE Plain'
               /\ Truths'
  <2>1. Truths'
    BY <1>0, <1>1, Zenon DEF Truths, PF!GetTraces
  <2>2. Plain'
    BY <1>0, <1>p, <1>1, ForwardingsTyped, PortsNat DEF Plain, PF!GetTraces
  <2>3. QED
    BY <2>1, <2>2
<1>2. CASE PF!GetMetrics
  <2>1. Truths'
    BY <1>0, <1>2, Zenon DEF Truths, PF!GetMetrics
  <2>2. f_port' \in PF!Ports
    <3>1. PF!Unused \subseteq PF!Ports
      BY DEF PF!Unused
    <3>2. f_port' = f_port
            \/ (PF!Unused # {} /\ f_port' = CHOOSE p \in PF!Unused : \A q \in PF!Unused : p <= q)
      BY <1>2 DEF PF!GetMetrics
    <3>3. QED
      BY <1>0, <3>1, <3>2, FirstUnused DEF Plain
  <2>3. Plain'
    BY <1>0, <1>p, <1>2, <2>2, ForwardingsTyped DEF Plain, PF!GetMetrics
  <2>4. QED
    BY <2>1, <2>3
<1>3. CASE PF!Attempt
  <2>1. Truths'
    BY <1>0, <1>3, Zenon DEF Truths, PF!Attempt
  <2>2. Plain'
    BY <1>0, <1>p, <1>3 DEF Plain, PF!Attempt, PF!OwnForward
  <2>3. QED
    BY <2>1, <2>2
<1>4. CASE PF!ReadTraces
  <2>1. Truths'
    BY <1>0, <1>4, Zenon DEF Truths, PF!ReadTraces, PF!InUse
  <2>2. f_answer' \in PF!Targets \union {"nothing", "raised"}
    BY <1>4, ReadLeaves, PortsNat, ForwardingsTyped DEF PF!ReadTraces
  <2>3. Plain'
    BY <1>0, <1>p, <1>4, <2>2 DEF Plain, PF!ReadTraces
  <2>4. QED
    BY <2>1, <2>3
<1>5. CASE PF!ReadMetrics
  <2>1. Truths'
    BY <1>0, <1>5, Zenon DEF Truths, PF!ReadMetrics
  <2>2. f_answer' \in PF!Targets \union {"nothing", "raised"}
    BY <1>5, ReadLeaves, PortsNat, ForwardingsTyped DEF PF!ReadMetrics
  <2>3. Plain'
    BY <1>0, <1>p, <1>5, <2>2 DEF Plain, PF!ReadMetrics, PF!OwnForward
  <2>4. QED
    BY <2>1, <2>3
<1>6. ASSUME NEW t \in PF!Targets, PF!Goes(t) PROVE Plain' /\ Truths'
  <2>1. Truths'
    BY <1>0, <1>6, Zenon DEF Truths, PF!Goes
  <2>2. Plain'
    BY <1>0, <1>p, <1>6 DEF Plain, PF!Goes
  <2>3. QED
    BY <2>1, <2>2
<1>7. ASSUME NEW t \in PF!Targets, PF!Comes(t) PROVE Plain' /\ Truths'
  <2>1. Truths'
    BY <1>0, <1>7, Zenon DEF Truths, PF!Comes
  <2>2. Plain'
    BY <1>0, <1>p, <1>7 DEF Plain, PF!Comes
  <2>3. QED
    BY <2>1, <2>2
<1>8. ASSUME NEW p \in PF!Ports, PF!Ends(p) PROVE Plain' /\ Truths'
  <2>1. Truths'
    BY <1>0, <1>8, Zenon DEF Truths, PF!Ends
  <2>2. Plain'
    BY <1>0, <1>p, <1>8 DEF Plain, PF!Ends
  <2>3. QED
    BY <2>1, <2>2
<1>9. QED
  BY <1>1, <1>2, <1>3, <1>4, <1>5, <1>6, <1>7, <1>8 DEF PF!Next

(* Metrics go to Prometheus only, and a call that started its forward has  *)
(* it.                                                                     *)
LEMMA ForwardsOwnStep ==
  ASSUME PF!PortAssumption, PF!TypeOK, PF!OwnForward, PF!OfPrometheus,
           f_missed <= f_calls, PF!Next
  PROVE  PF!OfPrometheus' /\ PF!OwnForward'
<1> USE PortsNat, ForwardingsTyped
   DEF PF!TypeOK, PF!Calls, PF!call, PF!network, PF!Works, PF!Fails, PF!InUse,
       PF!OfPrometheus, PF!OwnForward
<1>1. ASSUME NEW space \in Namespaces, PF!GetTraces(space)
      PROVE  PF!OfPrometheus' /\ PF!OwnForward'
  BY <1>1 DEF PF!GetTraces
<1>2. CASE PF!GetMetrics
  BY <1>2, FirstUnused DEF PF!GetMetrics, PF!Unused
<1>3. CASE PF!Attempt
  <2>1. CASE /\ ~PF!InUse(f_port) /\ f_target \in f_up
             /\ f_forwards'
                  = [f_forwards EXCEPT ![f_port] = [to |-> f_target, live |-> TRUE]]
             /\ f_started' = TRUE /\ f_pc' = "query" /\ UNCHANGED f_attempt
    <3>1. f_forwards'[f_port] = [to |-> f_target, live |-> TRUE]
          /\ \A p \in PF!Ports \ {f_port} : f_forwards'[p] = f_forwards[p]
      BY <2>1
    <3>2. f_port' = f_port /\ f_target' = f_target /\ f_kind' = f_kind
            /\ f_pc = "attempt"
          /\ f_missed' = f_missed /\ f_calls' = f_calls
      BY <1>3 DEF PF!Attempt
    <3>3. PF!OfPrometheus'
      <4>1. CASE f_kind = "traces"
        BY <3>1, <3>2, <4>1
      <4>2. CASE f_kind = "metrics"
        BY <3>1, <3>2, <4>2
      <4>3. QED
        BY <4>1, <4>2
    <3>4. QED
      BY <2>1, <3>1, <3>2, <3>3
  <2>2. CASE UNCHANGED <<f_forwards, f_started>> /\ f_attempt' = f_attempt + 1
             /\ f_pc' = IF f_attempt' = 3 THEN "query" ELSE "attempt"
    BY <1>3, <2>2 DEF PF!Attempt
  <2>3. QED
    BY <1>3, <2>1, <2>2 DEF PF!Attempt
<1>4. CASE PF!ReadTraces
  BY <1>4 DEF PF!ReadTraces, PF!Read
<1>5. CASE PF!ReadMetrics
  BY <1>5 DEF PF!ReadMetrics, PF!Read
<1>6. ASSUME NEW t \in PF!Targets, PF!Goes(t)
      PROVE  PF!OfPrometheus' /\ PF!OwnForward'
  BY <1>6 DEF PF!Goes
<1>7. ASSUME NEW t \in PF!Targets, PF!Comes(t)
      PROVE  PF!OfPrometheus' /\ PF!OwnForward'
  BY <1>7 DEF PF!Comes
<1>8. ASSUME NEW p \in PF!Ports, PF!Ends(p)
      PROVE  PF!OfPrometheus' /\ PF!OwnForward'
  <2>1. /\ f_forwards'[p] = PF!Free /\ ~f_forwards[p].live
        /\ \A q \in PF!Ports \ {p} : f_forwards'[q] = f_forwards[q]
        /\ UNCHANGED <<f_pc, PF!call, f_missed, f_calls>>
    BY <1>8 DEF PF!Ends
  <2>2. PF!OfPrometheus'
    BY <2>1
  <2>3. f_started /\ f_pc # "idle" => p # f_port
    BY <2>1
  <2>4. QED
    BY <2>1, <2>2, <2>3
<1>9. QED
  BY <1>1, <1>2, <1>3, <1>4, <1>5, <1>6, <1>7, <1>8 DEF PF!Next

(* Foreign traces come through a forward known as a stray one.             *)
LEMMA ForwardsTracesStep ==
  ASSUME PF!PortAssumption, PF!TypeOK, PF!OwnForward, PF!StrayKnown,
         PF!ForeignTracesExplained, PF!Next
  PROVE  PF!StrayKnown' /\ PF!ForeignTracesExplained'
<1> USE PortsNat, ForwardingsTyped
   DEF PF!TypeOK, PF!Calls, PF!call, PF!network, PF!Works, PF!Fails, PF!InUse,
       PF!OwnForward, PF!StrayKnown, PF!ForeignTracesExplained, PF!OwnTraces
<1>1. ASSUME NEW space \in Namespaces, PF!GetTraces(space)
      PROVE  PF!StrayKnown' /\ PF!ForeignTracesExplained'
  BY <1>1 DEF PF!GetTraces
<1>2. CASE PF!GetMetrics
  BY <1>2 DEF PF!GetMetrics
<1>3. CASE PF!Attempt
  BY <1>3 DEF PF!Attempt
<1>4. CASE PF!ReadTraces
  <2>1. PICK f \in {PF!Free, PF!Read(PF!TracePort).left} :
          f_forwards' = [f_forwards EXCEPT ![PF!TracePort] = f]
    BY <1>4 DEF PF!ReadTraces
  <2>2. f_forwards'[PF!TracePort] = f
    BY <2>1
  <2>3. PF!StrayKnown'
    BY <1>4 DEF PF!ReadTraces
  <2>4. f_answer' \in {PF!Read(PF!TracePort).answer, "raised"}
        /\ (f = PF!Free => f = PF!Read(PF!TracePort).left \/ f_started)
        /\ f_target' = f_target /\ f_port = PF!TracePort
    BY <1>4, <2>1, <2>2 DEF PF!ReadTraces
  <2>5. PF!ForeignTracesExplained'
    <3>1. CASE f_started
      <4>1. PF!Read(PF!TracePort).answer = f_target
        BY <1>4, <2>4, <3>1, ReadLeaves DEF PF!ReadTraces
      <4>2. QED
        BY <2>4, <4>1
    <3>2. CASE ~f_started
      <4>1. f = PF!Read(PF!TracePort).left
        BY <2>1, <2>4, <3>2
      <4>2. CASE f_forwards[PF!TracePort].live
        BY <1>4, <2>2, <4>1, <4>2, ReadLeaves DEF PF!ReadTraces
      <4>3. CASE ~f_forwards[PF!TracePort].live
        BY <2>4, <4>3, ReadLeaves
      <4>4. QED
        BY <4>2, <4>3
    <3>3. QED
      BY <3>1, <3>2
  <2>6. QED
    BY <2>3, <2>5
<1>5. CASE PF!ReadMetrics
  BY <1>5 DEF PF!ReadMetrics, PF!Read
<1>6. ASSUME NEW t \in PF!Targets, PF!Goes(t)
      PROVE  PF!StrayKnown' /\ PF!ForeignTracesExplained'
  <2>1. f_forwards[PF!TracePort] = PF!Free
          => f_forwards'[PF!TracePort] = PF!Free
    BY <1>6 DEF PF!Goes
  <2>2. f_pc = "idle" /\ UNCHANGED <<f_pc, f_kind, f_target, f_answer, f_stray>>
    BY <1>6 DEF PF!Goes
  <2>3. QED
    BY <2>1, <2>2
<1>7. ASSUME NEW t \in PF!Targets, PF!Comes(t)
      PROVE  PF!StrayKnown' /\ PF!ForeignTracesExplained'
  BY <1>7 DEF PF!Comes
<1>8. ASSUME NEW p \in PF!Ports, PF!Ends(p)
      PROVE  PF!StrayKnown' /\ PF!ForeignTracesExplained'
  BY <1>8 DEF PF!Ends
<1>9. QED
  BY <1>1, <1>2, <1>3, <1>4, <1>5, <1>6, <1>7, <1>8 DEF PF!Next

(* Ports are few.                                                          *)
LEMMA KeptFinite ==
  ASSUME PF!PortAssumption, PF!TypeOK
  PROVE  /\ IsFiniteSet(PF!Used) /\ IsFiniteSet(PF!Kept)
         /\ Cardinality(PF!Used) \in Nat /\ Cardinality(PF!Kept) \in Nat
<1>1. PF!Used \subseteq PF!Ports /\ PF!Kept \subseteq PF!Ports
  BY PortsNat DEF PF!Used, PF!Kept
<1>2. QED
  BY <1>1, PortsNat, FS_Subset, FS_CardinalityType

(* How the ports in use change with a call: they get no more, but for one  *)
(* that an error or a call for no time leaves, and for one that replaces   *)
(* the first.                                                              *)
LEMMA ForwardsKeptStep ==
  ASSUME PF!PortAssumption, PF!TypeOK, PF!OfPrometheus, PF!OwnForward, PF!Next
  PROVE  \/ /\ PF!Kept' \subseteq PF!Kept
            /\ f_errors' + f_empty' >= f_errors + f_empty
         \/ /\ PF!Kept' \subseteq PF!Kept \union {f_port}
            /\ f_errors' + f_empty' = f_errors + f_empty + 1
         \/ /\ PF!Kept' \subseteq (PF!Kept \ {PF!QueriedPort}) \union {f_port}
            /\ PF!QueriedPort \in PF!Kept
            /\ f_errors' + f_empty' = f_errors + f_empty
<1> DEFINE Fewer == PF!Kept' \subseteq PF!Kept
                      /\ f_errors' + f_empty' >= f_errors + f_empty
           OneMore == /\ PF!Kept' \subseteq PF!Kept \union {f_port}
                      /\ f_errors' + f_empty' = f_errors + f_empty + 1
           Replaced ==
             /\ PF!Kept' \subseteq (PF!Kept \ {PF!QueriedPort}) \union {f_port}
             /\ PF!QueriedPort \in PF!Kept
             /\ f_errors' + f_empty' = f_errors + f_empty
<1> SUFFICES Fewer \/ OneMore \/ Replaced
  OBVIOUS
<1> USE PortsNat, ForwardingsTyped
   DEF PF!Calls, PF!call, PF!network, PF!Works, PF!Fails
<1>0. f_errors \in Nat /\ f_empty \in Nat
  BY DEF PF!TypeOK, PF!PortAssumption
<1>1. ASSUME NEW space \in Namespaces, PF!GetTraces(space) PROVE Fewer
  BY <1>0, <1>1 DEF PF!GetTraces, PF!Kept, PF!Used, PF!InUse
<1>2. ASSUME PF!GetMetrics PROVE Fewer
  <2>1. PF!Kept = PF!Used /\ PF!Used' = PF!Used
          /\ f_errors' + f_empty' >= f_errors + f_empty
    BY <1>0, <1>2 DEF PF!GetMetrics, PF!Kept, PF!Used, PF!InUse
  <2>2. CASE PF!Unused = {}
    BY <1>2, <2>1, <2>2 DEF PF!GetMetrics, PF!Kept
  <2>3. CASE PF!Unused # {}
    <3>1. f_port' \in PF!Unused /\ \A r \in PF!Unused : f_port' <= r
      BY <1>2, <2>3, FirstUnused DEF PF!GetMetrics
    <3>2. f_port' # PF!QueriedPort => PF!QueriedPort \in PF!Used
      BY <3>1 DEF PF!Unused, PF!Used
    <3>3. QED
      BY <2>1, <3>2 DEF PF!Kept
  <2>4. QED
    BY <2>2, <2>3
<1>3. ASSUME PF!Attempt PROVE Fewer
  <2>1. /\ f_errors' + f_empty' >= f_errors + f_empty
        /\ \A p \in PF!Ports \ {f_port} : f_forwards'[p] = f_forwards[p]
        /\ f_pc = "attempt" /\ f_pc' \in {"attempt", "query"}
        /\ UNCHANGED <<f_kind, f_port>>
    BY <1>0, <1>3 DEF PF!Attempt, PF!TypeOK
  <2>2. f_kind = "traces" => f_port = PF!TracePort
    BY <2>1 DEF PF!OwnForward
  <2>3. QED
    BY <2>1, <2>2 DEF PF!Kept, PF!Used, PF!InUse
<1>4. ASSUME PF!ReadTraces PROVE Fewer
  <2>1. /\ f_errors' + f_empty' >= f_errors + f_empty
        /\ \A p \in PF!Ports \ {PF!TracePort} : f_forwards'[p] = f_forwards[p]
        /\ f_kind = "traces" /\ f_pc' = "idle" /\ UNCHANGED f_kind
    BY <1>0, <1>4 DEF PF!ReadTraces, PF!TypeOK
  <2>2. QED
    BY <2>1 DEF PF!Kept, PF!Used, PF!InUse
<1>5. ASSUME PF!ReadMetrics PROVE Fewer \/ OneMore \/ Replaced
  <2>1. /\ f_pc = "query" /\ f_kind = "metrics" /\ f_pc' = "idle"
        /\ UNCHANGED f_kind
        /\ f_port \in PF!Ports \ {PF!TracePort}
             /\ (PF!InUse(f_port) => f_started)
        /\ (f_started => f_forwards[f_port] = [to |-> f_target, live |-> TRUE])
        /\ f_target = "prometheus"
    BY <1>5 DEF PF!ReadMetrics, PF!OwnForward, PF!TypeOK
  <2>2. PF!Kept' = PF!Used' /\ PF!Used \subseteq PF!Kept \union {f_port}
        /\ (~f_started => PF!Used \subseteq PF!Kept)
    BY <2>1 DEF PF!Kept, PF!Used
  <2>3. PF!QueriedPort # f_port => PF!QueriedPort \in PF!Kept
    BY <2>1 DEF PF!Kept
  <2>4. CASE /\ UNCHANGED <<f_errors, f_empty>>
             /\ f_forwards' = IF f_started
                  THEN [f_forwards EXCEPT ![f_port] = PF!Free] ELSE f_forwards
    <3>1. PF!Used' \subseteq PF!Kept
      BY <2>1, <2>2, <2>4 DEF PF!Used, PF!Kept, PF!InUse, PF!TypeOK
    <3>2. QED
      BY <1>0, <2>2, <2>4, <3>1
  <2>5. CASE /\ UNCHANGED <<f_errors, f_empty>>
             /\ PF!Read(PF!QueriedPort).answer # "prometheus"
             /\ f_forwards'
                  = [f_forwards EXCEPT ![PF!QueriedPort] = PF!Read(PF!QueriedPort).left]
    <3>1. ~f_forwards[PF!QueriedPort].live
      BY <2>5, ReadLeaves DEF PF!OfPrometheus, PF!TypeOK
    <3>2. PF!Used' = PF!Used \ {PF!QueriedPort}
      BY <2>5, <3>1, ReadLeaves DEF PF!Used, PF!InUse, PF!TypeOK
    <3>3. f_started => f_port # PF!QueriedPort
      BY <2>1, <3>1
    <3>4. CASE f_started
      BY <2>2, <2>3, <2>5, <3>2, <3>3, <3>4
    <3>5. CASE ~f_started
      BY <1>0, <2>2, <2>5, <3>2, <3>5
    <3>6. QED
      BY <3>4, <3>5
  <2>6. CASE /\ f_errors' + f_empty' = f_errors + f_empty + 1
             /\ f_forwards'
                  = [f_forwards EXCEPT ![PF!QueriedPort] = PF!Read(PF!QueriedPort).left]
    <3>1. PF!Used' \subseteq PF!Used
      BY <2>6, ReadLeaves DEF PF!Used, PF!InUse, PF!TypeOK
    <3>2. QED
      BY <2>2, <2>6, <3>1
  <2>7. CASE f_errors' + f_empty' = f_errors + f_empty + 1
               /\ UNCHANGED f_forwards
    BY <2>2, <2>7 DEF PF!Used, PF!InUse
  <2>8. QED
    BY <1>0, <1>5, <2>4, <2>5, <2>6, <2>7 DEF PF!ReadMetrics
<1>6. ASSUME NEW t \in PF!Targets, PF!Goes(t) PROVE Fewer
  <2>1. PF!Used' = PF!Used
    BY <1>6 DEF PF!Goes, PF!Used, PF!InUse, PF!TypeOK
  <2>2. QED
    BY <1>0, <1>6, <2>1 DEF PF!Goes, PF!Kept
<1>7. ASSUME NEW t \in PF!Targets, PF!Comes(t) PROVE Fewer
  BY <1>0, <1>7 DEF PF!Comes, PF!Kept, PF!Used, PF!InUse
<1>8. ASSUME NEW p \in PF!Ports, PF!Ends(p) PROVE Fewer
  <2>1. PF!Used' \subseteq PF!Used
    BY <1>8 DEF PF!Ends, PF!Used, PF!InUse, PF!TypeOK
  <2>2. QED
    BY <1>0, <1>8, <2>1 DEF PF!Ends, PF!Kept
<1>9. QED
  BY <1>1, <1>2, <1>3, <1>4, <1>5, <1>6, <1>7, <1>8 DEF PF!Next

(* A set grows by no more than its bound.                                  *)
LEMMA BoundStep ==
  ASSUME NEW K, IsFiniteSet(K), NEW L, NEW q, NEW r, NEW s \in Nat,
           NEW t \in Nat,
         Cardinality(K) <= s,
         \/ L \subseteq K /\ t >= s
         \/ L \subseteq K \union {r} /\ t = s + 1
         \/ L \subseteq (K \ {q}) \union {r} /\ q \in K /\ t = s
  PROVE  Cardinality(L) <= t
<1>1. Cardinality(K) \in Nat
  BY FS_CardinalityType
<1>2. L \subseteq K => Cardinality(L) <= Cardinality(K)
        /\ Cardinality(L) \in Nat
  BY FS_Subset, FS_CardinalityType
<1>3. ASSUME NEW S, IsFiniteSet(S), L \subseteq S \union {r}
      PROVE  Cardinality(L) <= Cardinality(S) + 1 /\ Cardinality(L) \in Nat
  <2>1. /\ IsFiniteSet(S \union {r})
        /\ \/ Cardinality(S \union {r}) = Cardinality(S)
           \/ Cardinality(S \union {r}) = Cardinality(S) + 1
    BY <1>3, FS_AddElement, Zenon
  <2>2. Cardinality(L) <= Cardinality(S \union {r}) /\ Cardinality(L) \in Nat
    BY <1>3, <2>1, FS_Subset, FS_CardinalityType
  <2>3. Cardinality(S) \in Nat
    BY <1>3, FS_CardinalityType
  <2>4. QED
    BY <2>1, <2>2, <2>3
<1>4. q \in K => IsFiniteSet(K \ {q})
        /\ Cardinality(K \ {q}) = Cardinality(K) - 1
  BY FS_RemoveElement
<1>5. CASE L \subseteq K /\ t >= s
  BY <1>1, <1>2, <1>5
<1>6. CASE L \subseteq K \union {r} /\ t = s + 1
  BY <1>1, <1>3, <1>6
<1>7. CASE L \subseteq (K \ {q}) \union {r} /\ q \in K /\ t = s
  BY <1>1, <1>3, <1>4, <1>7
<1>8. QED
  BY <1>5, <1>6, <1>7

(* Sums, of numbers that need not be constants.                            *)
LEMMA Sums ==
  /\ \A a, b \in Nat : a + b \in Nat
  /\ \A a, b, c \in Nat : a >= b /\ a < c => b < c
  /\ \A a, b \in Nat : a = b + 1 \/ a = b => a >= b
  OBVIOUS

(* So no more are kept than calls have raised or had no time to ask for.   *)
LEMMA ForwardsKeptFewStep ==
  ASSUME PF!PortAssumption, PF!TypeOK, PF!TypeOK', PF!OfPrometheus,
           PF!OwnForward, PF!KeptFew, PF!Next
  PROVE  PF!KeptFew'
<1>1. IsFiniteSet(PF!Kept)
  BY KeptFinite
<1>2. f_errors \in Nat /\ f_empty \in Nat /\ f_errors' \in Nat
        /\ f_empty' \in Nat
  BY DEF PF!TypeOK, PF!PortAssumption
<1>3. f_errors + f_empty \in Nat /\ f_errors' + f_empty' \in Nat
  BY <1>2, Sums, Zenon
<1>4. Cardinality(PF!Kept') <= f_errors' + f_empty'
  BY <1>1, <1>3, ForwardsKeptStep, BoundStep, PortCardinality, Zenon
<1>5. QED
  BY <1>4, PortCardinality, Zenon

(* As long as a port is left there is one to forward.                      *)
LEMMA SomeUnused ==
  ASSUME PF!PortAssumption, PF!TypeOK, PF!KeptFew, f_pc = "idle",
           f_errors + f_empty < MetricPorts
  PROVE  PF!Unused # {}
<1> SUFFICES ASSUME PF!Unused = {} PROVE FALSE
  OBVIOUS
<1>1. PF!Kept = 1 .. MetricPorts
  BY PortsNat DEF PF!Kept, PF!Used, PF!Unused
<1>2. Cardinality(PF!Kept) = MetricPorts
  BY <1>1, FS_Interval DEF PF!PortAssumption
<1>3. QED
  BY <1>2, PortCardinality DEF PF!PortAssumption, PF!TypeOK

(* A call misses Prometheus only when it finds the first port forwarded to *)
(* a pod that has gone, and then frees that port for the next call.        *)
LEMMA ForwardsMissedStep ==
  ASSUME PF!PortAssumption, PF!TypeOK, PF!TypeOK', PF!OfPrometheus,
           PF!OwnForward, PF!KeptFew,
         PF!FirstPort, PF!MissedOnce, PF!Next
  PROVE  PF!FirstPort' /\ PF!MissedOnce'
<1>0. /\ f_errors \in Nat /\ f_empty \in Nat /\ f_missed \in Nat
      /\ f_missed' \in Nat
      /\ f_errors' \in Nat /\ f_empty' \in Nat /\ MetricPorts \in Nat
  BY DEF PF!TypeOK, PF!PortAssumption
<1> SUFFICES ASSUME f_errors' + f_empty' < MetricPorts
             PROVE  PF!FirstPort' /\ PF!MissedOnce'
  BY Zenon DEF PF!FirstPort, PF!MissedOnce
<1>s. f_errors + f_empty < MetricPorts
  <2>1. f_errors + f_empty \in Nat /\ f_errors' + f_empty' \in Nat
    BY <1>0, Sums, Zenon
  <2>2. f_errors' + f_empty' >= f_errors + f_empty
    BY <2>1, ForwardsKeptStep, Sums, Zenon
  <2>3. QED
    BY <1>0, <2>1, <2>2, Sums, Zenon
<1>f. /\ f_errors + f_empty < MetricPorts
      /\ f_missed <= 1
      /\ f_missed > 0 /\ "prometheus" \in f_up =>
           IF f_pc # "idle" /\ f_kind = "metrics" /\ f_port # PF!QueriedPort
           THEN f_forwards[PF!QueriedPort].live
           ELSE PF!InUse(PF!QueriedPort) => f_forwards[PF!QueriedPort].live
  BY <1>s DEF PF!FirstPort, PF!MissedOnce
<1> USE PortsNat, ForwardingsTyped DEF PF!Calls, PF!call, PF!network
<1>1. ASSUME NEW space \in Namespaces, PF!GetTraces(space)
      PROVE  PF!FirstPort' /\ PF!MissedOnce'
  BY <1>f, <1>1 DEF PF!GetTraces, PF!FirstPort, PF!MissedOnce, PF!InUse
<1>2. CASE PF!GetMetrics
  <2>1. PF!Unused # {}
    BY <1>f, <1>2, SomeUnused DEF PF!GetMetrics
  <2>2. f_port' \in PF!Unused /\ \A r \in PF!Unused : f_port' <= r
    BY <1>2, <2>1, FirstUnused DEF PF!GetMetrics
  <2>3. f_port' # PF!QueriedPort => PF!InUse(PF!QueriedPort)
    BY <2>2 DEF PF!Unused
  <2>4. f_pc = "idle" /\ f_pc' = "attempt"
          /\ UNCHANGED <<f_forwards, f_up, f_missed>>
    BY <1>2, <2>1 DEF PF!GetMetrics
  <2>5. QED
    BY <1>f, <2>3, <2>4 DEF PF!FirstPort, PF!MissedOnce, PF!InUse
<1>3. CASE PF!Attempt
  <2>1. /\ UNCHANGED <<f_kind, f_port, f_up, f_missed>>
        /\ f_pc = "attempt" /\ f_pc' \in {"attempt", "query"}
        /\ \/ f_forwards' = f_forwards
           \/ /\ f_port \in PF!Ports
              /\ f_forwards'
                   = [f_forwards EXCEPT ![f_port] = [to |-> f_target, live |-> TRUE]]
    BY <1>3 DEF PF!Attempt, PF!TypeOK
  <2>2. /\ f_forwards'[PF!QueriedPort] = f_forwards[PF!QueriedPort]
           \/ (f_port = PF!QueriedPort /\ f_forwards'[PF!QueriedPort].live)
    BY <2>1 DEF PF!TypeOK
  <2>3. QED
    BY <1>f, <2>1, <2>2 DEF PF!FirstPort, PF!MissedOnce, PF!InUse
<1>4. CASE PF!ReadTraces
  <2>1. /\ UNCHANGED <<f_kind, f_port, f_up, f_missed>> /\ f_kind = "traces"
        /\ f_forwards'[PF!QueriedPort] = f_forwards[PF!QueriedPort]
    BY <1>4 DEF PF!ReadTraces, PF!TypeOK
  <2>2. QED
    BY <1>f, <2>1 DEF PF!FirstPort, PF!MissedOnce, PF!InUse
<1>5. CASE PF!ReadMetrics
  <2>1. /\ f_pc = "query" /\ f_kind = "metrics" /\ f_pc' = "idle"
        /\ UNCHANGED <<f_kind, f_up, f_port>>
        /\ (f_started => f_forwards[f_port] = [to |-> "prometheus", live |-> TRUE])
    BY <1>5 DEF PF!ReadMetrics, PF!OwnForward
  <2>2. f_forwards[PF!QueriedPort].live
          => PF!Read(PF!QueriedPort).answer = "prometheus"
    BY ReadLeaves DEF PF!OfPrometheus, PF!TypeOK
  <2>3. PF!Read(PF!QueriedPort).left = PF!Free
          \/ PF!Read(PF!QueriedPort).left.live
    BY ReadLeaves DEF PF!TypeOK
  <2>4. CASE f_missed' = 0
    BY <2>4 DEF PF!FirstPort, PF!MissedOnce
  <2>5. CASE /\ PF!Read(PF!QueriedPort).answer # "prometheus"
             /\ f_missed' = IF "prometheus" \in f_up
                  /\ f_started THEN f_missed + 1 ELSE f_missed
             /\ f_forwards'
                  = [f_forwards EXCEPT ![PF!QueriedPort] = PF!Read(PF!QueriedPort).left]
    <3>1. "prometheus" \in f_up /\ f_started => f_missed = 0
      BY <1>0, <1>f, <2>1, <2>2, <2>5 DEF PF!InUse
    <3>2. f_forwards'[PF!QueriedPort] = PF!Free
            \/ f_forwards'[PF!QueriedPort].live
      BY <2>3, <2>5 DEF PF!TypeOK
    <3>3. f_missed' <= 1
      BY <1>0, <1>f, <2>5, <3>1
    <3>4. QED
      BY <2>1, <3>2, <3>3 DEF PF!FirstPort, PF!MissedOnce, PF!InUse
  <2>6. CASE /\ f_missed' = f_missed
             /\ f_forwards'
                  = [f_forwards EXCEPT ![PF!QueriedPort] = PF!Read(PF!QueriedPort).left]
    <3>1. f_forwards'[PF!QueriedPort] = PF!Free
            \/ f_forwards'[PF!QueriedPort].live
      BY <2>3, <2>6 DEF PF!TypeOK
    <3>2. QED
      BY <1>f, <2>1, <2>6, <3>1 DEF PF!FirstPort, PF!MissedOnce, PF!InUse
  <2>7. CASE UNCHANGED <<f_forwards, f_missed>>
    BY <1>f, <2>1, <2>7 DEF PF!FirstPort, PF!MissedOnce, PF!InUse
  <2>8. QED
    BY <1>5, <2>4, <2>5, <2>6, <2>7 DEF PF!ReadMetrics
<1>6. ASSUME NEW t \in PF!Targets, PF!Goes(t)
      PROVE  PF!FirstPort' /\ PF!MissedOnce'
  <2>1. /\ UNCHANGED <<f_pc, f_kind, f_port, f_missed>> /\ f_up' = f_up \ {t}
        /\ (f_forwards[PF!QueriedPort].to # t => f_forwards'[PF!QueriedPort] = f_forwards[PF!QueriedPort])
    BY <1>6 DEF PF!Goes
  <2>2. f_forwards[PF!QueriedPort].to \in {"prometheus", "nobody"}
    BY DEF PF!OfPrometheus
  <2>3. QED
    BY <1>f, <2>1, <2>2 DEF PF!FirstPort, PF!MissedOnce, PF!InUse
<1>7. ASSUME NEW t \in PF!Targets, PF!Comes(t)
      PROVE  PF!FirstPort' /\ PF!MissedOnce'
  <2>1. /\ UNCHANGED <<f_pc, f_kind, f_port, f_forwards>>
        /\ f_up' = f_up \union {t}
        /\ f_missed' = IF t = "prometheus" THEN 0 ELSE f_missed
    BY <1>7 DEF PF!Comes
  <2>2. QED
    BY <1>0, <1>f, <2>1 DEF PF!FirstPort, PF!MissedOnce, PF!InUse
<1>8. ASSUME NEW p \in PF!Ports, PF!Ends(p)
      PROVE  PF!FirstPort' /\ PF!MissedOnce'
  <2>1. /\ UNCHANGED <<f_pc, f_kind, f_port, f_missed, f_up>>
        /\ ~f_forwards[p].live
        /\ f_forwards' = [f_forwards EXCEPT ![p] = PF!Free]
    BY <1>8 DEF PF!Ends
  <2>2. /\ f_forwards[PF!QueriedPort].live
             => f_forwards'[PF!QueriedPort] = f_forwards[PF!QueriedPort]
        /\ f_forwards'[PF!QueriedPort] \in {f_forwards[PF!QueriedPort], PF!Free}
    BY <2>1 DEF PF!TypeOK
  <2>3. QED
    BY <1>f, <2>1, <2>2 DEF PF!FirstPort, PF!MissedOnce, PF!InUse
<1>9. QED
  BY <1>1, <1>2, <1>3, <1>4, <1>5, <1>6, <1>7, <1>8 DEF PF!Next

(* IInv holds when the program starts.                                     *)
LEMMA ForwardsInitInv == ASSUME PF!PortAssumption, PF!Init PROVE PF!IInv
<1> USE PortsNat, ForwardingsTyped
<1>1. PF!TypeOK /\ f_missed <= f_calls
  <2>1. f_started \in BOOLEAN /\ f_stray \in BOOLEAN
    BY Zenon DEF PF!Init
  <2>2. f_forwards \in [PF!Ports -> PF!Forwardings]
          /\ \A p \in PF!Ports : ~f_forwards[p].live
    BY DEF PF!Init
  <2>3. QED
    BY <2>1, <2>2 DEF PF!Init, PF!TypeOK, PF!PortAssumption
<1>2. PF!Used = {} /\ PF!Kept = PF!Used
  BY DEF PF!Init, PF!Used, PF!Kept, PF!InUse
<1>3. PF!KeptFew
  BY <1>2, FS_EmptySet, PortCardinality DEF PF!Init
<1>4. PF!OfPrometheus /\ PF!OwnForward /\ PF!StrayKnown /\ PF!FirstPort
  BY DEF PF!Init, PF!OfPrometheus, PF!OwnForward, PF!StrayKnown, PF!FirstPort,
         PF!InUse
<1>5. PF!ForeignTracesExplained /\ PF!MissedOnce
  BY DEF PF!Init, PF!ForeignTracesExplained, PF!OwnTraces, PF!MissedOnce
<1>6. QED
  BY <1>1, <1>3, <1>4, <1>5 DEF PF!IInv

(* IInv is kept by every step.                                             *)
LEMMA ForwardsStepInv == ASSUME PF!PortAssumption, PF!IInv, PF!Next
                                  PROVE PF!IInv'
<1>1. PF!TypeOK' /\ (f_missed <= f_calls)'
  BY ForwardsTypeStep DEF PF!IInv
<1>2. PF!OfPrometheus' /\ PF!OwnForward'
  BY ForwardsOwnStep DEF PF!IInv
<1>3. PF!StrayKnown' /\ PF!ForeignTracesExplained'
  BY ForwardsTracesStep DEF PF!IInv
<1>4. PF!KeptFew'
  BY <1>1, ForwardsKeptFewStep DEF PF!IInv
<1>5. PF!FirstPort' /\ PF!MissedOnce'
  BY <1>1, ForwardsMissedStep DEF PF!IInv
<1>6. QED
  BY <1>1, <1>2, <1>3, <1>4, <1>5 DEF PF!IInv

(* And by a step of another part.                                          *)
LEMMA ForwardsStutterInv == ASSUME PF!IInv, UNCHANGED PF!vars PROVE PF!IInv'
<1>1. PF!Used' = PF!Used /\ PF!Kept' = PF!Kept
  BY DEF PF!vars, PF!call, PF!network, PF!Used, PF!Kept, PF!InUse
<1>2. QED
  BY <1>1
     DEF PF!vars, PF!call, PF!network, PF!IInv, PF!TypeOK, PF!OfPrometheus,
         PF!OwnForward, PF!StrayKnown, PF!KeptFew, PF!FirstPort, PF!InUse,
         PF!ForeignTracesExplained, PF!OwnTraces, PF!MissedOnce

-----------------------------------------------------------------------------
(* The workload.                                                           *)

(* A job that is created is this call's.                                   *)
LEMMA NewJobTyped ==
  ASSUME Workload!WrkJobAssumption, Workload!TypeOK
  PROVE  /\ Workload!NewJob \in Workload!Jobs
         /\ Workload!NewJob.call = w_calls /\ Workload!NewJob.script = 0
         /\ ~Workload!NewJob.deleting
<1>1. w_calls \in 0 .. w_calls /\ 0 \in 0 .. w_calls
  BY DEF Workload!TypeOK
<1>2. QED
  BY <1>1 DEF Workload!Jobs, Workload!NewJob

(* Every step keeps the types.                                             *)
LEMMA WorkloadTypeStep ==
  ASSUME Workload!WrkJobAssumption, Workload!TypeOK, Workload!Next
  PROVE  Workload!TypeOK'
<1> USE DEF Workload!WrkJobAssumption, Workload!TypeOK, Workload!Jobs,
            Workload!Goes, Workload!Fails, Workload!Returns, Workload!NoJob
<1>1. CASE Workload!Start
  <2>1. w_calls' \in 0 .. MaxProblems /\ 0 .. w_calls \subseteq 0 .. w_calls'
    BY <1>1 DEF Workload!Start
  <2>2. w_job' \in Workload!Jobs' /\ w_map' \in 0 .. w_calls'
    BY <1>1, <2>1 DEF Workload!Start, Workload!Jobs
  <2>3. QED
    BY <1>1, <2>1, <2>2 DEF Workload!Start
<1>2. CASE Workload!DeleteMap
  BY <1>2 DEF Workload!DeleteMap
<1>3. CASE Workload!CreateMap
  BY <1>3 DEF Workload!CreateMap
<1>4. CASE Workload!CheckJob
  <2>1. w_job' \in Workload!Jobs'
    BY <1>4 DEF Workload!CheckJob, Workload!Jobs
  <2>2. w_errors' \in 0 .. MaxErrors
    BY <1>4 DEF Workload!CheckJob
  <2>3. QED
    BY <1>4, <2>1, <2>2 DEF Workload!CheckJob
<1>5. CASE Workload!Sleep
  BY <1>5 DEF Workload!Sleep
<1>6. CASE Workload!CreateJob
  <2>1. CASE w_pc' = "watch" /\ w_job' = Workload!NewJob
               /\ UNCHANGED <<w_errors, w_told>>
    <3>1. /\ w_job' \in Workload!Jobs
          /\ w_job'.call = w_calls /\ w_job'.script = 0 /\ ~w_job'.deleting
      BY <2>1, NewJobTyped
    <3>2. QED
      BY <1>6, <2>1, <3>1 DEF Workload!CreateJob
  <2>2. CASE Workload!Returns("error") /\ UNCHANGED w_job
    BY <1>6, <2>2 DEF Workload!CreateJob
  <2>3. QED
    BY <1>6, <2>1, <2>2 DEF Workload!CreateJob
<1>7. CASE Workload!Watch
  BY <1>7 DEF Workload!Watch
<1>8. CASE Workload!Kubernetes
  <2>1. CASE Workload!PodStarts
    BY <1>8, <2>1 DEF Workload!Kubernetes, Workload!PodStarts, Workload!Jobs
  <2>2. CASE Workload!PodEnds
    BY <1>8, <2>2 DEF Workload!Kubernetes, Workload!PodEnds, Workload!Jobs
  <2>3. CASE Workload!PodFails
    <3>1. 0 \in 0 .. w_calls
            /\ UNCHANGED <<w_calls, w_pc, w_map, w_errors, w_told, w_slow>>
      BY <1>8 DEF Workload!Kubernetes
    <3>2. w_job' \in Workload!Jobs
      BY <2>3, <3>1 DEF Workload!PodFails
    <3>3. QED
      BY <3>1, <3>2
  <2>4. CASE Workload!JobGone
    BY <1>8, <2>4 DEF Workload!Kubernetes, Workload!JobGone, Workload!Jobs
  <2>5. QED
    BY <1>8, <2>1, <2>2, <2>3, <2>4 DEF Workload!Kubernetes
<1>9. QED
  BY <1>1, <1>2, <1>3, <1>4, <1>5, <1>6, <1>7, <1>8
     DEF Workload!Next, Workload!Work

(* The map has this call's script once it was to be put there.             *)
LEMMA WorkloadMapStep ==
  ASSUME Workload!WrkJobAssumption, Workload!TypeOK, Workload!MapIsOwn,
         Workload!Next
  PROVE  Workload!MapIsOwn'
<1> USE DEF Workload!TypeOK, Workload!Jobs, Workload!Goes, Workload!Fails,
            Workload!Returns, Workload!NoJob, Workload!MapIsOwn
<1>1. CASE Workload!Start
  BY <1>1 DEF Workload!Start
<1>2. CASE Workload!DeleteMap
  BY <1>2 DEF Workload!DeleteMap
<1>3. CASE Workload!CreateMap
  BY <1>3 DEF Workload!CreateMap
<1>4. CASE Workload!CheckJob
  BY <1>4 DEF Workload!CheckJob
<1>5. CASE Workload!Sleep
  BY <1>5 DEF Workload!Sleep
<1>6. CASE Workload!CreateJob
  <2>1. CASE w_pc' = "watch" /\ w_job' = Workload!NewJob
               /\ UNCHANGED <<w_errors, w_told>>
    <3>1. /\ w_job' \in Workload!Jobs
          /\ w_job'.call = w_calls /\ w_job'.script = 0 /\ ~w_job'.deleting
      BY <2>1, NewJobTyped
    <3>2. QED
      BY <1>6, <2>1, <3>1 DEF Workload!CreateJob
  <2>2. CASE Workload!Returns("error") /\ UNCHANGED w_job
    BY <1>6, <2>2 DEF Workload!CreateJob
  <2>3. QED
    BY <1>6, <2>1, <2>2 DEF Workload!CreateJob
<1>7. CASE Workload!Watch
  BY <1>7 DEF Workload!Watch
<1>8. CASE Workload!Kubernetes
  <2>1. CASE Workload!PodStarts
    BY <1>8, <2>1 DEF Workload!Kubernetes, Workload!PodStarts
  <2>2. CASE Workload!PodEnds
    BY <1>8, <2>2 DEF Workload!Kubernetes, Workload!PodEnds
  <2>3. CASE Workload!PodFails
    BY <1>8, <2>3 DEF Workload!Kubernetes, Workload!PodFails
  <2>4. CASE Workload!JobGone
    BY <1>8, <2>4 DEF Workload!Kubernetes, Workload!JobGone
  <2>5. QED
    BY <1>8, <2>1, <2>2, <2>3, <2>4 DEF Workload!Kubernetes
<1>9. QED
  BY <1>1, <1>2, <1>3, <1>4, <1>5, <1>6, <1>7, <1>8
     DEF Workload!Next, Workload!Work

(* The pod of this call's job has mounted that map.                        *)
LEMMA WorkloadScriptStep ==
  ASSUME Workload!WrkJobAssumption, Workload!TypeOK, Workload!MapIsOwn,
         Workload!JobIsOwn, Workload!ScriptIsOwn, Workload!Next
  PROVE  Workload!ScriptIsOwn'
<1> USE DEF Workload!TypeOK, Workload!Jobs, Workload!Goes, Workload!Fails,
            Workload!Returns, Workload!NoJob, Workload!MapIsOwn,
            Workload!JobIsOwn, Workload!ScriptIsOwn
<1>1. CASE Workload!Start
  BY <1>1 DEF Workload!Start
<1>2. CASE Workload!DeleteMap
  BY <1>2 DEF Workload!DeleteMap
<1>3. CASE Workload!CreateMap
  BY <1>3 DEF Workload!CreateMap
<1>4. CASE Workload!CheckJob
  BY <1>4 DEF Workload!CheckJob
<1>5. CASE Workload!Sleep
  BY <1>5 DEF Workload!Sleep
<1>6. CASE Workload!CreateJob
  <2>1. CASE w_pc' = "watch" /\ w_job' = Workload!NewJob
               /\ UNCHANGED <<w_errors, w_told>>
    <3>1. /\ w_job' \in Workload!Jobs
          /\ w_job'.call = w_calls /\ w_job'.script = 0 /\ ~w_job'.deleting
      BY <2>1, NewJobTyped
    <3>2. QED
      BY <1>6, <2>1, <3>1 DEF Workload!CreateJob
  <2>2. CASE Workload!Returns("error") /\ UNCHANGED w_job
    BY <1>6, <2>2 DEF Workload!CreateJob
  <2>3. QED
    BY <1>6, <2>1, <2>2 DEF Workload!CreateJob
<1>7. CASE Workload!Watch
  BY <1>7 DEF Workload!Watch
<1>8. CASE Workload!Kubernetes
  <2>1. CASE Workload!PodStarts
    BY <1>8, <2>1 DEF Workload!Kubernetes, Workload!PodStarts
  <2>2. CASE Workload!PodEnds
    BY <1>8, <2>2 DEF Workload!Kubernetes, Workload!PodEnds
  <2>3. CASE Workload!PodFails
    BY <1>8, <2>3 DEF Workload!Kubernetes, Workload!PodFails
  <2>4. CASE Workload!JobGone
    BY <1>8, <2>4 DEF Workload!Kubernetes, Workload!JobGone
  <2>5. QED
    BY <1>8, <2>1, <2>2, <2>3, <2>4 DEF Workload!Kubernetes
<1>9. QED
  BY <1>1, <1>2, <1>3, <1>4, <1>5, <1>6, <1>7, <1>8
     DEF Workload!Next, Workload!Work

(* A job that is there is this call's, or it is being deleted.             *)
LEMMA WorkloadJobStep ==
  ASSUME Workload!WrkJobAssumption, Workload!TypeOK, Workload!JobIsOwn,
         Workload!EndExplained, Workload!Next
  PROVE  Workload!JobIsOwn'
<1> USE DEF Workload!TypeOK, Workload!Jobs, Workload!Goes, Workload!Fails,
            Workload!Returns, Workload!NoJob, Workload!JobIsOwn,
            Workload!EndExplained, Workload!Ended
<1>1. CASE Workload!Start
  BY <1>1 DEF Workload!Start
<1>2. CASE Workload!DeleteMap
  BY <1>2 DEF Workload!DeleteMap
<1>3. CASE Workload!CreateMap
  BY <1>3 DEF Workload!CreateMap
<1>4. CASE Workload!CheckJob
  BY <1>4 DEF Workload!CheckJob
<1>5. CASE Workload!Sleep
  BY <1>5 DEF Workload!Sleep
<1>6. CASE Workload!CreateJob
  <2>1. CASE w_pc' = "watch" /\ w_job' = Workload!NewJob
               /\ UNCHANGED <<w_errors, w_told>>
    <3>1. /\ w_job' \in Workload!Jobs
          /\ w_job'.call = w_calls /\ w_job'.script = 0 /\ ~w_job'.deleting
      BY <2>1, NewJobTyped
    <3>2. QED
      BY <1>6, <2>1, <3>1 DEF Workload!CreateJob
  <2>2. CASE Workload!Returns("error") /\ UNCHANGED w_job
    BY <1>6, <2>2 DEF Workload!CreateJob
  <2>3. QED
    BY <1>6, <2>1, <2>2 DEF Workload!CreateJob
<1>7. CASE Workload!Watch
  BY <1>7 DEF Workload!Watch
<1>8. CASE Workload!Kubernetes
  <2>1. CASE Workload!PodStarts
    BY <1>8, <2>1 DEF Workload!Kubernetes, Workload!PodStarts
  <2>2. CASE Workload!PodEnds
    BY <1>8, <2>2 DEF Workload!Kubernetes, Workload!PodEnds
  <2>3. CASE Workload!PodFails
    BY <1>8, <2>3 DEF Workload!Kubernetes, Workload!PodFails
  <2>4. CASE Workload!JobGone
    BY <1>8, <2>4 DEF Workload!Kubernetes, Workload!JobGone
  <2>5. QED
    BY <1>8, <2>1, <2>2, <2>3, <2>4 DEF Workload!Kubernetes
<1>9. QED
  BY <1>1, <1>2, <1>3, <1>4, <1>5, <1>6, <1>7, <1>8
     DEF Workload!Next, Workload!Work

(* A call ends with its own job or with an error.                          *)
LEMMA WorkloadEndStep ==
  ASSUME Workload!WrkJobAssumption, Workload!TypeOK, Workload!JobIsOwn,
         Workload!EndExplained, Workload!Next
  PROVE  Workload!EndExplained'
<1> USE DEF Workload!TypeOK, Workload!Jobs, Workload!Goes, Workload!Fails,
            Workload!Returns, Workload!NoJob, Workload!JobIsOwn,
            Workload!EndExplained, Workload!Ended
<1>1. CASE Workload!Start
  BY <1>1 DEF Workload!Start
<1>2. CASE Workload!DeleteMap
  BY <1>2 DEF Workload!DeleteMap
<1>3. CASE Workload!CreateMap
  BY <1>3 DEF Workload!CreateMap
<1>4. CASE Workload!CheckJob
  BY <1>4 DEF Workload!CheckJob
<1>5. CASE Workload!Sleep
  BY <1>5 DEF Workload!Sleep
<1>6. CASE Workload!CreateJob
  <2>1. CASE w_pc' = "watch" /\ w_job' = Workload!NewJob
               /\ UNCHANGED <<w_errors, w_told>>
    <3>1. /\ w_job' \in Workload!Jobs
          /\ w_job'.call = w_calls /\ w_job'.script = 0 /\ ~w_job'.deleting
      BY <2>1, NewJobTyped
    <3>2. QED
      BY <1>6, <2>1, <3>1 DEF Workload!CreateJob
  <2>2. CASE Workload!Returns("error") /\ UNCHANGED w_job
    BY <1>6, <2>2 DEF Workload!CreateJob
  <2>3. QED
    BY <1>6, <2>1, <2>2 DEF Workload!CreateJob
<1>7. CASE Workload!Watch
  BY <1>7 DEF Workload!Watch
<1>8. CASE Workload!Kubernetes
  <2>1. CASE Workload!PodStarts
    BY <1>8, <2>1 DEF Workload!Kubernetes, Workload!PodStarts
  <2>2. CASE Workload!PodEnds
    BY <1>8, <2>2 DEF Workload!Kubernetes, Workload!PodEnds
  <2>3. CASE Workload!PodFails
    BY <1>8, <2>3 DEF Workload!Kubernetes, Workload!PodFails
  <2>4. CASE Workload!JobGone
    BY <1>8, <2>4 DEF Workload!Kubernetes, Workload!JobGone
  <2>5. QED
    BY <1>8, <2>1, <2>2, <2>3, <2>4 DEF Workload!Kubernetes
<1>9. QED
  BY <1>1, <1>2, <1>3, <1>4, <1>5, <1>6, <1>7, <1>8
     DEF Workload!Next, Workload!Work

(* IInv holds when the program starts.                                     *)
LEMMA WorkloadInitInv == ASSUME Workload!WrkJobAssumption
                                  PROVE Workload!Init => Workload!IInv
<1> SUFFICES ASSUME Workload!Init PROVE Workload!IInv
  OBVIOUS
<1>1. w_job \in Workload!Jobs /\ w_job.call = 0 /\ w_job.script = 0
  BY DEF Workload!Init, Workload!Jobs, Workload!NoJob
<1>2. w_calls \in 0 .. MaxProblems /\ w_map \in 0 .. w_calls
        /\ w_errors \in 0 .. MaxErrors
  BY DEF Workload!Init, Workload!WrkJobAssumption
<1>3. Workload!TypeOK
  BY <1>1, <1>2, Zenon DEF Workload!Init, Workload!TypeOK
<1>4. QED
  BY <1>1, <1>3
     DEF Workload!Init, Workload!IInv, Workload!MapIsOwn, Workload!ScriptIsOwn,
         Workload!JobIsOwn, Workload!EndExplained, Workload!Ended

(* IInv is kept by every step.                                             *)
LEMMA WorkloadStepInv == ASSUME Workload!WrkJobAssumption, Workload!IInv,
                                  Workload!Next PROVE Workload!IInv'
  BY WorkloadTypeStep, WorkloadMapStep, WorkloadScriptStep, WorkloadJobStep,
     WorkloadEndStep
     DEF Workload!IInv

(* And by a step of another part.                                          *)
LEMMA WorkloadStutterInv == ASSUME Workload!IInv, UNCHANGED Workload!vars
                                     PROVE Workload!IInv'
  BY DEF Workload!vars, Workload!IInv, Workload!TypeOK, Workload!Jobs,
         Workload!MapIsOwn, Workload!ScriptIsOwn, Workload!JobIsOwn,
         Workload!EndExplained, Workload!Ended

-----------------------------------------------------------------------------
(* The telemetry has proofs of its own, about the same definitions.        *)
TP == INSTANCE Telemetry_proofs WITH
  Sessions <- MaxProblems,
  pc <- t_pc, begun <- t_begun, polls <- t_polls, errors <- t_errors,
  openebs <- t_openebs, observe <- t_observe, claim <- t_claim,
  release <- t_release, pods <- t_pods, cut <- t_cut, torn <- t_torn

(* The definitions of the two instances of Telemetry are the same.         *)
LEMMA TelemetrySame ==
  /\ TP!TelemetryAssumption <=> Telemetry!TelemetryAssumption
  /\ TP!Init <=> Telemetry!Init
  /\ [TP!Next]_TP!vars <=> [Telemetry!Next]_Telemetry!vars
  /\ TP!IInv <=> Telemetry!IInv
  /\ TP!IInv' <=> Telemetry!IInv'
  BY DEF TP!TelemetryAssumption, Telemetry!TelemetryAssumption, TP!cluster,
         Telemetry!cluster, TP!vars, Telemetry!vars, TP!Steps, Telemetry!Steps,
         TP!TypeOK, Telemetry!TypeOK, TP!Init, Telemetry!Init, TP!Goes,
         Telemetry!Goes, TP!NoPoll, Telemetry!NoPoll, TP!Works,
         Telemetry!Works, TP!Fails, Telemetry!Fails, TP!Begin, Telemetry!Begin,
         TP!InstallOpenEBS, Telemetry!InstallOpenEBS, TP!Wait, Telemetry!Wait,
         TP!WaitForOpenEBS, Telemetry!WaitForOpenEBS, TP!Status,
         Telemetry!Status, TP!DeleteClaim, Telemetry!DeleteClaim, TP!Uninstall,
         Telemetry!Uninstall, TP!ApplyClaim, Telemetry!ApplyClaim, TP!Install,
         Telemetry!Install, TP!WaitForPrometheus, Telemetry!WaitForPrometheus,
         TP!Dialogue, Telemetry!Dialogue, TP!CloseOpenEBS,
         Telemetry!CloseOpenEBS, TP!Kubernetes, Telemetry!Kubernetes, TP!Work,
         Telemetry!Work, TP!Next, Telemetry!Next, TP!TakenDown,
         Telemetry!TakenDown, TP!PodsOfRelease, Telemetry!PodsOfRelease,
         TP!StorageKept, Telemetry!StorageKept, TP!TakenApart,
         Telemetry!TakenApart, TP!IInv, Telemetry!IInv

(* The steps of the telemetry, and those of the others, keep its           *)
(* invariant.                                                              *)
LEMMA TelemetryStep ==
  /\ Telemetry!Init => Telemetry!IInv
  /\ Telemetry!IInv /\ [Telemetry!Next]_telemetryVars => Telemetry!IInv'
<1>1. TP!TelemetryAssumption
  BY ClusterAssumption, TelemetrySame
<1>2. [Telemetry!Next]_telemetryVars => [Telemetry!Next]_Telemetry!vars
  BY DEF telemetryVars, Telemetry!vars, Telemetry!cluster
<1>3. QED
  BY <1>1, <1>2, TelemetrySame, TP!InitInv, TP!StepInv

(* So do they with that of the workload,                                   *)
LEMMA WorkloadStep ==
  /\ Workload!Init => Workload!IInv
  /\ Workload!IInv /\ [Workload!Next]_workloadVars => Workload!IInv'
<1>1. UNCHANGED workloadVars => UNCHANGED Workload!vars
  BY DEF workloadVars, Workload!vars
<1>2. QED
  BY <1>1, ClusterAssumption, WorkloadInitInv, WorkloadStepInv,
     WorkloadStutterInv

(* and with that of the forwards.                                          *)
LEMMA ForwardsStep ==
  /\ PF!Init => PF!IInv
  /\ PF!IInv /\ [PF!Next]_forwardsVars => PF!IInv'
<1>1. UNCHANGED forwardsVars => UNCHANGED PF!vars
  BY DEF forwardsVars, PF!vars, PF!call, PF!network
<1>2. QED
  BY <1>1, ClusterAssumption, ForwardsInitInv, ForwardsStepInv,
     ForwardsStutterInv

(* The inductive invariants of the parts.                                  *)
ClusterIInv == IInv /\ Telemetry!IInv /\ Workload!IInv /\ PF!IInv

(* A step of one part leaves the others as they are: all keep theirs.      *)
THEOREM ClusterInvariance == ClusterSpec => []ClusterIInv
<1>1. ClusterInit => ClusterIInv
  BY InitInv, TelemetryStep, WorkloadStep, ForwardsStep
     DEF ClusterInit, ClusterIInv
<1>2. ClusterIInv /\ [ClusterNext]_clusterVars => ClusterIInv'
  <2> SUFFICES ASSUME ClusterIInv, [ClusterNext]_clusterVars PROVE ClusterIInv'
    OBVIOUS
  <2>1. /\ [Next]_vars /\ [Telemetry!Next]_telemetryVars
        /\ [Workload!Next]_workloadVars /\ [PF!Next]_forwardsVars
    BY DEF ClusterNext, clusterVars, Application, Prometheus, Wrk, Observers
  <2>2. IInv'
    BY <2>1, StepInv DEF ClusterIInv
  <2>3. Telemetry!IInv' /\ Workload!IInv' /\ PF!IInv'
    BY <2>1, TelemetryStep, WorkloadStep, ForwardsStep DEF ClusterIInv
  <2>4. QED
    BY <2>2, <2>3 DEF ClusterIInv
<1>3. QED
  BY <1>1, <1>2, PTL DEF ClusterSpec

-----------------------------------------------------------------------------
(* Every part keeps its types.                                             *)
THEOREM ClusterTypes == ClusterSpec => []TypesOK
<1>1. ClusterIInv => TypesOK
  BY DEF ClusterIInv, TypesOK, IInv, Telemetry!IInv, Workload!IInv, PF!IInv
<1>2. QED
  BY <1>1, ClusterInvariance, PTL

(* With the other parts in the same program a problem still begins with    *)
(* its own release, and finds nothing of the last one to collide with,     *)
(* under the same condition (kubectl.py:98, hotelres.py:87).               *)
THEOREM ApplicationOfTheCluster == ClusterSpec => [](OwnApplication /\ CleanSlate)
<1>1. ClusterIInv => OwnApplication /\ CleanSlate
  BY OwnAndClean DEF ClusterIInv
<1>2. QED
  BY <1>1, ClusterInvariance, PTL

(* A dialogue has Prometheus' pods unless an earlier wait for them was     *)
(* given up, and nothing of the telemetry is left between two problems     *)
(* while no command fails (prometheus.py:69, orchestrator.py:207).         *)
THEOREM TelemetryIsInPlace == ClusterSpec => []TelemetryInPlace
<1>1. ClusterIInv => TelemetryInPlace
  BY DEF ClusterIInv, TelemetryInPlace, Telemetry!IInv, Telemetry!TypeOK,
         Telemetry!PodsOfRelease, Telemetry!StorageKept,
         Telemetry!TelemetryInPlace, Telemetry!NotReadyExplained,
         Telemetry!StorageFirst
<1>2. QED
  BY <1>1, ClusterInvariance, PTL

(* A problem runs under its own workload, unless a call of the API failed  *)
(* or the old job outlived the five seconds (wrk.py:92, wrk.py:97).        *)
THEOREM ProblemHasItsWorkload == ClusterSpec => []OwnWorkload
<1>1. ClusterIInv => OwnWorkload
  BY DEF ClusterIInv, OwnWorkload, Workload!IInv, Workload!OwnWorkload,
         Workload!LoadAsAsked, Workload!MissingExplained, Workload!ScriptIsOwn,
         Workload!EndExplained, Workload!Ended
<1>2. QED
  BY <1>1, ClusterInvariance, PTL

(* Traces of a namespace that was not asked for come only through the      *)
(* forward that an earlier call has left behind (trace_api.py:100), for    *)
(* any number of calls, errors and namespaces.                             *)
THEOREM ForeignTraces == ClusterSpec => []ForeignTracesExplained
<1>1. ClusterIInv => ForeignTracesExplained
  BY DEF ClusterIInv, ForeignTracesExplained, PF!IInv
<1>2. QED
  BY <1>1, ClusterInvariance, PTL

(* While fewer ports are kept than there are, no two calls for metrics in  *)
(* a row miss a running Prometheus (metric_api.py:161): the call that      *)
(* meets a forward to a pod that has gone ends it.                         *)
THEOREM MetricsMissedOnce == ClusterSpec => []MissedOnce
<1>1. ClusterIInv => MissedOnce
  BY DEF ClusterIInv, MissedOnce, PF!IInv
<1>2. QED
  BY <1>1, ClusterInvariance, PTL

=============================================================================
