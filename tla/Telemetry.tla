------------------------------ MODULE Telemetry ------------------------------
(***************************************************************************)
(* OpenEBS and Prometheus around the problems of one program: how          *)
(* init_problem sets them up (orchestrator.py, Prometheus.deploy, Helm) and *)
(* start_problem takes them down.  Their commands are run with their       *)
(* failures unseen; only the two waits for ready pods may raise.           *)
(***************************************************************************)
EXTENDS Naturals

CONSTANTS
  Sessions,  \* problems begun
  MaxPolls,  \* polls of wait_for_ready (150 in the code: 300 s, every 2 s)
  MaxErrors  \* commands that may fail

TelemetryAssumption ==
  Sessions \in Nat /\ MaxPolls \in Nat \ {0} /\ MaxErrors \in Nat

VARIABLES
  pc,       \* "rest" between two problems, or one of Steps
  begun,    \* problems begun
  polls,    \* polls of the wait
  errors,   \* commands that have failed
  openebs,  \* "none", "starting" or "ready"
  observe,  \* the namespace of Prometheus is there
  claim,    \* the claim prometheus-pvc is there, in observe
  release,  \* the release that Helm has a record of: "none" or "deployed"
  pods,     \* Prometheus: "none", "starting" or "ready"
  cut,      \* a wait for these pods has timed out
  torn      \* the last problem was torn down to the end

cluster == <<openebs, observe, claim, release, pods>>
vars == <<pc, begun, polls, errors, cluster, cut, torn>>

Steps ==
  {"openebs", "wait-openebs", "status", "delete-old", "uninstall-old", "apply",
   "install", "wait-observe", "dialogue", "uninstall", "delete", "close"}

TypeOK ==
  /\ pc \in Steps \union {"rest"}
  /\ begun \in 0 .. Sessions
  /\ polls \in 0 .. MaxPolls - 1
  /\ errors \in 0 .. MaxErrors
  /\ openebs \in {"none", "starting", "ready"}
  /\ observe \in BOOLEAN /\ claim \in BOOLEAN /\ cut \in BOOLEAN /\ torn \in BOOLEAN
  /\ release \in {"none", "deployed"}
  /\ pods \in {"none", "starting", "ready"}
  /\ pods # "none" => observe

Init ==
  /\ pc = "rest" /\ begun = 0 /\ polls = 0 /\ errors = 0
  /\ openebs = "none" /\ observe = FALSE /\ claim = FALSE
  /\ release = "none" /\ pods = "none"
  /\ cut = FALSE /\ torn = FALSE

Goes(from, to) == pc = from /\ pc' = to /\ UNCHANGED begun
NoPoll == polls' = 0
Works == UNCHANGED errors
Fails == errors < MaxErrors /\ errors' = errors + 1

Begin ==
  /\ pc = "rest" /\ begun < Sessions
  /\ pc' = "openebs" /\ begun' = begun + 1 /\ torn' = FALSE
  /\ NoPoll /\ Works /\ UNCHANGED <<cluster, cut>>

(* kubectl apply of the operator, and the patch of its storage class.      *)
InstallOpenEBS ==
  /\ Goes("openebs", "wait-openebs") /\ NoPoll
  /\ \/ Works /\ openebs' = IF openebs = "none" THEN "starting" ELSE openebs
     \/ Fails /\ UNCHANGED openebs
  /\ UNCHANGED <<observe, claim, release, pods, cut, torn>>

(* wait_for_ready: the pods are all ready and there is one, or the poll    *)
(* has failed; after max_wait it raises, and the problem is over.          *)
Wait(from, ready, to) ==
  /\ pc = from /\ UNCHANGED <<begun, cluster, torn>>
  /\ \/ /\ Works /\ ready
        /\ pc' = to /\ NoPoll /\ UNCHANGED cut
     \/ /\ (Works /\ ~ready) \/ Fails
        /\ IF polls < MaxPolls - 1
           THEN polls' = polls + 1 /\ UNCHANGED <<pc, cut>>
           ELSE pc' = "rest" /\ NoPoll /\ cut' = (cut \/ from = "wait-observe")

WaitForOpenEBS == Wait("wait-openebs", openebs = "ready", "status")

(* deploy: with a release that Helm calls deployed there is nothing to do. *)
Status ==
  /\ NoPoll /\ UNCHANGED <<cluster, cut, torn>>
  /\ \/ Works /\ release = "deployed" /\ Goes("status", "dialogue")
     \/ Works /\ release = "none" /\ Goes("status", "delete-old")
     \/ Fails /\ Goes("status", "delete-old")

(* _delete_pvc looks for the claim in the namespace of the context, where  *)
(* it never is, and what it deletes there is nothing.                      *)
DeleteClaim(from, to) ==
  /\ Goes(from, to) /\ NoPoll
  /\ Works \/ Fails
  /\ UNCHANGED <<cluster, cut, torn>>

(* Helm.uninstall; when helm list fails the release does not exist.        *)
Uninstall(from, to) ==
  /\ Goes(from, to) /\ NoPoll
  /\ \/ Works /\ release' = "none" /\ pods' = "none" /\ cut' = FALSE
     \/ Fails /\ UNCHANGED <<release, pods, cut>>
  /\ UNCHANGED <<openebs, observe, claim, torn>>

(* _pvc_exists fails to find the claim, but for an error that says neither *)
(* "Error" nor "No resources found"; _apply_pvc needs the namespace.       *)
ApplyClaim ==
  /\ Goes("apply", "install") /\ NoPoll
  /\ \/ Works /\ claim' = (claim \/ observe)
     \/ Fails /\ UNCHANGED claim
  /\ UNCHANGED <<openebs, observe, release, pods, cut, torn>>

(* Helm.install makes the namespace, and is refused a name in use.         *)
Install ==
  /\ Goes("install", "wait-observe") /\ NoPoll
  /\ \/ /\ Works
        /\ observe' = TRUE
        /\ release' = "deployed"
        /\ pods' = IF release = "none" THEN "starting" ELSE pods
     \/ Fails /\ UNCHANGED <<observe, release, pods>>
  /\ UNCHANGED <<openebs, claim, cut, torn>>

(* Mutation of WaitForPrometheus: no pod is as good as ready pods.         *)
WaitForPrometheusNone == Wait("wait-observe", pods \in {"none", "ready"}, "dialogue")

WaitForPrometheus == Wait("wait-observe", pods = "ready", "dialogue")

(* The dialogue ends, or raises, which leaves all as it is.                *)
Dialogue ==
  /\ Goes("dialogue", "uninstall") \/ Goes("dialogue", "rest")
  /\ NoPoll /\ Works /\ UNCHANGED <<cluster, cut, torn>>

(* OpenEBS, with its namespace, whose end the program waits for.           *)
CloseOpenEBS ==
  /\ Goes("close", "rest") /\ NoPoll /\ torn' = TRUE
  /\ \/ Works /\ openebs' = "none"
     \/ Fails /\ UNCHANGED openebs
  /\ UNCHANGED <<observe, claim, release, pods, cut>>

(* The pods: those of Prometheus want a volume, which OpenEBS makes.       *)
Kubernetes ==
  /\ \/ openebs = "starting" /\ openebs' = "ready" /\ UNCHANGED pods
     \/ pods = "starting" /\ openebs = "ready" /\ pods' = "ready" /\ UNCHANGED openebs
  /\ UNCHANGED <<pc, begun, polls, errors, observe, claim, release, cut, torn>>

Work ==
  \/ InstallOpenEBS \/ WaitForOpenEBS \/ Status
  \/ DeleteClaim("delete-old", "uninstall-old") \/ Uninstall("uninstall-old", "apply")
  \/ ApplyClaim \/ Install \/ WaitForPrometheus
  \/ Dialogue
  \/ Uninstall("uninstall", "delete") \/ DeleteClaim("delete", "close")
  \/ CloseOpenEBS

Next == Begin \/ Work \/ Kubernetes

Spec == Init /\ [][Next]_vars /\ WF_vars(Work)

-----------------------------------------------------------------------------
(* A dialogue without Prometheus' pods has one explanation: an earlier     *)
(* deploy gave up waiting for them, and this one found their release.      *)
NotReadyExplained == pc = "dialogue" /\ pods # "ready" => cut

(* Prometheus is started only when its storage is there, unless a command  *)
(* has failed.                                                             *)
StorageFirst == pc = "install" /\ errors = 0 => openebs = "ready"

(* Nothing of the telemetry runs between two problems when the one before  *)
(* has come to its end and no command has failed.                          *)
TakenDown == pc = "rest" /\ torn /\ errors = 0 => release = "none" /\ pods = "none" /\ openebs = "none"

(* A session finds Prometheus and its storage where it counts on them, and *)
(* leaves none of it to the next one.                                      *)
TelemetryInPlace == NotReadyExplained /\ StorageFirst /\ TakenDown

(* Every problem that begins comes to its end or raises.                   *)
SetUpEnds == pc = "openebs" ~> pc \in {"dialogue", "rest"}

-----------------------------------------------------------------------------
(* The inductive invariant: the release and its pods go together and are   *)
(* only awaited where they were installed; and, as long as no command has  *)
(* failed, what is there at each step.                                     *)
PodsOfRelease ==
  /\ release = "none" <=> pods = "none"
  /\ pods = "starting" => cut \/ pc = "wait-observe"
  /\ pc = "dialogue" => pods # "none"

StorageKept ==
  errors = 0 /\ pc \notin {"rest", "openebs", "wait-openebs"} => openebs = "ready"

TakenApart ==
  /\ torn => pc = "rest"
  /\ errors = 0 /\ pc \in {"delete", "close"} => pods = "none"

IInv == TypeOK /\ PodsOfRelease /\ StorageKept /\ TakenApart /\ TakenDown

=============================================================================
