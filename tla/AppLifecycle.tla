---------------------------- MODULE AppLifecycle ----------------------------
(***************************************************************************)
(* The applications of service/apps from one problem to the next: their    *)
(* constructors, delete, deploy and cleanup, which go through KubeCtl and  *)
(* Helm.  Most commands report no failure; what holds the program up are   *)
(* wait_for_ready and wait_for_namespace_deletion, which look at whatever  *)
(* the namespace holds by then.  A pod that is being deleted is listed,    *)
(* and ready, until it is gone.                                            *)
(***************************************************************************)
EXTENDS Integers, FiniteSets

CONSTANTS
  Apps,         \* of "hotel", "social" and "astronomy"
  MaxProblems,  \* bound on the problems
  MaxErrors,    \* bound on the commands and API calls that fail
  MaxPolls      \* polls of a wait (150 in the code)

ASSUME AppLifecycleAssumption ==
  /\ Apps \subseteq {"hotel", "social", "astronomy"}
  /\ MaxProblems \in Nat /\ MaxErrors \in Nat
  /\ MaxPolls \in Nat \ {0}

VARIABLES
  app,       \* the application of these problems
  pc,        \* where the program is
  n,         \* the problem
  polls,     \* polls of the wait it is in
  ns,        \* the namespace: "absent", "active" or "terminating"
  extras,    \* the config maps or the secret the pods mount are there
  release,   \* problem whose objects are installed, 0 for none
  pods,      \* a pod of each problem's application that has one
  errors,    \* commands and calls that failed
  timeouts,  \* waits that reached their limit, or for a deletion that were left
  left,      \* the last problem that ended before its cleanup, 0 for none
  overlap    \* pods of earlier problems were there when this one was installed

cluster == <<ns, extras, release, pods>>
past == <<left, overlap>>
vars == <<app, pc, n, polls, cluster, errors, timeouts, past>>

Waits == {"ready", "gone_before", "gone_after"}

TypeOK ==
  /\ app \in Apps
  /\ pc \in {"idle", "namespace", "extras", "delete", "delete_ns", "install",
             "running", "cleanup", "cleanup_ns"} \union Waits
  /\ n \in 0 .. MaxProblems
  /\ polls \in 0 .. MaxPolls - 1
  /\ ns \in {"absent", "active", "terminating"}
  /\ extras \in BOOLEAN
  /\ release \in 0 .. n
  /\ pods \subseteq [of : 1 .. n, ready : BOOLEAN, dying : BOOLEAN]
  /\ \A p, q \in pods : p.of = q.of => p = q
  /\ errors \in 0 .. MaxErrors
  /\ timeouts \in 0 .. MaxProblems
  /\ left \in 0 .. n
  /\ overlap \in BOOLEAN

Init ==
  /\ app \in Apps
  /\ pc = "idle" /\ n = 0 /\ polls = 0
  /\ ns = "absent" /\ extras = FALSE /\ release = 0 /\ pods = {}
  /\ errors = 0 /\ timeouts = 0 /\ left = 0 /\ overlap = FALSE

Goes(from, to) == pc = from /\ pc' = to /\ polls' = 0

Fails == errors < MaxErrors /\ errors' = errors + 1
Succeeds == UNCHANGED errors

Dying == {[p EXCEPT !.dying = TRUE] : p \in pods}

(* get_problem_instance: the constructor of the application.               *)
Construct ==
  /\ Goes("idle", "namespace")
  /\ n < MaxProblems /\ n' = n + 1
  /\ UNCHANGED <<app, cluster, errors, timeouts, past>>

(* create_namespace: any answer but "not found" is taken for a namespace.  *)
CreateNamespace ==
  /\ Goes("namespace", "extras")
  /\ \/ Succeeds /\ ns' = IF ns = "absent" THEN "active" ELSE ns
     \/ Fails /\ UNCHANGED ns
  /\ UNCHANGED <<app, n, extras, release, pods, timeouts, past>>

(* create_configmaps raises where it cannot create, create_tls_secret does *)
(* not; astronomy has nothing to create.                                   *)
CreateExtras ==
  /\ pc = "extras"
  /\ polls' = 0
  /\ LET possible == ns = "active" \/ (ns = "terminating" /\ extras)
     IN  \/ Succeeds /\ pc' = "delete" /\ possible /\ extras' = TRUE
           /\ UNCHANGED left
         \/ Succeeds /\ ~possible /\ UNCHANGED extras
           /\ IF app = "hotel" THEN pc' = "idle" /\ left' = n
              ELSE pc' = "delete" /\ UNCHANGED left
         \/ Fails /\ pc' = "delete" /\ UNCHANGED <<extras, left>>
  /\ UNCHANGED <<app, n, ns, release, pods, timeouts, overlap>>

(* delete_configs, or Helm.uninstall, which skips what it does not list.   *)
Uninstall ==
  \/ Succeeds /\ release' = 0 /\ pods' = Dying
  \/ Fails /\ UNCHANGED <<release, pods>>

Delete ==
  /\ Goes("delete", IF app = "astronomy" THEN "delete_ns" ELSE "install")
  /\ Uninstall
  /\ UNCHANGED <<app, n, ns, extras, timeouts, past>>

(* delete_namespace: waits for the end of a deletion that was accepted,    *)
(* and for nothing else.                                                   *)
DeleteNamespace(from, wait, next) ==
  /\ pc = from
  /\ polls' = 0
  /\ \/ Succeeds /\ ns # "absent" /\ ns' = "terminating" /\ pc' = wait
     \/ Succeeds /\ ns = "absent" /\ UNCHANGED ns /\ pc' = next
     \/ Fails /\ UNCHANGED ns /\ pc' = next
  /\ UNCHANGED <<app, n, extras, release, pods, timeouts, past>>

Raises == pc' = "idle" /\ polls' = 0 /\ timeouts' = timeouts + 1 /\ left' = n
Passes(to) == pc' = to /\ polls' = 0 /\ UNCHANGED <<timeouts, left>>
Polls == polls' = polls + 1 /\ UNCHANGED <<pc, timeouts, left>>

(* Mutation of WaitForDeletion: the limit lets the program go on.          *)
WaitForDeletionGivesUp(wait, next) ==
  /\ pc = wait
  /\ Succeeds
  /\ IF ns = "absent" \/ polls = MaxPolls - 1
     THEN Passes(next)
     ELSE Polls
  /\ UNCHANGED <<app, n, cluster, overlap>>

(* wait_for_namespace_deletion: whatever raises means that it is gone.     *)
WaitForDeletion(wait, next) ==
  /\ pc = wait
  /\ \/ Succeeds /\ ns = "absent" /\ Passes(next)
     \/ Fails /\ Passes(next)
     \/ /\ Succeeds /\ ns # "absent"
        /\ IF polls = MaxPolls - 1 THEN Raises ELSE Polls
  /\ UNCHANGED <<app, n, cluster, overlap>>

(* Mutation of Install: pods that are listed are good enough.              *)
InstallUnlessPods ==
  /\ Goes("install", "ready")
  /\ Succeeds
  /\ ns' = "active"
  /\ release' = IF pods = {} THEN n ELSE release
  /\ overlap' = (pods # {})
  /\ UNCHANGED <<app, n, extras, pods, timeouts, left>>

(* apply_configs or Helm.install: refused in a namespace that terminates,  *)
(* without one (Helm and astronomy make one), and where objects are left.  *)
(* Neither waits for a pod.                                                *)
Install ==
  /\ Goes("install", "ready")
  /\ LET made == IF ns = "absent" /\ app # "hotel" THEN "active" ELSE ns
     IN  \/ /\ Succeeds
            /\ ns' = made
            /\ release' = IF made = "active" /\ release = 0 THEN n ELSE release
         \/ Fails /\ UNCHANGED <<ns, release>>
  /\ overlap' = (pods # {})
  /\ UNCHANGED <<app, n, extras, pods, timeouts, left>>

(* Mutation of WaitForReady: the limit is one poll later.                  *)
WaitForReadyOnceMore ==
  /\ pc = "ready"
  /\ Succeeds
  /\ IF pods # {} /\ \A p \in pods : p.ready THEN Passes("running")
     ELSE IF polls = MaxPolls THEN Raises ELSE Polls
  /\ UNCHANGED <<app, n, cluster, overlap>>

(* wait_for_ready: the pods that are listed, one at least, are all ready;  *)
(* those still to come are not asked for, and an error costs a poll.       *)
WaitForReady ==
  /\ pc = "ready"
  /\ LET all == pods # {} /\ \A p \in pods : p.ready
     IN  \/ Succeeds /\ all /\ Passes("running")
         \/ /\ (Succeeds /\ ~all) \/ Fails
            /\ IF polls = MaxPolls - 1 THEN Raises ELSE Polls
  /\ UNCHANGED <<app, n, cluster, overlap>>

(* The problem is worked on, and start_problem comes to its cleanup.       *)
Finish ==
  /\ Goes("running", "cleanup")
  /\ UNCHANGED <<app, n, cluster, errors, timeouts, past>>

(* An exception, of the telemetry's set-up, the dialogue, the eval or the  *)
(* recovery, or a stop ends the problem before its cleanup is through, and *)
(* the driver, or the next process, goes on.                               *)
Leave ==
  /\ pc # "idle" /\ pc' = "idle" /\ polls' = 0
  /\ left' = n
  /\ timeouts' = IF pc \in {"gone_before", "gone_after"} THEN timeouts + 1
                 ELSE timeouts
  /\ UNCHANGED <<app, n, cluster, errors, overlap>>

(* cleanup: hotel and astronomy delete the namespace, social leaves it.    *)
Cleanup ==
  /\ Goes("cleanup", IF app = "social" THEN "idle" ELSE "cleanup_ns")
  /\ IF app = "hotel" THEN Succeeds /\ UNCHANGED <<release, pods>> ELSE Uninstall
  /\ UNCHANGED <<app, n, ns, extras, timeouts, past>>

Work ==
  \/ CreateNamespace
  \/ CreateExtras
  \/ Delete
  \/ DeleteNamespace("delete_ns", "gone_before", "install")
  \/ WaitForDeletion("gone_before", "install")
  \/ Install
  \/ WaitForReady
  \/ Finish
  \/ Cleanup
  \/ DeleteNamespace("cleanup_ns", "gone_after", "idle")
  \/ WaitForDeletion("gone_after", "idle")

-----------------------------------------------------------------------------
(* Kubernetes: a release gets its pod some time, a pod that has what it    *)
(* mounts gets ready, a dying one goes, and so does a namespace with all   *)
(* it holds.                                                               *)
PodCreated ==
  /\ ns = "active" /\ release # 0 /\ \A p \in pods : p.of # release
  /\ pods' = pods \union {[of |-> release, ready |-> FALSE, dying |-> FALSE]}
  /\ UNCHANGED <<ns, extras, release>>

PodReady ==
  /\ \E p \in pods :
       /\ ~p.ready /\ (extras \/ app = "astronomy")
       /\ pods' = (pods \ {p}) \union {[p EXCEPT !.ready = TRUE]}
  /\ UNCHANGED <<ns, extras, release>>

PodGone ==
  /\ \E p \in pods : p.dying /\ pods' = pods \ {p}
  /\ UNCHANGED <<ns, extras, release>>

NamespaceEmptied ==
  /\ ns = "terminating" /\ (release # 0 \/ pods # Dying)
  /\ release' = 0 /\ pods' = Dying
  /\ UNCHANGED <<ns, extras>>

NamespaceGone ==
  /\ ns = "terminating" /\ release = 0 /\ pods = {}
  /\ ns' = "absent" /\ extras' = FALSE
  /\ UNCHANGED <<release, pods>>

Kubernetes ==
  /\ PodCreated \/ PodReady \/ PodGone \/ NamespaceEmptied \/ NamespaceGone
  /\ UNCHANGED <<app, pc, n, polls, errors, timeouts, past>>

Next == Construct \/ Work \/ Leave \/ Kubernetes

(* The program goes on; the cluster need not.                              *)
Spec == Init /\ [][Next]_vars /\ WF_vars(Work)

-----------------------------------------------------------------------------
(* Nothing failed without a word, and no wait for a deletion was given up. *)
Quiet == errors = 0 /\ timeouts = 0

(* The problem before ended without its cleanup.                           *)
Last == IF pc = "idle" THEN n ELSE n - 1
Left == left # 0 /\ left = Last

(* While Quiet, a problem begins with its own release installed, and with  *)
(* a pod of it ready, unless all that wait_for_ready saw may have been     *)
(* pods of earlier problems on their way out: in the namespace of social,  *)
(* which stays, or after a problem of hotel that ended without its cleanup.*)
OwnApplication ==
  pc = "running" /\ Quiet =>
    /\ release = n
    /\ \/ \E p \in pods : p.of = n /\ p.ready
       \/ overlap /\ (app = "social" \/ (app = "hotel" /\ Left))

(* While Quiet, nothing is left of a problem that came to its cleanup: no  *)
(* namespace, or no release where the namespace stays.  And however the    *)
(* last one ended, none of its objects is there for the next install to    *)
(* collide with, and of astronomy not even the namespace.                  *)
CleanSlate ==
  Quiet =>
    /\ pc = "idle" /\ ~Left => release = 0 /\ (app # "social" => ns = "absent")
    /\ pc = "install" => release = 0 /\ (app = "astronomy" => ns = "absent")

(* Every wait has an end, whatever the cluster does.                       *)
WaitsEnd == \A w \in Waits : pc = w ~> pc # w

-----------------------------------------------------------------------------
(* The inductive invariant.  An absent namespace holds nothing, a problem  *)
(* gives up at most one wait, and its pods are those of its own install;   *)
(* while Quiet, each step finds the namespace, the release and the pods as *)
(* the steps before it have left them.                                     *)
AbsentIsEmpty == ns = "absent" => ~extras /\ release = 0 /\ pods = {}

OneTimeoutEach ==
  /\ timeouts <= n /\ (pc # "idle" => timeouts < n)
  /\ pc # "idle" => left < n

PodsOfEarlier ==
  pc \in {"namespace", "extras", "delete", "delete_ns", "gone_before", "install"} =>
    release < n /\ \A p \in pods : p.of < n

Namespace ==
  Quiet =>
    /\ app = "social" => ns # "terminating"
    /\ pc \in {"idle", "namespace"} =>
         ns # "terminating" /\ (app # "social" /\ ~Left => ns = "absent")
    /\ pc \in {"extras", "delete", "delete_ns", "ready", "running", "cleanup", "cleanup_ns"}
         => ns = "active"
    /\ pc = "install" => (ns = "absent" <=> app = "astronomy") /\ ns # "terminating"
    /\ pc \in {"delete_ns", "gone_before"} => app = "astronomy"
    /\ pc \in {"cleanup_ns", "gone_after"} => app # "social"

Released ==
  Quiet =>
    /\ pc \in {"idle", "namespace", "extras", "delete"} /\ ~Left => release = 0
    /\ pc = "install" => release = 0
    /\ pc \in {"ready", "running"} => release = n

(* Under ~overlap the pods are the problem's own.                          *)
OwnPods ==
  Quiet =>
    /\ pc \in {"idle", "namespace", "extras", "delete", "install"} /\ app = "hotel" /\ ~Left
         => pods = {}
    /\ pc \in {"ready", "running"} =>
         IF overlap THEN app = "social" \/ (app = "hotel" /\ Left)
         ELSE \A p \in pods : p.of = n /\ ~p.dying
    /\ pc = "running" /\ ~overlap => pods # {} /\ \A p \in pods : p.ready

IInv ==
  /\ TypeOK /\ AbsentIsEmpty /\ OneTimeoutEach /\ PodsOfEarlier
  /\ Namespace /\ Released /\ OwnPods

=============================================================================
