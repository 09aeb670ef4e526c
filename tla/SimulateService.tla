--------------------------- MODULE SimulateService ---------------------------
(***************************************************************************)
(* POST /simulate of service.py.  Every request runs in a worker thread of *)
(* one process, with an orchestrator of its own on the one cluster: the    *)
(* applications, the telemetry, the storage and the table of exit handlers *)
(* are shared, and nothing orders the requests.  The orchestrator is that  *)
(* of Orchestrator, in the steps in which it touches what is shared; a     *)
(* critical section has no effect outside the main thread.                 *)
(***************************************************************************)
EXTENDS FiniteSets, Naturals

CONSTANTS
  Requests,  \* the requests
  Apps,      \* the applications of their problems
  AtOnce     \* requests in progress at a time

ASSUME SimulateAssumption == IsFiniteSet(Requests) /\ AtOnce \in Nat \ {0}

VARIABLES
  pc,         \* where each request is
  app,        \* the application of its problem
  status,     \* its answer: 200, 404, 500, or 0
  own,        \* it was evaluated in the environment of its problem
  process,    \* "up", "stopping" or "gone"
  faults,     \* requests whose fault is in the cluster
  deployed,   \* applications that are there
  telemetry,  \* Prometheus and OpenEBS are there
  handlers,   \* requests with an exit handler for their fault
  dropped,    \* requests whose handler another one has unregistered
  halfway,    \* requests whose inject_fault, or whose recover_fault at exit,
              \* raised after it had begun to change the cluster
  together    \* requests that were in progress at a time with another

shared == <<faults, deployed, telemetry, handlers, dropped, halfway>>
vars == <<pc, app, status, own, process, shared, together>>

Steps ==
  {"setup", "deploy", "inject", "register", "workload", "dialogue", "eval",
   "recover", "unregister", "abort", "aborted", "cleanup", "teardown", "respond"}

InProgress == {r \in Requests : pc[r] \in Steps}

TypeOK ==
  /\ pc \in [Requests -> Steps \union {"new", "done"}]
  /\ app \in [Requests -> Apps]
  /\ status \in [Requests -> {0, 200, 404, 500}]
  /\ \A r \in Requests : pc[r] = "done" <=> status[r] # 0
  /\ own \in [Requests -> BOOLEAN]
  /\ process \in {"up", "stopping", "gone"}
  /\ faults \subseteq Requests /\ handlers \subseteq Requests
  /\ dropped \subseteq Requests /\ halfway \subseteq Requests
  /\ together \subseteq Requests
  /\ deployed \subseteq Apps
  /\ telemetry \in BOOLEAN
  /\ Cardinality(InProgress) <= AtOnce

Init ==
  /\ pc = [r \in Requests |-> "new"]
  /\ app \in [Requests -> Apps]
  /\ status = [r \in Requests |-> 0]
  /\ own = [r \in Requests |-> FALSE]
  /\ process = "up"
  /\ faults = {} /\ deployed = {} /\ telemetry = FALSE
  /\ handlers = {} /\ dropped = {} /\ halfway = {} /\ together = {}

Goes(r, from, to) ==
  /\ process # "gone"
  /\ pc[r] = from /\ pc' = [pc EXCEPT ![r] = to]
  /\ UNCHANGED <<app, process, together>>

Unanswered == UNCHANGED <<status, own>>
Answers(r, code) == status' = [status EXCEPT ![r] = code] /\ UNCHANGED own

(* A problem or an agent that the registries do not know is a 404.         *)
Receive(r) ==
  /\ process = "up" /\ pc[r] = "new"
  /\ Cardinality(InProgress) < AtOnce
  /\ \/ /\ pc' = [pc EXCEPT ![r] = "setup"] /\ Unanswered
        /\ together' = IF InProgress = {} THEN together
                       ELSE together \union InProgress \union {r}
     \/ /\ pc' = [pc EXCEPT ![r] = "done"] /\ Answers(r, 404)
        /\ UNCHANGED together
  /\ UNCHANGED <<app, process, shared>>

(* init_problem: OpenEBS and Prometheus, unless they are running.          *)
SetUp(r) ==
  /\ Goes(r, "setup", "deploy") /\ Unanswered
  /\ telemetry' = TRUE
  /\ UNCHANGED <<faults, deployed, handlers, dropped, halfway>>

(* The faults in an application go with its objects.                       *)
Sharing(r) == {q \in Requests : app[q] = app[r]}

Deploy(r) ==
  /\ Goes(r, "deploy", "inject") /\ Unanswered
  /\ faults' = faults \ Sharing(r)
  /\ deployed' = deployed \union {app[r]}
  /\ UNCHANGED <<telemetry, handlers, dropped, halfway>>

Inject(r) ==
  /\ Goes(r, "inject", "register") /\ Unanswered
  /\ app[r] \in deployed /\ faults' = faults \union {r}
  /\ UNCHANGED <<deployed, telemetry, handlers, dropped, halfway>>

Register(r) ==
  /\ Goes(r, "register", "workload") /\ Unanswered
  /\ handlers' = handlers \union {r}
  /\ UNCHANGED <<faults, deployed, telemetry, dropped, halfway>>

StartWorkload(r) ==
  /\ Goes(r, "workload", "dialogue") /\ Unanswered
  /\ UNCHANGED shared

(* Mutation of Dialogue: a finally clause takes the fault out.             *)
DialogueRecovers(r) ==
  /\ Goes(r, "dialogue", "eval") \/ Goes(r, "dialogue", "abort")
  /\ Unanswered
  /\ faults' = faults \ {r}
  /\ UNCHANGED <<deployed, telemetry, handlers, dropped, halfway>>

(* start_problem, limited to max_steps; when the dialogue raises, the      *)
(* fault is taken out first.                                               *)
Dialogue(r) ==
  /\ Goes(r, "dialogue", "eval") \/ Goes(r, "dialogue", "abort")
  /\ Unanswered
  /\ UNCHANGED shared

Environment(r) == r \in faults /\ app[r] \in deployed /\ telemetry

Evaluate(r) ==
  /\ Goes(r, "eval", "recover")
  /\ own' = [own EXCEPT ![r] = Environment(r)]
  /\ UNCHANGED status
  /\ UNCHANGED shared

(* Mutation of Recover: the handler is dropped before the fault is out.    *)
RecoverUnhandled(r) ==
  /\ Goes(r, "recover", "unregister") \/ Goes(r, "abort", "aborted")
  /\ Unanswered
  /\ handlers' = handlers \ {r}
  /\ UNCHANGED <<faults, deployed, telemetry, dropped, halfway>>

Recover(r) ==
  /\ Goes(r, "recover", "unregister") \/ Goes(r, "abort", "aborted")
  /\ Unanswered
  /\ faults' = faults \ {r}
  /\ UNCHANGED <<deployed, telemetry, handlers, dropped, halfway>>

(* atexit.unregister drops every entry of exit_cleanup_fault.              *)
DropHandlers(r) ==
  /\ handlers' = {} /\ dropped' = dropped \union (handlers \ {r})
  /\ UNCHANGED <<faults, deployed, telemetry, halfway>>

Unregister(r) ==
  /\ \/ Goes(r, "unregister", "cleanup") /\ Unanswered
     \/ Goes(r, "aborted", "done") /\ Answers(r, 500)
  /\ DropHandlers(r)

Cleanup(r) ==
  /\ Goes(r, "cleanup", "teardown") /\ Unanswered
  /\ deployed' = deployed \ {app[r]}
  /\ faults' = faults \ Sharing(r)
  /\ UNCHANGED <<telemetry, handlers, dropped, halfway>>

Teardown(r) ==
  /\ Goes(r, "teardown", "respond") /\ Unanswered
  /\ telemetry' = FALSE
  /\ UNCHANGED <<faults, deployed, handlers, dropped, halfway>>

Respond(r) ==
  /\ Goes(r, "respond", "done") /\ Answers(r, 200)
  /\ UNCHANGED shared

(* Mutation of Raises: the exception ends the thread without an answer.    *)
RaisesUnhandled(r) ==
  /\ \E step \in Steps : Goes(r, step, "done")
  /\ Unanswered
  /\ UNCHANGED shared

(* What raises is a 500; what raises in the dialogue is Dialogue's.  A     *)
(* step that raises may have done its work or none of it; deploy may also  *)
(* have only deleted, and inject_fault may stop in the middle.             *)
Raises(r) ==
  /\ Answers(r, 500)
  /\ UNCHANGED <<handlers, dropped>>
  /\ \/ /\ \E step \in {"workload", "eval", "recover", "abort", "cleanup"} : Goes(r, step, "done")
        /\ UNCHANGED <<faults, deployed, telemetry, halfway>>
     \/ /\ Goes(r, "setup", "done") \/ Goes(r, "teardown", "done")
        /\ telemetry' \in BOOLEAN
        /\ UNCHANGED <<faults, deployed, halfway>>
     \/ /\ Goes(r, "deploy", "done") \/ Goes(r, "cleanup", "done")
        /\ faults' = faults \ Sharing(r)
        /\ deployed' \in {deployed \ {app[r]}, deployed \union {app[r]}}
        /\ UNCHANGED <<telemetry, halfway>>
     \/ /\ Goes(r, "inject", "done")
        /\ \E half \in SUBSET {r} : /\ faults' = faults \union half
                                   /\ halfway' = halfway \union half
        /\ UNCHANGED <<deployed, telemetry>>

(* uvicorn at a first signal takes no more requests and waits for those in *)
(* progress, and at a second one exits with the threads where they are.    *)
Signal ==
  /\ process = "up" /\ process' = "stopping"
  /\ UNCHANGED <<pc, app, status, own, shared, together>>

(* The exit handlers run, each whether or not the others raise.            *)
Exit ==
  /\ process = "stopping" /\ process' = "gone"
  /\ \E failed \in SUBSET (handlers \cap faults) :
       /\ faults' = faults \ (handlers \ failed)
       /\ halfway' = halfway \union failed
  /\ handlers' = {}
  /\ UNCHANGED <<pc, app, status, own, deployed, telemetry, dropped, together>>

Work(r) ==
  \/ SetUp(r) \/ Deploy(r) \/ Inject(r) \/ Register(r) \/ StartWorkload(r)
  \/ Dialogue(r) \/ Evaluate(r) \/ Recover(r) \/ Unregister(r) \/ Cleanup(r) \/ Teardown(r)
  \/ Respond(r) \/ Raises(r)

Next ==
  \/ \E r \in Requests : Receive(r) \/ Work(r)
  \/ Signal
  \/ Exit

(* Every thread goes on, but for the one that polls in start_workload,     *)
(* which has no limit (wrk.py:111).                                        *)
Polls(r) == pc[r] = "workload"

Spec ==
  /\ Init /\ [][Next]_vars
  /\ \A r \in Requests : WF_vars(Work(r) /\ ~Polls(r))

-----------------------------------------------------------------------------
(* "Takes a problem ID, agent name, and optional parameters to run a       *)
(* simulation and return results" (service.py:100): the results are those  *)
(* of the problem, with its fault, its application and its telemetry in    *)
(* place when it was evaluated, unless another request was in progress at  *)
(* the same time.                                                          *)
ResultsOfOwnProblem ==
  \A r \in Requests : status[r] = 200 => own[r] \/ r \in together

(* When the process is gone, a fault is left in the cluster only if its    *)
(* injection had just been done, had raised half way, or its handler had   *)
(* raised half way or was dropped by another request: no exception of the  *)
(* steps between, no failed recovery and no answer 500 loses a handler.    *)
LeftBehindExplained ==
  process = "gone" =>
    \A r \in faults : pc[r] = "register" \/ r \in dropped \union halfway

(* Every request that was taken is answered, or the process exits, unless  *)
(* the request stays in the polling loop of its workload for good.         *)
Answered ==
  \A r \in Requests :
    []<>~Polls(r) => (pc[r] = "setup" ~> status[r] # 0 \/ process = "gone")

-----------------------------------------------------------------------------
(* The inductive invariant.  A request that is in progress with no other   *)
(* has the environment of its problem as far as it has made it; Alone is   *)
(* what separates it from the others.                                      *)
Prepared ==
  {"inject", "register", "workload", "dialogue", "eval"}

Injected == {"register", "workload", "dialogue", "eval"}

Evaluated == {"recover", "unregister", "cleanup", "teardown", "respond"}

Alone == \A r \in InProgress \ together : InProgress = {r}

OwnEnvironment ==
  process # "gone" => \A r \in InProgress \ together :
    /\ pc[r] \in Prepared \union {"deploy"} => telemetry
    /\ pc[r] \in Prepared => app[r] \in deployed
    /\ pc[r] \in Injected => r \in faults
    /\ pc[r] \in Evaluated => own[r]

(* Every fault that is in the cluster has its handler, or will have it, or *)
(* has lost it, or is half of one; one that was taken out stays out.       *)
FaultsHandled ==
  /\ \A r \in faults : pc[r] = "register" \/ r \in handlers \union dropped \union halfway
  /\ \A r \in Requests : pc[r] \in {"unregister", "aborted"} => r \notin faults
  /\ process = "gone" => handlers = {}

IInv == TypeOK /\ Alone /\ OwnEnvironment /\ FaultsHandled /\ ResultsOfOwnProblem

=============================================================================
