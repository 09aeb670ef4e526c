---------------------------- MODULE Orchestrator ----------------------------
(***************************************************************************)
(* One process that runs problems one after the other in its main thread,  *)
(* as the drivers under clients/ do: Orchestrator.init_problem puts a      *)
(* fault into a live cluster, start_problem lets an agent talk to it,      *)
(* scores the outcome and takes the fault out.  Every call into the        *)
(* cluster may raise, Ctrl-C may arrive between any two statements, and    *)
(* what is left to undo at interpreter exit is whatever atexit still       *)
(* holds.                                                                  *)
(*                                                                         *)
(* A problem stands for its fault.  A message is reduced to its role, a    *)
(* solution to the problem it was submitted for, and the set of handlers   *)
(* stands for atexit's list: they run in reverse order of registration,    *)
(* and no property below depends on that order.                            *)
(***************************************************************************)
EXTENDS Naturals

CONSTANTS
  Problems,         \* the problem ids the driver iterates over
  Docker,           \* those deployed with docker compose, without Kubernetes
  Late,             \* those whose start_workload puts the fault in
  None,             \* "no problem", "no solution"
  MaxSteps,         \* start_problem's max_steps
  MaxSigints,       \* bound on the number of Ctrl-C
  DriverContinues   \* the driver catches Exception and takes the next problem
                    \* (clients/react.py) instead of ending (clients/gpt.py)

ASSUME OrchestratorAssumption ==
  /\ Docker \subseteq Problems
  /\ Late \subseteq Problems
  /\ None \notin Problems
  /\ MaxSteps \in Nat
  /\ MaxSigints \in Nat
  /\ DriverContinues \in BOOLEAN

VARIABLES
  pc,         \* the statement about to run
  todo,       \* problems the driver has not begun
  cur,        \* session.problem
  step,       \* rounds of the dialogue begun
  asked,      \* "assistant" items in session.history
  answered,   \* "env" items in session.history
  solution,   \* session.solution
  accepted,   \* env_response is VALID_SUBMISSION
  infra,      \* OpenEBS and Prometheus may be installed
  running,    \* problems whose application may be running
  fault,      \* per problem: what its fault has done to the cluster
  handlers,   \* problems whose exit_cleanup_fault is registered with atexit
  inCS,       \* inside `with CriticalSection()`
  signaled,   \* CriticalSection.signaled
  cancelled,  \* asyncio.run has asked the main task to cancel
  sigints     \* Ctrl-C received so far

session  == <<todo, cur>>
dialogue == <<step, asked, answered, solution, accepted>>
cluster  == <<infra, running>>
signals  == <<cancelled, sigints>>
critical == <<inCS, signaled>>
vars == <<pc, session, dialogue, cluster, fault, handlers, critical, signals>>

InitPCs == {"setup", "deploy", "injectEnter", "inject", "register",
            "injectLeave", "workload", "propagate", "context"}
LoopPCs == {"ask", "env"}
AbortPCs  == {"abortEnter", "abortRecover", "abortUnregister", "abortLeave"}
ScorePCs  == {"eval", "save"}
FinishPCs == {"finishEnter", "finishRecover", "finishUnregister", "finishLeave"}
LeavePCs  == {"cleanup", "teardown", "report"}
RunPCs == LoopPCs \union AbortPCs \union ScorePCs \union FinishPCs \union LeavePCs
PCs == {"idle", "exit", "dead"} \union InitPCs \union RunPCs

FaultStates == {"absent", "halfInjected", "injected", "halfRecovered", "recovered"}

(* The fault has changed the cluster and nothing has put it back.          *)
InCluster(p) == fault[p] \in {"halfInjected", "injected", "halfRecovered"}

(* p's fault was put in and recover_fault has not returned.                *)
Owed(p) == fault[p] \in {"injected", "halfRecovered"}

(* inject_fault has skipped the injection and left it to start_workload.   *)
Postponed(p) == p \in Late /\ fault[p] = "absent"

DriverType ==
  /\ pc \in PCs
  /\ todo \subseteq Problems
  /\ cur \in Problems \union {None}

DialogueType ==
  /\ step \in 0 .. MaxSteps
  /\ asked \in 0 .. MaxSteps
  /\ answered \in 0 .. MaxSteps
  /\ solution \in Problems \union {None}
  /\ accepted \in BOOLEAN

ClusterType ==
  /\ infra \in BOOLEAN
  /\ running \subseteq Problems
  /\ fault \in [Problems -> FaultStates]
  /\ handlers \subseteq Problems

SignalType ==
  /\ inCS \in BOOLEAN
  /\ signaled \in BOOLEAN
  /\ cancelled \in BOOLEAN
  /\ sigints \in 0 .. MaxSigints

TypeOK == DriverType /\ DialogueType /\ ClusterType /\ SignalType

Init ==
  /\ pc = "idle"
  /\ todo = Problems
  /\ cur = None
  /\ step = 0 /\ asked = 0 /\ answered = 0
  /\ solution = None
  /\ accepted = FALSE
  /\ infra = FALSE
  /\ running = {}
  /\ fault = [p \in Problems |-> "absent"]
  /\ handlers = {}
  /\ inCS = FALSE
  /\ signaled = FALSE
  /\ cancelled = FALSE
  /\ sigints = 0

-----------------------------------------------------------------------------
(* How a statement ends: normally, with an Exception that leaves the       *)
(* Orchestrator for the driver, or with the interpreter unwinding          *)
(* (KeyboardInterrupt, SystemExit, CancelledError), which nothing catches. *)

Goto(from, to) == pc = from /\ pc' = to

(* Mutation: every driver goes on.                                         *)
RaiseIgnored ==
  /\ pc' = "idle"
  /\ cancelled' = FALSE

RaiseToDriver ==
  /\ pc' = IF DriverContinues THEN "idle" ELSE "exit"
  /\ cancelled' = FALSE

(* Mutation of Enter: no handler is installed.                             *)
EnterUnmasked(from, to) ==
  /\ Goto(from, to)
  /\ UNCHANGED inCS
  /\ signaled' = FALSE

(* CriticalSection.__enter__ and __exit__.  A body that raised leaves      *)
(* through __exit__ too, and a deferred Ctrl-C then replaces its exception.*)
Enter(from, to) ==
  /\ Goto(from, to)
  /\ inCS' = TRUE
  /\ signaled' = FALSE

Leave(from, to) ==
  /\ pc = from
  /\ pc' = IF signaled THEN "exit" ELSE to
  /\ inCS' = FALSE
  /\ UNCHANGED signaled

LeaveRaising(from) ==
  /\ pc = from
  /\ inCS' = FALSE
  /\ UNCHANGED <<signaled, sigints>>
  /\ IF signaled THEN pc' = "exit" /\ UNCHANGED cancelled ELSE RaiseToDriver

-----------------------------------------------------------------------------
(* Orchestrator.init_problem                                               *)

(* The driver takes the next problem: a new Orchestrator, a new Session.   *)
Begin(p) ==
  /\ Goto("idle", "setup")
  /\ p \in todo
  /\ todo' = todo \ {p}
  /\ cur' = p
  /\ step' = 0 /\ asked' = 0 /\ answered' = 0
  /\ solution' = None
  /\ accepted' = FALSE
  /\ UNCHANGED <<cluster, fault, handlers, critical, signals>>

SetUp ==
  /\ Goto("setup", "deploy")
  /\ infra' = (infra \/ cur \notin Docker)
  /\ UNCHANGED <<session, dialogue, running, fault, handlers, critical, signals>>

(* app.delete() and app.deploy().  The docker problems share one compose   *)
(* application.  Replacing an application also undoes earlier faults that  *)
(* lived inside it: any of those left behind.                              *)
Deploy ==
  /\ Goto("deploy", "injectEnter")
  /\ running' = {cur} \union IF cur \in Docker THEN running \ Docker ELSE running
  /\ \E gone \in SUBSET {p \in Problems : InCluster(p)} :
        fault' = [p \in Problems |-> IF p \in gone THEN "recovered" ELSE fault[p]]
  /\ UNCHANGED <<session, dialogue, infra, handlers, critical, signals>>

EnterInject ==
  /\ Enter("injectEnter", "inject")
  /\ UNCHANGED <<session, dialogue, cluster, fault, handlers, signals>>

Inject ==
  /\ Goto("inject", "register")
  /\ fault' = [fault EXCEPT ![cur] = IF cur \in Late THEN "absent" ELSE "injected"]
  /\ UNCHANGED <<session, dialogue, cluster, handlers, critical, signals>>

(* inject_fault raises, before or after it has changed something.          *)
InjectRaises ==
  /\ LeaveRaising("inject")
  /\ \E f \in {"absent", "halfInjected"} : fault' = [fault EXCEPT ![cur] = f]
  /\ UNCHANGED <<session, dialogue, cluster, handlers>>

Register ==
  /\ Goto("register", "injectLeave")
  /\ handlers' = handlers \union {cur}
  /\ UNCHANGED <<session, dialogue, cluster, fault, critical, signals>>

LeaveInject ==
  /\ Leave("injectLeave", "workload")
  /\ UNCHANGED <<session, dialogue, cluster, fault, handlers, signals>>

(* A workload's script is run as a job and polled without a bound.         *)
StartWorkload ==
  /\ Goto("workload", "context")
  /\ cur \notin Late
  /\ UNCHANGED <<session, dialogue, cluster, fault, handlers, critical, signals>>

(* start_workload polls until the training has begun, puts the fault in,   *)
(* and polls until it shows in the logs: neither loop has a bound.         *)
LateInject ==
  /\ Goto("workload", "propagate")
  /\ cur \in Late
  /\ fault' = [fault EXCEPT ![cur] = "injected"]
  /\ UNCHANGED <<session, dialogue, cluster, handlers, critical, signals>>

Propagate ==
  /\ Goto("propagate", "context")
  /\ UNCHANGED <<session, dialogue, cluster, fault, handlers, critical, signals>>

(* The driver hands the task to the agent and calls start_problem, whose   *)
(* loop runs no round at all when max_steps is 0.                          *)
StartProblem ==
  /\ Goto("context", IF MaxSteps = 0 THEN "eval" ELSE "ask")
  /\ UNCHANGED <<session, dialogue, cluster, fault, handlers, critical, signals>>

-----------------------------------------------------------------------------
(* start_problem: the dialogue                                             *)

AskAgent ==
  /\ Goto("ask", "env")
  /\ step' = step + 1
  /\ asked' = asked + 1
  /\ UNCHANGED <<session, answered, solution, accepted, cluster, fault,
                 handlers, critical, signals>>

(* get_action raises an Exception: inside the try.                         *)
AgentRaises ==
  /\ Goto("ask", "abortEnter")
  /\ step' = step + 1
  /\ UNCHANGED <<session, asked, answered, solution, accepted, cluster, fault,
                 handlers, critical, signals>>

(* The human types `exit` (SystemExit), or the agent suspends while a      *)
(* cancellation is pending (CancelledError): not an Exception.             *)
AgentExits ==
  /\ Goto("ask", "exit")
  /\ step' = step + 1
  /\ UNCHANGED <<session, asked, answered, solution, accepted, cluster, fault,
                 handlers, critical, signals>>

(* Mutation of AskEnv: one round too many.                                 *)
AskEnvLateStop ==
  /\ Goto("env", IF step =< MaxSteps THEN "ask" ELSE "eval")
  /\ answered' = answered + 1
  /\ solution' \in {solution, cur}
  /\ UNCHANGED <<session, step, asked, accepted, cluster, fault, handlers,
                 critical, signals>>

(* The reply is text: an observation, a parse error, an unknown API, or    *)
(* the text of an exception.  A submit() refused for its arguments is one  *)
(* of these, and has already replaced the solution.                        *)
AskEnv ==
  /\ Goto("env", IF step < MaxSteps THEN "ask" ELSE "eval")
  /\ answered' = answered + 1
  /\ solution' \in {solution, cur}
  /\ UNCHANGED <<session, step, asked, accepted, cluster, fault, handlers,
                 critical, signals>>

(* Mutation of Submit: set_solution is skipped.                            *)
SubmitUnsaved ==
  /\ Goto("env", "eval")
  /\ answered' = answered + 1
  /\ accepted' = TRUE
  /\ UNCHANGED <<session, step, asked, solution, cluster, fault, handlers,
                 critical, signals>>

Submit ==
  /\ Goto("env", "eval")
  /\ answered' = answered + 1
  /\ solution' = cur
  /\ accepted' = TRUE
  /\ UNCHANGED <<session, step, asked, cluster, fault, handlers, critical, signals>>

(* The API returned something that is not a string, which session.add      *)
(* refuses: the exception escapes ask_env, inside the try.                 *)
EnvRaises ==
  /\ Goto("env", "abortEnter")
  /\ UNCHANGED <<session, dialogue, cluster, fault, handlers, critical, signals>>

-----------------------------------------------------------------------------
(* start_problem: recovery, from the except clause and at the end          *)

EnterRecovery ==
  /\ \/ Enter("abortEnter", "abortRecover")
     \/ Enter("finishEnter", "finishRecover")
  /\ UNCHANGED <<session, dialogue, cluster, fault, handlers, signals>>

Recover ==
  /\ \/ Goto("abortRecover", "abortUnregister")
     \/ Goto("finishRecover", "finishUnregister")
  /\ fault' = [fault EXCEPT ![cur] = "recovered"]
  /\ UNCHANGED <<session, dialogue, cluster, handlers, critical, signals>>

RecoverRaises ==
  /\ LeaveRaising("abortRecover") \/ LeaveRaising("finishRecover")
  /\ fault' = [fault EXCEPT ![cur] = "halfRecovered"]
  /\ UNCHANGED <<session, dialogue, cluster, handlers>>

(* Mutation of Unregister: atexit keeps the handler.                       *)
UnregisterForgotten ==
  /\ \/ Goto("abortUnregister", "abortLeave")
     \/ Goto("finishUnregister", "finishLeave")
  /\ UNCHANGED <<session, dialogue, cluster, fault, handlers, critical, signals>>

(* atexit.unregister drops every registration of exit_cleanup_fault.       *)
Unregister ==
  /\ \/ Goto("abortUnregister", "abortLeave")
     \/ Goto("finishUnregister", "finishLeave")
  /\ handlers' = {}
  /\ UNCHANGED <<session, dialogue, cluster, fault, critical, signals>>

(* The except clause ends by raising the exception again.                  *)
LeaveAbort ==
  /\ LeaveRaising("abortLeave")
  /\ UNCHANGED <<session, dialogue, cluster, fault, handlers>>

LeaveFinish ==
  /\ Leave("finishLeave", "cleanup")
  /\ UNCHANGED <<session, dialogue, cluster, fault, handlers, signals>>

-----------------------------------------------------------------------------
(* start_problem: scoring, and the steps after recovery                    *)

Score ==
  /\ Goto("eval", "save") \/ Goto("save", "finishEnter")
  /\ UNCHANGED <<session, dialogue, cluster, fault, handlers, critical, signals>>

(* Flower.cleanup prunes stopped containers: the application stays up.     *)
Cleanup ==
  /\ Goto("cleanup", "teardown")
  /\ running' = running \ ({cur} \ Docker)
  /\ UNCHANGED <<session, dialogue, infra, fault, handlers, critical, signals>>

(* Mutation of Teardown: the test for docker inverted.                     *)
TeardownInverted ==
  /\ Goto("teardown", "report")
  /\ infra' = (infra /\ cur \notin Docker)
  /\ UNCHANGED <<session, dialogue, running, fault, handlers, critical, signals>>

Teardown ==
  /\ Goto("teardown", "report")
  /\ infra' = (infra /\ cur \in Docker)
  /\ UNCHANGED <<session, dialogue, running, fault, handlers, critical, signals>>

(* asyncio.run returns; a cancellation no await delivered becomes a        *)
(* KeyboardInterrupt here.                                                 *)
Report ==
  /\ Goto("report", IF cancelled THEN "exit" ELSE "idle")
  /\ UNCHANGED <<session, dialogue, cluster, fault, handlers, critical, signals>>

(* A call outside the try and outside the critical sections raises; what   *)
(* it was installing or removing may be there or not.                      *)
Raises ==
  /\ pc \in {"setup", "deploy", "workload", "propagate", "context"}
            \union ScorePCs \union LeavePCs
  /\ RaiseToDriver
  /\ infra' = (infra \/ (pc = "setup" /\ cur \notin Docker))
  /\ running' = running \union IF pc = "deploy" THEN {cur} ELSE {}
  /\ UNCHANGED <<session, dialogue, fault, handlers, critical, sigints>>

-----------------------------------------------------------------------------
(* Ctrl-C.  Inside a critical section it is remembered; under asyncio.run  *)
(* the first one asks the main task to cancel and the second raises;       *)
(* anywhere else it raises.  A driver may run init_problem either under    *)
(* asyncio.run (cli.py, clients/client.py) or not (clients/gpt.py).        *)

Sigint ==
  /\ pc \notin {"exit", "dead"}
  /\ sigints < MaxSigints
  /\ sigints' = sigints + 1
  /\ UNCHANGED <<session, dialogue, cluster, fault, handlers, inCS>>

SigintDeferred ==
  /\ Sigint
  /\ inCS
  /\ signaled' = TRUE
  /\ UNCHANGED <<pc, cancelled>>

SigintCancels ==
  /\ Sigint
  /\ ~inCS /\ ~cancelled
  /\ pc # "idle"
  /\ cancelled' = TRUE
  /\ UNCHANGED <<pc, signaled>>

SigintRaises ==
  /\ Sigint
  /\ ~inCS
  /\ cancelled \/ pc = "idle" \/ pc \in InitPCs
  /\ pc' = "exit"
  /\ UNCHANGED <<signaled, cancelled>>

-----------------------------------------------------------------------------
(* Interpreter exit: atexit runs what is registered, and goes on when a    *)
(* handler raises.                                                         *)

Finish ==
  /\ Goto("idle", "exit")
  /\ todo = {}
  /\ UNCHANGED <<session, dialogue, cluster, fault, handlers, critical, signals>>

ExitCleanup(p) ==
  /\ Goto("exit", "exit")
  /\ p \in handlers
  /\ handlers' = handlers \ {p}
  /\ IF Postponed(p)
     THEN UNCHANGED fault
     ELSE \E f \in {"recovered", "halfRecovered"} : fault' = [fault EXCEPT ![p] = f]
  /\ UNCHANGED <<session, dialogue, cluster, critical, signals>>

Die ==
  /\ Goto("exit", "dead")
  /\ handlers = {}
  /\ UNCHANGED <<session, dialogue, cluster, fault, handlers, critical, signals>>

InitProblem == \/ SetUp \/ Deploy \/ EnterInject \/ Inject \/ InjectRaises
               \/ Register \/ LeaveInject \/ StartWorkload \/ LateInject \/ Propagate
Dialogue == StartProblem \/ AskAgent \/ AgentRaises \/ AgentExits
            \/ AskEnv \/ Submit \/ EnvRaises
Recovery == EnterRecovery \/ Recover \/ RecoverRaises \/ Unregister
            \/ LeaveAbort \/ LeaveFinish
Wrap == Score \/ Cleanup \/ Teardown \/ Report \/ Raises
Exit == Finish \/ (\E p \in Problems : ExitCleanup(p)) \/ Die
Program == \/ (\E p \in Problems : Begin(p))
           \/ InitProblem \/ Dialogue \/ Recovery \/ Wrap \/ Exit
Interrupts == SigintDeferred \/ SigintCancels \/ SigintRaises

Next == Program \/ Interrupts

Spec == Init /\ [][Next]_vars

(* The program runs on: every external call returns or raises, except that *)
(* start_workload may poll for ever: wrk.py:111 for the state of the job,  *)
(* model_misconfig.py:34 and 46 for the training and for its log.          *)
Polling == pc \in {"workload", "propagate"}

FairSpec == Spec /\ WF_vars(Program /\ ~Polling)

-----------------------------------------------------------------------------
(* Safety.  The first five are claims about a driver that ends at the      *)
(* first exception; a driver that goes on is the subject of two runs of    *)
(* its own.                                                                *)

(* Outside the critical sections atexit holds exactly the problems whose   *)
(* fault is still to be taken out, or to be put in by start_workload: no   *)
(* Ctrl-C, exception or failed recovery can separate inject_fault from its *)
(* registration, or recover_fault from its removal (orchestrator.py:74-79, *)
(* 177-180, 197-199).                                                      *)
HandlerIffOwed ==
  ~inCS => IF pc \in {"exit", "dead"}
           THEN {p \in Problems : fault[p] = "injected"} \subseteq handlers
           ELSE handlers = {p \in Problems :
                              Owed(p) \/ (pc = "workload" /\ p = cur /\ Postponed(p))}

(* The cluster never carries what two problems' faults have changed.       *)
SoleFault == \A p, q \in Problems : InCluster(p) /\ InCluster(q) => p = q

(* Whenever the driver is about to take a problem, nothing of the earlier  *)
(* ones is left: no fault, no exit handler, no OpenEBS or Prometheus, and  *)
(* no application but the compose one (orchestrator.py:197-214).           *)
CleanBetween ==
  pc = "idle" => /\ \A p \in Problems : ~InCluster(p)
                 /\ handlers = {}
                 /\ ~infra
                 /\ running \subseteq Docker

(* recover_fault is never called for a fault that is already taken out, or *)
(* was never completely put in: neither by start_problem nor at exit,      *)
(* where only a postponed injection may not have happened.                 *)
RecoverOnlyOwed ==
  /\ pc \in {"abortRecover", "finishRecover"} => fault[cur] = "injected"
  /\ pc = "exit" => \A p \in handlers : Owed(p) \/ Postponed(p)

(* The process is gone: every fault that was completely put in was given   *)
(* to recover_fault, however the process ended.                            *)
ExitRecovers == pc = "dead" => \A p \in Problems : fault[p] # "injected"

(* The problem's eval runs while its own fault, whole, is still in place   *)
(* and would be recovered at exit.  It gets one env item per assistant     *)
(* item, a solution of this session only, and, unless a submission was     *)
(* accepted, it runs only after max_steps rounds (161-189).                *)
ScoredInPlace ==
  pc \in ScorePCs =>
    /\ fault[cur] = "injected" /\ cur \in handlers
    /\ asked = step /\ answered = step
    /\ solution \in {None, cur}
    /\ IF accepted THEN solution = cur ELSE step = MaxSteps

(* An exception of start_problem reaches the driver only after the fault   *)
(* was taken out, or at least given to recover_fault ("catch any exception *)
(* and recover fault before the users catch it", orchestrator.py:159).     *)
RecoveredBeforeCaught ==
  [][(pc \in RunPCs /\ pc' = "idle") => fault'[cur] # "injected"]_vars

(* Unless the process stays in a polling loop of start_workload for good,  *)
(* every fault that is completely put in, by inject_fault or by            *)
(* start_workload, is eventually given to recover_fault.                   *)
EventuallyRecovered ==
  []<>~Polling =>
    \A p \in Problems :
      fault[p] = "injected" ~> fault[p] \in {"recovered", "halfRecovered"}

-----------------------------------------------------------------------------
(* The inductive invariants behind the safety claims.  BaseInv holds       *)
(* whatever the driver does: the fault of cur is what the statements run   *)
(* so far have made of it.  IInv adds, for a driver that ends at the first *)
(* exception, that nothing of another problem is left.                     *)

CriticalPCs == {"inject", "register", "injectLeave",
                "abortRecover", "abortUnregister", "abortLeave",
                "finishRecover", "finishUnregister", "finishLeave"}
BeforePCs == {"setup", "deploy", "injectEnter", "inject"}
PutPCs == {"injectLeave", "workload"}
HeldPCs == {"propagate", "context", "abortEnter", "abortRecover",
            "finishEnter", "finishRecover"} \union LoopPCs \union ScorePCs
UndonePCs == {"abortUnregister", "finishUnregister"}
FreePCs == {"abortLeave", "finishLeave"} \union LeavePCs
Stopping == {"exit", "dead"}

Active == pc \notin {"idle"} \union Stopping => cur \in Problems \ todo

CriticalWhere == inCS <=> pc \in CriticalPCs

Untouched == \A p \in todo : fault[p] = "absent" /\ p \notin handlers

OwnFault ==
  /\ pc \in BeforePCs => fault[cur] = "absent"
  /\ pc \in {"register"} \union PutPCs =>
       fault[cur] = IF cur \in Late THEN "absent" ELSE "injected"
  /\ pc \in PutPCs => cur \in handlers
  /\ pc \in HeldPCs => fault[cur] = "injected" /\ cur \in handlers
  /\ pc \in UndonePCs \union FreePCs => fault[cur] = "recovered"

Rounds ==
  /\ pc \in InitPCs => step = 0 /\ asked = 0 /\ answered = 0 /\ ~accepted
  /\ pc = "ask" => step < MaxSteps /\ asked = step /\ answered = step /\ ~accepted
  /\ pc = "env" => step > 0 /\ asked = step /\ answered = step - 1 /\ ~accepted
  /\ pc \in ScorePCs =>
       asked = step /\ answered = step /\ (accepted \/ step = MaxSteps)
  /\ solution \in {None, cur}
  /\ pc \in ScorePCs => (accepted => solution = cur)

BaseInv ==
  TypeOK /\ Active /\ CriticalWhere /\ Untouched /\ OwnFault /\ Rounds

OthersClean ==
  /\ \A p \in Problems \ {cur} : ~InCluster(p)
  /\ pc = "idle" => \A p \in Problems : ~InCluster(p)

HandlersExact ==
  /\ pc \in {"idle", "register"} \union BeforePCs \union FreePCs => handlers = {}
  /\ pc \in PutPCs \union HeldPCs \union UndonePCs => handlers = {cur}
  /\ pc \in Stopping => /\ \A p \in handlers : Owed(p) \/ Postponed(p)
                       /\ \A p \in Problems : fault[p] = "injected" => p \in handlers
  /\ pc = "dead" => handlers = {}

Installed ==
  /\ (pc \notin Stopping /\ cur \in Docker) => ~infra
  /\ pc \in {"idle", "setup", "report"} => ~infra
  /\ pc \notin Stopping => running \subseteq Docker \union {cur}
  /\ pc \in {"idle", "setup", "teardown", "report"} => running \subseteq Docker

IInv == BaseInv /\ OthersClean /\ HandlersExact /\ Installed

-----------------------------------------------------------------------------
(* The benchmark's promise, and how the state of the process refines it.   *)

PhaseOf == [p \in Problems |->
             IF p \in todo THEN "waiting"
             ELSE IF fault[p] = "absent" THEN "begun"
             ELSE IF fault[p] = "recovered" THEN "clean" ELSE "faulty"]

Lifecycle == INSTANCE FaultLifecycle WITH phase <- PhaseOf

(* A process whose driver ends at the first exception keeps the promise:   *)
(* one fault at a time, never back once taken out.                         *)
KeepsLifecycle == Lifecycle!ASpec

=============================================================================
