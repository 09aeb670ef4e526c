--------------------------- MODULE Programs_proofs ---------------------------
(***************************************************************************)
(* Proofs about the programs around a session, for any number of requests, *)
(* clients, hosts and commands: the service, a deployment, the setup of    *)
(* the laptop, and the clients' cache, which has a module of its own; then *)
(* about the five in one specification.                                    *)
(*                                                                         *)
(* Every step of a request goes from one place to another and leaves the   *)
(* other requests where they are; each conjunct of IInv has a lemma of its *)
(* own.                                                                    *)
(***************************************************************************)
EXTENDS Programs, FiniteSetTheorems, TLAPS

-----------------------------------------------------------------------------
(* The service.                                                            *)
USE SimulateAssumption

(* The requests in progress are finitely many.                             *)
LEMMA FiniteProgress == IsFiniteSet(InProgress)
  BY FS_Subset DEF InProgress

LEMMA OneMore ==
  ASSUME NEW r
  PROVE  /\ IsFiniteSet(InProgress \union {r})
         /\ Cardinality(InProgress) \in Nat
         /\ Cardinality(InProgress \union {r}) \in Nat
         /\ Cardinality(InProgress \union {r}) <= Cardinality(InProgress) + 1
<1>1. /\ IsFiniteSet(InProgress \union {r})
      /\ \/ Cardinality(InProgress \union {r}) = Cardinality(InProgress)
         \/ Cardinality(InProgress \union {r}) = Cardinality(InProgress) + 1
  BY FiniteProgress, FS_AddElement, Zenon
<1>2. /\ Cardinality(InProgress) \in Nat
      /\ Cardinality(InProgress \union {r}) \in Nat
  BY <1>1, FiniteProgress, FS_CardinalityType, Zenon
<1>3. QED
  BY <1>1, <1>2

(* A request that is taken makes one more in progress; nothing else does.  *)
LEMMA ProgressStep ==
  ASSUME TypeOK, Next
  PROVE  /\ InProgress' \in SUBSET Requests
         /\ Cardinality(InProgress') <= AtOnce
<1> USE DEF TypeOK, Steps
<1>1. ASSUME NEW r \in Requests, Receive(r) PROVE Cardinality(InProgress') <= AtOnce
  <2>1. InProgress' \subseteq InProgress \union {r}
    BY <1>1 DEF Receive, InProgress
  <2>2. /\ IsFiniteSet(InProgress \union {r})
        /\ Cardinality(InProgress \union {r}) <= Cardinality(InProgress) + 1
        /\ Cardinality(InProgress) \in Nat
        /\ Cardinality(InProgress \union {r}) \in Nat
    BY OneMore
  <2>3. /\ Cardinality(InProgress') <= Cardinality(InProgress \union {r})
        /\ Cardinality(InProgress') \in Nat
    BY <2>1, <2>2, FS_Subset, FS_CardinalityType
  <2>4. Cardinality(InProgress) < AtOnce
    BY <1>1 DEF Receive
  <2>5. QED
    BY <2>2, <2>3, <2>4
<1>2. ASSUME InProgress' \subseteq InProgress PROVE Cardinality(InProgress') <= AtOnce
  <2>1. Cardinality(InProgress') <= Cardinality(InProgress)
    BY <1>2, FiniteProgress, FS_Subset
  <2>2. Cardinality(InProgress') \in Nat /\ Cardinality(InProgress) \in Nat
    BY <1>2, FiniteProgress, FS_Subset, FS_CardinalityType
  <2>3. QED
    BY <2>1, <2>2
<1>3. ASSUME NEW r \in Requests, Work(r) PROVE InProgress' \subseteq InProgress
  BY <1>3
     DEF Work, SetUp, Deploy, Inject, Register, StartWorkload, Dialogue, Evaluate,
         Recover, Unregister, Cleanup, Teardown, Respond, Raises, Goes, InProgress
<1>4. CASE Signal \/ Exit
  BY <1>2, <1>4 DEF Signal, Exit, InProgress
<1>5. QED
  BY <1>1, <1>2, <1>3, <1>4 DEF Next, InProgress

(* Every step keeps the types; an answer comes with the end of a request.  *)
LEMMA TypeStep ==
  ASSUME TypeOK, Next
  PROVE  TypeOK'
<1> USE DEF TypeOK, Steps, shared, Unanswered, Answers
<1>1. Cardinality(InProgress') <= AtOnce
  BY ProgressStep
<1>2. ASSUME NEW r \in Requests, Receive(r) PROVE TypeOK'
  BY <1>1, <1>2 DEF Receive, InProgress
<1>3. ASSUME NEW r \in Requests, Work(r) PROVE TypeOK'
  <2> USE <1>1 DEF Goes
  <2>1. CASE SetUp(r)
    BY <2>1 DEF SetUp
  <2>2. CASE Deploy(r)
    BY <2>2 DEF Deploy
  <2>3. CASE Inject(r)
    BY <2>3 DEF Inject
  <2>4. CASE Register(r)
    BY <2>4 DEF Register
  <2>5. CASE StartWorkload(r)
    BY <2>5 DEF StartWorkload
  <2>6. CASE Dialogue(r)
    BY <2>6 DEF Dialogue
  <2>7. CASE Evaluate(r)
    BY <2>7 DEF Evaluate, Environment
  <2>8. CASE Recover(r)
    BY <2>8 DEF Recover
  <2>9. CASE Unregister(r)
    BY <2>9 DEF Unregister, DropHandlers
  <2>10. CASE Cleanup(r)
    BY <2>10 DEF Cleanup
  <2>11. CASE Teardown(r)
    BY <2>11 DEF Teardown
  <2>12. CASE Respond(r)
    BY <2>12 DEF Respond
  <2>13. CASE Raises(r)
    BY <2>13 DEF Raises, Sharing
  <2>14. QED
    BY <1>3, <2>1, <2>2, <2>3, <2>4, <2>5, <2>6, <2>7,
       <2>8, <2>9, <2>10, <2>11, <2>12, <2>13 DEF Work
<1>4. CASE Signal \/ Exit
  BY <1>1, <1>4 DEF Signal, Exit
<1>5. QED
  BY <1>2, <1>3, <1>4 DEF Next

(* Who was in progress with another request stays known, and the one that  *)
(* comes alone is taken while nobody is.                                   *)
LEMMA AloneStep ==
  ASSUME TypeOK, Alone, Next
  PROVE  Alone'
<1> USE DEF TypeOK, Alone, InProgress, Steps
<1>1. ASSUME NEW r \in Requests, Receive(r) PROVE Alone'
  BY <1>1 DEF Receive
<1>2. ASSUME NEW r \in Requests, Work(r) PROVE Alone'
  <2>1. /\ together' = together
        /\ InProgress' \in {InProgress, InProgress \ {r}}
    BY <1>2
       DEF Work, SetUp, Deploy, Inject, Register, StartWorkload, Dialogue, Evaluate,
           Recover, Unregister, Cleanup, Teardown, Respond, Raises, Goes
  <2>2. QED
    BY <2>1
<1>3. CASE Signal \/ Exit
  BY <1>3 DEF Signal, Exit
<1>4. QED
  BY <1>1, <1>2, <1>3 DEF Next

(* A request that is alone is the only one to take a step.                 *)
LEMMA AloneMoves ==
  ASSUME TypeOK, Alone,
         NEW r \in Requests, Work(r),
         NEW q \in InProgress' \ together'
  PROVE  q = r /\ q \in InProgress \ together
  BY DEF TypeOK, Alone, InProgress, Steps, Work, SetUp, Deploy, Inject, Register,
         StartWorkload, Dialogue, Evaluate, Recover, Unregister, Cleanup,
         Teardown, Respond, Raises, Goes

(* A request that is alone keeps the environment it has made.              *)
LEMMA EnvironmentStep ==
  ASSUME TypeOK, Alone, OwnEnvironment, Next
  PROVE  OwnEnvironment'
<1> USE DEF TypeOK, OwnEnvironment, Prepared, Injected, Evaluated
<1>1. ASSUME NEW r \in Requests, Receive(r) PROVE OwnEnvironment'
  BY <1>1 DEF Receive, InProgress, Steps, shared, Unanswered, Answers
<1>2. ASSUME NEW r \in Requests, Work(r) PROVE OwnEnvironment'
  <2> SUFFICES ASSUME NEW q \in InProgress' \ together', process' # "gone"
               PROVE  /\ pc'[q] \in Prepared \union {"deploy"} => telemetry'
                      /\ pc'[q] \in Prepared => app'[q] \in deployed'
                      /\ pc'[q] \in Injected => q \in faults'
                      /\ pc'[q] \in Evaluated => own'[q]
    OBVIOUS
  <2>0. q = r /\ r \in InProgress \ together
    BY <1>2, AloneMoves
  <2> USE <2>0 DEF Goes, Unanswered, Answers, shared
  <2>1. CASE SetUp(r)
    BY <2>1 DEF SetUp
  <2>2. CASE Deploy(r)
    BY <2>2 DEF Deploy, Sharing
  <2>3. CASE Inject(r)
    BY <2>3 DEF Inject
  <2>4. CASE Register(r)
    BY <2>4 DEF Register
  <2>5. CASE StartWorkload(r)
    BY <2>5 DEF StartWorkload
  <2>6. CASE Dialogue(r)
    BY <2>6 DEF Dialogue
  <2>7. CASE Evaluate(r)
    BY <2>7 DEF Evaluate, Environment
  <2>8. CASE Recover(r)
    BY <2>8 DEF Recover
  <2>9. CASE Unregister(r)
    BY <2>9 DEF Unregister, DropHandlers
  <2>10. CASE Cleanup(r)
    BY <2>10 DEF Cleanup, Sharing
  <2>11. CASE Teardown(r)
    BY <2>11 DEF Teardown
  <2>12. CASE Respond(r)
    BY <2>12 DEF Respond
  <2>13. CASE Raises(r)
    BY <2>13 DEF Raises, Sharing
  <2>14. QED
    BY <1>2, <2>1, <2>2, <2>3, <2>4, <2>5, <2>6, <2>7,
       <2>8, <2>9, <2>10, <2>11, <2>12, <2>13 DEF Work
<1>3. CASE Signal \/ Exit
  BY <1>3 DEF Signal, Exit, InProgress, shared
<1>4. QED
  BY <1>1, <1>2, <1>3 DEF Next

(* A fault has its handler, or will have it, or has lost it.               *)
LEMMA HandlerStep ==
  ASSUME TypeOK, FaultsHandled, Next
  PROVE  FaultsHandled'
<1> USE DEF TypeOK, FaultsHandled
<1>1. ASSUME NEW r \in Requests, Receive(r) PROVE FaultsHandled'
  BY <1>1 DEF Receive, shared
<1>2. ASSUME NEW r \in Requests, Work(r) PROVE FaultsHandled'
  <2> USE DEF Goes, shared
  <2>1. CASE SetUp(r)
    BY <2>1 DEF SetUp
  <2>2. CASE Deploy(r)
    BY <2>2 DEF Deploy, Sharing
  <2>3. CASE Inject(r)
    BY <2>3 DEF Inject
  <2>4. CASE Register(r)
    BY <2>4 DEF Register
  <2>5. CASE StartWorkload(r)
    BY <2>5 DEF StartWorkload
  <2>6. CASE Dialogue(r)
    BY <2>6 DEF Dialogue
  <2>7. CASE Evaluate(r)
    BY <2>7 DEF Evaluate, Environment
  <2>8. CASE Recover(r)
    BY <2>8 DEF Recover
  <2>9. CASE Unregister(r)
    BY <2>9 DEF Unregister, DropHandlers
  <2>10. CASE Cleanup(r)
    BY <2>10 DEF Cleanup, Sharing
  <2>11. CASE Teardown(r)
    BY <2>11 DEF Teardown
  <2>12. CASE Respond(r)
    BY <2>12 DEF Respond
  <2>13. CASE Raises(r)
    BY <2>13 DEF Raises, Sharing
  <2>14. QED
    BY <1>2, <2>1, <2>2, <2>3, <2>4, <2>5, <2>6, <2>7,
       <2>8, <2>9, <2>10, <2>11, <2>12, <2>13 DEF Work
<1>3. CASE Signal \/ Exit
  BY <1>3 DEF Signal, Exit, shared
<1>4. QED
  BY <1>1, <1>2, <1>3 DEF Next

(* The results of a request that was alone are those of its own problem.   *)
LEMMA ResultsStep ==
  ASSUME TypeOK, OwnEnvironment, ResultsOfOwnProblem, Next
  PROVE  ResultsOfOwnProblem'
<1> USE DEF TypeOK, ResultsOfOwnProblem
<1>1. ASSUME NEW r \in Requests, Receive(r) PROVE ResultsOfOwnProblem'
  BY <1>1 DEF Receive, Unanswered, Answers
<1>2. ASSUME NEW r \in Requests, Work(r) PROVE ResultsOfOwnProblem'
  <2> USE DEF Goes, Unanswered, Answers
  <2>1. CASE SetUp(r)
    BY <2>1 DEF SetUp
  <2>2. CASE Deploy(r)
    BY <2>2 DEF Deploy, Sharing
  <2>3. CASE Inject(r)
    BY <2>3 DEF Inject
  <2>4. CASE Register(r)
    BY <2>4 DEF Register
  <2>5. CASE StartWorkload(r)
    BY <2>5 DEF StartWorkload
  <2>6. CASE Dialogue(r)
    BY <2>6 DEF Dialogue
  <2>7. CASE Evaluate(r)
    BY <2>7 DEF Evaluate, Environment
  <2>8. CASE Recover(r)
    BY <2>8 DEF Recover
  <2>9. CASE Unregister(r)
    BY <2>9 DEF Unregister, DropHandlers
  <2>10. CASE Cleanup(r)
    BY <2>10 DEF Cleanup, Sharing
  <2>11. CASE Teardown(r)
    BY <2>11 DEF Teardown
  <2>12. CASE Respond(r)
    BY <2>12 DEF Respond, OwnEnvironment, Evaluated, InProgress, Steps
  <2>13. CASE Raises(r)
    BY <2>13 DEF Raises, Sharing
  <2>14. QED
    BY <1>2, <2>1, <2>2, <2>3, <2>4, <2>5, <2>6, <2>7,
       <2>8, <2>9, <2>10, <2>11, <2>12, <2>13 DEF Work
<1>3. CASE Signal \/ Exit
  BY <1>3 DEF Signal, Exit
<1>4. QED
  BY <1>1, <1>2, <1>3 DEF Next

-----------------------------------------------------------------------------
(* IInv holds when the process starts.                                     *)
LEMMA InitInv == Init => IInv
<1> SUFFICES ASSUME Init PROVE IInv
  OBVIOUS
<1>1. InProgress = {}
  BY DEF Init, InProgress, Steps
<1>2. Cardinality(InProgress) <= AtOnce
  BY <1>1, FS_EmptySet
<1>3. TypeOK
  BY <1>2 DEF Init, TypeOK, Steps
<1>4. QED
  BY <1>1, <1>3
     DEF Init, IInv, Alone, OwnEnvironment, FaultsHandled, ResultsOfOwnProblem

(* IInv is kept by every step.                                             *)
LEMMA StepInv == IInv /\ [Next]_vars => IInv'
<1> SUFFICES ASSUME IInv, [Next]_vars PROVE IInv'
  OBVIOUS
<1> USE DEF IInv
<1>1. CASE Next
  BY <1>1, TypeStep, AloneStep, EnvironmentStep, HandlerStep, ResultsStep
<1>2. CASE UNCHANGED vars
  BY <1>2
     DEF vars, shared, TypeOK, Alone, OwnEnvironment, FaultsHandled,
         ResultsOfOwnProblem, InProgress
<1>3. QED
  BY <1>1, <1>2

(* A fault that is left behind is one that FaultsHandled explains.         *)
LEMMA HandledExplains == IInv => LeftBehindExplained
  BY DEF IInv, FaultsHandled, LeftBehindExplained

(* IInv holds of every state that can be reached.                          *)
THEOREM Invariance == Spec => []IInv
  BY InitInv, StepInv, PTL DEF Spec

(* The variables keep their types, and no more requests are in progress    *)
(* than are let in at a time.                                              *)
THEOREM ServiceTypes == Spec => []TypeOK
  BY Invariance, PTL DEF IInv

(* A request that met no other one is answered with the results of its own *)
(* problem (service.py:100), however many came before and will come.       *)
THEOREM SeparateResults == Spec => []ResultsOfOwnProblem
  BY Invariance, PTL DEF IInv

(* Three things leave a fault in the cluster of a process that has gone:   *)
(* an exit between injection and registration, the handlers that another   *)
(* request's unregister drops (service.py:152), and an inject_fault or an  *)
(* exit handler that raises half way (orchestrator.py:78, 233).            *)
THEOREM LeftBehind == Spec => []LeftBehindExplained
  BY HandledExplains, Invariance, PTL

-----------------------------------------------------------------------------
(* The deployment of a cluster.                                            *)

(* Where each step is in the commands.                                     *)
LEMMA CommandPlaces ==
  ASSUME Deploying!TypeOK, Deploying!Begun, Deploying!Running
  PROVE  /\ d_at \in 1 .. Len(Deploying!Steps(d_action))
         /\ DOMAIN Deploying!Steps(d_action)
              = 1 .. Len(Deploying!Steps(d_action))
         /\ d_action = "apply" => Len(Deploying!Steps(d_action)) = 9
         /\ d_action = "plan" => Len(Deploying!Steps(d_action)) = 2
         /\ d_action \in {"setup_only", "destroy"}
              => Len(Deploying!Steps(d_action)) = 3
         /\ Deploying!At("apply") => d_action = "apply" /\ d_at = 3
         /\ Deploying!At("outputs") => (d_action = "apply" /\ d_at = 4)
              \/ (d_action = "setup_only" /\ d_at = 1)
         /\ Deploying!At("inventory") => (d_action = "apply" /\ d_at = 5)
              \/ (d_action = "setup_only" /\ d_at = 2)
         /\ Deploying!At("ssh") => d_action = "apply" /\ d_at = 6
         /\ Deploying!At("common") => d_action = "apply" /\ d_at = 7
         /\ Deploying!At("cluster") => d_action = "apply" /\ d_at = 8
         /\ Deploying!At("setup") => (d_action = "apply" /\ d_at = 9)
              \/ (d_action = "setup_only" /\ d_at = 3)
         /\ Deploying!At("destroy") => d_action = "destroy" /\ d_at = 3
         /\ Deploying!At("init") \/ Deploying!At("plan")
              \/ Deploying!At("confirm") \/ Deploying!At("destroy_plan") =>
              d_action # "setup_only" /\ d_at <= 2
<1> USE DEF Deploying!TypeOK, Deploying!Begun, Deploying!Running, Deploying!At,
            Deploying!Step
<1>1. CASE d_action = "apply"
  <2>1. Deploying!Steps(d_action)
          = <<"init", "plan", "apply", "outputs", "inventory", "ssh",
                          "common", "cluster", "setup">>
    BY <1>1 DEF Deploying!Steps
  <2>2. d_at \in 1 .. 9
    BY <2>1
  <2>3. QED
    BY <1>1, <2>1, <2>2
<1>2. CASE d_action = "plan"
  <2>1. Deploying!Steps(d_action) = <<"init", "plan">>
    BY <1>2 DEF Deploying!Steps
  <2>2. d_at \in 1 .. 2
    BY <2>1
  <2>3. QED
    BY <1>2, <2>1, <2>2
<1>3. CASE d_action = "setup_only"
  <2>1. Deploying!Steps(d_action) = <<"outputs", "inventory", "setup">>
    BY <1>3 DEF Deploying!Steps
  <2>2. d_at \in 1 .. 3
    BY <2>1
  <2>3. QED
    BY <1>3, <2>1, <2>2
<1>4. CASE d_action = "destroy"
  <2>1. Deploying!Steps(d_action) = <<"confirm", "destroy_plan", "destroy">>
    BY <1>4 DEF Deploying!Steps
  <2>2. d_at \in 1 .. 3
    BY <2>1
  <2>3. QED
    BY <1>4, <2>1, <2>2
<1>5. QED
  BY <1>1, <1>2, <1>3, <1>4 DEF Deploying!Actions

(* The last step of a command.                                             *)
LastStep ==
  \/ d_action = "apply" /\ d_at = 9
  \/ d_action = "plan" /\ d_at = 2
  \/ d_action \in {"setup_only", "destroy"} /\ d_at = 3

(* A step that succeeds leads to the next one, or ends the command.        *)
Onwards ==
  /\ UNCHANGED <<d_action, d_mode, d_runs>>
  /\ \/ LastStep /\ d_at' = 0 /\ d_exit' = "ok"
     \/ ~LastStep /\ d_at' = d_at + 1 /\ d_exit' = "none"

(* One that fails ends it.                                                 *)
Ending ==
  UNCHANGED <<d_action, d_mode, d_runs>> /\ d_at' = 0
    /\ d_exit' \in {"failed", "traceback"}

LEMMA CommandMoves ==
  ASSUME Deploying!TypeOK, Deploying!Begun, Deploying!Running
  PROVE  /\ Deploying!Proceeds => Onwards
         /\ Deploying!Fails => Ending
         /\ Onwards => d_at' = 0 \/ d_at' \in DOMAIN Deploying!Steps(d_action)
<1>1. d_exit = "none" /\ d_action \in Deploying!Actions
  BY DEF Deploying!Begun
<1>2. (d_at = Len(Deploying!Steps(d_action)) <=> LastStep)
        /\ Len(Deploying!Steps(d_action)) \in Nat
  <2>1. d_at = Len(Deploying!Steps(d_action)) <=> LastStep
    BY <1>1, CommandPlaces DEF LastStep, Deploying!Actions
  <2>2. Len(Deploying!Steps(d_action)) \in Nat
    BY <1>1, CommandPlaces DEF Deploying!Actions
  <2>3. QED
    BY <2>1, <2>2
<1>3. Deploying!Proceeds => Onwards
  BY <1>1, <1>2 DEF Deploying!Proceeds, Deploying!Exits, Onwards
<1>4. Onwards => d_at' = 0 \/ d_at' \in DOMAIN Deploying!Steps(d_action)
  BY <1>2, CommandPlaces DEF Onwards
<1>5. QED
  BY <1>3, <1>4 DEF Deploying!Fails, Deploying!Exits, Ending

(* Hosts are awaited one after another.                                    *)
LEMMA HostsTyped ==
  ASSUME Deploying!DeploymentAssumption
  PROVE  /\ DOMAIN Hosts = 1 .. Len(Hosts) /\ Len(Hosts) \in Nat
         /\ 1 \in DOMAIN Hosts
         /\ \A h \in DOMAIN Hosts : Hosts[h] \in Deploying!All
  BY DEF Deploying!DeploymentAssumption, Deploying!All, Deploying!ToSet

(* The variables keep their types.                                         *)
LEMMA DeployTypeStep ==
  ASSUME Deploying!DeploymentAssumption, Deploying!TypeOK, Deploying!Begun,
           Deploying!Generations, Deploying!Next
  PROVE  Deploying!TypeOK'
<1> DEFINE Machines ==
             /\ d_vms \in {"none", "partial", "full"} /\ d_gen \in 0 .. MaxRuns
             /\ d_up \subseteq Deploying!All
             /\ d_prepared \subseteq {"common", "cluster"}
             /\ d_inventory \in -1 .. d_gen /\ d_kubeconfig \in -1 .. d_gen
             /\ d_aiopslab \in -1 .. d_gen
           Command ==
             /\ d_action \in Deploying!Actions \union {"none"}
             /\ d_mode \in Deploying!Modes
             /\ d_at = 0 \/ d_at \in DOMAIN Deploying!Steps(d_action)
             /\ d_exit \in {"none", "ok", "failed", "traceback"}
             /\ d_runs \in 0 .. MaxRuns
           Waited == d_host \in DOMAIN Hosts /\ d_polls \in 0 .. MaxPolls - 1
           Truths == d_api \in BOOLEAN
<1>0. Machines /\ Command /\ Waited /\ Truths
  BY DEF Deploying!TypeOK
<1>a. MaxRuns \in Nat /\ MaxPolls \in Nat \ {0}
  BY DEF Deploying!DeploymentAssumption
<1>b. ASSUME Deploying!Running, Onwards \/ Ending PROVE Command'
  <2>1. d_at' = 0 \/ d_at' \in DOMAIN Deploying!Steps(d_action)
    BY <1>b, CommandMoves DEF Ending
  <2>2. QED
    BY <1>0, <1>b, <2>1 DEF Onwards, Ending
<1>c. \A a \in Deploying!Actions : 1 \in DOMAIN Deploying!Steps(a)
  BY DEF Deploying!Actions, Deploying!Steps
<1> SUFFICES Machines' /\ Command' /\ Waited' /\ Truths'
  BY DEF Deploying!TypeOK
<1> HIDE DEF Machines, Command, Waited, Truths
<1> USE DEF Deploying!process, Deploying!waiting, Deploying!machines,
            Deploying!files, Deploying!At
<1>1. ASSUME NEW chosen \in SUBSET Deploying!Actions,
               NEW m \in Deploying!Modes, NEW dev \in BOOLEAN,
             Deploying!Start(chosen, m, dev)
      PROVE  Machines' /\ Command' /\ Waited' /\ Truths'
  <2>1. Truths'
    BY <1>0, <1>1, Zenon DEF Truths, Deploying!Start
  <2>2. Machines'
    BY <1>0, <1>1 DEF Machines, Deploying!Start
  <2>3. Command'
    BY <1>0, <1>a, <1>c, <1>1 DEF Command, Deploying!Start
  <2>4. Waited'
    BY <1>a, <1>1, HostsTyped DEF Waited, Deploying!Start
  <2>5. QED
    BY <2>1, <2>2, <2>3, <2>4
<1>2. CASE Deploying!Prepare \/ Deploying!GetOutputs
  <2>1. Truths'
    BY <1>0, <1>2, Zenon DEF Truths, Deploying!Prepare, Deploying!GetOutputs
  <2>2. Machines' /\ Waited'
    BY <1>0, <1>2 DEF Machines, Waited, Deploying!Prepare, Deploying!GetOutputs
  <2>3. Deploying!Running /\ (Deploying!Proceeds \/ Deploying!Fails)
    BY <1>2 DEF Deploying!Prepare, Deploying!GetOutputs
  <2>4. QED
    BY <1>b, <2>1, <2>2, <2>3, CommandMoves
<1>3. CASE Deploying!Apply
  <2>1. Truths'
    BY <1>0, <1>3, Zenon DEF Truths, Deploying!Apply
  <2>2. Deploying!Running /\ (Deploying!Proceeds \/ Deploying!Fails)
          /\ d_gen < d_runs
    BY <1>3, CommandPlaces DEF Deploying!Apply, Deploying!Generations
  <2>3. Machines'
    <3>1. /\ d_gen' = IF d_vms # "full"
               /\ d_vms' = "full" THEN d_gen + 1 ELSE d_gen
          /\ d_vms' \in {"none", "partial", "full"}
          /\ UNCHANGED <<d_up, d_prepared, d_inventory, d_kubeconfig, d_aiopslab>>
      BY <1>0, <1>3 DEF Machines, Deploying!Apply
    <3>2. d_gen' \in 0 .. MaxRuns /\ d_gen <= d_gen'
      BY <1>0, <1>a, <2>2, <3>1 DEF Machines, Command
    <3>3. QED
      BY <1>0, <3>1, <3>2 DEF Machines
  <2>4. Waited'
    BY <1>0, <1>3 DEF Waited, Deploying!Apply
  <2>5. QED
    BY <1>b, <2>1, <2>2, <2>3, <2>4, CommandMoves
<1>4. CASE Deploying!GenerateInventory
  <2>1. Truths'
    BY <1>0, <1>4, Zenon DEF Truths, Deploying!GenerateInventory
  <2>2. Deploying!Running /\ (Deploying!Proceeds \/ Deploying!Fails)
    BY <1>4 DEF Deploying!GenerateInventory
  <2>3. Machines' /\ Waited'
    BY <1>0, <1>4 DEF Machines, Waited, Deploying!GenerateInventory
  <2>4. QED
    BY <1>b, <2>1, <2>2, <2>3, CommandMoves
<1>5. CASE Deploying!WaitForSsh
  <2>1. Truths'
    BY <1>0, <1>5, Zenon DEF Truths, Deploying!WaitForSsh
  <2>2. Deploying!Running
          /\ (Deploying!Proceeds \/ Deploying!Fails \/ UNCHANGED Deploying!process)
    BY <1>5 DEF Deploying!WaitForSsh
  <2>3. Command'
    BY <1>0, <1>b, <2>2, CommandMoves DEF Command
  <2>4. Machines'
    BY <1>0, <1>5 DEF Machines, Deploying!WaitForSsh
  <2>5. Waited'
    BY <1>0, <1>a, <1>5, HostsTyped DEF Waited, Deploying!WaitForSsh
  <2>6. QED
    BY <2>1, <2>3, <2>4, <2>5
<1>6. CASE Deploying!CommonPlaybook
  <2>1. Truths'
    BY <1>0, <1>6, Zenon DEF Truths, Deploying!CommonPlaybook
  <2>2. Deploying!Running /\ (Deploying!Proceeds \/ Deploying!Fails)
    BY <1>6 DEF Deploying!CommonPlaybook
  <2>3. Machines' /\ Waited'
    BY <1>0, <1>6 DEF Machines, Waited, Deploying!CommonPlaybook
  <2>4. QED
    BY <1>b, <2>1, <2>2, <2>3, CommandMoves
<1>7. CASE Deploying!ClusterPlaybook
  <2>1. Truths'
    BY <1>0, <1>7, Zenon DEF Truths, Deploying!ClusterPlaybook
  <2>2. Deploying!Running /\ (Deploying!Proceeds \/ Deploying!Fails)
    BY <1>7 DEF Deploying!ClusterPlaybook
  <2>3. Machines' /\ Waited'
    <3>1. Waited'
      BY <1>0, <1>7 DEF Waited, Deploying!ClusterPlaybook
    <3>2. /\ d_kubeconfig' \in {d_kubeconfig, d_gen}
          /\ d_prepared' \in {d_prepared, d_prepared \union {"cluster"}}
          /\ UNCHANGED <<d_vms, d_gen, d_up, d_inventory, d_aiopslab>>
      BY <1>7 DEF Deploying!ClusterPlaybook
    <3>3. QED
      BY <1>0, <3>1, <3>2 DEF Machines
  <2>4. QED
    BY <1>b, <2>1, <2>2, <2>3, CommandMoves
<1>8. CASE Deploying!Setup
  <2>1. Truths'
    BY <1>0, <1>8, Zenon DEF Truths, Deploying!Setup
  <2>2. Deploying!Running /\ (Deploying!Proceeds \/ Deploying!Fails)
    BY <1>8 DEF Deploying!Setup, Deploying!SetupResult
  <2>3. Machines' /\ Waited'
    <3>1. Waited'
      BY <1>0, <1>8 DEF Waited, Deploying!Setup
    <3>2. /\ UNCHANGED <<d_vms, d_gen, d_up, d_prepared, d_inventory, d_kubeconfig>>
          /\ \/ d_aiopslab' \in {d_aiopslab, d_kubeconfig}
             \/ d_aiopslab' = d_inventory /\ d_inventory \in 1 .. d_gen
      BY <1>8 DEF Deploying!Setup
    <3>3. QED
      BY <1>0, <3>1, <3>2 DEF Machines
  <2>4. QED
    BY <1>b, <2>1, <2>2, <2>3, CommandMoves
<1>9. CASE Deploying!Destroy
  <2>1. Truths'
    BY <1>0, <1>9, Zenon DEF Truths, Deploying!Destroy
  <2>2. Deploying!Running /\ (Deploying!Proceeds \/ Deploying!Fails)
    BY <1>9 DEF Deploying!Destroy
  <2>3. Machines' /\ Waited'
    BY <1>0, <1>9 DEF Machines, Waited, Deploying!Destroy
  <2>4. QED
    BY <1>b, <2>1, <2>2, <2>3, CommandMoves
<1>10. ASSUME NEW h \in Deploying!All, Deploying!Boot(h) PROVE Machines'
                /\ Command' /\ Waited' /\ Truths'
  <2>1. Truths'
    BY <1>0, <1>10, Zenon DEF Truths, Deploying!Boot
  <2>2. Machines' /\ Command' /\ Waited'
    BY <1>0, <1>10 DEF Machines, Command, Waited, Deploying!Boot
  <2>3. QED
    BY <2>1, <2>2
<1>11. QED
  BY <1>1, <1>2, <1>3, <1>4, <1>5, <1>6, <1>7, <1>8, <1>9, <1>10
     DEF Deploying!Next, Deploying!Work

(* What a command counts on is there when it gets so far.                  *)
LEMMA CommandStep ==
  ASSUME Deploying!DeploymentAssumption, Deploying!IInv, Deploying!Next
  PROVE  Deploying!Begun' /\ Deploying!Generations' /\ Deploying!Applied'
           /\ Deploying!SetUpFor' /\ Deploying!ExitZeroIsTrue'
<1> DEFINE Goal == Deploying!Begun' /\ Deploying!Generations'
                     /\ Deploying!Applied' /\ Deploying!SetUpFor'
                     /\ Deploying!ExitZeroIsTrue'
<1>a. /\ d_at = 0 \/ d_at \in 1 .. Len(Deploying!Steps(d_action))
      /\ d_gen \in Nat /\ d_runs \in Nat
      /\ d_prepared \subseteq {"common", "cluster"}
      /\ d_gen <= d_runs
  BY CommandPlaces
     DEF Deploying!IInv, Deploying!TypeOK, Deploying!Generations,
         Deploying!Running, Deploying!DeploymentAssumption
<1> USE DEF Deploying!Running, Deploying!process, Deploying!waiting,
            Deploying!machines, Deploying!files
<1>r. Deploying!Running => d_exit = "none" /\ d_action \in Deploying!Actions
  BY DEF Deploying!IInv, Deploying!Begun
<1>e. ASSUME Deploying!Running, Ending, d_gen' <= d_runs' PROVE Goal
  BY <1>e
     DEF Ending, Deploying!Begun, Deploying!Generations, Deploying!Applied,
         Deploying!SetUpFor, Deploying!ExitZeroIsTrue, Deploying!Ended, Deploying!Trusted
<1>1. ASSUME NEW chosen \in SUBSET Deploying!Actions,
               NEW m \in Deploying!Modes, NEW dev \in BOOLEAN,
             Deploying!Start(chosen, m, dev)
      PROVE  Goal
  <2>1. /\ d_at = 0 /\ d_runs' = d_runs + 1
        /\ UNCHANGED <<Deploying!machines, Deploying!files>>
        /\ \/ d_action' \in Deploying!Actions /\ d_at' = 1 /\ d_exit' = "none"
           \/ d_at' = 0 /\ d_exit' = "failed"
    BY <1>1 DEF Deploying!Start
  <2>2. QED
    BY <1>a, <2>1
       DEF Deploying!Begun, Deploying!Generations, Deploying!Applied,
           Deploying!SetUpFor, Deploying!ExitZeroIsTrue, Deploying!Ended, Deploying!Trusted
<1>2. ASSUME Deploying!Prepare PROVE Goal
  <2>1. /\ Deploying!Running /\ (Onwards \/ Ending)
             /\ d_action # "setup_only" /\ d_at <= 2
        /\ UNCHANGED <<Deploying!machines, Deploying!files>>
    BY <1>2, CommandMoves, CommandPlaces
       DEF Deploying!Prepare, Deploying!At, Deploying!IInv
  <2>2. CASE Onwards
    <3>1. /\ d_exit = "none" /\ d_at' \in 0 .. 3
          /\ (d_at' # 0 => d_exit' = "none" /\ d_action \in Deploying!Actions)
          /\ (d_action = "apply" => d_at' # 0)
          /\ (d_at' = 0 => d_action = "plan")
          /\ d_action' = d_action /\ d_runs' = d_runs
      BY <1>a, <1>r, <2>1, <2>2 DEF Onwards, LastStep, Deploying!Actions
    <3>2. (d_action = "apply" => d_gen < d_runs)
      BY <1>a, <2>1 DEF Deploying!IInv, Deploying!Generations
    <3>3. Deploying!Begun' /\ Deploying!Generations'
      BY <1>a, <2>1, <3>1, <3>2 DEF Deploying!Begun, Deploying!Generations
    <3>4. Deploying!Applied' /\ Deploying!SetUpFor'
      BY <2>1, <3>1 DEF Deploying!Applied, Deploying!SetUpFor
    <3>5. Deploying!ExitZeroIsTrue'
      BY <3>1 DEF Deploying!ExitZeroIsTrue, Deploying!Ended, Deploying!Trusted
    <3>6. QED
      BY <3>3, <3>4, <3>5
  <2>3. QED
    BY <1>a, <1>e, <2>1, <2>2 DEF Ending
<1>3. ASSUME Deploying!Apply PROVE Goal
  <2>1. /\ Deploying!Running /\ d_action = "apply" /\ d_at = 3
        /\ d_gen < d_runs
        /\ (Onwards /\ d_vms' = "full") \/ Ending
        /\ d_gen' \in {d_gen, d_gen + 1}
    BY <1>3, CommandMoves, CommandPlaces
       DEF Deploying!Apply, Deploying!At, Deploying!IInv, Deploying!Generations
  <2>2. CASE Onwards /\ d_vms' = "full"
    <3>1. d_at' = 4 /\ d_action' = "apply" /\ d_runs' = d_runs
            /\ d_exit' = "none"
      BY <1>r, <2>1, <2>2 DEF Onwards, LastStep
    <3>2. QED
      BY <1>a, <2>1, <2>2, <3>1
         DEF Deploying!Begun, Deploying!Generations, Deploying!Applied,
             Deploying!SetUpFor, Deploying!ExitZeroIsTrue, Deploying!Ended, Deploying!Trusted,
             Deploying!Actions
  <2>3. QED
    BY <1>a, <1>e, <2>1, <2>2 DEF Ending
<1>6. ASSUME Deploying!WaitForSsh PROVE Goal
  <2>1. /\ Deploying!Running /\ d_action = "apply" /\ d_at = 6
        /\ Onwards \/ UNCHANGED Deploying!process \/ Ending
        /\ UNCHANGED <<Deploying!machines, Deploying!files>>
    BY <1>6, CommandMoves, CommandPlaces
       DEF Deploying!WaitForSsh, Deploying!At, Deploying!IInv
  <2>2. d_gen' = d_gen /\ (Ending => Goal)
    BY <1>a, <1>e, <2>1 DEF Ending
  <2>3. CASE Onwards
    <3>1. d_at' = 7 /\ d_action' = "apply" /\ d_runs' = d_runs
            /\ d_exit' = "none"
      BY <1>r, <2>1, <2>3 DEF Onwards, LastStep
    <3>2. QED
      BY <1>a, <2>1, <2>3, <3>1
         DEF Deploying!IInv, Deploying!Begun, Deploying!Generations,
             Deploying!Applied, Deploying!SetUpFor, Deploying!ExitZeroIsTrue,
             Deploying!Ended, Deploying!Trusted, Deploying!Actions
  <2>4. CASE UNCHANGED Deploying!process
    BY <1>a, <2>1, <2>4
       DEF Deploying!IInv, Deploying!Begun, Deploying!Generations,
           Deploying!Applied, Deploying!SetUpFor, Deploying!ExitZeroIsTrue,
           Deploying!Ended, Deploying!Trusted, Deploying!Actions
  <2>5. QED
    BY <2>1, <2>2, <2>3, <2>4
<1>7. ASSUME Deploying!CommonPlaybook PROVE Goal
  <2>1. /\ Deploying!Running /\ d_action = "apply" /\ d_at = 7
        /\ (Onwards /\ d_prepared' = d_prepared \union {"common"}) \/ Ending
        /\ UNCHANGED <<d_vms, d_gen, d_up, d_api, Deploying!files>>
    BY <1>7, CommandMoves, CommandPlaces
       DEF Deploying!CommonPlaybook, Deploying!At, Deploying!IInv
  <2>2. d_gen' = d_gen /\ (Ending => Goal)
    BY <1>a, <1>e, <2>1 DEF Ending
  <2>3. CASE (Onwards /\ d_prepared' = d_prepared \union {"common"})
    <3>1. d_at' = 8 /\ d_action' = "apply" /\ d_runs' = d_runs
            /\ d_exit' = "none"
      BY <1>r, <2>1, <2>3 DEF Onwards, LastStep
    <3>2. QED
      BY <1>a, <2>1, <2>3, <3>1
         DEF Deploying!IInv, Deploying!Begun, Deploying!Generations,
             Deploying!Applied, Deploying!SetUpFor, Deploying!ExitZeroIsTrue,
             Deploying!Ended, Deploying!Trusted, Deploying!Actions
  <2>4. QED
    BY <2>1, <2>2, <2>3
<1>8. ASSUME Deploying!ClusterPlaybook PROVE Goal
  <2>1. /\ Deploying!Running /\ d_action = "apply" /\ d_at = 8
        /\ (Onwards /\ d_prepared' = d_prepared \union {"cluster"}
             /\ d_api' = TRUE /\ d_kubeconfig' = d_gen) \/ Ending
        /\ UNCHANGED <<d_vms, d_gen, d_up, d_inventory, d_aiopslab>>
    BY <1>8, CommandMoves, CommandPlaces
       DEF Deploying!ClusterPlaybook, Deploying!At, Deploying!IInv
  <2>2. d_gen' = d_gen /\ (Ending => Goal)
    BY <1>a, <1>e, <2>1 DEF Ending
  <2>3. CASE (Onwards /\ d_prepared' = d_prepared \union {"cluster"}
             /\ d_api' = TRUE /\ d_kubeconfig' = d_gen)
    <3>1. d_at' = 9 /\ d_action' = "apply" /\ d_runs' = d_runs
            /\ d_exit' = "none"
      BY <1>r, <2>1, <2>3 DEF Onwards, LastStep
    <3>2. QED
      BY <1>a, <2>1, <2>3, <3>1
         DEF Deploying!IInv, Deploying!Begun, Deploying!Generations,
             Deploying!Applied, Deploying!SetUpFor, Deploying!ExitZeroIsTrue,
             Deploying!Ended, Deploying!Trusted, Deploying!Actions
  <2>4. QED
    BY <2>1, <2>2, <2>3
<1>4. ASSUME Deploying!GetOutputs PROVE Goal
  <2>1. /\ Deploying!Running
        /\ \/ d_action = "apply" /\ d_at = 4
           \/ d_action = "setup_only" /\ d_at = 1
        /\ Onwards \/ Ending
        /\ UNCHANGED <<Deploying!machines, Deploying!files>>
    BY <1>4, CommandMoves, CommandPlaces
       DEF Deploying!GetOutputs, Deploying!At, Deploying!IInv
  <2>2. d_gen' = d_gen /\ (Ending => Goal)
    BY <1>a, <1>e, <2>1 DEF Ending
  <2>3. CASE Onwards
    <3>1. /\ d_at' = d_at + 1 /\ d_action' = d_action /\ d_runs' = d_runs
          /\ d_exit' = "none"
          /\ d_action \in Deploying!Actions
      BY <1>r, <2>1, <2>3 DEF Onwards, LastStep
    <3>2. QED
      BY <1>a, <2>1, <2>3, <3>1
         DEF Deploying!IInv, Deploying!Begun, Deploying!Generations,
             Deploying!Applied, Deploying!SetUpFor, Deploying!ExitZeroIsTrue,
             Deploying!Ended, Deploying!Trusted
  <2>4. QED
    BY <2>1, <2>2, <2>3
<1>5. ASSUME Deploying!GenerateInventory PROVE Goal
  <2>1. /\ Deploying!Running
        /\ \/ d_action = "apply" /\ d_at = 5
           \/ d_action = "setup_only" /\ d_at = 2
        /\ (Onwards /\ d_inventory' = d_gen) \/ Ending
        /\ UNCHANGED <<Deploying!machines, d_kubeconfig, d_aiopslab>>
    BY <1>5, CommandMoves, CommandPlaces
       DEF Deploying!GenerateInventory, Deploying!At, Deploying!IInv
  <2>2. d_gen' = d_gen /\ (Ending => Goal)
    BY <1>a, <1>e, <2>1 DEF Ending
  <2>3. CASE (Onwards /\ d_inventory' = d_gen)
    <3>1. /\ d_at' = d_at + 1 /\ d_action' = d_action /\ d_runs' = d_runs
          /\ d_exit' = "none"
          /\ d_action \in Deploying!Actions
      BY <1>r, <2>1, <2>3 DEF Onwards, LastStep
    <3>2. QED
      BY <1>a, <2>1, <2>3, <3>1
         DEF Deploying!IInv, Deploying!Begun, Deploying!Generations,
             Deploying!Applied, Deploying!SetUpFor, Deploying!ExitZeroIsTrue,
             Deploying!Ended, Deploying!Trusted
  <2>4. QED
    BY <2>1, <2>2, <2>3
<1>9. ASSUME Deploying!Setup PROVE Goal
  <2>1. /\ Deploying!Running
        /\ \/ d_action = "apply" /\ d_at = 9
           \/ d_action = "setup_only" /\ d_at = 3
        /\ Onwards \/ Ending
        /\ UNCHANGED <<Deploying!machines, d_inventory, d_kubeconfig>>
    BY <1>9, CommandMoves, CommandPlaces
       DEF Deploying!Setup, Deploying!SetupResult, Deploying!At, Deploying!IInv
  <2>2. d_gen' = d_gen /\ (Ending => Goal)
    BY <1>a, <1>e, <2>1 DEF Ending
  <2>3. CASE ~Ending
    <3>1. /\ d_at' = 0 /\ d_action' = d_action /\ d_runs' = d_runs
          /\ d_exit' = "ok"
          /\ d_action \in Deploying!Actions
      BY <1>r, <2>1, <2>3 DEF Onwards, LastStep
    <3>2. CASE d_action = "apply"
      <4>1. /\ d_vms = "full" /\ d_inventory = d_gen
            /\ d_prepared = {"common", "cluster"}
            /\ d_api /\ d_kubeconfig = d_gen
        <5>1. /\ d_vms = "full" /\ d_inventory = d_gen /\ d_api
              /\ d_kubeconfig = d_gen
              /\ "common" \in d_prepared /\ "cluster" \in d_prepared
          BY <2>1, <3>2 DEF Deploying!IInv, Deploying!Applied
        <5>2. QED
          BY <1>a, <5>1
      <4>2. QED
        BY <1>a, <2>1, <3>1, <3>2, <4>1
           DEF Deploying!IInv, Deploying!Begun, Deploying!Generations,
               Deploying!Applied, Deploying!SetUpFor, Deploying!ExitZeroIsTrue,
               Deploying!Ended, Deploying!Trusted
    <3>3. CASE d_action = "setup_only"
      <4>1. d_inventory = d_gen
        BY <2>1, <3>3 DEF Deploying!IInv, Deploying!SetUpFor
      <4>2. /\ IF d_mode = "A" THEN d_inventory \in 1 .. d_gen
                 /\ (d_inventory = d_gen => d_up = Deploying!All /\ d_api)
               ELSE Deploying!SomeClusterAnswers
            /\ d_aiopslab' = IF d_mode = "A" THEN d_inventory ELSE d_kubeconfig
            /\ d_mode' = d_mode
        BY <1>9, <2>1, <2>3, <3>3, CommandMoves
           DEF Deploying!Setup, Deploying!SetupResult, Deploying!IInv, Onwards
      <4>3. IF d_mode = "A" \/ "cluster" \in d_prepared
            THEN d_aiopslab' = d_gen' /\ d_api' ELSE d_aiopslab' = d_kubeconfig'
        BY <2>1, <4>1, <4>2 DEF Deploying!IInv, Deploying!Fetched
      <4>4. QED
        BY <1>a, <2>1, <3>1, <3>3, <4>2, <4>3
           DEF Deploying!IInv, Deploying!Begun, Deploying!Generations,
               Deploying!Applied, Deploying!SetUpFor, Deploying!ExitZeroIsTrue,
               Deploying!Ended, Deploying!Trusted
    <3>4. QED
      BY <2>1, <3>2, <3>3
  <2>4. QED
    BY <2>2, <2>3
<1>10. ASSUME Deploying!Destroy PROVE Goal
  <2>1. /\ Deploying!Running /\ d_action = "destroy" /\ d_at = 3
        /\ (Onwards /\ d_vms' = "none") \/ Ending
        /\ UNCHANGED <<d_gen, Deploying!files>>
    BY <1>10, CommandMoves, CommandPlaces
       DEF Deploying!Destroy, Deploying!At, Deploying!IInv
  <2>2. d_gen' = d_gen /\ (Ending => Goal)
    BY <1>a, <1>e, <2>1 DEF Ending
  <2>3. CASE Onwards /\ d_vms' = "none"
    BY <1>a, <2>1, <2>3
       DEF Onwards, LastStep, Deploying!Begun, Deploying!Generations,
           Deploying!Applied, Deploying!SetUpFor, Deploying!ExitZeroIsTrue,
           Deploying!Ended, Deploying!Trusted
  <2>4. QED
    BY <2>1, <2>2, <2>3
<1>11. ASSUME NEW h \in Deploying!All, Deploying!Boot(h) PROVE Goal
  BY <1>a, <1>11
     DEF Deploying!Boot, Deploying!IInv, Deploying!Begun,
         Deploying!Generations, Deploying!Applied, Deploying!SetUpFor,
         Deploying!ExitZeroIsTrue, Deploying!Ended, Deploying!Trusted
<1>12. QED
  BY <1>1, <1>2, <1>3, <1>4, <1>5, <1>6, <1>7, <1>8, <1>9, <1>10, <1>11
     DEF Deploying!Next, Deploying!Work

(* Playbooks succeeded only on machines that are all still there.          *)
LEMMA FetchedStep ==
  ASSUME Deploying!DeploymentAssumption, Deploying!IInv, Deploying!Next
  PROVE  Deploying!Fetched'
<1> USE DEF Deploying!machines, Deploying!files, Deploying!Fetched, Deploying!IInv
<1>1. CASE Deploying!Apply
  BY <1>1 DEF Deploying!Apply
<1>2. CASE Deploying!CommonPlaybook \/ Deploying!ClusterPlaybook
  <2>1. d_vms = "full"
    BY <1>2, CommandPlaces
       DEF Deploying!CommonPlaybook, Deploying!ClusterPlaybook, Deploying!At,
           Deploying!Applied
  <2>2. QED
    BY <1>2, <2>1 DEF Deploying!CommonPlaybook, Deploying!ClusterPlaybook
<1>3. CASE Deploying!Destroy
  BY <1>3 DEF Deploying!Destroy
<1>4. CASE Deploying!Prepare \/ Deploying!GetOutputs \/ Deploying!GenerateInventory
             \/ Deploying!WaitForSsh \/ Deploying!Setup
  BY <1>4
     DEF Deploying!Prepare, Deploying!GetOutputs, Deploying!GenerateInventory,
         Deploying!WaitForSsh, Deploying!Setup
<1>5. ASSUME NEW chosen \in SUBSET Deploying!Actions,
               NEW m \in Deploying!Modes, NEW dev \in BOOLEAN,
             Deploying!Start(chosen, m, dev)
      PROVE  Deploying!Fetched'
  BY <1>5 DEF Deploying!Start
<1>6. ASSUME NEW h \in Deploying!All, Deploying!Boot(h) PROVE Deploying!Fetched'
  BY <1>6 DEF Deploying!Boot
<1>7. QED
  BY <1>1, <1>2, <1>3, <1>4, <1>5, <1>6 DEF Deploying!Next, Deploying!Work

(* AIOpsLab is set up on, and the kubeconfig fetched from, present         *)
(* machines only.                                                          *)
LEMMA PresentStep ==
  ASSUME Deploying!DeploymentAssumption, Deploying!IInv, Deploying!Next
  PROVE  /\ d_aiopslab' # d_aiopslab /\ Deploying!Trusted => d_aiopslab' = d_gen
         /\ d_kubeconfig' # d_kubeconfig => d_kubeconfig' = d_gen
              /\ d_inventory = d_gen
<1> USE DEF Deploying!process, Deploying!waiting, Deploying!machines,
            Deploying!files
<1>1. CASE Deploying!Setup
  <2>1. d_inventory = d_gen
    <3>1. Deploying!Running
            /\ ((d_action = "apply" /\ d_at = 9) \/ (d_action = "setup_only" /\ d_at = 3))
      BY <1>1, CommandPlaces DEF Deploying!Setup, Deploying!At, Deploying!IInv
    <3>2. QED
      BY <3>1 DEF Deploying!IInv, Deploying!Applied, Deploying!SetUpFor
  <2>2. QED
    BY <1>1, <2>1
       DEF Deploying!Setup, Deploying!Trusted, Deploying!IInv, Deploying!Fetched
<1>2. CASE Deploying!ClusterPlaybook
  BY <1>2 DEF Deploying!ClusterPlaybook, Deploying!Reaches
<1>3. CASE Deploying!Prepare \/ Deploying!Apply \/ Deploying!GetOutputs
             \/ Deploying!GenerateInventory \/ Deploying!WaitForSsh
           \/ Deploying!CommonPlaybook \/ Deploying!Destroy
  BY <1>3
     DEF Deploying!Prepare, Deploying!Apply, Deploying!GetOutputs,
         Deploying!GenerateInventory, Deploying!WaitForSsh,
         Deploying!CommonPlaybook, Deploying!Destroy
<1>4. ASSUME NEW chosen \in SUBSET Deploying!Actions,
               NEW m \in Deploying!Modes, NEW dev \in BOOLEAN,
             Deploying!Start(chosen, m, dev)
      PROVE  UNCHANGED Deploying!files
  BY <1>4 DEF Deploying!Start
<1>5. ASSUME NEW h \in Deploying!All, Deploying!Boot(h)
               PROVE UNCHANGED Deploying!files
  BY <1>5 DEF Deploying!Boot
<1>6. QED
  BY <1>1, <1>2, <1>3, <1>4, <1>5 DEF Deploying!Next, Deploying!Work

(* IInv holds when the program starts.                                     *)
LEMMA DeployInitInv == ASSUME Deploying!DeploymentAssumption,
                                Deploying!Init PROVE Deploying!IInv
<1>1. d_api \in BOOLEAN
  BY Zenon DEF Deploying!Init
<1>2. Deploying!TypeOK
  BY <1>1, HostsTyped
     DEF Deploying!Init, Deploying!TypeOK, Deploying!DeploymentAssumption,
         Deploying!Modes
<1>3. QED
  BY <1>2
     DEF Deploying!Init, Deploying!IInv, Deploying!Begun, Deploying!Running,
         Deploying!Generations, Deploying!Applied, Deploying!SetUpFor,
         Deploying!Fetched, Deploying!ExitZeroIsTrue, Deploying!Ended

(* IInv is kept by every step.                                             *)
LEMMA DeployStepInv == ASSUME Deploying!DeploymentAssumption, Deploying!IInv,
                                Deploying!Next PROVE Deploying!IInv'
<1>1. Deploying!TypeOK'
  BY DeployTypeStep DEF Deploying!IInv
<1>2. QED
  BY <1>1, CommandStep, FetchedStep DEF Deploying!IInv

(* And by a step of another program.                                       *)
LEMMA DeployStutterInv == ASSUME Deploying!IInv, UNCHANGED Deploying!vars
                                   PROVE Deploying!IInv'
  BY DEF Deploying!vars, Deploying!process, Deploying!waiting,
         Deploying!machines, Deploying!files, Deploying!IInv, Deploying!TypeOK,
         Deploying!Begun, Deploying!Running, Deploying!Generations,
         Deploying!Applied, Deploying!SetUpFor, Deploying!Fetched,
         Deploying!ExitZeroIsTrue, Deploying!Ended, Deploying!Trusted

-----------------------------------------------------------------------------
(* The setup of the laptop.                                                *)

(* The nine steps.                                                         *)
LEMMA SetupSteps ==
  /\ Len(Laptop!Steps) = 9
  /\ Laptop!Steps[1] = "kubectl" /\ Laptop!Steps[2] = "helm"
  /\ Laptop!Steps[3] = "kubeconfig"
  /\ Laptop!Steps[4] = "access" /\ Laptop!Steps[5] = "config"
  /\ Laptop!Steps[6] = "submodules"
  /\ Laptop!Steps[7] = "poetry" /\ Laptop!Steps[8] = "python"
  /\ Laptop!Steps[9] = "install"
  BY DEF Laptop!Steps

(* Nothing that is there goes.                                             *)
Grows ==
  /\ l_path \subseteq l_path'
  /\ l_python => l_python'
  /\ l_kubeconfig # "none" => l_kubeconfig' # "none"
  /\ l_kubeconfig = "present" => l_kubeconfig' = "present"
  /\ l_config = "controller" => l_config' = "controller"
  /\ l_submodules => l_submodules'
  /\ l_installed => l_installed'

(* A step reports what it finds and what it makes of it.                   *)
Appended(said) ==
  /\ l_table' = Append(l_table, said)
  /\ l_at' = IF l_at < 9 THEN l_at + 1 ELSE 0
  /\ l_at < 9 => l_result' = l_result
  /\ l_at = 9 => l_result' \in {"ok", "needs_action"}
  /\ l_at = 9 /\ l_result' = "ok"
       => \A i \in DOMAIN l_table' : l_table'[i] \in Laptop!Fine

(* A status that is fine.                                                  *)
Holds(said) ==
  said \in Laptop!Fine /\ said # "SKIPPED" =>
    \A i \in 1 .. 9 : i = l_at => Laptop!There(Laptop!Steps[i])'

(* Two steps are skipped, each for want of what an earlier one looks for.  *)
Skips(said) ==
  said = "SKIPPED" =>
    \/ l_at = 4
         /\ (~Laptop!There(Laptop!Steps[1]) \/ ~Laptop!There(Laptop!Steps[3]))
    \/ l_at = 9
         /\ (~Laptop!There(Laptop!Steps[7]) \/ ~Laptop!There(Laptop!Steps[8]))

(* A report is one of these.                                               *)
LEMMA ReportAppends ==
  ASSUME Laptop!TypeOK, l_at # 0, NEW said, Laptop!Reports(said)
  PROVE  Appended(said) /\ l_runs' = l_runs
  BY SetupSteps DEF Laptop!TypeOK, Laptop!Reports, Laptop!Appends, Appended

(* Every step of the setup but the first is a report that is true.         *)
LEMMA StepReports ==
  ASSUME Laptop!TypeOK, Laptop!Next, l_at # 0
  PROVE  \E said \in Laptop!Statuses :
           /\ Appended(said) /\ l_runs' = l_runs
           /\ Grows
           /\ Holds(said) /\ Skips(said)
<1> DEFINE Says(said) == /\ Appended(said) /\ l_runs' = l_runs
                           /\ Grows
                           /\ Holds(said) /\ Skips(said)
<1> USE DEF Laptop!Statuses, Grows, Laptop!Is, Laptop!laptop
<1>0. l_at \in 1 .. 9
  BY SetupSteps DEF Laptop!TypeOK
<1>1. ASSUME NEW t \in Laptop!Tools, Laptop!Tool(t)
               PROVE \E said \in Laptop!Statuses : Says(said)
  <2>1. Laptop!Steps[l_at] = t /\ l_at \notin {4, 9}
    BY <1>0, <1>1, SetupSteps DEF Laptop!Tool, Laptop!Tools
  <2>2. Laptop!There(t)' <=> t \in l_path'
    BY DEF Laptop!There, Laptop!Tools
  <2>3. PICK said \in {"OK", "INSTALLED", "FAILED"} :
          Laptop!Reports(said) /\ (said # "FAILED" => t \in l_path')
            /\ l_path \subseteq l_path'
    BY <1>1 DEF Laptop!Tool
  <2>4. Grows
    BY <1>1, <2>3 DEF Laptop!Tool
  <2>5. Says(said)
    <3>1. Appended(said) /\ l_runs' = l_runs
      BY <2>1, <2>3, ReportAppends
    <3>2. Grows
      BY <1>0, <2>1, <2>2, <2>3, <2>4
    <3>3. Holds(said)
      BY <1>0, <2>1, <2>2, <2>3, <2>4, SetupSteps
         DEF Holds, Laptop!Fine, Laptop!There, Laptop!Tools
    <3>4. Skips(said)
      BY <1>0, <2>1, <2>2, <2>3, <2>4, SetupSteps
         DEF Skips, Laptop!There, Laptop!Tools
    <3>5. QED
      BY <3>1, <3>2, <3>3, <3>4
  <2>6. QED
    BY <2>5
<1>2. CASE Laptop!Kubeconfig
  <2>1. PICK said \in {"OK", "MISSING"} :
          Laptop!Reports(said) /\ (said = "OK" => l_kubeconfig # "none")
            /\ UNCHANGED Laptop!laptop
    BY <1>2 DEF Laptop!Kubeconfig
  <2>2. Laptop!Steps[l_at] = "kubeconfig"
    BY <1>2 DEF Laptop!Kubeconfig
  <2>3. Laptop!There("kubeconfig")' <=> l_kubeconfig' # "none"
    BY DEF Laptop!There, Laptop!Tools
  <2>4. Says(said)
    <3>1. Appended(said) /\ l_runs' = l_runs
      BY <2>1, ReportAppends
    <3>2. Grows
      BY <2>1, <2>2, <2>3
    <3>3. Holds(said)
      BY <2>1, <2>2, <2>3, SetupSteps
         DEF Holds, Laptop!Fine, Laptop!There, Laptop!Tools
    <3>4. Skips(said)
      BY <2>1, <2>2, <2>3, SetupSteps DEF Skips, Laptop!There, Laptop!Tools
    <3>5. QED
      BY <3>1, <3>2, <3>3, <3>4
  <2>5. QED
    BY <2>4
<1>3. CASE Laptop!Access
  <2>1. PICK said \in {"OK", "FAILED", "SKIPPED"} :
          /\ Laptop!Reports(said) /\ UNCHANGED Laptop!laptop
          /\ said = "OK" => l_kubeconfig = "present"
          /\ said = "SKIPPED" => "kubectl" \notin l_path
               \/ l_kubeconfig = "none"
    BY <1>3 DEF Laptop!Access
  <2>2. Laptop!Steps[l_at] = "access" /\ l_at = 4
    BY <1>0, <1>3, SetupSteps DEF Laptop!Access
  <2>3. /\ Laptop!There("access")' <=> l_kubeconfig' = "present"
        /\ Laptop!There(Laptop!Steps[1]) <=> "kubectl" \in l_path
        /\ Laptop!There(Laptop!Steps[3]) <=> l_kubeconfig # "none"
    BY SetupSteps DEF Laptop!There, Laptop!Tools
  <2>4. Says(said)
    <3>1. Appended(said) /\ l_runs' = l_runs
      BY <2>1, ReportAppends
    <3>2. Grows
      BY <2>1, <2>2, <2>3
    <3>3. Holds(said)
      BY <2>1, <2>2, <2>3, SetupSteps
         DEF Holds, Laptop!Fine, Laptop!There, Laptop!Tools
    <3>4. Skips(said)
      BY <2>1, <2>2, <2>3, SetupSteps DEF Skips, Laptop!There, Laptop!Tools
    <3>5. QED
      BY <3>1, <3>2, <3>3, <3>4
  <2>5. QED
    BY <2>4
<1>4. CASE Laptop!Config
  <2>1. PICK said \in {"OK", "UPDATED", "FAILED"} :
          /\ Laptop!Reports(said)
          /\ said # "FAILED" => l_config' = "controller"
          /\ l_config' \in {l_config, "controller"}
          /\ UNCHANGED <<l_path, l_python, l_kubeconfig, l_submodules, l_installed>>
    BY <1>4 DEF Laptop!Config
  <2>2. Laptop!Steps[l_at] = "config"
    BY <1>4 DEF Laptop!Config
  <2>3. Laptop!There("config")' <=> l_config' = "controller"
    BY DEF Laptop!There, Laptop!Tools
  <2>4. Says(said)
    <3>1. Appended(said) /\ l_runs' = l_runs
      BY <2>1, ReportAppends
    <3>2. Grows
      BY <2>1, <2>2, <2>3
    <3>3. Holds(said)
      BY <2>1, <2>2, <2>3, SetupSteps
         DEF Holds, Laptop!Fine, Laptop!There, Laptop!Tools
    <3>4. Skips(said)
      BY <2>1, <2>2, <2>3, SetupSteps DEF Skips, Laptop!There, Laptop!Tools
    <3>5. QED
      BY <3>1, <3>2, <3>3, <3>4
  <2>5. QED
    BY <2>4
<1>5. CASE Laptop!Submodules
  <2>1. PICK said \in {"OK", "FAILED"} :
          /\ Laptop!Reports(said)
          /\ said = "OK" => l_submodules'
          /\ l_submodules => l_submodules'
          /\ UNCHANGED <<l_path, l_python, l_kubeconfig, l_config, l_installed>>
    BY <1>5 DEF Laptop!Submodules
  <2>2. Laptop!Steps[l_at] = "submodules"
    BY <1>5 DEF Laptop!Submodules
  <2>3. Laptop!There("submodules")' <=> l_submodules'
    BY DEF Laptop!There, Laptop!Tools
  <2>4. Grows
    BY <2>1
  <2>5. Says(said)
    <3>1. Appended(said) /\ l_runs' = l_runs
      BY <2>1, ReportAppends
    <3>2. Grows
      BY <2>1, <2>2, <2>3, <2>4
    <3>3. Holds(said)
      BY <2>1, <2>2, <2>3, <2>4, SetupSteps
         DEF Holds, Laptop!Fine, Laptop!There, Laptop!Tools
    <3>4. Skips(said)
      BY <2>1, <2>2, <2>3, <2>4, SetupSteps
         DEF Skips, Laptop!There, Laptop!Tools
    <3>5. QED
      BY <3>1, <3>2, <3>3, <3>4
  <2>6. QED
    BY <2>5
<1>6. CASE Laptop!Python
  <2>1. PICK said \in {"OK", "MISSING"} :
          Laptop!Reports(said) /\ (said = "OK" => l_python)
            /\ UNCHANGED Laptop!laptop
    BY <1>6 DEF Laptop!Python
  <2>2. Laptop!Steps[l_at] = "python"
    BY <1>6 DEF Laptop!Python
  <2>3. Laptop!There("python")' <=> l_python'
    BY DEF Laptop!There, Laptop!Tools
  <2>4. Says(said)
    <3>1. Appended(said) /\ l_runs' = l_runs
      BY <2>1, ReportAppends
    <3>2. Grows
      BY <2>1, <2>2, <2>3
    <3>3. Holds(said)
      BY <2>1, <2>2, <2>3, SetupSteps
         DEF Holds, Laptop!Fine, Laptop!There, Laptop!Tools
    <3>4. Skips(said)
      BY <2>1, <2>2, <2>3, SetupSteps DEF Skips, Laptop!There, Laptop!Tools
    <3>5. QED
      BY <3>1, <3>2, <3>3, <3>4
  <2>5. QED
    BY <2>4
<1>7. CASE Laptop!PoetryInstall
  <2>1. PICK said \in {"OK", "FAILED", "SKIPPED"} :
          /\ Laptop!Reports(said)
          /\ said = "OK" => l_installed'
          /\ l_installed => l_installed'
          /\ said = "SKIPPED" => "poetry" \notin l_path \/ ~l_python
          /\ UNCHANGED <<l_path, l_python, l_kubeconfig, l_config, l_submodules>>
    BY <1>7 DEF Laptop!PoetryInstall
  <2>2. Laptop!Steps[l_at] = "install" /\ l_at = 9
    BY <1>0, <1>7, SetupSteps DEF Laptop!PoetryInstall
  <2>3. /\ Laptop!There("install")' <=> l_installed'
        /\ Laptop!There(Laptop!Steps[7]) <=> "poetry" \in l_path
        /\ Laptop!There(Laptop!Steps[8]) <=> l_python
    BY SetupSteps DEF Laptop!There, Laptop!Tools
  <2>4. Grows
    BY <2>1
  <2>5. Says(said)
    <3>1. Appended(said) /\ l_runs' = l_runs
      BY <2>1, ReportAppends
    <3>2. Grows
      BY <2>1, <2>2, <2>3, <2>4
    <3>3. Holds(said)
      BY <2>1, <2>2, <2>3, <2>4, SetupSteps
         DEF Holds, Laptop!Fine, Laptop!There, Laptop!Tools
    <3>4. Skips(said)
      BY <2>1, <2>2, <2>3, <2>4, SetupSteps
         DEF Skips, Laptop!There, Laptop!Tools
    <3>5. QED
      BY <3>1, <3>2, <3>3, <3>4
  <2>6. QED
    BY <2>5
<1>8. ~Laptop!Start /\ ~Laptop!Repair
  BY DEF Laptop!Start, Laptop!Repair
<1>9. QED
  BY <1>1, <1>2, <1>3, <1>4, <1>5, <1>6, <1>7, <1>8 DEF Laptop!Next

(* What is there for a step stays.                                         *)
LEMMA ThereStays ==
  ASSUME Grows, NEW i \in 1 .. 9, Laptop!There(Laptop!Steps[i])
  PROVE  Laptop!There(Laptop!Steps[i])'
<1>1. Laptop!Steps[i] \in Laptop!Tools
        \union {"kubeconfig", "access", "config", "submodules",
                                "python", "install"}
  BY SetupSteps DEF Laptop!Tools
<1>2. QED
  BY <1>1 DEF Laptop!There, Grows, Laptop!Tools

(* A run begins with nothing reported; what the user repairs is there      *)
(* afterwards.                                                             *)
LEMMA Between ==
  ASSUME Laptop!TypeOK, Laptop!Next, l_at = 0
  PROVE  /\ Grows
         /\ \/ l_at' = 1 /\ l_table' = <<>> /\ l_result' = "none"
            \/ UNCHANGED <<l_at, l_table, l_result>>
  BY DEF Laptop!TypeOK, Laptop!Next, Laptop!Start, Laptop!Repair, Laptop!Tool,
         Laptop!Kubeconfig, Laptop!Access, Laptop!Config, Laptop!Submodules,
         Laptop!Python, Laptop!PoetryInstall, Laptop!Is, Grows, Laptop!laptop

(* The types.                                                              *)
LEMMA SetupTypeStep ==
  ASSUME Laptop!LocalSetupAssumption, Laptop!TypeOK, Laptop!Next
  PROVE  Laptop!TypeOK'
<1> USE DEF Laptop!TypeOK
<1>1. /\ l_at' \in 0 .. 9 /\ l_table' \in Seq(Laptop!Statuses)
      /\ IF l_at' = 0 THEN Len(l_table') \in {0, 9}
           ELSE Len(l_table') = l_at' - 1
      /\ l_result' \in {"none", "ok", "needs_action"}
  <2>1. CASE l_at = 0
    <3>1. <<>> \in Seq(Laptop!Statuses) /\ Len(<<>>) = 0
      OBVIOUS
    <3>2. CASE l_at' = 1 /\ l_table' = <<>> /\ l_result' = "none"
      BY <3>1, <3>2
    <3>3. CASE UNCHANGED <<l_at, l_table, l_result>>
      <4>1. Len(l_table) = 0 \/ Len(l_table) = Len(Laptop!Steps)
        BY <2>1
      <4>2. Len(l_table') = 0 \/ Len(l_table') = 9
        BY <3>3, <4>1, SetupSteps
      <4>3. QED
        BY <2>1, <3>3, <4>2
    <3>4. QED
      BY <2>1, <3>2, <3>3, Between
  <2>2. CASE l_at # 0
    <3>1. PICK said \in Laptop!Statuses : Appended(said)
      BY <2>2, StepReports
    <3>2. l_table' \in Seq(Laptop!Statuses) /\ Len(l_table') = Len(l_table) + 1
      BY <3>1 DEF Appended
    <3>3. Len(l_table') = l_at /\ l_at \in 1 .. 9
      BY <2>2, <3>2, SetupSteps
    <3>4. l_at' \in 0 .. 9 /\ (l_at' = 0 <=> l_at = 9)
            /\ (l_at' # 0 => l_at' = l_at + 1)
      BY <3>1, <3>3 DEF Appended
    <3>5. l_result' \in {"none", "ok", "needs_action"}
      BY <3>1, <3>3 DEF Appended
    <3>6. QED
      BY <3>2, <3>3, <3>4, <3>5
  <2>3. QED
    BY <2>1, <2>2
<1>2. l_runs' \in 0 .. MaxSetups
  <2>1. CASE l_at = 0
    BY <2>1
       DEF Laptop!LocalSetupAssumption, Laptop!Next, Laptop!Start,
           Laptop!Repair, Laptop!Tool, Laptop!Kubeconfig, Laptop!Access,
           Laptop!Config, Laptop!Submodules, Laptop!Python,
           Laptop!PoetryInstall, Laptop!Is
  <2>2. CASE l_at # 0
    BY <2>2, StepReports
  <2>3. QED
    BY <2>1, <2>2
<1>3. /\ l_path' \subseteq Laptop!Tools
      /\ {l_python', l_example', l_submodules', l_installed'} \subseteq BOOLEAN
      /\ l_kubeconfig' \in {"none", "present", "dead"}
      /\ l_config' \in {"none", "other", "controller"}
  BY DEF Laptop!Next, Laptop!Start, Laptop!Repair, Laptop!Tool,
         Laptop!Kubeconfig, Laptop!Access, Laptop!Config, Laptop!Submodules,
         Laptop!Python, Laptop!PoetryInstall, Laptop!laptop
<1>4. QED
  BY <1>1, <1>2, <1>3, SetupSteps

(* What the table says is so, and what it does not say is explained.       *)
LEMMA SetupTableStep ==
  ASSUME Laptop!IInv, Laptop!Next
  PROVE  /\ Laptop!FineIsThere' /\ Laptop!SkippedSteps'
         /\ Laptop!SkipIsExplained'
         /\ Laptop!OkMeansUsable' /\ Laptop!ResultAtEnd'
<1> USE DEF Laptop!IInv, Laptop!TableIsTrue
<1>1. CASE l_at = 0
  <2>1. /\ Grows
        /\ \/ l_at' = 1 /\ l_table' = <<>> /\ l_result' = "none"
           \/ UNCHANGED <<l_at, l_table, l_result>>
    BY <1>1, Between
  <2>2. (Len(l_table) = 0 \/ Len(l_table) = Len(Laptop!Steps))
          /\ l_table \in Seq(Laptop!Statuses)
    BY <1>1 DEF Laptop!TypeOK
  <2>7. DOMAIN l_table \subseteq 1 .. 9
    BY <2>2, SetupSteps
  <2>8. l_path \subseteq Laptop!Tools /\ l_path' \subseteq Laptop!Tools
    BY DEF Laptop!TypeOK, Laptop!Next, Laptop!Start, Laptop!Repair,
           Laptop!Tool, Laptop!Kubeconfig, Laptop!Access, Laptop!Config,
           Laptop!Submodules, Laptop!Python, Laptop!PoetryInstall,
           Laptop!laptop
  <2>3. Laptop!OkMeansUsable' /\ Laptop!ResultAtEnd'
    BY <1>1, <2>1, <2>8 DEF Grows, Laptop!OkMeansUsable, Laptop!ResultAtEnd
  <2>4. CASE l_table' = <<>>
    BY <2>3, <2>4
       DEF Laptop!FineIsThere, Laptop!SkippedSteps, Laptop!SkipIsExplained
  <2>5. CASE l_table' = l_table
    <3>1. Laptop!FineIsThere'
      BY <2>1, <2>5, <2>7, ThereStays DEF Laptop!FineIsThere
    <3>2. QED
      BY <2>3, <2>5, <3>1 DEF Laptop!SkippedSteps, Laptop!SkipIsExplained
  <2>6. QED
    BY <2>1, <2>4, <2>5
<1>2. CASE l_at # 0
  <2>1. PICK said \in Laptop!Statuses :
          Appended(said) /\ Grows /\ Holds(said) /\ Skips(said)
    BY <1>2, StepReports
  <2>2. /\ l_at \in 1 .. 9 /\ l_table \in Seq(Laptop!Statuses)
        /\ Len(l_table) = l_at - 1
        /\ DOMAIN l_table = 1 .. l_at - 1
    BY <1>2, SetupSteps DEF Laptop!TypeOK
  <2>3. /\ DOMAIN l_table' = 1 .. l_at /\ l_table'[l_at] = said
        /\ \A i \in 1 .. l_at - 1 : l_table'[i] = l_table[i]
    BY <2>1, <2>2 DEF Appended
  <2>4. Laptop!FineIsThere'
    <3> SUFFICES ASSUME NEW i \in 1 .. l_at, l_table'[i] \in Laptop!Fine,
          l_table'[i] # "SKIPPED"
                 PROVE  Laptop!There(Laptop!Steps[i])'
      BY <2>3 DEF Laptop!FineIsThere, Laptop!Fine
    <3>1. CASE i = l_at
      BY <2>1, <2>2, <2>3, <3>1, SetupSteps DEF Holds
    <3>2. CASE i # l_at
      <4>1. i \in 1 .. l_at - 1 /\ i \in 1 .. 9
        BY <2>2, <3>2
      <4>2. Laptop!There(Laptop!Steps[i])
        BY <2>2, <2>3, <4>1 DEF Laptop!FineIsThere
      <4>3. QED
        BY <2>1, <4>1, <4>2, ThereStays
    <3>3. QED
      BY <3>1, <3>2
  <2>5. Laptop!SkippedSteps'
    BY <2>1, <2>2, <2>3, SetupSteps DEF Laptop!SkippedSteps, Skips
  <2>6. Laptop!SkipIsExplained'
    <3> SUFFICES ASSUME NEW i \in 1 .. l_at, l_table'[i] = "SKIPPED"
                 PROVE  \E j \in 1 .. i : l_table'[j] \in {"MISSING", "FAILED"}
      BY <2>3 DEF Laptop!SkipIsExplained
    <3>1. CASE i # l_at
      BY <2>2, <2>3, <3>1 DEF Laptop!SkipIsExplained
    <3>2. CASE i = l_at
      <4>1. PICK j \in {1, 3, 7, 8} : j < l_at /\ ~Laptop!There(Laptop!Steps[j])
        BY <2>1, <2>3, <3>2 DEF Skips
      <4>2. j \in DOMAIN l_table
        BY <2>2, <4>1
      <4>3. l_table[j] # "SKIPPED"
        BY <4>2, SetupSteps DEF Laptop!SkippedSteps
      <4>4. l_table[j] \notin Laptop!Fine
        BY <4>1, <4>2, <4>3 DEF Laptop!FineIsThere
      <4>5. l_table[j] \in {"MISSING", "FAILED"}
        BY <2>2, <4>2, <4>4 DEF Laptop!Fine, Laptop!Statuses
      <4>6. QED
        BY <2>2, <2>3, <3>2, <4>1, <4>5
    <3>3. QED
      BY <3>1, <3>2
  <2>7. Laptop!ResultAtEnd'
    BY <1>2, <2>1, <2>2 DEF Laptop!ResultAtEnd, Appended
  <2>8. Laptop!OkMeansUsable'
    <3> SUFFICES ASSUME l_result' = "ok"
                 PROVE  /\ l_path' = Laptop!Tools /\ l_python'
                        /\ l_kubeconfig' = "present"
                        /\ l_config' = "controller" /\ l_submodules'
                        /\ l_installed'
      BY DEF Laptop!OkMeansUsable
    <3>1. l_at = 9
      BY <1>2, <2>1, <2>2 DEF Laptop!ResultAtEnd, Appended
    <3>2. \A i \in 1 .. 9 : l_table'[i] \in Laptop!Fine
      BY <2>1, <2>3, <3>1 DEF Appended
    <3>3. \A i \in 1 .. 9 : l_table'[i] # "SKIPPED"
      BY <2>3, <2>6, <3>1, <3>2 DEF Laptop!SkipIsExplained, Laptop!Fine
    <3>4. \A i \in 1 .. 9 : Laptop!There(Laptop!Steps[i])'
      BY <2>3, <2>4, <3>1, <3>2, <3>3 DEF Laptop!FineIsThere, Laptop!Fine
    <3>5. /\ Laptop!There("kubectl")' /\ Laptop!There("helm")'
          /\ Laptop!There("access")'
          /\ Laptop!There("config")' /\ Laptop!There("submodules")'
          /\ Laptop!There("poetry")'
          /\ Laptop!There("python")' /\ Laptop!There("install")'
      BY <3>4, SetupSteps
    <3>6. l_path' \subseteq Laptop!Tools
      BY DEF Laptop!TypeOK, Laptop!Next, Laptop!Start, Laptop!Repair,
             Laptop!Tool, Laptop!Kubeconfig, Laptop!Access, Laptop!Config,
             Laptop!Submodules, Laptop!Python, Laptop!PoetryInstall,
             Laptop!laptop
    <3>7. QED
      BY <3>5, <3>6 DEF Laptop!There, Laptop!Tools
  <2>9. QED
    BY <2>4, <2>5, <2>6, <2>7, <2>8
<1>3. QED
  BY <1>1, <1>2

LEMMA SetupInitInv ==
  ASSUME Laptop!LocalSetupAssumption
  PROVE  Laptop!Init => Laptop!IInv
<1> SUFFICES ASSUME Laptop!Init PROVE Laptop!IInv
  OBVIOUS
<1>1. <<>> \in Seq(Laptop!Statuses) /\ Len(<<>>) = 0
  OBVIOUS
<1>2. l_at \in 0 .. Len(Laptop!Steps) /\ 0 \in 0 .. MaxSetups
  BY SetupSteps DEF Laptop!Init, Laptop!LocalSetupAssumption
<1>4. {l_python, l_example, l_submodules, l_installed} \subseteq BOOLEAN
  BY DEF Laptop!Init
<1>5. Laptop!TypeOK
  BY <1>1, <1>2, <1>4 DEF Laptop!Init, Laptop!TypeOK, Laptop!Tools
<1>3. QED
  BY <1>5
     DEF Laptop!Init, Laptop!IInv, Laptop!TableIsTrue, Laptop!OkMeansUsable,
         Laptop!SkipIsExplained, Laptop!FineIsThere, Laptop!SkippedSteps,
         Laptop!ResultAtEnd

LEMMA SetupStepInv ==
  ASSUME Laptop!LocalSetupAssumption, Laptop!IInv, Laptop!Next
  PROVE  Laptop!IInv'
<1>1. Laptop!TypeOK'
  BY SetupTypeStep DEF Laptop!IInv
<1>2. QED
  BY <1>1, SetupTableStep DEF Laptop!IInv, Laptop!TableIsTrue

LEMMA SetupStutterInv ==
  ASSUME Laptop!IInv, UNCHANGED Laptop!vars
  PROVE  Laptop!IInv'
  BY DEF Laptop!vars, Laptop!laptop, Laptop!IInv, Laptop!TypeOK,
         Laptop!TableIsTrue, Laptop!OkMeansUsable, Laptop!SkipIsExplained,
         Laptop!FineIsThere, Laptop!SkippedSteps, Laptop!ResultAtEnd,
         Laptop!There

-----------------------------------------------------------------------------
(* The cache has proofs of its own, about the same definitions.            *)
IP == INSTANCE LLMCache_proofs WITH
  MaxAlive <- 1,
  file <- c_file, cache <- c_cache, pc <- c_pc, payload <- c_payload,
  answer <- c_answer, saved <- c_saved, mixed <- c_mixed, spoilt <- c_spoilt

TP == INSTANCE LLMCache_proofs WITH
  Clients <- Threads, Payloads <- ThreadPayloads, Model <- ThreadModel,
  file <- c_file, cache <- c_cache, pc <- c_pc, payload <- c_payload,
  answer <- c_answer, saved <- c_saved, mixed <- c_mixed, spoilt <- c_spoilt

(* Sets have as many elements in the one instance as in the other.         *)
LEMMA InTurnSets ==
  /\ \A S : IP!Cardinality(S) = InTurn!Cardinality(S)
  /\ \A S : IP!IsFiniteSet(S) <=> InTurn!IsFiniteSet(S)
  BY DEF IP!Cardinality, InTurn!Cardinality, IP!IsFiniteSet, InTurn!IsFiniteSet

LEMMA TogetherSets ==
  /\ \A S : TP!Cardinality(S) = Together!Cardinality(S)
  /\ \A S : TP!IsFiniteSet(S) <=> Together!IsFiniteSet(S)
  BY DEF TP!Cardinality, Together!Cardinality, TP!IsFiniteSet, Together!IsFiniteSet

(* The definitions of the two instances of LLMCache are the same.          *)
LEMMA InTurnSame ==
  /\ IP!LLMCacheAssumption <=> InTurn!LLMCacheAssumption
  /\ IP!Init <=> InTurn!Init
  /\ [IP!Next]_IP!vars <=> [InTurn!Next]_InTurn!vars
  /\ IP!IInv <=> InTurn!IInv
  /\ IP!IInv' <=> InTurn!IInv'
  /\ IP!OneInv <=> InTurn!OneInv
  /\ IP!OneInv' <=> InTurn!OneInv'
  BY InTurnSets DEF IP!LLMCacheAssumption, InTurn!LLMCacheAssumption, IP!vars,
         InTurn!vars, IP!Answers, InTurn!Answers, IP!Dictionaries,
         InTurn!Dictionaries, IP!Empty, InTurn!Empty, IP!Keys, InTurn!Keys,
         IP!Alive, InTurn!Alive, IP!Writers, InTurn!Writers, IP!TypeOK,
         InTurn!TypeOK, IP!Whole, InTurn!Whole, IP!Cut, InTurn!Cut, IP!Init,
         InTurn!Init, IP!Goes, InTurn!Goes, IP!Create, InTurn!Create, IP!Ask,
         InTurn!Ask, IP!Inference, InTurn!Inference, IP!InferenceRaises,
         InTurn!InferenceRaises, IP!Open, InTurn!Open, IP!Write, InTurn!Write,
         IP!Stop, InTurn!Stop, IP!Next, InTurn!Next, IP!StoredIsKept,
         InTurn!StoredIsKept, IP!UnreadableExplained,
         InTurn!UnreadableExplained, IP!Known, InTurn!Known, IP!KnownOrOwn,
         InTurn!KnownOrOwn, IP!OneWriter, InTurn!OneWriter, IP!IInv,
         InTurn!IInv, IP!OneInv, InTurn!OneInv

LEMMA TogetherSame ==
  /\ TP!LLMCacheAssumption <=> Together!LLMCacheAssumption
  /\ TP!Init <=> Together!Init
  /\ [TP!Next]_TP!vars <=> [Together!Next]_Together!vars
  /\ TP!IInv <=> Together!IInv
  /\ TP!IInv' <=> Together!IInv'
  /\ TP!OneInv <=> Together!OneInv
  /\ TP!OneInv' <=> Together!OneInv'
  BY TogetherSets DEF TP!LLMCacheAssumption, Together!LLMCacheAssumption, TP!vars,
         Together!vars, TP!Answers, Together!Answers, TP!Dictionaries,
         Together!Dictionaries, TP!Empty, Together!Empty, TP!Keys,
         Together!Keys, TP!Alive, Together!Alive, TP!Writers, Together!Writers,
         TP!TypeOK, Together!TypeOK, TP!Whole, Together!Whole, TP!Cut,
         Together!Cut, TP!Init, Together!Init, TP!Goes, Together!Goes,
         TP!Create, Together!Create, TP!Ask, Together!Ask, TP!Inference,
         Together!Inference, TP!InferenceRaises, Together!InferenceRaises,
         TP!Open, Together!Open, TP!Write, Together!Write, TP!Stop,
         Together!Stop, TP!Next, Together!Next, TP!StoredIsKept,
         Together!StoredIsKept, TP!UnreadableExplained,
         Together!UnreadableExplained, TP!Known, Together!Known, TP!KnownOrOwn,
         Together!KnownOrOwn, TP!OneWriter, Together!OneWriter, TP!IInv,
         Together!IInv, TP!OneInv, Together!OneInv

(* The clients that take turns keep OneInv.                                *)
LEMMA InTurnStep ==
  /\ InTurn!Init => InTurn!OneInv
  /\ InTurn!OneInv /\ [InTurn!Next]_cacheVars => InTurn!OneInv'
<1>1. IP!LLMCacheAssumption
  BY ProgramAssumption, InTurnSame
<1>2. [InTurn!Next]_cacheVars => [InTurn!Next]_InTurn!vars
  BY DEF cacheVars, InTurn!vars
<1>3. QED
  BY <1>1, <1>2, InTurnSame, IP!OneInitInv, IP!OneStepInv

(* Those that are alive together keep IInv, and OneInv if that is one.     *)
LEMMA TogetherStep ==
  /\ Together!Init => Together!IInv /\ Together!OneInv
  /\ Together!IInv /\ [Together!Next]_cacheVars => Together!IInv'
  /\ MaxAlive = 1 =>
       (Together!OneInv /\ [Together!Next]_cacheVars => Together!OneInv')
<1>1. TP!LLMCacheAssumption
  BY ProgramAssumption, TogetherSame
<1>2. [Together!Next]_cacheVars => [Together!Next]_Together!vars
  BY DEF cacheVars, Together!vars
<1>3. Together!Init => Together!IInv /\ Together!OneInv
  BY <1>1, TogetherSame, TP!InitInv, TP!OneInitInv
<1>4. Together!IInv /\ [Together!Next]_cacheVars => Together!IInv'
  BY <1>1, <1>2, TogetherSame, TP!StepInv
<1>5. MaxAlive = 1 =>
        (Together!OneInv /\ [Together!Next]_cacheVars => Together!OneInv')
  BY <1>1, <1>2, TogetherSame, TP!OneStepInv
<1>6. QED
  BY <1>3, <1>4, <1>5

-----------------------------------------------------------------------------
(* The programs in one specification.                                      *)

(* What the clients keep, taking turns or not.                             *)
CacheIInv ==
  IF part = "threads" THEN Together!IInv /\ (MaxAlive = 1 => Together!OneInv)
  ELSE InTurn!OneInv

ProgramIInv == IInv /\ CacheIInv /\ Deploying!IInv /\ Laptop!IInv

(* A step is one of the program that runs.                                 *)
LEMMA ProgramStep ==
  ASSUME [ProgramNext]_programVars
  PROVE  /\ [Next]_vars
         /\ part' = part
         /\ IF part = "threads" THEN [Together!Next]_cacheVars
            ELSE [InTurn!Next]_cacheVars
         /\ Deploying!Next \/ UNCHANGED Deploying!vars
         /\ Laptop!Next \/ UNCHANGED Laptop!vars
<1>1. UNCHANGED deploymentVars => UNCHANGED Deploying!vars
  BY DEF deploymentVars, Deploying!vars, Deploying!process, Deploying!waiting,
         Deploying!machines, Deploying!files
<1>2. UNCHANGED laptopVars => UNCHANGED Laptop!vars
  BY DEF laptopVars, Laptop!vars, Laptop!laptop
<1>3. QED
  BY <1>1, <1>2 DEF ProgramNext, programVars, Service, Asks, Deploys, SetsUp

(* A step of one program leaves the others as they are: all keep theirs.   *)
THEOREM ProgramInvariance == ProgramSpec => []ProgramIInv
<1>1. ProgramInit => ProgramIInv
  <2> SUFFICES ASSUME ProgramInit PROVE ProgramIInv
    OBVIOUS
  <2>1. IInv
    BY InitInv DEF ProgramInit
  <2>2. CacheIInv
    BY InTurnStep, TogetherStep DEF ProgramInit, CacheIInv
  <2>3. Deploying!IInv /\ Laptop!IInv
    BY ProgramAssumption, DeployInitInv, SetupInitInv DEF ProgramInit
  <2>4. QED
    BY <2>1, <2>2, <2>3 DEF ProgramIInv
<1>2. ProgramIInv /\ [ProgramNext]_programVars => ProgramIInv'
  <2> SUFFICES ASSUME ProgramIInv, [ProgramNext]_programVars PROVE ProgramIInv'
    OBVIOUS
  <2>1. IInv'
    BY ProgramStep, StepInv DEF ProgramIInv
  <2>2. CacheIInv'
    BY ProgramStep, InTurnStep, TogetherStep DEF ProgramIInv, CacheIInv
  <2>3. Deploying!IInv'
    BY ProgramAssumption, ProgramStep, DeployStepInv, DeployStutterInv
       DEF ProgramIInv
  <2>4. Laptop!IInv'
    BY ProgramAssumption, ProgramStep, SetupStepInv, SetupStutterInv
       DEF ProgramIInv
  <2>5. QED
    BY <2>1, <2>2, <2>3, <2>4 DEF ProgramIInv
<1>3. QED
  BY <1>1, <1>2, PTL DEF ProgramSpec

(* Every program keeps its types, whichever runs.                          *)
THEOREM ProgramTypes == ProgramSpec => []TypesOK
<1>1. ProgramIInv => TypesOK
  BY DEF ProgramIInv, CacheIInv, TypesOK, IInv, Deploying!IInv, Laptop!IInv,
         Together!IInv, InTurn!OneInv, InTurn!IInv
<1>2. QED
  BY <1>1, ProgramInvariance, PTL

(* With one client at a time a whole file has every answer that was stored *)
(* (llm.py:38), also after a kill; with any number of clients a file that  *)
(* nobody writes can be read, unless a writer was killed or met another    *)
(* one (llm.py:65).                                                        *)
THEOREM CacheIsWhole == ProgramSpec => []WholeCache
<1>1. ProgramIInv => WholeCache
  BY DEF ProgramIInv, CacheIInv, WholeCache, Together!WholeCache, Together!OneInv,
         Together!IInv, InTurn!WholeCache, InTurn!OneInv, InTurn!IInv
<1>2. QED
  BY <1>1, ProgramInvariance, PTL

(* An answer of another model comes from a whole file, however many        *)
(* clients of whatever models there are (llm.py:298).                      *)
THEOREM OtherModelFromFile == ProgramSpec => []OtherModelExplained
<1>1. ProgramIInv => OtherModelExplained
  BY DEF ProgramIInv, CacheIInv, OtherModelExplained,
         Together!OtherModelExplained, Together!IInv, Together!KnownOrOwn,
         Together!Known, InTurn!OtherModelExplained, InTurn!OneInv,
         InTurn!IInv, InTurn!KnownOrOwn, InTurn!Known
<1>2. QED
  BY <1>1, ProgramInvariance, PTL

(* A command of deploy.py that exits with 0 has done what it is for        *)
(* (deploy.py:752), and a local setup that says all is well has left the   *)
(* laptop ready for the cluster (deploy.py:323), its table hiding nothing  *)
(* that was skipped: after any number of commands that failed half way.    *)
THEOREM TrueReports == ProgramSpec => []ReportsAreTrue
<1>1. ProgramIInv => ReportsAreTrue
  BY DEF ProgramIInv, ReportsAreTrue, Deploying!IInv, Laptop!IInv
<1>2. QED
  BY <1>1, ProgramInvariance, PTL

(* AIOpsLab is never set up on, and the kubeconfig never fetched from,     *)
(* machines that an old inventory still names (generate_inventory.py:181), *)
(* nor set up for the cluster of an old kubeconfig once the playbook of    *)
(* the present one has succeeded (deploy.py:381).                          *)
THEOREM OldInventoryUnused == ProgramSpec => PresentMachinesOnly
<1>1. ProgramIInv /\ [ProgramNext]_programVars =>
        [/\ d_aiopslab' # d_aiopslab /\ Deploying!Trusted => d_aiopslab' = d_gen
         /\ d_kubeconfig' # d_kubeconfig =>
              d_kubeconfig' = d_gen /\ d_inventory = d_gen]_Deploying!vars
  BY ProgramAssumption, ProgramStep, PresentStep DEF ProgramIInv
<1>2. QED
  BY <1>1, ProgramInvariance, PTL
     DEF ProgramSpec, PresentMachinesOnly, Deploying!PresentMachinesOnly

(* Of the results of a request and what it leaves behind the theorems      *)
(* about the service say the same with the other programs beside it.       *)
THEOREM ResultsAmongPrograms ==
  ProgramSpec => [](ResultsOfOwnProblem /\ LeftBehindExplained)
<1>1. ProgramIInv => ResultsOfOwnProblem /\ LeftBehindExplained
  BY HandledExplains DEF ProgramIInv, IInv
<1>2. QED
  BY <1>1, ProgramInvariance, PTL

=============================================================================
