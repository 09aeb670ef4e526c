------------------------ MODULE Orchestrator_proofs ------------------------
(***************************************************************************)
(* Proofs about Orchestrator, for every set of problems, every number of   *)
(* rounds and every number of Ctrl-C.                                      *)
(*                                                                         *)
(* BaseInv is inductive whatever the driver does.  For a driver that ends  *)
(* at the first exception (~DriverContinues) IInv is inductive too, and    *)
(* the safety claims about handlers, faults and what is left between two   *)
(* problems follow from it; so does the refinement of FaultLifecycle.      *)
(* Each conjunct of an inductive invariant has a lemma of its own that     *)
(* goes through the groups of actions Next is made of.                     *)
(***************************************************************************)
EXTENDS Orchestrator, TLAPS

USE OrchestratorAssumption
USE DEF Goto, Enter, Leave, LeaveRaising, RaiseToDriver, Sigint,
        session, dialogue, cluster, signals, critical,
        InitPCs, LoopPCs, AbortPCs, ScorePCs, FinishPCs, LeavePCs, RunPCs,
        PCs, Stopping, FaultStates

-----------------------------------------------------------------------------
(* Each conjunct of BaseInv is preserved, whatever the driver does.        *)

(* Every statement continues with a statement of the program.              *)
LEMMA DriverStep ==
  ASSUME BaseInv, Next
  PROVE  DriverType'
<1> USE DEF BaseInv, TypeOK, DriverType
<1>1. ASSUME NEW p \in Problems, Begin(p) PROVE DriverType'
  BY <1>1 DEF Begin
<1>2. CASE InitProblem
  BY <1>2
     DEF InitProblem, SetUp, Deploy, EnterInject, Inject, InjectRaises,
         Register, LeaveInject, StartWorkload, LateInject, Propagate
<1>3. CASE Dialogue
  BY <1>3
     DEF Dialogue, StartProblem, AskAgent, AgentRaises, AgentExits,
         AskEnv, Submit, EnvRaises
<1>4. CASE Recovery
  BY <1>4
     DEF Recovery, EnterRecovery, Recover, RecoverRaises, Unregister,
         LeaveAbort, LeaveFinish
<1>5. CASE Wrap
  BY <1>5 DEF Wrap, Score, Cleanup, Teardown, Report, Raises
<1>6. CASE Exit
  BY <1>6 DEF Exit, Finish, ExitCleanup, Die
<1>7. CASE Interrupts
  BY <1>7 DEF Interrupts, SigintDeferred, SigintCancels, SigintRaises
<1>8. QED
  BY <1>1, <1>2, <1>3, <1>4, <1>5, <1>6, <1>7 DEF Next, Program

(* The counters stay within max_steps.                                     *)
LEMMA DialogueStep ==
  ASSUME BaseInv, Next
  PROVE  DialogueType'
<1> USE DEF BaseInv, TypeOK, DriverType, DialogueType, Active, Rounds
<1>1. ASSUME NEW p \in Problems, Begin(p) PROVE DialogueType'
  <2>1. step' = 0 /\ asked' = 0 /\ answered' = 0
        /\ solution' = None /\ accepted' = FALSE
    BY <1>1 DEF Begin
  <2>2. 0 \in 0 .. MaxSteps
    OBVIOUS
  <2>3. QED
    BY <2>1, <2>2
<1>2. CASE InitProblem
  BY <1>2
     DEF InitProblem, SetUp, Deploy, EnterInject, Inject, InjectRaises,
         Register, LeaveInject, StartWorkload, LateInject, Propagate
<1>3. CASE Dialogue
  <2>1. CASE StartProblem \/ EnvRaises
    BY <2>1 DEF StartProblem, EnvRaises
  <2>2. CASE AskAgent \/ AgentRaises \/ AgentExits
    <3>1. step + 1 \in 0 .. MaxSteps /\ asked + 1 \in 0 .. MaxSteps
      BY <2>2 DEF AskAgent, AgentRaises, AgentExits
    <3>2. QED
      BY <2>2, <3>1 DEF AskAgent, AgentRaises, AgentExits
  <2>3. CASE AskEnv \/ Submit
    <3>1. answered + 1 \in 0 .. MaxSteps
      BY <2>3 DEF AskEnv, Submit
    <3>2. QED
      BY <2>3, <3>1 DEF AskEnv, Submit
  <2>4. QED
    BY <1>3, <2>1, <2>2, <2>3 DEF Dialogue
<1>4. CASE Recovery
  BY <1>4
     DEF Recovery, EnterRecovery, Recover, RecoverRaises, Unregister,
         LeaveAbort, LeaveFinish
<1>5. CASE Wrap
  BY <1>5 DEF Wrap, Score, Cleanup, Teardown, Report, Raises
<1>6. CASE Exit
  BY <1>6 DEF Exit, Finish, ExitCleanup, Die
<1>7. CASE Interrupts
  BY <1>7 DEF Interrupts, SigintDeferred, SigintCancels, SigintRaises
<1>8. QED
  BY <1>1, <1>2, <1>3, <1>4, <1>5, <1>6, <1>7 DEF Next, Program

(* Faults and handlers keep their types.                                   *)
LEMMA ClusterStep ==
  ASSUME BaseInv, Next
  PROVE  ClusterType'
<1> USE DEF BaseInv, TypeOK, DriverType, ClusterType, Active
<1>1. ASSUME NEW p \in Problems, Begin(p) PROVE ClusterType'
  BY <1>1 DEF Begin
<1>2. CASE InitProblem
  BY <1>2
     DEF InitProblem, SetUp, Deploy, EnterInject, Inject, InjectRaises,
         Register, LeaveInject, StartWorkload, LateInject, Propagate
<1>3. CASE Dialogue
  BY <1>3
     DEF Dialogue, StartProblem, AskAgent, AgentRaises, AgentExits,
         AskEnv, Submit, EnvRaises
<1>4. CASE Recovery
  BY <1>4
     DEF Recovery, EnterRecovery, Recover, RecoverRaises, Unregister,
         LeaveAbort, LeaveFinish
<1>5. CASE Wrap
  BY <1>5 DEF Wrap, Score, Cleanup, Teardown, Report, Raises
<1>6. CASE Exit
  BY <1>6 DEF Exit, Finish, ExitCleanup, Die
<1>7. CASE Interrupts
  BY <1>7 DEF Interrupts, SigintDeferred, SigintCancels, SigintRaises
<1>8. QED
  BY <1>1, <1>2, <1>3, <1>4, <1>5, <1>6, <1>7 DEF Next, Program

(* The flags of the critical sections keep their types.                    *)
LEMMA SignalStep ==
  ASSUME BaseInv, Next
  PROVE  SignalType'
<1> USE DEF BaseInv, TypeOK, SignalType
<1>1. ASSUME NEW p \in Problems, Begin(p) PROVE SignalType'
  BY <1>1 DEF Begin
<1>2. CASE InitProblem
  BY <1>2
     DEF InitProblem, SetUp, Deploy, EnterInject, Inject, InjectRaises,
         Register, LeaveInject, StartWorkload, LateInject, Propagate
<1>3. CASE Dialogue
  BY <1>3
     DEF Dialogue, StartProblem, AskAgent, AgentRaises, AgentExits,
         AskEnv, Submit, EnvRaises
<1>4. CASE Recovery
  BY <1>4
     DEF Recovery, EnterRecovery, Recover, RecoverRaises, Unregister,
         LeaveAbort, LeaveFinish
<1>5. CASE Wrap
  BY <1>5 DEF Wrap, Score, Cleanup, Teardown, Report, Raises
<1>6. CASE Exit
  BY <1>6 DEF Exit, Finish, ExitCleanup, Die
<1>7. CASE Interrupts
  <2>1. sigints + 1 \in 0 .. MaxSigints
    BY <1>7 DEF Interrupts, SigintDeferred, SigintCancels, SigintRaises
  <2>2. QED
    BY <1>7, <2>1 DEF Interrupts, SigintDeferred, SigintCancels, SigintRaises
<1>8. QED
  BY <1>1, <1>2, <1>3, <1>4, <1>5, <1>6, <1>7 DEF Next, Program

(* While a problem runs, cur is one the driver has begun.                  *)
LEMMA ActiveStep ==
  ASSUME BaseInv, Next
  PROVE  Active'
<1> USE DEF BaseInv, TypeOK, DriverType, Active
<1>1. ASSUME NEW p \in Problems, Begin(p) PROVE Active'
  BY <1>1 DEF Begin
<1>2. CASE InitProblem
  BY <1>2
     DEF InitProblem, SetUp, Deploy, EnterInject, Inject, InjectRaises,
         Register, LeaveInject, StartWorkload, LateInject, Propagate
<1>3. CASE Dialogue
  BY <1>3
     DEF Dialogue, StartProblem, AskAgent, AgentRaises, AgentExits,
         AskEnv, Submit, EnvRaises
<1>4. CASE Recovery
  BY <1>4
     DEF Recovery, EnterRecovery, Recover, RecoverRaises, Unregister,
         LeaveAbort, LeaveFinish
<1>5. CASE Wrap
  BY <1>5 DEF Wrap, Score, Cleanup, Teardown, Report, Raises
<1>6. CASE Exit
  BY <1>6 DEF Exit, Finish, ExitCleanup, Die
<1>7. CASE Interrupts
  BY <1>7 DEF Interrupts, SigintDeferred, SigintCancels, SigintRaises
<1>8. QED
  BY <1>1, <1>2, <1>3, <1>4, <1>5, <1>6, <1>7 DEF Next, Program

(* inCS is true exactly between __enter__ and __exit__.                    *)
LEMMA CriticalStep ==
  ASSUME BaseInv, Next
  PROVE  CriticalWhere'
<1> USE DEF BaseInv, TypeOK, DriverType, SignalType, CriticalWhere,
            CriticalPCs
<1>1. ASSUME NEW p \in Problems, Begin(p) PROVE CriticalWhere'
  BY <1>1 DEF Begin
<1>2. CASE InitProblem
  BY <1>2
     DEF InitProblem, SetUp, Deploy, EnterInject, Inject, InjectRaises,
         Register, LeaveInject, StartWorkload, LateInject, Propagate
<1>3. CASE Dialogue
  BY <1>3
     DEF Dialogue, StartProblem, AskAgent, AgentRaises, AgentExits,
         AskEnv, Submit, EnvRaises
<1>4. CASE Recovery
  BY <1>4
     DEF Recovery, EnterRecovery, Recover, RecoverRaises, Unregister,
         LeaveAbort, LeaveFinish
<1>5. CASE Wrap
  BY <1>5 DEF Wrap, Score, Cleanup, Teardown, Report, Raises
<1>6. CASE Exit
  BY <1>6 DEF Exit, Finish, ExitCleanup, Die
<1>7. CASE Interrupts
  BY <1>7 DEF Interrupts, SigintDeferred, SigintCancels, SigintRaises
<1>8. QED
  BY <1>1, <1>2, <1>3, <1>4, <1>5, <1>6, <1>7 DEF Next, Program

(* The rounds of the dialogue are counted one by one.                      *)
LEMMA RoundsStep ==
  ASSUME BaseInv, Next
  PROVE  Rounds'
<1> USE DEF BaseInv, TypeOK, DriverType, DialogueType, Rounds
<1>1. ASSUME NEW p \in Problems, Begin(p) PROVE Rounds'
  BY <1>1 DEF Begin
<1>2. CASE InitProblem
  BY <1>2
     DEF InitProblem, SetUp, Deploy, EnterInject, Inject, InjectRaises,
         Register, LeaveInject, StartWorkload, LateInject, Propagate
<1>3. CASE Dialogue
  BY <1>3
     DEF Dialogue, StartProblem, AskAgent, AgentRaises, AgentExits,
         AskEnv, Submit, EnvRaises
<1>4. CASE Recovery
  BY <1>4
     DEF Recovery, EnterRecovery, Recover, RecoverRaises, Unregister,
         LeaveAbort, LeaveFinish
<1>5. CASE Wrap
  BY <1>5 DEF Wrap, Score, Cleanup, Teardown, Report, Raises
<1>6. CASE Exit
  BY <1>6 DEF Exit, Finish, ExitCleanup, Die
<1>7. CASE Interrupts
  BY <1>7 DEF Interrupts, SigintDeferred, SigintCancels, SigintRaises
<1>8. QED
  BY <1>1, <1>2, <1>3, <1>4, <1>5, <1>6, <1>7 DEF Next, Program

(* A problem the driver has not begun has left no trace.                   *)
LEMMA UntouchedStep ==
  ASSUME BaseInv, Next
  PROVE  Untouched'
<1> USE DEF BaseInv, TypeOK, DriverType, ClusterType, Active, Untouched,
            InCluster
<1>1. ASSUME NEW p \in Problems, Begin(p) PROVE Untouched'
  BY <1>1 DEF Begin
<1>2. CASE InitProblem
  BY <1>2
     DEF InitProblem, SetUp, Deploy, EnterInject, Inject, InjectRaises,
         Register, LeaveInject, StartWorkload, LateInject, Propagate
<1>3. CASE Dialogue
  BY <1>3
     DEF Dialogue, StartProblem, AskAgent, AgentRaises, AgentExits,
         AskEnv, Submit, EnvRaises
<1>4. CASE Recovery
  BY <1>4
     DEF Recovery, EnterRecovery, Recover, RecoverRaises, Unregister,
         LeaveAbort, LeaveFinish
<1>5. CASE Wrap
  BY <1>5 DEF Wrap, Score, Cleanup, Teardown, Report, Raises
<1>6. CASE Exit
  BY <1>6 DEF Exit, Finish, ExitCleanup, Die
<1>7. CASE Interrupts
  BY <1>7 DEF Interrupts, SigintDeferred, SigintCancels, SigintRaises
<1>8. QED
  BY <1>1, <1>2, <1>3, <1>4, <1>5, <1>6, <1>7 DEF Next, Program

(* cur's fault is what the statements run so far have made of it.          *)
LEMMA OwnStep ==
  ASSUME BaseInv, Next
  PROVE  OwnFault'
<1> USE DEF BaseInv, TypeOK, DriverType, ClusterType, Active, Untouched,
            OwnFault, InCluster, BeforePCs, PutPCs, HeldPCs, UndonePCs, FreePCs, CriticalWhere,
            CriticalPCs
<1>1. ASSUME NEW p \in Problems, Begin(p) PROVE OwnFault'
  BY <1>1 DEF Begin
<1>2. CASE InitProblem
  BY <1>2
     DEF InitProblem, SetUp, Deploy, EnterInject, Inject, InjectRaises,
         Register, LeaveInject, StartWorkload, LateInject, Propagate
<1>3. CASE Dialogue
  BY <1>3
     DEF Dialogue, StartProblem, AskAgent, AgentRaises, AgentExits,
         AskEnv, Submit, EnvRaises
<1>4. CASE Recovery
  BY <1>4
     DEF Recovery, EnterRecovery, Recover, RecoverRaises, Unregister,
         LeaveAbort, LeaveFinish
<1>5. CASE Wrap
  BY <1>5 DEF Wrap, Score, Cleanup, Teardown, Report, Raises
<1>6. CASE Exit
  BY <1>6 DEF Exit, Finish, ExitCleanup, Die
<1>7. CASE Interrupts
  BY <1>7 DEF Interrupts, SigintDeferred, SigintCancels, SigintRaises
<1>8. QED
  BY <1>1, <1>2, <1>3, <1>4, <1>5, <1>6, <1>7 DEF Next, Program

-----------------------------------------------------------------------------
(* The conjuncts IInv adds, for a driver that ends at the first exception. *)

(* Nothing of another problem is in the cluster.                           *)
LEMMA OthersStep ==
  ASSUME IInv, Next, ~DriverContinues
  PROVE  OthersClean'
<1> USE DEF IInv, BaseInv, TypeOK, DriverType, ClusterType, Active,
            Untouched, OwnFault, OthersClean, InCluster, Owed, Postponed, HandlersExact,
            CriticalWhere, CriticalPCs, BeforePCs, PutPCs, HeldPCs, UndonePCs, FreePCs
<1>1. ASSUME NEW p \in Problems, Begin(p) PROVE OthersClean'
  BY <1>1 DEF Begin
<1>2. CASE InitProblem
  BY <1>2
     DEF InitProblem, SetUp, Deploy, EnterInject, Inject, InjectRaises,
         Register, LeaveInject, StartWorkload, LateInject, Propagate
<1>3. CASE Dialogue
  BY <1>3
     DEF Dialogue, StartProblem, AskAgent, AgentRaises, AgentExits,
         AskEnv, Submit, EnvRaises
<1>4. CASE Recovery
  BY <1>4
     DEF Recovery, EnterRecovery, Recover, RecoverRaises, Unregister,
         LeaveAbort, LeaveFinish
<1>5. CASE Wrap
  BY <1>5 DEF Wrap, Score, Cleanup, Teardown, Report, Raises
<1>6. CASE Exit
  BY <1>6 DEF Exit, Finish, ExitCleanup, Die
<1>7. CASE Interrupts
  BY <1>7 DEF Interrupts, SigintDeferred, SigintCancels, SigintRaises
<1>8. QED
  BY <1>1, <1>2, <1>3, <1>4, <1>5, <1>6, <1>7 DEF Next, Program

(* atexit holds exactly what is to be taken out.                           *)
LEMMA HandlersStep ==
  ASSUME IInv, Next, ~DriverContinues
  PROVE  HandlersExact'
<1> USE DEF IInv, BaseInv, TypeOK, DriverType, ClusterType, Active,
            Untouched, OwnFault, OthersClean, InCluster, Owed, Postponed, HandlersExact,
            CriticalWhere, CriticalPCs, BeforePCs, PutPCs, HeldPCs, UndonePCs, FreePCs
<1>1. ASSUME NEW p \in Problems, Begin(p) PROVE HandlersExact'
  BY <1>1 DEF Begin
<1>2. CASE InitProblem
  BY <1>2
     DEF InitProblem, SetUp, Deploy, EnterInject, Inject, InjectRaises,
         Register, LeaveInject, StartWorkload, LateInject, Propagate
<1>3. CASE Dialogue
  BY <1>3
     DEF Dialogue, StartProblem, AskAgent, AgentRaises, AgentExits,
         AskEnv, Submit, EnvRaises
<1>4. CASE Recovery
  BY <1>4
     DEF Recovery, EnterRecovery, Recover, RecoverRaises, Unregister,
         LeaveAbort, LeaveFinish
<1>5. CASE Wrap
  BY <1>5 DEF Wrap, Score, Cleanup, Teardown, Report, Raises
<1>6. CASE Exit
  BY <1>6 DEF Exit, Finish, ExitCleanup, Die
<1>7. CASE Interrupts
  BY <1>7 DEF Interrupts, SigintDeferred, SigintCancels, SigintRaises
<1>8. QED
  BY <1>1, <1>2, <1>3, <1>4, <1>5, <1>6, <1>7 DEF Next, Program

(* What init_problem installs is there only while it may be used.          *)
LEMMA InstalledStep ==
  ASSUME IInv, Next, ~DriverContinues
  PROVE  Installed'
<1> USE DEF IInv, BaseInv, TypeOK, DriverType, ClusterType, Active,
            Untouched, Installed, CriticalWhere, CriticalPCs, BeforePCs, PutPCs, HeldPCs,
            UndonePCs, FreePCs
<1>1. ASSUME NEW p \in Problems, Begin(p) PROVE Installed'
  BY <1>1 DEF Begin
<1>2. CASE InitProblem
  BY <1>2
     DEF InitProblem, SetUp, Deploy, EnterInject, Inject, InjectRaises,
         Register, LeaveInject, StartWorkload, LateInject, Propagate
<1>3. CASE Dialogue
  BY <1>3
     DEF Dialogue, StartProblem, AskAgent, AgentRaises, AgentExits,
         AskEnv, Submit, EnvRaises
<1>4. CASE Recovery
  BY <1>4
     DEF Recovery, EnterRecovery, Recover, RecoverRaises, Unregister,
         LeaveAbort, LeaveFinish
<1>5. CASE Wrap
  BY <1>5 DEF Wrap, Score, Cleanup, Teardown, Report, Raises
<1>6. CASE Exit
  BY <1>6 DEF Exit, Finish, ExitCleanup, Die
<1>7. CASE Interrupts
  BY <1>7 DEF Interrupts, SigintDeferred, SigintCancels, SigintRaises
<1>8. QED
  BY <1>1, <1>2, <1>3, <1>4, <1>5, <1>6, <1>7 DEF Next, Program

-----------------------------------------------------------------------------
(* BaseInv and IInv are inductive.                                         *)

LEMMA BaseInit == Init => BaseInv
<1> SUFFICES ASSUME Init PROVE BaseInv
  OBVIOUS
<1> USE DEF Init
<1>1. TypeOK
  <2>1. 0 \in 0 .. MaxSteps /\ 0 \in 0 .. MaxSigints
    OBVIOUS
  <2>2. DriverType /\ ClusterType
    BY DEF DriverType, ClusterType
  <2>3. DialogueType /\ SignalType
    BY <2>1 DEF DialogueType, SignalType
  <2>4. QED
    BY <2>2, <2>3 DEF TypeOK
<1>2. Active /\ CriticalWhere /\ Untouched
  BY DEF Active, CriticalWhere, CriticalPCs, Untouched
<1>3. OwnFault /\ Rounds
  BY DEF OwnFault, BeforePCs, PutPCs, HeldPCs, UndonePCs, FreePCs, Rounds
<1>4. QED
  BY <1>1, <1>2, <1>3 DEF BaseInv

LEMMA BaseStutter == BaseInv /\ UNCHANGED vars => BaseInv'
<1> SUFFICES ASSUME BaseInv, UNCHANGED vars PROVE BaseInv'
  OBVIOUS
<1> USE DEF BaseInv, vars
<1>1. TypeOK'
  BY DEF TypeOK, DriverType, DialogueType, ClusterType, SignalType
<1>2. Active' /\ CriticalWhere' /\ Untouched'
  BY DEF Active, CriticalWhere, CriticalPCs, Untouched
<1>3. OwnFault' /\ Rounds'
  BY DEF OwnFault, BeforePCs, PutPCs, HeldPCs, UndonePCs, FreePCs, Rounds
<1>4. QED
  BY <1>1, <1>2, <1>3

(* Whatever the driver does, BaseInv holds throughout.                     *)
THEOREM BaseInvariant == Spec => []BaseInv
<1>1. BaseInv /\ Next => BaseInv'
  BY DriverStep, DialogueStep, ClusterStep, SignalStep, ActiveStep,
     CriticalStep, RoundsStep, UntouchedStep, OwnStep DEF BaseInv, TypeOK
<1>2. QED
  BY <1>1, BaseInit, BaseStutter, PTL DEF Spec

LEMMA EndingInit == Init => IInv
<1> SUFFICES ASSUME Init PROVE IInv
  OBVIOUS
<1>1. BaseInv
  BY BaseInit
<1>2. OthersClean /\ HandlersExact /\ Installed
  BY DEF Init, OthersClean, InCluster, HandlersExact, Owed, Postponed, Installed,
         BeforePCs, PutPCs, HeldPCs, UndonePCs, FreePCs
<1>3. QED
  BY <1>1, <1>2 DEF IInv

LEMMA EndingStutter == IInv /\ UNCHANGED vars => IInv'
<1> SUFFICES ASSUME IInv, UNCHANGED vars PROVE IInv'
  OBVIOUS
<1>1. BaseInv'
  BY BaseStutter DEF IInv
<1>2. OthersClean' /\ HandlersExact' /\ Installed'
  BY DEF IInv, vars, OthersClean, InCluster, HandlersExact, Owed, Postponed, Installed,
         BeforePCs, PutPCs, HeldPCs, UndonePCs, FreePCs
<1>3. QED
  BY <1>1, <1>2 DEF IInv

(* When the driver ends at the first exception, IInv holds throughout.     *)
THEOREM EndingInvariant == ~DriverContinues => (Spec => []IInv)
<1> SUFFICES ASSUME ~DriverContinues PROVE Spec => []IInv
  OBVIOUS
<1>1. IInv /\ Next => IInv'
  <2> SUFFICES ASSUME IInv, Next PROVE IInv'
    OBVIOUS
  <2>1. BaseInv'
    BY DriverStep, DialogueStep, ClusterStep, SignalStep, ActiveStep,
       CriticalStep, RoundsStep, UntouchedStep, OwnStep
       DEF IInv, BaseInv, TypeOK
  <2>2. QED
    BY <2>1, OthersStep, HandlersStep, InstalledStep DEF IInv
<1>2. QED
  BY <1>1, EndingInit, EndingStutter, PTL DEF Spec

-----------------------------------------------------------------------------
(* What follows from them.                                                 *)

(* The state of the program is well typed, whatever the driver does.       *)
THEOREM TypeCorrect == Spec => []TypeOK
<1>1. BaseInv => TypeOK
  BY DEF BaseInv
<1>2. QED
  BY <1>1, BaseInvariant, PTL

(* A problem's eval always runs with its own fault whole and in place, and *)
(* on a complete dialogue, whatever the driver does (161-189).             *)
THEOREM ScoringInPlace == Spec => []ScoredInPlace
<1>1. BaseInv => ScoredInPlace
  BY DEF BaseInv, OwnFault, Rounds, ScoredInPlace, HeldPCs,
         TypeOK, DriverType, DialogueType
<1>2. QED
  BY <1>1, BaseInvariant, PTL

(* The driver ends at the first exception: an exit handler is registered   *)
(* exactly for a fault that is still to be taken out, at most one fault is *)
(* in the cluster, nothing is left between two problems, no fault is taken *)
(* out twice, and none is left untreated when the process is gone.         *)
LEMMA EndingImplies ==
  IInv => /\ HandlerIffOwed /\ SoleFault /\ CleanBetween
          /\ RecoverOnlyOwed /\ ExitRecovers
<1> SUFFICES ASSUME IInv
             PROVE  /\ HandlerIffOwed /\ SoleFault /\ CleanBetween
                    /\ RecoverOnlyOwed /\ ExitRecovers
  OBVIOUS
<1> USE DEF IInv, BaseInv, HandlersExact, OthersClean, InCluster, Owed,
            Postponed, BeforePCs, PutPCs, HeldPCs, UndonePCs, FreePCs
<1>1. HandlerIffOwed
  <2>1. CASE pc \in Stopping
    BY <2>1 DEF HandlerIffOwed
  <2>2. CASE pc \in {"idle"} \union BeforePCs \union FreePCs
    BY <2>2 DEF HandlerIffOwed, OwnFault, TypeOK, DriverType
  <2>3. CASE pc \in {"workload"} \union HeldPCs
    BY <2>3 DEF HandlerIffOwed, OwnFault, TypeOK, DriverType, Active
  <2>4. CASE pc \in {"register", "injectLeave"} \union UndonePCs
    BY <2>4 DEF HandlerIffOwed, CriticalWhere, CriticalPCs
  <2>5. QED
    BY <2>1, <2>2, <2>3, <2>4 DEF TypeOK, DriverType
<1>2. SoleFault
  BY DEF SoleFault
<1>3. CleanBetween
  BY DEF CleanBetween, Installed
<1>4. RecoverOnlyOwed
  BY DEF RecoverOnlyOwed, OwnFault
<1>5. ExitRecovers
  BY DEF ExitRecovers
<1>6. QED
  BY <1>1, <1>2, <1>3, <1>4, <1>5

(* No Ctrl-C, exception or failed recovery separates inject_fault from its *)
(* exit handler, nor recover_fault from the removal of that handler, when  *)
(* the driver ends at the first exception (74-79, 177-180, 197-199).       *)
THEOREM HandlersMatch == ~DriverContinues => (Spec => []HandlerIffOwed)
  BY EndingInvariant, EndingImplies, PTL

(* The cluster never carries the faults of two problems, when the driver   *)
(* ends at the first exception.                                            *)
THEOREM OneFault == ~DriverContinues => (Spec => []SoleFault)
  BY EndingInvariant, EndingImplies, PTL

(* Between two problems no fault, handler, infrastructure or application   *)
(* but the compose one is left, when the driver ends at the first          *)
(* exception (197-214).                                                    *)
THEOREM NothingLeft == ~DriverContinues => (Spec => []CleanBetween)
  BY EndingInvariant, EndingImplies, PTL

(* recover_fault is never called twice, nor for a fault that is not whole  *)
(* (but for one still to be put in by start_workload, at exit), when the   *)
(* driver ends at the first exception.                                     *)
THEOREM NoDoubleRecovery == ~DriverContinues => (Spec => []RecoverOnlyOwed)
  BY EndingInvariant, EndingImplies, PTL

(* However the process ends, every fault it put in was given to            *)
(* recover_fault, when the driver ends at the first exception.             *)
THEOREM RecoveredAtExit == ~DriverContinues => (Spec => []ExitRecovers)
  BY EndingInvariant, EndingImplies, PTL

-----------------------------------------------------------------------------
(* The refinement of FaultLifecycle.                                       *)

LEMMA PhaseInit == Init => Lifecycle!AInit
  BY DEF Init, Lifecycle!AInit, PhaseOf

(* A phase is "faulty" only when the fault is in the cluster.              *)
LEMMA FaultyInCluster ==
  ASSUME ClusterType, NEW p \in Problems, PhaseOf[p] = "faulty"
  PROVE  InCluster(p)
  BY DEF ClusterType, PhaseOf, InCluster

(* A step that leaves todo and fault alone is a stutter of the benchmark.  *)
LEMMA SamePhase == UNCHANGED <<todo, fault>> => UNCHANGED PhaseOf
  BY DEF PhaseOf

(* What a change of one problem's fault does to the phases.                *)
LEMMA OnePhase ==
  ASSUME ClusterType, NEW p \in Problems \ todo, todo' = todo,
         NEW f \in FaultStates, fault' = [fault EXCEPT ![p] = f]
  PROVE  PhaseOf' = [PhaseOf EXCEPT ![p] = IF f = "absent" THEN "begun"
                       ELSE IF f = "recovered" THEN "clean" ELSE "faulty"]
  BY DEF ClusterType, PhaseOf

LEMMA BeginPhase ==
  ASSUME IInv, NEW p \in Problems, Begin(p)
  PROVE  Lifecycle!Start(p)
<1> USE DEF IInv, BaseInv, TypeOK, Begin
<1>1. Lifecycle!NoFault
  BY FaultyInCluster DEF Lifecycle!NoFault, OthersClean
<1>2. PhaseOf[p] = "waiting"
  BY DEF PhaseOf
<1>3. PhaseOf' = [PhaseOf EXCEPT ![p] = "begun"]
  BY DEF PhaseOf, Untouched
<1>4. QED
  BY <1>1, <1>2, <1>3 DEF Lifecycle!Start

LEMMA InjectPhase ==
  ASSUME IInv, Inject \/ InjectRaises \/ LateInject
  PROVE  Lifecycle!Strike(cur) \/ UNCHANGED PhaseOf
<1> USE DEF IInv, BaseInv, TypeOK, Inject, InjectRaises, LateInject
<1>1. cur \in Problems \ todo /\ fault[cur] = "absent" /\ todo' = todo
  BY DEF Active, OwnFault, BeforePCs, PutPCs
<1>2. PhaseOf[cur] = "begun"
  BY <1>1 DEF PhaseOf
<1>3. Lifecycle!NoFault
  BY <1>1, <1>2, FaultyInCluster DEF Lifecycle!NoFault, OthersClean
<1>4. PICK f \in {"absent", "halfInjected", "injected"} :
        fault' = [fault EXCEPT ![cur] = f]
  OBVIOUS
<1>5. PhaseOf' = [PhaseOf EXCEPT ![cur] = IF f = "absent" THEN "begun" ELSE "faulty"]
  BY <1>1, <1>4, OnePhase
<1>6. CASE f = "absent"
  BY <1>2, <1>5, <1>6 DEF PhaseOf
<1>7. CASE f # "absent"
  BY <1>2, <1>3, <1>5, <1>7 DEF Lifecycle!Strike
<1>8. QED
  BY <1>6, <1>7

(* Taking out a fault that is in the cluster heals it or leaves it there.  *)
LEMMA RecoverPhase ==
  ASSUME IInv, NEW p \in Problems \ todo, InCluster(p), todo' = todo,
         NEW f \in {"recovered", "halfRecovered"},
         fault' = [fault EXCEPT ![p] = f]
  PROVE  Lifecycle!Heal(p) \/ UNCHANGED PhaseOf
<1> USE DEF IInv, BaseInv, TypeOK
<1>1. PhaseOf[p] = "faulty"
  BY DEF PhaseOf, InCluster
<1>2. PhaseOf' = [PhaseOf EXCEPT ![p] = IF f = "recovered" THEN "clean" ELSE "faulty"]
  BY OnePhase
<1>3. CASE f = "recovered"
  BY <1>1, <1>2, <1>3 DEF Lifecycle!Heal
<1>4. CASE f = "halfRecovered"
  BY <1>1, <1>2, <1>4 DEF PhaseOf
<1>5. QED
  BY <1>3, <1>4

LEMMA PhaseStep ==
  ASSUME IInv, Next
  PROVE  [Lifecycle!ANext]_PhaseOf
<1> USE DEF IInv, BaseInv, TypeOK, DriverType
<1>1. ASSUME NEW p \in Problems, Begin(p) PROVE Lifecycle!ANext
  BY <1>1, BeginPhase DEF Lifecycle!ANext
<1>2. CASE InitProblem
  <2>1. CASE Inject \/ InjectRaises \/ LateInject
    <3>1. cur \in Problems
      BY <2>1 DEF Inject, InjectRaises, LateInject, Active
    <3>2. QED
      BY <2>1, <3>1, InjectPhase DEF Lifecycle!ANext
  <2>2. CASE Deploy
    <3>1. \A p \in Problems : ~InCluster(p)
      BY <2>2 DEF Deploy, OthersClean, OwnFault, BeforePCs, InCluster
    <3>2. fault' = fault
      BY <2>2, <3>1 DEF Deploy, ClusterType
    <3>3. QED
      BY <2>2, <3>2, SamePhase DEF Deploy
  <2>3. CASE \/ SetUp \/ EnterInject \/ Register \/ LeaveInject
             \/ StartWorkload \/ Propagate
    BY <2>3, SamePhase
       DEF SetUp, EnterInject, Register, LeaveInject, StartWorkload, Propagate
  <2>4. QED
    BY <1>2, <2>1, <2>2, <2>3 DEF InitProblem
<1>3. CASE Dialogue
  BY <1>3, SamePhase
     DEF Dialogue, StartProblem, AskAgent, AgentRaises, AgentExits, AskEnv,
         Submit, EnvRaises
<1>4. CASE Recovery
  <2>1. CASE Recover \/ RecoverRaises
    <3>1. cur \in Problems \ todo /\ InCluster(cur)
      BY <2>1 DEF Recover, RecoverRaises, Active, OwnFault, HeldPCs, InCluster
    <3>2. PICK f \in {"recovered", "halfRecovered"} :
            fault' = [fault EXCEPT ![cur] = f]
      BY <2>1 DEF Recover, RecoverRaises
    <3>3. todo' = todo
      BY <2>1 DEF Recover, RecoverRaises
    <3>4. QED
      BY <3>1, <3>2, <3>3, RecoverPhase DEF Lifecycle!ANext
  <2>2. CASE EnterRecovery \/ Unregister \/ LeaveAbort \/ LeaveFinish
    BY <2>2, SamePhase DEF EnterRecovery, Unregister, LeaveAbort, LeaveFinish
  <2>3. QED
    BY <1>4, <2>1, <2>2 DEF Recovery
<1>5. CASE Wrap
  BY <1>5, SamePhase DEF Wrap, Score, Cleanup, Teardown, Report, Raises
<1>6. CASE Exit
  <2>1. ASSUME NEW p \in Problems, ExitCleanup(p)
        PROVE  Lifecycle!Heal(p) \/ UNCHANGED PhaseOf
    <3>1. todo' = todo
      BY <2>1 DEF ExitCleanup
    <3>2. CASE Postponed(p)
      BY <2>1, <3>1, <3>2, SamePhase DEF ExitCleanup
    <3>3. CASE ~Postponed(p)
      <4>1. InCluster(p) /\ p \in Problems \ todo
        BY <2>1, <3>3 DEF ExitCleanup, HandlersExact, Owed, InCluster, Untouched
      <4>2. PICK f \in {"recovered", "halfRecovered"} :
              fault' = [fault EXCEPT ![p] = f]
        BY <2>1, <3>3 DEF ExitCleanup
      <4>3. QED
        BY <3>1, <4>1, <4>2, RecoverPhase
    <3>4. QED
      BY <3>2, <3>3
  <2>2. CASE Finish \/ Die
    BY <2>2, SamePhase DEF Finish, Die
  <2>3. QED
    BY <1>6, <2>1, <2>2 DEF Exit, Lifecycle!ANext
<1>7. CASE Interrupts
  BY <1>7, SamePhase DEF Interrupts, SigintDeferred, SigintCancels, SigintRaises
<1>8. QED
  BY <1>1, <1>2, <1>3, <1>4, <1>5, <1>6, <1>7 DEF Next, Program

(* A process whose driver ends at the first exception implements the       *)
(* benchmark's promise: one fault at a time, never back once taken out.    *)
THEOREM Refinement == ~DriverContinues => (Spec => KeepsLifecycle)
<1> SUFFICES ASSUME ~DriverContinues PROVE Spec => KeepsLifecycle
  OBVIOUS
<1>1. IInv /\ [Next]_vars => [Lifecycle!ANext]_PhaseOf
  <2>1. IInv /\ UNCHANGED vars => UNCHANGED PhaseOf
    BY SamePhase DEF vars
  <2>2. QED
    BY <2>1, PhaseStep
<1>2. QED
  BY <1>1, PhaseInit, EndingInvariant, PTL
     DEF Spec, KeepsLifecycle, Lifecycle!ASpec

=============================================================================
