------------------------- MODULE FaultLibrary_proofs -------------------------
(***************************************************************************)
(* Proofs about FaultLibrary, for any number of targets and of failing     *)
(* commands and any fault types that have a method.                        *)
(***************************************************************************)
EXTENDS FaultLibrary, FiniteSetTheorems, TLAPS

-----------------------------------------------------------------------------
(* What the library says of a type.                                        *)
LEMMA LibraryFacts ==
  ASSUME NEW t \in DOMAIN Library
  PROVE  /\ Library[t].script \in Whole
         /\ \A o \in Ops : Library[t][o] \in {"set", "swap", "create"}
BY DEF Whole, Ops, Library, Fault, misconfig_k8s, scale_pods_to_zero,
       assign_to_non_existent_node, wrong_bin_usage, container_stop,
       model_misconfig, revoke_auth, storage_user_unregistered, misconfig_app,
       auth_miss_mongodb, feature_flag, chaos_experiment, disk_woreout

(* The loop goes through all the objects.                                  *)
LEMMA ReachFacts ==
  ASSUME NEW t \in DOMAIN Library
  PROVE  Reach(t) \in 1 .. NumTargets /\ Objects(t) = 1 .. Reach(t)
<1>1. NumTargets \in Nat \ {0}
  BY FaultLibraryAssumption
<1>2. CASE t \in AtOnce
  <2>1. 1 .. 1 = {1} /\ Cardinality({1}) = 1
    BY FS_Singleton
  <2>2. QED
    BY <1>1, <1>2, <2>1 DEF Reach, Objects
<1>3. CASE t \notin AtOnce
  <2>1. Cardinality(1 .. NumTargets) = NumTargets
    BY <1>1, FS_Interval
  <2>2. QED
    BY <1>1, <1>3, <2>1 DEF Reach, Objects
<1>4. QED
  BY <1>2, <1>3

(* An edit loses nothing; a recovery heals; an injection breaks the good.  *)
LEMMA EditFacts ==
  ASSUME NEW t \in DOMAIN Library, NEW o \in Ops, NEW v \in Values
  PROVE  /\ Edit(t, o, v) \in Values
         /\ v # "gone" => Edit(t, o, v) # "gone"
         /\ o = "recover" => Edit(t, o, v) # "bad"
         /\ o = "inject" /\ v = "good" => Edit(t, o, v) = "bad"
<1>1. CASE Library[t][o] = "set"
  BY <1>1 DEF Edit, Values, Ops
<1>2. CASE Library[t][o] = "swap"
  BY <1>2 DEF Edit, Values, Ops
<1>3. CASE Library[t][o] = "create"
  BY <1>3 DEF Edit, Values, Ops
<1>4. QED
  BY <1>1, <1>2, <1>3, LibraryFacts

-----------------------------------------------------------------------------
(* The scripts and what is left of them.                                   *)
(* The stages exclude each other.                                          *)
LEMMA StagesDisjoint ==
  /\ Fresh \cap (ReadIn \union Deleted \union Edited) = {}
  /\ ReadIn \cap (Deleted \union Edited) = {}
  /\ Deleted \cap Edited = {}
BY DEF Whole, Fresh, ReadIn, Deleted, Edited, Patch, FlagPatch,
       Command, Replace, InPods, Upgrade, Redeploy

Commands == {"get", "fetch", "list", "delete", "apply", "run",
             "patch", "replace", "restart"}

(* What is left of a script, the stage its first command is found at, and  *)
(* the one it leads to.                                                    *)
LEMMA ScriptSteps ==
  ASSUME NEW s \in Remainders
  PROVE  /\ s \in Seq(Commands)
         /\ Tail(s) \in Seq(Commands)
         /\ s # <<>> /\ Len(s) \in Nat \ {0}
         /\ Len(s) = 1 <=> Tail(s) = <<>>
         /\ Tail(s) # <<>> => Tail(s) \in Remainders \ Whole
         /\ Head(s) \in {"get", "fetch"} =>
              /\ s \in Whole /\ Tail(s) \in ReadIn
              /\ Tail(s) = <<"delete", "apply">> => s = Redeploy
         /\ Head(s) = "delete" =>
              s = <<"delete", "apply">> /\ Tail(s) = <<"apply">>
         /\ Tail(s) = <<"apply">> => s = <<"delete", "apply">>
         /\ Tail(s) = <<"delete", "apply">> => s = Redeploy
         /\ Head(s) \in {"apply", "patch", "replace"} =>
              s \in ReadIn \union Deleted /\ Tail(s) \in Edited \union {<<>>}
         /\ Head(s) = "run" => s \in Fresh /\ Tail(s) \in Edited \union {<<>>}
         /\ Head(s) \in {"list", "restart"} =>
              \/ s \in Fresh /\ Tail(s) \in Fresh
              \/ s \in Edited /\ Tail(s) \in Edited \union {<<>>}
<1> USE DEF Whole, Fresh, ReadIn, Deleted, Edited, Remainders, Patch, FlagPatch,
            Command, Replace, InPods, Upgrade, Redeploy, Commands
<1>1. CASE s = Patch
  BY <1>1
<1>2. CASE s = FlagPatch
  BY <1>2
<1>3. CASE s = Command
  BY <1>3
<1>4. CASE s = Replace
  BY <1>4
<1>5. CASE s = InPods
  BY <1>5
<1>6. CASE s = Upgrade
  BY <1>6
<1>7. CASE s = Redeploy
  BY <1>7
<1>8. CASE s = <<"run", "restart">>
  BY <1>8
<1>9. CASE s = <<"patch">>
  BY <1>9
<1>10. CASE s = <<"patch", "restart">>
  BY <1>10
<1>11. CASE s = <<"replace">>
  BY <1>11
<1>12. CASE s = <<"delete", "apply">>
  BY <1>12
<1>13. CASE s = <<"apply">>
  BY <1>13
<1>14. CASE s = <<"restart">>
  BY <1>14
<1>15. CASE s = <<"list", "restart">>
  BY <1>15
<1>16. QED
  BY <1>1, <1>2, <1>3, <1>4, <1>5, <1>6, <1>7, <1>8, <1>9, <1>10,
     <1>11, <1>12, <1>13, <1>14, <1>15

-----------------------------------------------------------------------------
(* The objects are those the loop goes through, before and now.            *)
LEMMA Targets ==
  ASSUME TypeOK, Placed
  PROVE  /\ Reach(type) \in 1 .. NumTargets /\ NumTargets \in Nat
         /\ DOMAIN res = 1 .. Reach(type) /\ DOMAIN before = 1 .. Reach(type)
         /\ at \in 1 .. Reach(type) + 1
         /\ \A i \in DOMAIN res : /\ res[i] \in Values /\ before[i] \in Values
                                  /\ Aim(i) \in Values
<1>1. /\ Reach(type) \in 1 .. NumTargets /\ Objects(type) = 1 .. Reach(type)
      /\ NumTargets \in Nat
  BY ReachFacts, FaultLibraryAssumption DEF Placed
<1>2. /\ DOMAIN res = 1 .. Reach(type) /\ DOMAIN before = 1 .. Reach(type)
      /\ at \in 1 .. Reach(type) + 1
      /\ \A i \in DOMAIN res : res[i] \in Values /\ before[i] \in Values
  BY <1>1 DEF TypeOK, Placed
<1>3. \A i \in DOMAIN res : Aim(i) \in Values
  BY <1>2, EditFacts DEF Aim, TypeOK, Placed
<1>4. QED
  BY <1>1, <1>2, <1>3

(* The spoilt targets can be counted.                                      *)
LEMMA SpoiltFinite ==
  ASSUME TypeOK
  PROVE  IsFiniteSet(Spoilt) /\ Cardinality(Spoilt) \in Nat
<1>1. IsFiniteSet(1 .. at - 1)
  BY FS_Interval, FaultLibraryAssumption DEF TypeOK
<1>2. Spoilt \subseteq 1 .. at - 1
  BY DEF Spoilt
<1>3. QED
  BY <1>1, <1>2, FS_Subset, FS_CardinalityType

(* Without a failure none is.                                              *)
LEMMA NoneSpoilt ==
  ASSUME TypeOK, Placed, Counted, phase \in Running \union Returned, failures = 0
  PROVE  /\ \A i \in 1 .. at - 1 : res[i] = Aim(i)
         /\ script # <<>> => OnTrack
<1>1. Cardinality(Spoilt) = 0
  BY SpoiltFinite DEF Counted
<1>2. Spoilt = {}
  BY <1>1, SpoiltFinite, FS_EmptySet
<1>3. QED
  BY <1>1, <1>2 DEF Spoilt, Counted

(* A command that goes through keeps the count if it keeps its target on   *)
(* the way, or leaves it as meant when it is the last of the script.       *)
LEMMA AdvanceCounts ==
  ASSUME TypeOK, Placed, Counted, phase \in Running, script # <<>>, Advance,
         DOMAIN res' = DOMAIN res,
         \A i \in DOMAIN res : i # at => res'[i] = res[i],
         \/ failures' = failures + 1
         \/ /\ failures' = failures
            /\ OnTrack => IF script' = <<>> THEN res'[at] = Aim(at) ELSE OnTrack'
  PROVE  Counted'
<1> USE DEF Advance
<1>1. script \in Remainders /\ at \in DOMAIN res /\ at \in Nat /\ failures \in Nat
  BY Targets DEF Placed, TypeOK
<1>2. Len(script) \in Nat /\ (Len(script) = 1 <=> script' = <<>>)
  BY <1>1, ScriptSteps
<1>3. at' = IF script' = <<>> THEN at + 1 ELSE at
  BY <1>2
<1>4. \A i : Aim(i)' = Aim(i)
  BY DEF Aim
<1>5. \A i \in DOMAIN res : i > at => res'[i] = before'[i]
  BY <1>1, Targets DEF Counted
<1>6. \A i \in 1 .. at - 1 : i \in DOMAIN res /\ res'[i] = res[i]
  BY <1>1, Targets
<1>7. IsFiniteSet(Spoilt) /\ Cardinality(Spoilt) \in Nat
  BY SpoiltFinite
<1>8. CASE script' # <<>>
  <2>1. Spoilt' = Spoilt
    BY <1>3, <1>4, <1>6, <1>8 DEF Spoilt
  <2>2. /\ Cardinality(Spoilt') =< failures'
        /\ OnTrack' \/ Cardinality(Spoilt') < failures'
    BY <1>1, <1>7, <1>8, <2>1 DEF Counted
  <2>3. QED
    BY <1>1, <1>3, <1>5, <1>8, <2>2, Targets DEF Counted
<1>9. CASE script' = <<>>
  <2>1. /\ Spoilt' \subseteq Spoilt \union {at}
        /\ res'[at] = Aim(at) => Spoilt' \subseteq Spoilt
    BY <1>1, <1>3, <1>4, <1>6, <1>9 DEF Spoilt
  <2>2. /\ IsFiniteSet(Spoilt \union {at})
        /\ Cardinality(Spoilt \union {at}) \in Nat
        /\ Cardinality(Spoilt \union {at}) =< Cardinality(Spoilt) + 1
    <3>1. /\ IsFiniteSet(Spoilt \union {at})
          /\ \/ Cardinality(Spoilt \union {at}) = Cardinality(Spoilt)
             \/ Cardinality(Spoilt \union {at}) = Cardinality(Spoilt) + 1
      BY <1>7, FS_AddElement, Zenon
    <3>2. QED
      BY <1>7, <3>1
  <2>3. IsFiniteSet(Spoilt') /\ Cardinality(Spoilt') \in Nat
    BY <2>1, <2>2, FS_Subset, FS_CardinalityType
  <2>4. Cardinality(Spoilt') =< Cardinality(Spoilt) + 1
    BY <1>7, <2>1, <2>2, <2>3, FS_Subset
  <2>5. res'[at] = Aim(at) => Cardinality(Spoilt') =< Cardinality(Spoilt)
    BY <1>7, <2>1, FS_Subset
  <2>6. Cardinality(Spoilt') =< failures'
    BY <1>1, <1>7, <1>9, <2>3, <2>4, <2>5 DEF Counted
  <2>7. QED
    BY <1>1, <1>3, <1>5, <1>9, <2>6, Targets DEF Counted
<1>10. QED
  BY <1>8, <1>9

-----------------------------------------------------------------------------
(* Every step keeps the types.                                             *)
LEMMA TypeStep ==
  ASSUME TypeOK, Placed, Spent, [Next]_vars
  PROVE  TypeOK'
<1> USE DEF TypeOK, Phases, Running, Returned, loop, count, Commands
<1>1. /\ NumTargets \in Nat /\ Reach(type) \in 1 .. NumTargets /\ MaxFailures \in Nat
      /\ Objects(type) = DOMAIN res
  BY Targets, FaultLibraryAssumption
<1>2. script # <<>> =>
        /\ at \in 1 .. Reach(type) /\ at \in DOMAIN res
        /\ script \in Remainders
        /\ script' = Tail(script) => script' \in Seq(Commands)
  <2>1. script # <<>> => script \in Remainders
    BY DEF Placed
  <2>2. script # <<>> => Tail(script) \in Seq(Commands)
    BY <2>1, ScriptSteps
  <2>3. script # <<>> => at \in 1 .. Reach(type) /\ at \in DOMAIN res
    BY <1>1, Targets DEF Placed
  <2>4. QED
    BY <2>1, <2>2, <2>3, Zenon
<1>3. <<>> \in Seq(Commands)
  OBVIOUS
<1>4. CASE Inject \/ Recover
  <2>1. registered' \in BOOLEAN
    BY <1>4, Zenon DEF Inject, Recover
  <2>2. QED
    BY <1>1, <1>4, <2>1 DEF Inject, Recover, Begin, Ops
<1>5. CASE ExitRecover
  <2>1. registered' \in BOOLEAN
    BY <1>5, Zenon DEF ExitRecover
  <2>2. QED
    BY <1>1, <1>5, <2>1 DEF ExitRecover, Begin, Ops
<1>6. CASE Take
  <2>1. script' \in Remainders
    BY <1>6, LibraryFacts DEF Take, Placed, Remainders, Fresh
  <2>2. script' \in Seq(Commands)
    BY <2>1, ScriptSteps
  <2>3. QED
    BY <1>6, <2>2 DEF Take
<1>7. CASE Read
  <2>1. seen' \in Values
    BY <1>2, <1>7, EditFacts DEF Read, Reaches, Placed
  <2>2. QED
    BY <1>1, <1>2, <1>7, <2>1 DEF Read, Reaches, Advance
<1>8. CASE Delete
  BY <1>1, <1>2, <1>8 DEF Delete, Reaches, Advance, Values
<1>9. CASE Write
  BY <1>1, <1>2, <1>9 DEF Write, Reaches, Advance
<1>10. CASE Run
  <2>1. Edit(type, op, res[at]) \in Values
    BY <1>2, <1>10, EditFacts DEF Run, Reaches, Placed
  <2>2. QED
    BY <1>1, <1>2, <1>10, <2>1 DEF Run, Reaches, Advance
<1>11. CASE ListOrRestart
  BY <1>1, <1>2, <1>11 DEF ListOrRestart, Reaches, Advance
<1>12. CASE CommandFails
  BY <1>1, <1>2, <1>12 DEF CommandFails, Reaches, Advance
<1>13. CASE ReadMissing \/ CommandRaises
  <2>1. CASE ReadMissing
    BY <1>1, <1>3, <2>1 DEF ReadMissing, Raise
  <2>2. CASE CommandRaises
    BY <1>1, <1>3, <2>2 DEF CommandRaises, Raise
  <2>3. QED
    BY <1>13, <2>1, <2>2
<1>14. CASE Deferred
  BY <1>14 DEF Deferred, Strike
<1>15. CASE CommandInterrupted
  <2>1. spent' \in 0 .. MaxFailures + 1
    BY <1>1, <1>15 DEF CommandInterrupted, Strike, Spent
  <2>2. CASE Raise /\ UNCHANGED failures
    BY <1>1, <1>3, <1>15, <2>1, <2>2 DEF CommandInterrupted, Strike, Raise
  <2>3. CASE Advance /\ failures' = failures + 1 /\ UNCHANGED <<res, seen>>
    BY <1>1, <1>2, <1>15, <2>1, <2>3
    DEF CommandInterrupted, Strike, Reaches, Advance
  <2>4. QED
    BY <1>15, <2>2, <2>3 DEF CommandInterrupted
<1>16. CASE ExitInterrupted
  BY <1>1, <1>3, <1>16 DEF ExitInterrupted, Strike, Raise, Spent
<1>17. CASE Register \/ Unregister
  <2>1. registered' \in BOOLEAN
    BY <1>17, Zenon DEF Register, Unregister
  <2>2. QED
    BY <1>17, <2>1 DEF Register, Unregister, Return
<1>18. CASE InjectReturns \/ RecoverReturns \/ ExitRecoverReturns \/ Exit
  BY <1>18 DEF InjectReturns, RecoverReturns, ExitRecoverReturns, Exit, Return
<1>19. CASE DialogueInterrupted
  BY <1>19 DEF DialogueInterrupted, Return, Strike
<1>20. CASE \E i \in DOMAIN res, v \in Values : AgentActs(i, v)
  BY <1>20 DEF AgentActs
<1>21. CASE UNCHANGED vars
  BY <1>21 DEF vars
<1>22. QED
  BY <1>4, <1>5, <1>6, <1>7, <1>8, <1>9, <1>10, <1>11, <1>12, <1>13, <1>14,
     <1>15, <1>16, <1>17, <1>18, <1>19, <1>20, <1>21 DEF Next, Operation, Life

(* A command that goes through leaves the loop and the script in place.    *)
LEMMA AdvancePlaced ==
  ASSUME TypeOK, Placed, phase \in Running, script # <<>>, Advance, seen' # "gone"
  PROVE  Placed'
<1> USE DEF Advance
<1>1. /\ script \in Remainders /\ at \in 1 .. Reach(type) /\ Reach(type) \in Nat
      /\ phase \notin Returned
  BY Targets DEF Placed, Running, Returned
<1>2. /\ Len(script) = 1 <=> script' = <<>>
      /\ script' # <<>> => script' \in Remainders \ Whole
  BY <1>1, ScriptSteps
<1>3. script' \notin Whole
  BY <1>2 DEF Whole, Patch, FlagPatch, Command, Replace, InPods, Upgrade, Redeploy
<1>4. at' =< Reach(type) + 1 /\ (script' # <<>> => at' =< Reach(type))
  BY <1>1, <1>2
<1>5. script' \in Deleted \union {<<"delete", "apply">>} =>
        Library[type].script = Redeploy
  BY <1>1, ScriptSteps DEF Placed, Deleted, Whole
<1>6. QED
  BY <1>1, <1>2, <1>3, <1>4, <1>5 DEF Placed

(* Every step leaves them in place.                                        *)
LEMMA PlacedStep ==
  ASSUME TypeOK, Placed, [Next]_vars
  PROVE  Placed'
<1> USE DEF loop, count
<1>1. /\ <<>> \notin Remainders /\ <<>> \notin Whole
      /\ <<>> \notin Deleted \union {<<"delete", "apply">>}
  BY ScriptSteps DEF Remainders, Fresh, Deleted
<1>2. /\ Reach(type) \in Nat /\ 1 =< Reach(type) /\ at \in Nat
      /\ type \in DOMAIN Library
  BY Targets DEF Placed
<1>3. phase \notin Running => script = <<>>
  BY DEF Placed
<1>4. CASE Inject \/ Recover \/ ExitRecover
  BY <1>1, <1>2, <1>3, <1>4
  DEF Inject, Recover, ExitRecover, Begin, Placed, Running, Returned
<1>5. CASE Take
  <2>1. script' \in Whole /\ script' \in Remainders
    BY <1>2, <1>5, LibraryFacts DEF Take, Remainders, Fresh
  <2>2. script' \notin Deleted \union {<<"delete", "apply">>}
    BY <2>1, StagesDisjoint DEF Fresh, ReadIn
  <2>3. QED
    BY <1>2, <1>5, <2>1, <2>2 DEF Take, Placed
<1>6. CASE Read
  <2>1. at \in DOMAIN res /\ res[at] \in Values /\ op \in Ops
    BY <1>6, Targets DEF Read, Reaches, Placed, TypeOK
  <2>2. seen' # "gone"
    BY <1>2, <1>6, <2>1, EditFacts DEF Read
  <2>3. QED
    BY <1>6, <2>2, AdvancePlaced DEF Read, Reaches
<1>7. CASE Delete \/ Write \/ Run \/ ListOrRestart \/ CommandFails
  <2>1. phase \in Running /\ script # <<>> /\ Advance /\ seen' = seen
    BY <1>7 DEF Delete, Write, Run, ListOrRestart, CommandFails, Reaches
  <2>2. QED
    BY <2>1, AdvancePlaced DEF Placed
<1>8. ASSUME Raise, phase \in Running PROVE Placed'
  BY <1>1, <1>2, <1>8 DEF Raise, Placed, Running, Returned
<1>9. CASE ReadMissing \/ CommandRaises \/ ExitInterrupted
  BY <1>8, <1>9 DEF ReadMissing, CommandRaises, ExitInterrupted, Reaches, Running
<1>10. CASE CommandInterrupted
  <2>1. CASE Raise
    BY <1>8, <1>10, <2>1 DEF CommandInterrupted, Running
  <2>2. CASE Advance /\ UNCHANGED seen
    BY <1>10, <2>2, AdvancePlaced DEF CommandInterrupted, Reaches, Placed
  <2>3. QED
    BY <1>10, <2>1, <2>2 DEF CommandInterrupted
<1>11. CASE Deferred
  BY <1>11 DEF Deferred, Placed
<1>12. ASSUME NEW from, NEW to \in Phases \ Running, Return(from, to),
              to \in Returned => from \in Running
       PROVE  Placed'
  BY <1>1, <1>2, <1>12 DEF Return, Placed
<1>13. CASE InjectReturns \/ RecoverReturns \/ ExitRecoverReturns
  BY <1>12, <1>13
  DEF InjectReturns, RecoverReturns, ExitRecoverReturns, Phases, Running, Returned
<1>14. CASE Register \/ DialogueInterrupted \/ Unregister \/ Exit
  BY <1>12, <1>14
  DEF Register, DialogueInterrupted, Unregister, Exit, Phases, Running, Returned
<1>15. CASE \E i \in DOMAIN res, v \in Values : AgentActs(i, v)
  BY <1>15 DEF AgentActs, Placed
<1>16. CASE UNCHANGED vars
  BY <1>16 DEF vars, Placed
<1>17. QED
  BY <1>4, <1>5, <1>6, <1>7, <1>9, <1>10, <1>11, <1>13, <1>14, <1>15, <1>16
  DEF Next, Operation, Life

(* Every step keeps to the failures there may be.                          *)
LEMMA SpentStep ==
  ASSUME TypeOK, Spent, [Next]_vars
  PROVE  Spent'
<1> USE DEF Spent, count
<1>1. /\ spent \in Int /\ MaxFailures \in Nat /\ struck \in BOOLEAN
  BY FaultLibraryAssumption DEF TypeOK
<1>2. CASE Inject \/ Recover \/ ExitRecover
  BY <1>1, <1>2 DEF Inject, Recover, ExitRecover, Begin
<1>3. CASE Take \/ Read \/ ReadMissing \/ Delete \/ Write \/ Run \/ ListOrRestart
  BY <1>1, <1>3 DEF Take, Read, ReadMissing, Delete, Write, Run, ListOrRestart
<1>4. CASE CommandRaises \/ CommandFails
  BY <1>1, <1>4 DEF CommandRaises, CommandFails
<1>5. CASE Deferred \/ CommandInterrupted \/ ExitInterrupted
  BY <1>1, <1>5 DEF Deferred, CommandInterrupted, ExitInterrupted, Strike
<1>6. CASE InjectReturns \/ RecoverReturns \/ ExitRecoverReturns \/ Exit
  BY <1>1, <1>6 DEF InjectReturns, RecoverReturns, ExitRecoverReturns, Exit, Return
<1>7. CASE Register \/ DialogueInterrupted \/ Unregister
  BY <1>1, <1>7 DEF Register, DialogueInterrupted, Unregister, Return, Strike
<1>8. CASE \E i \in DOMAIN res, v \in Values : AgentActs(i, v)
  BY <1>8 DEF AgentActs
<1>9. CASE UNCHANGED vars
  BY <1>9 DEF vars
<1>10. QED
  BY <1>2, <1>3, <1>4, <1>5, <1>6, <1>7, <1>8, <1>9 DEF Next, Operation, Life

(* Each command that goes through keeps its target on the way.             *)
LEMMA CommandKeepsTrack ==
  ASSUME TypeOK, Placed, OnTrack,
         Read \/ Delete \/ Write \/ Run \/ ListOrRestart
  PROVE  IF script' = <<>> THEN res'[at] = Aim(at) ELSE OnTrack'
<1>1. /\ script \in Remainders /\ at \in DOMAIN res /\ Advance
      /\ script' = Tail(script) /\ at' = IF script' = <<>> THEN at + 1 ELSE at
  <2>1. script # <<>> /\ Advance
    BY DEF Read, Delete, Write, Run, ListOrRestart, Reaches
  <2>2. QED
    BY <2>1, ScriptSteps, Targets DEF Placed, Advance
<1>2. <<>> \notin Fresh /\ <<>> \notin ReadIn /\ <<>> \notin Edited
  BY ScriptSteps DEF Remainders
<1>3. CASE Read
  <2>1. script \in Fresh /\ script' \in ReadIn
    BY <1>1, <1>3, ScriptSteps DEF Read, Reaches, Fresh
  <2>2. res'[at] = before[at] /\ seen' = Aim(at)
    BY <1>3, <2>1 DEF Read, OnTrack, Aim
  <2>3. QED
    BY <1>1, <1>2, <2>1, <2>2, StagesDisjoint DEF OnTrack, Aim, Advance
<1>4. CASE Delete
  <2>1. script \in ReadIn /\ script' = <<"apply">> /\ script' \in Deleted
    BY <1>1, <1>4, ScriptSteps DEF Delete, Reaches, ReadIn, Deleted
  <2>2. res'[at] = "gone" /\ seen' = Aim(at)
    BY <1>1, <1>4, <2>1, Targets DEF Delete, OnTrack
  <2>3. script' # <<>>
    BY <2>1
  <2>4. QED
    BY <1>1, <2>1, <2>2, <2>3, StagesDisjoint DEF OnTrack, Aim, Advance
<1>5. ASSUME res'[at] = Aim(at), script' \in Edited \union {<<>>}
      PROVE  IF script' = <<>> THEN res'[at] = Aim(at) ELSE OnTrack'
  BY <1>1, <1>5, StagesDisjoint DEF OnTrack, Aim, Advance
<1>6. CASE Write
  <2>1. script \in ReadIn \union Deleted /\ script' \in Edited \union {<<>>}
    BY <1>1, <1>6, ScriptSteps DEF Write, Reaches
  <2>2. res'[at] = Aim(at)
    BY <1>1, <1>6, <2>1, Targets DEF Write, OnTrack
  <2>3. QED
    BY <1>5, <2>1, <2>2
<1>7. CASE Run
  <2>1. script \in Fresh /\ script' \in Edited \union {<<>>}
    BY <1>1, <1>7, ScriptSteps DEF Run, Reaches
  <2>2. res'[at] = Aim(at)
    BY <1>1, <1>7, <2>1, Targets DEF Run, OnTrack, Aim
  <2>3. QED
    BY <1>5, <2>1, <2>2
<1>8. CASE ListOrRestart
  <2>1. \/ script \in Fresh /\ script' \in Fresh
        \/ script \in Edited /\ script' \in Edited \union {<<>>}
    BY <1>1, <1>8, ScriptSteps DEF ListOrRestart, Reaches
  <2>2. CASE script \in Fresh /\ script' \in Fresh
    BY <1>1, <1>2, <1>8, <2>2, StagesDisjoint
    DEF ListOrRestart, OnTrack, Aim, Advance
  <2>3. CASE script \in Edited /\ script' \in Edited \union {<<>>}
    BY <1>5, <1>8, <2>3 DEF ListOrRestart, OnTrack
  <2>4. QED
    BY <2>1, <2>2, <2>3
<1>9. QED
  BY <1>3, <1>4, <1>6, <1>7, <1>8

(* Every step keeps the count of the spoilt targets.                       *)
LEMMA CountedStep ==
  ASSUME TypeOK, Placed, Counted, [Next]_vars
  PROVE  Counted'
<1> USE DEF loop, count
<1>1. /\ failures \in Nat /\ at \in Nat /\ DOMAIN res = 1 .. Reach(type)
      /\ Reach(type) \in Nat
  BY Targets DEF TypeOK
<1>2. ASSUME NEW from, NEW to, NEW o, Begin(from, to, o), from \notin Running
      PROVE  Counted'
  <2>1. script' = <<>> /\ at' = 1 /\ before' = res /\ res' = res /\ failures' = 0
    BY <1>2 DEF Begin, Placed
  <2>2. Spoilt' = {}
    BY <2>1 DEF Spoilt
  <2>3. Cardinality(Spoilt') = 0
    BY <2>2, FS_EmptySet
  <2>4. QED
    BY <2>1, <2>3 DEF Counted
<1>3. CASE Inject \/ Recover \/ ExitRecover
  BY <1>2, <1>3 DEF Inject, Recover, ExitRecover, Running
<1>4. CASE Take
  <2>1. script' \in Fresh /\ script' # <<>> /\ script = <<>> /\ phase \in Running
    BY <1>4, LibraryFacts, ScriptSteps DEF Take, Placed, Fresh, Remainders
  <2>2. Spoilt' = Spoilt
    BY <1>4 DEF Take, Spoilt, Aim
  <2>3. res[at] = before[at]
    BY <1>1, <1>4, <2>1, Targets DEF Take, Counted
  <2>4. OnTrack'
    BY <1>4, <2>1, <2>3, StagesDisjoint DEF Take, OnTrack
  <2>5. QED
    BY <1>4, <2>1, <2>2, <2>4 DEF Take, Counted
<1>5. CASE Read \/ Delete \/ Write \/ Run \/ ListOrRestart
  <2>1. phase \in Running /\ script # <<>> /\ Advance /\ failures' = failures
    BY <1>5 DEF Read, Delete, Write, Run, ListOrRestart, Reaches
  <2>2. DOMAIN res' = DOMAIN res /\ \A i \in DOMAIN res : i # at => res'[i] = res[i]
    BY <1>5 DEF Read, Delete, Write, Run, ListOrRestart, TypeOK
  <2>3. OnTrack => IF script' = <<>> THEN res'[at] = Aim(at) ELSE OnTrack'
    BY <1>5, CommandKeepsTrack
  <2>4. QED
    BY <2>1, <2>2, <2>3, AdvanceCounts
<1>6. CASE CommandFails
  BY <1>6, AdvanceCounts DEF CommandFails, Reaches
<1>7. ASSUME Raise PROVE Counted'
  BY <1>7 DEF Raise, Counted, Running, Returned
<1>8. CASE ReadMissing \/ CommandRaises \/ ExitInterrupted
  BY <1>7, <1>8 DEF ReadMissing, CommandRaises, ExitInterrupted
<1>9. CASE CommandInterrupted
  <2>1. CASE Raise
    BY <1>7, <2>1
  <2>2. CASE Advance /\ failures' = failures + 1 /\ UNCHANGED <<res, seen>>
    BY <1>9, <2>2, AdvanceCounts DEF CommandInterrupted, Reaches
  <2>3. QED
    BY <1>9, <2>1, <2>2 DEF CommandInterrupted
<1>10. ASSUME UNCHANGED <<type, res, op, at, script, seen, before, failures>>,
              phase' \in Running \union Returned => phase \in Running \union Returned
       PROVE  Counted'
  <2>1. Spoilt' = Spoilt /\ OnTrack' = OnTrack
    BY <1>10 DEF Spoilt, OnTrack, Aim
  <2>2. QED
    BY <1>10, <2>1 DEF Counted
<1>11. CASE Deferred
  BY <1>10, <1>11 DEF Deferred
<1>12. CASE InjectReturns \/ RecoverReturns \/ ExitRecoverReturns
  BY <1>10, <1>12
  DEF InjectReturns, RecoverReturns, ExitRecoverReturns, Return, Running
<1>13. CASE Register \/ DialogueInterrupted \/ Unregister \/ Exit
  BY <1>10, <1>13 DEF Register, DialogueInterrupted, Unregister, Exit, Return,
                      Running, Returned
<1>14. CASE \E i \in DOMAIN res, v \in Values : AgentActs(i, v)
  BY <1>14 DEF AgentActs, Counted, Running, Returned
<1>15. CASE UNCHANGED vars
  BY <1>10, <1>15 DEF vars
<1>16. QED
  BY <1>3, <1>4, <1>5, <1>6, <1>8, <1>9, <1>11, <1>12, <1>13, <1>14, <1>15
  DEF Next, Operation, Life

(* Every step loses objects to redeployments only.                         *)
LEMMA LostStep ==
  ASSUME TypeOK, Placed, LostByRedeploy, [Next]_vars
  PROVE  LostByRedeploy'
<1> USE DEF loop, count
<1>1. script # <<>> => /\ script \in Remainders /\ at \in DOMAIN res
                       /\ type \in DOMAIN Library /\ op \in Ops
                       /\ res \in [DOMAIN res -> Values]
  BY Targets DEF Placed, TypeOK
<1>2. CASE Inject \/ Recover \/ ExitRecover
  BY <1>2 DEF Inject, Recover, ExitRecover, Begin, LostByRedeploy
<1>3. CASE Take
  BY <1>3 DEF Take, LostByRedeploy
<1>4. CASE Read
  BY <1>4 DEF Read, Advance, LostByRedeploy
<1>5. CASE Delete
  <2>1. script = <<"delete", "apply">>
    BY <1>1, <1>5, ScriptSteps DEF Delete, Reaches
  <2>2. Library[type].script = Redeploy
    BY <2>1 DEF Placed
  <2>3. QED
    BY <1>5, <2>2 DEF Delete, Advance, LostByRedeploy
<1>6. CASE Write
  <2>1. res' = [res EXCEPT ![at] = seen] /\ seen # "gone" /\ phase \in Running
    BY <1>6 DEF Write, Placed, Reaches
  <2>2. QED
    BY <1>1, <1>6, <2>1 DEF Write, Reaches, Advance, LostByRedeploy
<1>7. CASE Run
  <2>1. res[at] # "gone" => Edit(type, op, res[at]) # "gone"
    BY <1>1, <1>7, EditFacts DEF Run, Reaches
  <2>2. QED
    BY <1>1, <1>7, <2>1 DEF Run, Reaches, Advance, LostByRedeploy
<1>8. CASE ListOrRestart \/ CommandFails
  BY <1>8 DEF ListOrRestart, CommandFails, Advance, LostByRedeploy
<1>9. ASSUME Raise PROVE LostByRedeploy'
  BY <1>9 DEF Raise, LostByRedeploy, Running, Returned
<1>10. CASE ReadMissing \/ CommandRaises \/ ExitInterrupted
  BY <1>9, <1>10 DEF ReadMissing, CommandRaises, ExitInterrupted
<1>11. CASE CommandInterrupted
  BY <1>9, <1>11 DEF CommandInterrupted, Advance, LostByRedeploy
<1>12. CASE Deferred
  BY <1>12 DEF Deferred, LostByRedeploy
<1>13. CASE InjectReturns \/ RecoverReturns \/ ExitRecoverReturns
  BY <1>13 DEF InjectReturns, RecoverReturns, ExitRecoverReturns, Return,
               Running, LostByRedeploy
<1>14. CASE Register \/ DialogueInterrupted \/ Unregister \/ Exit
  BY <1>14 DEF Register, DialogueInterrupted, Unregister, Exit, Return,
               Running, Returned, LostByRedeploy
<1>15. CASE \E i \in DOMAIN res, v \in Values : AgentActs(i, v)
  BY <1>15 DEF AgentActs, Running, Returned, LostByRedeploy
<1>16. CASE UNCHANGED vars
  BY <1>16 DEF vars, LostByRedeploy
<1>17. QED
  BY <1>2, <1>3, <1>4, <1>5, <1>6, <1>7, <1>8, <1>10, <1>11, <1>12, <1>13,
     <1>14, <1>15, <1>16 DEF Next, Operation, Life

(* Every step keeps the operation and the state it starts from.            *)
LEMMA FromGoodStep ==
  ASSUME TypeOK, FromGood, [Next]_vars
  PROVE  FromGood'
<1> USE DEF loop, count, FromGood
<1>1. DOMAIN res' = DOMAIN res
  <2>1. CASE Delete \/ Write \/ Run
    BY <2>1 DEF Delete, Write, Run, TypeOK
  <2>2. CASE \E i \in DOMAIN res, v \in Values : AgentActs(i, v)
    BY <2>2 DEF AgentActs, TypeOK
  <2>3. QED
    BY <2>1, <2>2 DEF Next, Operation, Life, vars, Inject, Recover, ExitRecover,
       Begin, Take, Read, ReadMissing, ListOrRestart, CommandRaises, CommandFails,
       Deferred, CommandInterrupted, ExitInterrupted, Advance, Raise, Return,
       InjectReturns, RecoverReturns, ExitRecoverReturns, Register,
       DialogueInterrupted, Unregister, Exit
<1>2. CASE Inject
  BY <1>2 DEF Inject, Begin
<1>3. CASE Recover \/ ExitRecover
  BY <1>3 DEF Recover, ExitRecover, Begin
<1>4. ASSUME phase \in Running, phase' = phase, UNCHANGED <<op, before>>
      PROVE  FromGood'
  BY <1>1, <1>4 DEF Running
<1>5. CASE Take
  BY <1>4, <1>5 DEF Take
<1>6. CASE Read \/ Delete \/ Write \/ Run \/ ListOrRestart \/ CommandFails
  BY <1>4, <1>6
  DEF Read, Delete, Write, Run, ListOrRestart, CommandFails, Reaches, Advance
<1>7. ASSUME Raise PROVE FromGood'
  BY <1>1, <1>7 DEF Raise
<1>8. CASE ReadMissing \/ CommandRaises \/ ExitInterrupted
  BY <1>7, <1>8 DEF ReadMissing, CommandRaises, ExitInterrupted
<1>9. CASE CommandInterrupted
  BY <1>4, <1>7, <1>9 DEF CommandInterrupted, Reaches, Advance
<1>10. CASE Deferred
  BY <1>4, <1>10 DEF Deferred, Running
<1>11. CASE InjectReturns \/ RecoverReturns \/ ExitRecoverReturns
  BY <1>1, <1>11 DEF InjectReturns, RecoverReturns, ExitRecoverReturns, Return
<1>12. CASE Register \/ DialogueInterrupted \/ Unregister \/ Exit
  BY <1>1, <1>12 DEF Register, DialogueInterrupted, Unregister, Exit, Return
<1>13. CASE \E i \in DOMAIN res, v \in Values : AgentActs(i, v)
  BY <1>13 DEF AgentActs
<1>14. CASE UNCHANGED vars
  BY <1>14 DEF vars
<1>15. QED
  BY <1>2, <1>3, <1>5, <1>6, <1>8, <1>9, <1>10, <1>11, <1>12, <1>13, <1>14
  DEF Next, Operation, Life

(* A recovery that returns, and saw no failure, leaves nothing faulty.     *)
LEMMA RecoveredIsClean ==
  ASSUME TypeOK, Placed, Counted, FromGood, spent = 0,
         phase \in {"unregister", "exitRecovered"}
  PROVE  \A i \in DOMAIN res : res[i] # "bad"
<1>1. failures = 0 /\ op = "recover" /\ op \in Ops /\ phase \in Returned
  BY FaultLibraryAssumption DEF TypeOK, FromGood, Returned
<1>2. at - 1 = Reach(type) /\ DOMAIN res = 1 .. Reach(type)
  BY <1>1, Targets DEF Placed
<1>3. \A i \in DOMAIN res : res[i] = Aim(i) /\ before[i] \in Values
  BY <1>1, <1>2, NoneSpoilt, Targets
<1>4. \A i \in DOMAIN res : Aim(i) # "bad"
  BY <1>1, <1>3, EditFacts DEF Aim, Placed
<1>5. QED
  BY <1>3, <1>4

(* Every step keeps the handler of a fault that may still be there.        *)
LEMMA OwedStep ==
  ASSUME TypeOK, Placed, Counted, FromGood, Owed, [Next]_vars
  PROVE  Owed'
<1> USE DEF loop, count, Owed
<1>1. spent \in Nat
  BY FaultLibraryAssumption DEF TypeOK
<1>2. CASE Inject \/ Recover \/ ExitRecover
  BY <1>2 DEF Inject, Recover, ExitRecover, Begin
<1>3. ASSUME phase \in Running, UNCHANGED <<phase, registered>> PROVE Owed'
  BY <1>3 DEF Running
<1>4. CASE Take
  BY <1>3, <1>4 DEF Take
<1>5. CASE Read \/ Delete \/ Write \/ Run \/ ListOrRestart \/ CommandFails
  BY <1>3, <1>5
  DEF Read, Delete, Write, Run, ListOrRestart, CommandFails, Reaches, Advance
<1>6. ASSUME Raise, phase \in Running PROVE Owed'
  BY <1>6 DEF Raise
<1>7. CASE ReadMissing \/ CommandRaises \/ ExitInterrupted
  BY <1>6, <1>7 DEF ReadMissing, CommandRaises, ExitInterrupted, Reaches, Running
<1>8. CASE CommandInterrupted
  BY <1>3, <1>6, <1>8 DEF CommandInterrupted, Reaches, Advance
<1>9. CASE Deferred
  BY <1>3, <1>9 DEF Deferred, Running
<1>10. CASE InjectReturns \/ RecoverReturns \/ ExitRecoverReturns \/ Exit
  BY <1>10 DEF InjectReturns, RecoverReturns, ExitRecoverReturns, Exit, Return
<1>11. CASE Register \/ DialogueInterrupted
  BY <1>11 DEF Register, DialogueInterrupted, Return
<1>12. CASE Unregister
  <2>1. spent = 0 => \A i \in DOMAIN res : res[i] # "bad"
    BY <1>12, RecoveredIsClean DEF Unregister, Return
  <2>2. QED
    BY <1>12, <2>1 DEF Unregister, Return
<1>13. CASE \E i \in DOMAIN res, v \in Values : AgentActs(i, v)
  BY <1>13 DEF AgentActs
<1>14. CASE UNCHANGED vars
  BY <1>14 DEF vars
<1>15. QED
  BY <1>2, <1>4, <1>5, <1>7, <1>8, <1>9, <1>10, <1>11, <1>12, <1>13, <1>14
  DEF Next, Operation, Life

(* A read that finds its object missing, no command having failed, is a    *)
(* recovery's, and the targets it leaves faulty come later in the list.    *)
LEMMA MissingExplains ==
  ASSUME TypeOK, Placed, Counted, FromGood, ReadMissing, spent = 0
  PROVE  /\ phase # "injecting"
         /\ Head(Library[type].script) \in {"get", "fetch"}
         /\ \A j \in DOMAIN res :
              res[j] = "bad" => \E i \in 1 .. j - 1 : res[i] = "gone"
<1>1. /\ failures = 0 /\ phase \in Running \union Returned /\ op \in Ops
      /\ script # <<>> /\ Head(script) \in {"get", "fetch"} /\ res[at] = "gone"
  BY FaultLibraryAssumption DEF TypeOK, ReadMissing, Reaches
<1>2. script \in Whole /\ script \in Fresh
  BY <1>1, ScriptSteps DEF Placed, Fresh
<1>3. at \in DOMAIN res /\ DOMAIN res = 1 .. Reach(type) /\ at \in Nat
      /\ Reach(type) \in Nat
  BY <1>1, Targets DEF Placed
<1>4. OnTrack /\ \A i \in 1 .. at - 1 : res[i] = Aim(i)
  BY <1>1, NoneSpoilt
<1>5. phase # "injecting"
  BY <1>1, <1>2, <1>3, <1>4 DEF OnTrack, FromGood
<1>6. op = "recover"
  BY <1>1, <1>5 DEF FromGood, ReadMissing, Reaches, Running
<1>7. \A j \in 1 .. at - 1 : res[j] # "bad"
  <2> SUFFICES ASSUME NEW j \in 1 .. at - 1 PROVE res[j] # "bad"
    OBVIOUS
  <2>1. j \in DOMAIN res /\ before[j] \in Values
    BY <1>3, Targets
  <2>2. QED
    BY <1>1, <1>4, <1>6, <2>1, EditFacts DEF Aim, Placed
<1>8. \A j \in DOMAIN res : res[j] = "bad" => at \in 1 .. j - 1
  BY <1>1, <1>3, <1>7
<1>9. QED
  BY <1>1, <1>2, <1>5, <1>8 DEF Placed

(* Every step keeps the explanation of what is left behind.                *)
LEMMA LeftBehindStep ==
  ASSUME TypeOK, Placed, Counted, FromGood, Owed, LeftBehindExplained, [Next]_vars
  PROVE  LeftBehindExplained'
<1> USE DEF loop, count, LeftBehindExplained
<1>1. spent \in Nat
  BY FaultLibraryAssumption DEF TypeOK
<1>2. CASE Inject \/ Recover \/ ExitRecover
  BY <1>2 DEF Inject, Recover, ExitRecover, Begin
<1>3. CASE Take
  BY <1>3 DEF Take, Running
<1>4. CASE Read \/ Delete \/ Write \/ Run \/ ListOrRestart \/ CommandFails
  BY <1>4 DEF Read, Delete, Write, Run, ListOrRestart, CommandFails, Reaches,
              Advance, Running
<1>5. CASE ReadMissing
  <2>1. CASE spent = 0
    BY <1>5, <2>1, MissingExplains DEF ReadMissing, Raise
  <2>2. CASE spent > 0
    BY <1>5, <2>2 DEF ReadMissing
  <2>3. QED
    BY <1>1, <2>1, <2>2
<1>6. CASE CommandRaises \/ ExitInterrupted
  BY <1>1, <1>6 DEF CommandRaises, ExitInterrupted
<1>7. CASE CommandInterrupted
  BY <1>1, <1>7 DEF CommandInterrupted
<1>8. CASE Deferred
  BY <1>8 DEF Deferred
<1>9. CASE InjectReturns \/ RecoverReturns \/ ExitRecoverReturns
  BY <1>9 DEF InjectReturns, RecoverReturns, ExitRecoverReturns, Return
<1>10. CASE Register \/ DialogueInterrupted \/ Unregister
  BY <1>10 DEF Register, DialogueInterrupted, Unregister, Return
<1>11. CASE Exit
  <2>1. spent = 0 => \A i \in DOMAIN res : res[i] # "bad"
    BY <1>11, RecoveredIsClean DEF Exit, Return, Owed
  <2>2. QED
    BY <1>1, <1>11, <2>1 DEF Exit, Return
<1>12. CASE \E i \in DOMAIN res, v \in Values : AgentActs(i, v)
  BY <1>12 DEF AgentActs
<1>13. CASE UNCHANGED vars
  BY <1>13 DEF vars
<1>14. QED
  BY <1>2, <1>3, <1>4, <1>5, <1>6, <1>7, <1>8, <1>9, <1>10, <1>11, <1>12, <1>13
  DEF Next, Operation, Life

-----------------------------------------------------------------------------
(* The inductive invariant holds in every reachable state.                 *)
THEOREM Invariance ==
  ASSUME FaultTypes \subseteq DOMAIN Library
  PROVE  Spec => []IInv
<1>1. Init => IInv
  <2> SUFFICES ASSUME Init PROVE IInv
    OBVIOUS
  <2>1. /\ type \in DOMAIN Library /\ Objects(type) = 1 .. Reach(type)
        /\ Reach(type) \in 1 .. NumTargets /\ NumTargets \in Nat \ {0}
        /\ MaxFailures \in Nat
    BY ReachFacts, FaultLibraryAssumption DEF Init
  <2>2. TypeOK
    <3>1. registered \in BOOLEAN /\ struck \in BOOLEAN
      BY Zenon DEF Init
    <3>2. /\ type \in FaultTypes /\ res \in [Objects(type) -> Values]
          /\ before \in [Objects(type) -> Values] /\ seen \in Values
      BY DEF Init, Values
    <3>3. /\ script \in Seq({"get", "fetch", "list", "delete", "apply", "run",
                            "patch", "replace", "restart"})
          /\ phase \in Phases /\ op \in Ops
      BY DEF Init, Phases, Ops
    <3>4. /\ at \in 1 .. NumTargets + 1
          /\ spent \in 0 .. MaxFailures + 1 /\ failures \in 0 .. spent
      BY <2>1 DEF Init
    <3>5. QED
      BY <3>1, <3>2, <3>3, <3>4 DEF TypeOK
  <2>3. <<>> \notin Remainders /\ <<>> \notin Whole
        /\ <<>> \notin Deleted \union {<<"delete", "apply">>}
    BY ScriptSteps DEF Remainders, Fresh, Deleted
  <2>4. Placed
    BY <2>1, <2>3 DEF Init, Placed, Returned
  <2>5. Spent
    BY <2>1 DEF Init, Spent
  <2>6. Counted /\ LostByRedeploy /\ FromGood /\ Owed /\ LeftBehindExplained
    BY DEF Init, Counted, LostByRedeploy, FromGood, Owed, LeftBehindExplained,
       Running, Returned
  <2>7. QED
    BY <2>2, <2>4, <2>5, <2>6 DEF IInv
<1>2. IInv /\ [Next]_vars => IInv'
  BY TypeStep, PlacedStep, SpentStep, CountedStep, LostStep, FromGoodStep,
     OwedStep, LeftBehindStep DEF IInv
<1>3. QED
  BY <1>1, <1>2, PTL DEF Spec

(* The variables keep their types.                                         *)
THEOREM LibraryTypes ==
  ASSUME FaultTypes \subseteq DOMAIN Library
  PROVE  Spec => []TypeOK
BY Invariance, PTL DEF IInv

(* An operation that returned did, on every object, exactly what the type  *)
(* means to do to what it found there, but for one object per command that *)
(* failed unnoticed: FaultInjector's loops repeat safely and heal only what*)
(* is faulty.                                                              *)
THEOREM OneTargetPerFailure ==
  ASSUME FaultTypes \subseteq DOMAIN Library
  PROVE  Spec => []FailureSpoilsOneTarget
<1>1. IInv => FailureSpoilsOneTarget
  <2> SUFFICES ASSUME IInv, phase \in Returned
               PROVE  Cardinality({i \in DOMAIN res : res[i] # Edit(type, op, before[i])})
                        =< failures
    BY DEF FailureSpoilsOneTarget
  <2>1. at - 1 = Reach(type) /\ DOMAIN res = 1 .. Reach(type)
    BY Targets DEF IInv, Placed
  <2>2. {i \in DOMAIN res : res[i] # Edit(type, op, before[i])} = Spoilt
    BY <2>1 DEF Spoilt, Aim
  <2>3. QED
    BY <2>2 DEF IInv, Counted
<1>2. QED
  BY <1>1, Invariance, PTL

(* An object that was there is lost only to a redeployment, between the    *)
(* deletion and the application, or by a command that failed.              *)
THEOREM LostHalfway ==
  ASSUME FaultTypes \subseteq DOMAIN Library
  PROVE  Spec => []LostOnlyHalfRedeployed
<1>1. IInv => LostOnlyHalfRedeployed
  <2> SUFFICES ASSUME IInv, phase \in Running \union Returned,
                      NEW i \in DOMAIN res, res[i] = "gone", before[i] # "gone"
               PROVE  /\ Library[type].script = Redeploy
                      /\ \/ failures > 0
                         \/ at = i /\ script # <<>> /\ Head(script) = "apply"
    BY DEF LostOnlyHalfRedeployed
  <2> USE DEF IInv
  <2>1. Library[type].script = Redeploy
    BY DEF LostByRedeploy
  <2>2. failures \in Nat /\ at \in Nat /\ i \in Nat /\ op \in Ops
        /\ type \in DOMAIN Library
    BY Targets, FaultLibraryAssumption DEF TypeOK, Placed
  <2>3. before[i] \in Values /\ Aim(i) # "gone"
    BY <2>2, Targets, EditFacts DEF Aim
  <2>4. CASE failures = 0
    <3>1. i >= at
      BY <2>2, <2>3, <2>4, NoneSpoilt, Targets
    <3>2. i = at /\ script # <<>>
      BY <2>2, <3>1 DEF Counted
    <3>3. OnTrack /\ script \in Remainders
      BY <2>4, <3>2, NoneSpoilt DEF Placed
    <3>4. script \in Deleted
      BY <2>3, <3>2, <3>3 DEF OnTrack, Remainders
    <3>5. script # <<>> /\ Head(script) = "apply"
      <4>1. script = <<"apply">>
        BY <3>4 DEF Deleted
      <4>2. <<"apply">> # <<>> /\ Head(<<"apply">>) = "apply"
        OBVIOUS
      <4>3. QED
        BY <4>1, <4>2, Zenon
    <3>6. QED
      BY <2>1, <3>2, <3>5
  <2>5. QED
    BY <2>1, <2>2, <2>4
<1>2. QED
  BY <1>1, Invariance, PTL

(* When inject_fault has returned and no command failed, every object is   *)
(* faulty, as the problem's eval takes for granted.                        *)
THEOREM InjectionIsComplete ==
  ASSUME FaultTypes \subseteq DOMAIN Library
  PROVE  Spec => []InjectedIsFaulty
<1>1. IInv => InjectedIsFaulty
  <2> SUFFICES ASSUME IInv, phase = "register", failures = 0
               PROVE  \A i \in DOMAIN res : res[i] = "bad"
    BY DEF InjectedIsFaulty
  <2> USE DEF IInv
  <2>1. phase \in Returned /\ op = "inject" /\ op \in Ops
    BY DEF Returned, FromGood, Ops
  <2>2. at - 1 = Reach(type) /\ DOMAIN res = 1 .. Reach(type)
    BY <2>1, Targets DEF Placed
  <2>3. \A i \in DOMAIN res : res[i] = Aim(i) /\ before[i] = "good"
    BY <2>1, <2>2, NoneSpoilt DEF FromGood
  <2>4. "good" \in Values
    BY DEF Values
  <2>5. QED
    BY <2>1, <2>3, <2>4, EditFacts DEF Aim, Placed
<1>2. QED
  BY <1>1, Invariance, PTL

(* A target is still faulty when the process is gone only if a command     *)
(* failed, or if an earlier target was missing when a type that reads it   *)
(* first was recovered.                                                    *)
THEOREM LeftBehind ==
  ASSUME FaultTypes \subseteq DOMAIN Library
  PROVE  Spec => []LeftBehindExplained
BY Invariance, PTL DEF IInv

=============================================================================
