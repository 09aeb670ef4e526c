--------------------------- MODULE Scoring_proofs ---------------------------
(***************************************************************************)
(* Proofs about Scoring, for every set of problems of the catalogue, any   *)
(* number of rounds and of sessions, and with the judge or without.        *)
(***************************************************************************)
EXTENDS Scoring, FiniteSetTheorems, TLAPS

-----------------------------------------------------------------------------
(* The catalogue.                                                          *)

(* The types of faults the analyses expect, and one they do not.          *)
FaultTypes ==
  {"", "Misconfiguration", "Operation Error", "Dependency Problem",
   "Network/Storage Issue", "Authentication Issue", "Code Defect"}

(* What strip and lower make of the words an agent may use.                *)
LEMMA Lowered ==
  /\ Lower("Yes") = "yes" /\ Lower("YES ") = "yes" /\ Lower("No") = "no"
  /\ \A type \in FaultTypes : Lower(type) = type
  BY DEF Lower, FaultTypes

(* What a family must have for its answers to be told apart.               *)
Fits(f) ==
  /\ f.answer = IF f.fault = "no_op" THEN "no" ELSE "yes"
  /\ Lower(f.cause[2]) = f.cause[2]
  /\ f.tasks \subseteq Tasks

(* Every family has.                                                       *)
LEMMA CatalogueFits == \A f \in Catalogue : Fits(f)
<1>0. \A l, t : <<l, t>>[2] = t
  OBVIOUS
<1>a. \A f : f.answer = "yes" /\ f.fault # "no_op" /\ f.cause[2] \in FaultTypes
            /\ f.tasks \subseteq Tasks => Fits(f)
  BY Lowered DEF Fits
<1>b. "" \in FaultTypes
  BY DEF FaultTypes
<1>c. NoCause[2] = ""
  BY DEF NoCause
<1>d. \A f : f.answer = "yes" /\ f.fault # "no_op" /\ f.cause = NoCause
            /\ f.tasks \subseteq Tasks => Fits(f)
  BY <1>a, <1>b, <1>c
<1>1. \A a, f, t : f # "no_op" => Fits(Family(a, f, t))
  <2>1. \A a, f, t : Family(a, f, t).answer = "yes"
    BY DEF Family
  <2>2. \A a, f, t : Family(a, f, t).fault = f
    BY DEF Family
  <2>5. \A a, f, t : Family(a, f, t).tasks \subseteq Tasks
    BY DEF Family, Tasks
  <2>3. \A a, f, t : Family(a, f, t).cause = NoCause
    BY DEF Family
  <2>4. QED
    BY <1>d, <2>1, <2>2, <2>3, <2>5
<1>2. \A a, f, t : f # "no_op" => Fits(Unlisted(Family(a, f, t)))
  <2>1. \A a, f, t : Unlisted(Family(a, f, t)).answer = "yes"
    BY DEF Family, Unlisted
  <2>2. \A a, f, t : Unlisted(Family(a, f, t)).fault = f
    BY DEF Family, Unlisted
  <2>5. \A a, f, t : Unlisted(Family(a, f, t)).tasks \subseteq Tasks
    BY DEF Family, Tasks, Unlisted
  <2>3. \A a, f, t : Unlisted(Family(a, f, t)).cause = NoCause
    BY DEF Family, Unlisted
  <2>4. QED
    BY <1>d, <2>1, <2>2, <2>3, <2>5
<1>3. \A a, f, t : f # "no_op" => Fits(Limited(Family(a, f, t)))
  <2>1. \A a, f, t : Limited(Family(a, f, t)).answer = "yes"
    BY DEF Family, Limited
  <2>2. \A a, f, t : Limited(Family(a, f, t)).fault = f
    BY DEF Family, Limited
  <2>5. \A a, f, t : Limited(Family(a, f, t)).tasks \subseteq Tasks
    BY DEF Family, Tasks, Limited
  <2>3. \A a, f, t : Limited(Family(a, f, t)).cause = NoCause
    BY DEF Family, Limited
  <2>4. QED
    BY <1>d, <2>1, <2>2, <2>3, <2>5
<1>4. \A a, f, t, l, c : \A ty \in FaultTypes :
        f # "no_op" => Fits(Full(Family(a, f, t), l, ty, c))
  <2>1. \A a, f, t, l, ty, c :
          /\ Full(Family(a, f, t), l, ty, c).answer = "yes"
          /\ Full(Family(a, f, t), l, ty, c).fault = f
          /\ Full(Family(a, f, t), l, ty, c).cause = <<l, ty>>
          /\ Full(Family(a, f, t), l, ty, c).tasks \subseteq Tasks
    BY DEF Full, Family, NoCause
  <2>2. \A a, f, t, l, ty, c : Full(Family(a, f, t), l, ty, c).cause[2] = ty
    BY <1>0, <2>1
  <2>3. QED
    BY <1>a, <2>1, <2>2
<1>5. /\ Fits(ContainerKill) /\ Fits(PodFailure) /\ Fits(PodKill)
      /\ Fits(NetworkLoss) /\ Fits(NetworkDelay)
  BY <1>3 DEF ContainerKill, PodFailure, PodKill, NetworkLoss, NetworkDelay, Chaos
<1>6. Fits(KernelFault) /\ Fits(DiskWoreout)
  BY <1>2 DEF KernelFault, DiskWoreout
<1>7. /\ Fits(OverloadReplicas) /\ Fits(NonExistentStorage)
      /\ Fits(InvalidAffinityToleration) /\ Fits(SecurityContextFault)
      /\ Fits(WrongUpdateStrategy)
  BY <1>2
     DEF OverloadReplicas, NonExistentStorage, InvalidAffinityToleration,
         SecurityContextFault, WrongUpdateStrategy, Misoperation
<1>8. /\ Fits(AdServiceFailure) /\ Fits(AdServiceHighCpu) /\ Fits(AdServiceManualGc)
      /\ Fits(CartServiceFailure) /\ Fits(ImageSlowLoad)
      /\ Fits(LoadGeneratorFloodHomepage) /\ Fits(PaymentServiceFailure)
      /\ Fits(PaymentServiceUnreachable) /\ Fits(ProductCatalogServiceFailure)
      /\ Fits(RecommendationServiceCacheFailure)
  BY <1>1
     DEF AdServiceFailure, AdServiceHighCpu, AdServiceManualGc,
         CartServiceFailure, ImageSlowLoad, LoadGeneratorFloodHomepage,
         PaymentServiceFailure, PaymentServiceUnreachable,
         ProductCatalogServiceFailure, RecommendationServiceCacheFailure, Flag
<1>9. /\ Fits(K8STargetPortMisconfig) /\ Fits(ScalePodSocialNet)
       /\ Fits(AssignNonExistentNode) /\ Fits(WrongBinUsage)
       /\ Fits(MongoDBAuthMissing) /\ Fits(MisconfigAppHotelRes) /\ Fits(Generated)
  BY <1>4
     DEF K8STargetPortMisconfig, ScalePodSocialNet, AssignNonExistentNode,
         WrongBinUsage, MongoDBAuthMissing, MisconfigAppHotelRes, Generated,
         FaultTypes
<1>10. /\ Fits(RedeployWithoutPV) /\ Fits(MongoDBRevokeAuth)
       /\ Fits(MongoDBUserUnregistered) /\ Fits(FlowerNodeStop)
       /\ Fits(FlowerModelMisconfig) /\ Fits(KafkaQueueProblems)
  BY <1>0, Lowered
     DEF Fits, Full, Family, NoCause, RedeployWithoutPV, MongoDBRevokeAuth,
         MongoDBUserUnregistered, FlowerNodeStop, FlowerModelMisconfig,
         KafkaQueueProblems, Flag, FaultTypes, Tasks
<1>11. \A a : Fits(NoOp(a))
  BY <1>0, Lowered DEF Fits, Family, NoCause, NoOp, FaultTypes, Tasks
<1>12. QED
  BY <1>5, <1>6, <1>7, <1>8, <1>9, <1>10, <1>11 DEF Catalogue
-----------------------------------------------------------------------------
Kinds == {"str", "list", "dict", "int", "None"}

(* How values are built.                                                   *)
Shaped(v) ==
  /\ v.kind \in Kinds
  /\ v.kind = "str" => \E s : v.items = <<s>>
  /\ v.kind = "list" =>
       \/ v.items = <<>>
       \/ \E a : v.items = <<a>>
       \/ \E a, b : v.items = <<a, b>>
  /\ v.kind = "dict" => \E a, b : v.items = <<a, b>>

(* The constructors of values.                                             *)
LEMMA Constructors ==
  /\ \A s : Str(s).kind = "str" /\ Str(s).items = <<s>>
  /\ \A q : List(q).kind = "list" /\ List(q).items = q
  /\ \A a, b : Dict(a, b).kind = "dict" /\ Dict(a, b).items = <<a, b>>
  /\ Number.kind = "int" /\ Number.items = <<"#">>
  /\ None.kind = "None" /\ None.items = <<>>
  BY DEF Str, List, Dict, Number, None, Value

(* They build values of these shapes.                                      *)
LEMMA ConstructorsShaped ==
  /\ \A s : Shaped(Str(s))
  /\ Shaped(List(<<>>))
  /\ \A a : Shaped(List(<<a>>))
  /\ \A a, b : Shaped(List(<<a, b>>))
  /\ \A a, b : Shaped(Dict(a, b))
  /\ Shaped(Number) /\ Shaped(None)
  BY Constructors DEF Shaped, Kinds

(* The elements of the short sequences that occur.                         *)
LEMMA ElementsOf ==
  /\ ToSet(<<>>) = {}
  /\ \A a : ToSet(<<a>>) = {a} /\ Len(<<a>>) = 1
  /\ \A a, b : ToSet(<<a, b>>) = {a, b} /\ Len(<<a, b>>) = 2
  BY DEF ToSet

(* What an agent may answer, by the task.                                  *)
LEMMA AnswersOf ==
  ASSUME NEW p
  PROVE  /\ p.task = "detection" => Answers(p) = DetectionAnswers
         /\ p.task = "localization" => Answers(p) = LocalizationAnswers(p)
         /\ p.task = "analysis" => Answers(p) = AnalysisAnswers(p)
  BY Zenon DEF Answers

(* And how it is evaluated.                                                *)
LEMMA EvalOf ==
  ASSUME NEW p, NEW v
  PROVE  /\ p.task = "detection" => Eval(p, v) = EvalDetection(p, v)
         /\ p.task = "localization" => Eval(p, v) = EvalLocalization(p, v)
         /\ p.task = "analysis" => Eval(p, v) = EvalAnalysis(p, v)
  BY Zenon DEF Eval

(* The tasks that are scored, all but mitigation.                          *)
ScoredTasks == {"detection", "localization", "analysis"}

(* A problem of the pool is one of the catalogue, with one of these tasks. *)
LEMMA ProblemsOfThePool ==
  ASSUME ScoringAssumption, NEW p \in Pool
  PROVE  p.family \in Catalogue /\ p.task \in ScoredTasks
<1>1. p \in Registered /\ p \notin ProblemIds("mitigation")
  BY DEF ScoringAssumption
<1>2. PICK f \in Catalogue : p \in [family : {f}, task : f.tasks, target : f.targets]
  BY <1>1 DEF Registered
<1>3. p.family = f /\ p.task \in f.tasks
  BY <1>2
<1>4. p.task \in Tasks
  BY <1>3, CatalogueFits DEF Fits
<1>5. p.task # "mitigation"
  BY <1>1 DEF ProblemIds
<1>6. QED
  BY <1>3, <1>4, <1>5 DEF Tasks, ScoredTasks

(* Answers are values.                                                     *)
LEMMA AnswersShaped ==
  ASSUME NEW p, p.task \in ScoredTasks, NEW v \in Answers(p)
  PROVE  Shaped(v)
<1>1. CASE p.task = "detection"
  <2>1. v \in DetectionAnswers
    BY <1>1, AnswersOf
  <2>2. QED
    BY <2>1, ConstructorsShaped DEF DetectionAnswers
<1>2. CASE p.task = "localization"
  <2>1. v \in LocalizationAnswers(p)
    BY <1>2, AnswersOf
  <2> DEFINE names == Alias(p) \union {"nginx-thrift"}
  <2>2. CASE v \in {List(q) : q \in names \X names}
    <3>1. PICK q \in names \X names : v = List(q)
      BY <2>2
    <3>2. q = <<q[1], q[2]>>
      BY <3>1
    <3>3. v.kind = "list" /\ v.items = <<q[1], q[2]>>
      BY <3>1, <3>2, Constructors
    <3>4. QED
      BY <3>3 DEF Shaped, Kinds
  <2>3. CASE v \in {List(<<s>>) : s \in names}
    BY <2>3, ConstructorsShaped
  <2>4. CASE v \in {Str(p.target), Number, None, List(<<>>), List(<<p.target, "[]">>)}
    BY <2>4, ConstructorsShaped
  <2>5. v \in {Str(p.target), Number, None, List(<<>>), List(<<p.target, "[]">>)}
          \/ v \in {List(<<s>>) : s \in names}
          \/ v \in {List(q) : q \in names \X names}
    BY <2>1, Zenon DEF LocalizationAnswers
  <2>6. QED
    BY <2>2, <2>3, <2>4, <2>5
<1>3. CASE p.task = "analysis"
  <2>1. v \in AnalysisAnswers(p)
    BY <1>3, AnswersOf
  <2>2. QED
    BY <2>1, ConstructorsShaped DEF AnalysisAnswers
<1>4. QED
  BY <1>1, <1>2, <1>3 DEF ScoredTasks

(* So is what a submission that is refused leaves.                         *)
LEMMA RefusedShaped ==
  ASSUME NEW v, Refusable(v)
  PROVE  Shaped(v)
<1>1. v \in {None, List(<<>>)} => Shaped(v)
  BY ConstructorsShaped
<1>2. v.kind = "list" /\ v.items = <<v.items[1], v.items[2]>> => Shaped(v)
  BY DEF Shaped, Kinds
<1>3. QED
  BY <1>1, <1>2 DEF Refusable
-----------------------------------------------------------------------------
(* What eval comes to.                                                     *)

(* The marks and the exception are told apart.                             *)
LEMMA Outcomes ==
  /\ \A n, s : ~Marks(n, s).raised
  /\ Raised.marks = 0 /\ ~Raised.success /\ Raised.raised
  /\ NotScored.marks = -1 /\ ~NotScored.success /\ ~NotScored.raised
  BY DEF Marks, Raised, NotScored

(* The outcomes that occur.                                                *)
LEMMA KnownOutcomes ==
  /\ Marks(100, TRUE).marks = 100 /\ Marks(100, TRUE).success
  /\ Marks(50, FALSE).marks = 50 /\ ~Marks(50, FALSE).success
  /\ Marks(0, FALSE).marks = 0 /\ ~Marks(0, FALSE).success
  /\ ~Marks(100, TRUE).raised /\ ~Marks(50, FALSE).raised
  /\ ~Marks(0, FALSE).raised
  BY DEF Marks

(* A detection is right or wrong.                                          *)
LEMMA Detecting ==
  ASSUME NEW p, p.task = "detection", NEW v
  PROVE  LET right == v.kind = "str" /\ Lower(v.items[1]) = p.family.answer
         IN  /\ right => Eval(p, v) = Marks(100, TRUE)
             /\ ~right => Eval(p, v) = Marks(0, FALSE)
  BY EvalOf DEF EvalDetection

(* A localization has marks for the names that are the fault's, shared     *)
(* among all it gives.                                                     *)
LEMMA Localizing ==
  ASSUME NEW p, p.task = "localization", NEW v, Shaped(v),
         ~Eval(p, v).raised
  PROVE  LET found == Named(v) \intersect Alias(p) # {}
             alone == Len(v.items) = 1
         IN  /\ ~found => Eval(p, v) = Marks(0, FALSE)
             /\ found /\ alone => Eval(p, v) = Marks(100, TRUE)
             /\ found /\ ~alone => Eval(p, v) = Marks(50, FALSE)
<1>1. Eval(p, v) = EvalLocalization(p, v)
  BY EvalOf
<1> DEFINE exact == \E t \in Alias(p) : IsExactMatch(v, t)
           sub == \E t \in Alias(p) : IsSubset(t, v)
           found == Named(v) \intersect Alias(p) # {}
<1>2. /\ v = None => Eval(p, v) = Marks(0, FALSE)
      /\ v # None /\ exact => Eval(p, v) = Marks(100, TRUE)
      /\ v # None /\ ~exact /\ sub =>
           Eval(p, v) = Marks(100 \div Len(v.items), Len(v.items) = 1)
      /\ v # None /\ ~exact /\ ~sub => Eval(p, v) = Marks(0, FALSE)
  BY <1>1, Outcomes DEF EvalLocalization
<1>3. v = None => v.kind = "None"
  BY Constructors
<1>4. CASE v.kind \in {"dict", "int", "None"}
  <2>1. ~exact /\ ~sub /\ ~found
    BY <1>4 DEF IsExactMatch, IsSubset, Named
  <2>2. QED
    BY <1>2, <2>1
<1>5. CASE v.kind = "str"
  <2>1. PICK s : v.items = <<s>>
    BY <1>5 DEF Shaped
  <2>2. Named(v) = {s} /\ Len(v.items) = 1
    BY <1>5, <2>1, ElementsOf DEF Named
  <2>3. (exact <=> found) /\ ~sub
    BY <1>5, <2>1, <2>2 DEF IsExactMatch, IsSubset
  <2>4. QED
    BY <1>2, <1>3, <1>5, <2>2, <2>3
<1>6. CASE v.kind = "list"
  <2>0. /\ Named(v) = ToSet(v.items)
        /\ sub <=> found
    BY <1>6 DEF Named, IsSubset
  <2>1. CASE v.items = <<>>
    <3>1. ~exact
      BY <2>1 DEF IsExactMatch
    <3>2. ~found
      BY <2>0, <2>1, ElementsOf
    <3>3. QED
      BY <1>2, <1>3, <1>6, <2>0, <3>1, <3>2
  <2>2. CASE \E a : v.items = <<a>>
    <3>1. PICK a : v.items = <<a>>
      BY <2>2
    <3>2. Named(v) = {a} /\ Len(v.items) = 1
      BY <2>0, <3>1, ElementsOf
    <3>3. exact <=> found
      BY <1>6, <3>1, <3>2 DEF IsExactMatch
    <3>4. QED
      BY <1>2, <1>3, <1>6, <2>0, <3>2, <3>3
  <2>3. CASE \E a, b : v.items = <<a, b>>
    <3>1. PICK a, b : v.items = <<a, b>>
      BY <2>3
    <3>2. ~exact
      BY <3>1 DEF IsExactMatch
    <3>3. Len(v.items) = 2 /\ 100 \div Len(v.items) = 50
      BY <3>1, ElementsOf
    <3>4. Len(v.items) # 1 /\ v # None
      BY <1>3, <1>6, <3>3
    <3>5. CASE sub
      <4>1. Eval(p, v) = Marks(50, FALSE)
        BY <1>2, <3>2, <3>3, <3>4, <3>5
      <4>2. QED
        BY <2>0, <3>4, <3>5, <4>1
    <3>6. CASE ~sub
      BY <1>2, <2>0, <3>2, <3>4, <3>6
    <3>7. QED
      BY <3>5, <3>6
  <2>4. QED
    BY <1>6, <2>1, <2>2, <2>3 DEF Shaped
<1>7. QED
  BY <1>4, <1>5, <1>6 DEF Shaped, Kinds

(* An analysis has half the marks for each entry.                          *)
LEMMA Analyzing ==
  ASSUME NEW p, p.task = "analysis", NEW v, ~Eval(p, v).raised
  PROVE  LET Right(i) == Lower(v.items[i]) = p.family.cause[i]
         IN  /\ v.kind # "dict" => Eval(p, v) = Marks(0, FALSE)
             /\ v.kind = "dict" /\ Right(1) /\ Right(2) =>
                  Eval(p, v) = Marks(100, TRUE)
             /\ v.kind = "dict" /\ (Right(1) \/ Right(2))
                     /\ ~(Right(1) /\ Right(2)) =>
                  Eval(p, v) = Marks(50, FALSE)
             /\ v.kind = "dict" /\ ~Right(1) /\ ~Right(2) =>
                  Eval(p, v) = Marks(0, FALSE)
<1> DEFINE Right(i) == Lower(v.items[i]) = p.family.cause[i]
           right == { i \in 1 .. 2 : Right(i) }
<1>1. Eval(p, v) = EvalAnalysis(p, v)
  BY EvalOf
<1>2. /\ v.kind # "dict" => Eval(p, v) = Marks(0, FALSE)
      /\ v.kind = "dict" =>
           Eval(p, v) = Marks(50 * Cardinality(right), Cardinality(right) = 2)
  BY <1>1, Outcomes DEF EvalAnalysis
<1>3. Right(1) /\ Right(2) => Cardinality(right) = 2
  <2>1. SUFFICES ASSUME Right(1), Right(2) PROVE Cardinality(right) = 2
    OBVIOUS
  <2>2. right = 1 .. 2
    BY <2>1
  <2>3. Cardinality(1 .. 2) = 2
    <3>1. 1 .. 2 = {1} \union {2} /\ 2 \notin {1}
      OBVIOUS
    <3>2. IsFiniteSet({1}) /\ Cardinality({1}) = 1
      BY FS_Singleton
    <3>3. Cardinality({1} \union {2}) = Cardinality({1}) + 1
      BY <3>1, <3>2, FS_AddElement, Zenon
    <3>4. QED
      BY <3>1, <3>2, <3>3
  <2>4. QED
    BY <2>2, <2>3
<1>4. (Right(1) \/ Right(2)) /\ ~(Right(1) /\ Right(2)) => Cardinality(right) = 1
  <2>1. SUFFICES ASSUME Right(1) \/ Right(2), ~(Right(1) /\ Right(2))
                 PROVE  Cardinality(right) = 1
    OBVIOUS
  <2>2. right = {1} \/ right = {2}
    BY <2>1
  <2>3. Cardinality({1}) = 1 /\ Cardinality({2}) = 1
    BY FS_Singleton
  <2>4. QED
    BY <2>2, <2>3
<1>5. ~Right(1) /\ ~Right(2) => Cardinality(right) = 0
  <2>1. SUFFICES ASSUME ~Right(1), ~Right(2) PROVE Cardinality(right) = 0
    OBVIOUS
  <2>2. right = {}
    BY <2>1
  <2>3. QED
    BY <2>2, FS_EmptySet
<1>6. /\ v.kind = "dict" /\ Cardinality(right) = 2 => Eval(p, v) = Marks(100, TRUE)
      /\ v.kind = "dict" /\ Cardinality(right) = 1 => Eval(p, v) = Marks(50, FALSE)
      /\ v.kind = "dict" /\ Cardinality(right) = 0 => Eval(p, v) = Marks(0, FALSE)
  <2> HIDE DEF right
  <2>1. /\ 50 * 2 = 100 /\ 50 * 1 = 50 /\ 50 * 0 = 0
        /\ (2 = 2) = TRUE /\ (1 = 2) = FALSE /\ (0 = 2) = FALSE
    OBVIOUS
  <2>2. /\ Marks(50 * 2, 2 = 2) = Marks(100, TRUE)
        /\ Marks(50 * 1, 1 = 2) = Marks(50, FALSE)
        /\ Marks(50 * 0, 0 = 2) = Marks(0, FALSE)
    BY <2>1 DEF Marks
  <2>3. QED
    BY <1>2, <2>2
<1> HIDE DEF right
<1>7. QED
  BY <1>2, <1>3, <1>4, <1>5, <1>6

(* An exception is one outcome, and the marks are out of 100.              *)
LEMMA EvalTyped ==
  ASSUME NEW p, p.task \in ScoredTasks, NEW v, Shaped(v)
  PROVE  /\ Eval(p, v).raised => Eval(p, v) = Raised
         /\ Eval(p, v).marks \in {0, 50, 100}
         /\ Eval(p, v) # NotScored
<1>1. \/ Eval(p, v) = Raised
      \/ Eval(p, v) \in {Marks(0, FALSE), Marks(50, FALSE), Marks(100, TRUE)}
  <2>1. CASE p.task = "detection"
    BY <2>1, Detecting
  <2>2. CASE p.task = "localization"
    <3>1. CASE Eval(p, v).raised
      <4>1. Eval(p, v) = EvalLocalization(p, v)
        BY <2>2, EvalOf
      <4>2. \/ EvalLocalization(p, v) = Raised
            \/ \E n, s : EvalLocalization(p, v) = Marks(n, s)
        BY Zenon DEF EvalLocalization
      <4>3. QED
        BY <3>1, <4>1, <4>2, Outcomes
    <3>2. CASE ~Eval(p, v).raised
      BY <2>2, <3>2, Localizing
    <3>3. QED
      BY <3>1, <3>2
  <2>3. CASE p.task = "analysis"
    <3>1. CASE Eval(p, v).raised
      <4>1. Eval(p, v) = EvalAnalysis(p, v)
        BY <2>3, EvalOf
      <4>2. \/ EvalAnalysis(p, v) = Raised
            \/ \E n, s : EvalAnalysis(p, v) = Marks(n, s)
        BY Zenon DEF EvalAnalysis
      <4>3. QED
        BY <3>1, <4>1, <4>2, Outcomes
    <3>2. CASE ~Eval(p, v).raised
      BY <2>3, <3>2, Analyzing
    <3>3. QED
      BY <3>1, <3>2
  <2>4. QED
    BY <2>1, <2>2, <2>3 DEF ScoredTasks
<1>2. Raised.marks = 0 /\ NotScored.marks = -1
  BY Outcomes
<1>3. Eval(p, v).marks \in {0, 50, 100}
  <2>1. \A x \in {Marks(0, FALSE), Marks(50, FALSE), Marks(100, TRUE)} :
          x.marks \in {0, 50, 100}
    BY KnownOutcomes
  <2>2. QED
    BY <1>1, <1>2, <2>1
<1>4. Eval(p, v) # NotScored
  BY <1>2, <1>3
<1>5. Eval(p, v).raised => Eval(p, v) = Raised
  BY <1>1, KnownOutcomes
<1>6. QED
  BY <1>3, <1>4, <1>5

(* What a submission that is refused leaves is no right answer.            *)
LEMMA RefusedFails ==
  ASSUME NEW p, p.task \in ScoredTasks, NEW v, Refusable(v)
  PROVE  ~Eval(p, v).success
<1>1. Shaped(v)
  BY RefusedShaped
<1>2. v.kind \notin {"str", "dict"}
  BY Constructors DEF Refusable
<1>3. CASE p.task = "detection"
  <2>1. Eval(p, v) = Marks(0, FALSE)
    BY <1>2, <1>3, Detecting
  <2>2. QED
    BY <2>1, KnownOutcomes
<1>4. CASE p.task = "analysis"
  <2>1. Eval(p, v) = Marks(0, FALSE)
    BY <1>2, <1>4, EvalOf DEF EvalAnalysis
  <2>2. QED
    BY <2>1, KnownOutcomes
<1>5. CASE p.task = "localization"
  <2>1. CASE Eval(p, v).raised
    BY <1>1, <1>5, <2>1, EvalTyped, Outcomes
  <2>2. CASE ~Eval(p, v).raised
    <3>1. Len(v.items) # 1 \/ Named(v) = {}
      <4>1. v = None => v.items = <<>>
        BY Constructors
      <4>2. v = List(<<>>) => v.items = <<>>
        BY Constructors
      <4>3. v.items = <<>> => Len(v.items) # 1
        OBVIOUS
      <4>4. v.items = <<v.items[1], v.items[2]>> => Len(v.items) = 2
        BY ElementsOf
      <4>5. QED
        BY <4>1, <4>2, <4>3, <4>4 DEF Refusable
    <3>2. Eval(p, v) \in {Marks(0, FALSE), Marks(50, FALSE)}
      BY <1>1, <1>5, <2>2, <3>1, Localizing
    <3>3. QED
      BY <3>2, KnownOutcomes
  <2>3. QED
    BY <2>1, <2>2
<1>6. QED
  BY <1>3, <1>4, <1>5 DEF ScoredTasks

(* The submission in each form: what is saved, and whether it is accepted. *)
LEMMA Submissions ==
  ASSUME NEW v, NEW form \in {"positional", "empty", "twice", "keyword", "mixed"}
  PROVE  LET call == Arguments(form, v)
             value == Saved(call.args)
         IN  /\ form = "positional" => Performs(call) /\ value = v
             /\ form = "keyword" => Performs(call) /\ value = List(<<>>)
             /\ form = "mixed" => ~Performs(call) /\ value = v
             /\ form \in {"empty", "twice"} => ~Performs(call) /\ Refusable(value)
<1>1. /\ form = "positional" =>
           Arguments(form, v) = [args |-> <<v>>, known |-> 0, unknown |-> 0]
      /\ form = "empty" =>
           Arguments(form, v) = [args |-> <<>>, known |-> 0, unknown |-> 0]
      /\ form = "twice" =>
           Arguments(form, v) = [args |-> <<v, v>>, known |-> 0, unknown |-> 0]
      /\ form = "keyword" =>
           Arguments(form, v) = [args |-> <<>>, known |-> 1, unknown |-> 0]
      /\ form = "mixed" =>
           Arguments(form, v) = [args |-> <<v>>, known |-> 0, unknown |-> 1]
  BY Zenon DEF Arguments
<1>2. Saved(<<v>>) = v
  BY ElementsOf DEF Saved
<1>3. Saved(<<>>) = List(<<>>)
  <2>1. [i \in DOMAIN <<>> |-> Element(<<>>[i])] = <<>>
    OBVIOUS
  <2>2. Len(<<>>) # 1
    OBVIOUS
  <2>3. QED
    BY <2>1, <2>2 DEF Saved
<1>4. Saved(<<v, v>>) = List(<<Element(v), Element(v)>>)
  <2>1. [i \in DOMAIN <<v, v>> |-> Element(<<v, v>>[i])] = <<Element(v), Element(v)>>
    <3>1. DOMAIN <<v, v>> = 1 .. 2
      OBVIOUS
    <3>2. \A i \in 1 .. 2 : Element(<<v, v>>[i]) = Element(v)
      <4>1. \A i \in 1 .. 2 : <<v, v>>[i] = v
        OBVIOUS
      <4>2. QED
        BY <4>1
    <3>3. [i \in 1 .. 2 |-> Element(v)] = <<Element(v), Element(v)>>
      OBVIOUS
    <3>4. QED
      BY <3>1, <3>2, <3>3
  <2>2. Len(<<v, v>>) # 1
    OBVIOUS
  <2>3. QED
    BY <2>1, <2>2 DEF Saved
<1>5. \A a, b : Refusable(List(<<a, b>>))
  BY Constructors DEF Refusable
<1>6. Refusable(List(<<>>))
  BY DEF Refusable
<1>7. CASE form = "positional"
  <2>1. Len(<<v>>) = 1
    OBVIOUS
  <2>2. Arguments(form, v) = [args |-> <<v>>, known |-> 0, unknown |-> 0]
    BY <1>1, <1>7
  <2>3. Arguments(form, v).args = <<v>>
    BY <2>2
  <2>4. Performs(Arguments(form, v))
    BY <2>1, <2>2 DEF Performs
  <2>5. QED
    BY <1>2, <1>7, <2>3, <2>4
<1>8. CASE form = "keyword"
  BY <1>1, <1>3, <1>8 DEF Performs
<1>9. CASE form = "empty"
  BY <1>1, <1>3, <1>6, <1>9 DEF Performs
<1>10. CASE form = "twice"
  BY <1>1, <1>4, <1>5, <1>10, ElementsOf DEF Performs
<1>11. CASE form = "mixed"
  <2>1. Arguments(form, v) = [args |-> <<v>>, known |-> 0, unknown |-> 1]
    BY <1>1, <1>11
  <2>2. Arguments(form, v).args = <<v>> /\ Arguments(form, v).unknown = 1
    BY <2>1
  <2>3. ~Performs(Arguments(form, v))
    BY <2>2 DEF Performs
  <2>4. QED
    BY <1>2, <1>11, <2>2, <2>3
<1>12. QED
  BY <1>7, <1>8, <1>9, <1>10, <1>11
-----------------------------------------------------------------------------
(* The invariant and what follows from it.                                 *)

(* A solution that is scored is a value.                                   *)
LEMMA SolutionShaped ==
  ASSUME ScoringAssumption, TypeOK, SolutionOf
  PROVE  Shaped(solution) /\ problem.task \in ScoredTasks
<1>1. problem.task \in ScoredTasks
  BY ProblemsOfThePool DEF TypeOK
<1>2. CASE accepted \/ written = "mixed"
  <2>1. intended \in Answers(problem)
    BY <1>2 DEF SolutionOf
  <2>2. solution = List(<<>>) \/ solution = intended
    BY <1>2 DEF SolutionOf
  <2>3. QED
    BY <1>1, <2>1, <2>2, AnswersShaped, ConstructorsShaped
<1>3. CASE ~(accepted \/ written = "mixed")
  BY <1>1, <1>3, RefusedShaped DEF SolutionOf
<1>4. QED
  BY <1>2, <1>3

(* The invariant holds at the start.                                       *)
LEMMA InitInv ==
  ASSUME ScoringAssumption, Init
  PROVE  IInv
<1>1. MaxSessions \in Nat /\ MaxSteps \in Nat \ {0}
  BY DEF ScoringAssumption
<1>n. None.kind = "None"
  BY Constructors
<1>2. TypeOK
  <2>1. 0 \in 0 .. MaxSessions /\ 0 \in 0 .. MaxSteps /\ session = 0 /\ 0 \in 0 .. 0
    BY <1>1 DEF Init
  <2>2. {solution.kind, intended.kind} \subseteq {"str", "list", "dict", "int", "None"}
    BY <1>n DEF Init
  <2>3. accepted \in BOOLEAN /\ special \in BOOLEAN
    BY Zenon DEF Init
  <2>4. QED
    BY <2>1, <2>2, <2>3 DEF Init, TypeOK
<1>3. SolutionOf
  BY DEF Init, SolutionOf, Refusable
<1>4. OutcomeOf /\ FaultOf /\ StillOpen
  BY DEF Init, OutcomeOf, FaultOf, StillOpen
<1>5. QED
  BY <1>2, <1>3, <1>4 DEF IInv

(* A round, with what it makes of the solution.                            *)
LEMMA RoundStep ==
  ASSUME ScoringAssumption, IInv, NEW valid \in BOOLEAN, Round(valid),
         solution'.kind \in Kinds, intended'.kind \in Kinds,
         written' \in Forms \union {"none"}, special' \in BOOLEAN, SolutionOf'
  PROVE  IInv'
<1>1. MaxSessions \in Nat /\ MaxSteps \in Nat
  BY DEF ScoringAssumption
<1>2. /\ pc = "dialogue" /\ rounds' = rounds + 1 /\ accepted' = valid
      /\ pc' = IF valid \/ rounds' = MaxSteps THEN "eval" ELSE "dialogue"
      /\ UNCHANGED <<session, problem, outcome, fault, prompted, judged>>
  BY DEF Round
<1>3. /\ session \in 0 .. MaxSessions /\ problem \in Pool
      /\ rounds \in 0 .. MaxSteps
      /\ fault \in {"none", "present", "expired"}
      /\ prompted \in 0 .. session /\ judged \in 0 .. session
  BY DEF IInv, TypeOK
<1>4. outcome = NotScored /\ rounds < MaxSteps
  BY <1>2 DEF IInv, OutcomeOf, StillOpen
<1>5. rounds' \in 0 .. MaxSteps /\ pc' \in {"idle", "dialogue", "eval"}
  BY <1>1, <1>2, <1>3, <1>4
<1>6. TypeOK'
  BY <1>2, <1>3, <1>4, <1>5 DEF TypeOK, Kinds
<1>7. OutcomeOf'
  BY <1>2, <1>4 DEF OutcomeOf
<1>8. FaultOf'
  BY <1>2 DEF IInv, FaultOf
<1>9. StillOpen'
  BY <1>1, <1>2, <1>3, <1>4 DEF StillOpen
<1>10. QED
  BY <1>6, <1>7, <1>8, <1>9 DEF IInv

(* A submission makes the solution what SolutionOf says.                   *)
LEMMA SubmitStep ==
  ASSUME ScoringAssumption, IInv, NEW form \in Forms,
         NEW v \in Answers(problem), Submit(form, v)
  PROVE  IInv'
<1> DEFINE call == Arguments(form, v)
<1>1. /\ Round(Performs(call))
      /\ solution' = Saved(call.args) /\ intended' = v
      /\ written' = form /\ special' = special
  BY DEF Submit
<1>2. form \in {"positional", "empty", "twice", "keyword", "mixed"}
  BY DEF ScoringAssumption
<1>3. /\ form = "positional" => Performs(call) /\ solution' = v
      /\ form = "keyword" => Performs(call) /\ solution' = List(<<>>)
      /\ form = "mixed" => ~Performs(call) /\ solution' = v
      /\ form \in {"empty", "twice"} => ~Performs(call) /\ Refusable(solution')
  BY <1>1, <1>2, Submissions
<1>4. problem.task \in ScoredTasks
  BY ProblemsOfThePool DEF IInv, TypeOK
<1>5. v.kind \in Kinds
  BY <1>4, AnswersShaped DEF Shaped
<1>6. accepted' = Performs(call) /\ problem' = problem
  BY <1>1 DEF Round
<1>7. SolutionOf'
  <2>1. CASE form = "positional"
    BY <1>1, <1>3, <1>6, <2>1 DEF SolutionOf
  <2>2. CASE form = "keyword"
    BY <1>1, <1>3, <1>6, <2>2 DEF SolutionOf
  <2>3. CASE form \in {"empty", "twice"}
    BY <1>1, <1>3, <1>6, <2>3 DEF SolutionOf
  <2>4. CASE form = "mixed"
    BY <1>1, <1>3, <1>6, <2>4 DEF SolutionOf
  <2>5. QED
    BY <1>2, <2>1, <2>2, <2>3, <2>4
<1>8. solution'.kind \in Kinds
  <2>1. Refusable(solution') => solution'.kind \in Kinds
    BY RefusedShaped DEF Shaped
  <2>2. List(<<>>).kind \in Kinds
    BY Constructors DEF Kinds
  <2>3. QED
    BY <1>2, <1>3, <1>5, <2>1, <2>2
<1>9. Performs(call) \in BOOLEAN
  BY DEF Performs
<1>10. written' \in Forms \union {"none"} /\ special' \in BOOLEAN
  BY <1>1 DEF IInv, TypeOK
<1>11. QED
  BY <1>1, <1>5, <1>7, <1>8, <1>9, <1>10, RoundStep

(* Every step keeps the invariant.                                         *)
LEMMA StepInv ==
  ASSUME ScoringAssumption, IInv, [Next]_vars
  PROVE  IInv'
<1>0. MaxSessions \in Nat /\ MaxSteps \in Nat \ {0} /\ Qualitative \in BOOLEAN
  BY DEF ScoringAssumption
<1>t. TypeOK /\ SolutionOf /\ OutcomeOf /\ FaultOf /\ StillOpen
  BY DEF IInv
<1>s. Shaped(solution) /\ problem.task \in ScoredTasks
  BY <1>t, SolutionShaped
<1>e. /\ Eval(problem, solution).raised => Eval(problem, solution) = Raised
      /\ Eval(problem, solution).marks \in 0 .. 100
      /\ Eval(problem, solution) # NotScored
  BY <1>s, EvalTyped
<1>r. Raised.marks = 0 /\ Raised # NotScored
  BY Outcomes
<1>1. ASSUME NEW p \in Pool, Begin(p)
      PROVE  IInv'
  <2>n. None.kind = "None"
    BY Constructors
  <2>a. /\ session \in 0 .. MaxSessions /\ session < MaxSessions
        /\ session' = session + 1 /\ pc' = "dialogue" /\ problem' = p
        /\ rounds' = 0 /\ solution' = None /\ intended' = None
        /\ outcome' = NotScored
        /\ fault' = FaultIn(p) /\ fault' \in {"none", "present"}
        /\ written' = "none"
        /\ UNCHANGED <<prompted, judged>>
        /\ prompted \in 0 .. session /\ judged \in 0 .. session
    BY <1>1, <1>t DEF Begin, FaultIn, TypeOK
  <2>b. /\ session' \in 0 .. MaxSessions /\ 0 \in 0 .. MaxSteps
        /\ prompted' \in 0 .. session' /\ judged' \in 0 .. session'
    BY <1>0, <2>a
  <2>c. accepted' \in BOOLEAN /\ special' \in BOOLEAN
    BY <1>1, Zenon DEF Begin
  <2>1. TypeOK'
    BY <2>a, <2>b, <2>c, <2>n DEF TypeOK
  <2>2. SolutionOf'
    BY <1>1 DEF Begin, SolutionOf, Refusable
  <2>3. OutcomeOf' /\ FaultOf' /\ StillOpen'
    BY <1>0, <1>1 DEF Begin, OutcomeOf, FaultOf, StillOpen
  <2>4. QED
    BY <2>1, <2>2, <2>3 DEF IInv
<1>2. CASE Work
  <2>1. Round(FALSE) /\ UNCHANGED <<solution, intended, written>>
    BY <1>2 DEF Work
  <2>s. special' \in BOOLEAN
    BY <1>2, <1>t DEF Work, TypeOK
  <2>2. ~accepted /\ pc = "dialogue"
    BY <2>1, <1>t DEF StillOpen, Round
  <2>3. SolutionOf'
    BY <2>1, <2>2, <1>t DEF SolutionOf, Round
  <2>4. /\ solution'.kind \in Kinds /\ intended'.kind \in Kinds
        /\ written' \in Forms \union {"none"}
    BY <2>1, <1>t DEF TypeOK, Kinds
  <2>5. QED
    BY <2>1, <2>3, <2>4, <2>s, RoundStep
<1>3. CASE \E form \in Forms : \E v \in Answers(problem) : Submit(form, v)
  BY <1>3, SubmitStep
<1>4. CASE Expire
  <2>1. TypeOK'
    BY <1>4, <1>t DEF Expire, TypeOK, dialogue
  <2>2. SolutionOf' /\ OutcomeOf' /\ StillOpen'
    BY <1>4, <1>t DEF Expire, SolutionOf, OutcomeOf, StillOpen, dialogue
  <2>3. FaultOf'
    BY <1>4, <1>t DEF Expire, FaultOf, dialogue
  <2>4. QED
    BY <2>1, <2>2, <2>3 DEF IInv
<1>5. CASE Evaluate
  <2>1. /\ pc = "eval" /\ pc' = "idle"
        /\ outcome' = IF special THEN Raised ELSE Eval(problem, solution)
        /\ UNCHANGED <<session, problem, dialogue, fault>>
    BY <1>5 DEF Evaluate
  <2>2. prompted' \in 0 .. session /\ judged' \in 0 .. session
    BY <1>5, <1>t DEF Evaluate, TypeOK
  <2>3. TypeOK'
    BY <2>1, <2>2, <1>e, <1>r, <1>t DEF TypeOK, dialogue
  <2>4. SolutionOf' /\ StillOpen'
    BY <2>1, <1>t DEF SolutionOf, StillOpen, dialogue
  <2>5. OutcomeOf' /\ FaultOf'
    BY <2>1, <1>t DEF OutcomeOf, FaultOf, dialogue
  <2>6. QED
    BY <2>3, <2>4, <2>5 DEF IInv
<1>6. CASE JudgeRaises
  <2>1. /\ pc = "eval" /\ pc' = "idle" /\ Qualitative
        /\ outcome' = Raised
        /\ UNCHANGED <<session, problem, dialogue, fault, judged>>
    BY <1>6 DEF JudgeRaises
  <2>2. prompted' \in 0 .. session
    BY <1>6, <1>t DEF JudgeRaises, TypeOK
  <2>3. TypeOK'
    BY <2>1, <2>2, <1>r, <1>t DEF TypeOK, dialogue
  <2>4. SolutionOf' /\ StillOpen'
    BY <2>1, <1>t DEF SolutionOf, StillOpen, dialogue
  <2>5. OutcomeOf' /\ FaultOf'
    BY <2>1, <1>t DEF OutcomeOf, FaultOf, dialogue
  <2>6. QED
    BY <2>3, <2>4, <2>5 DEF IInv
<1>7. CASE UNCHANGED vars
  <2>1. UNCHANGED <<session, pc, problem, rounds, solution, accepted, intended,
                    written, special, outcome, fault, prompted, judged>>
    BY <1>7 DEF vars, dialogue
  <2>2. TypeOK'
    BY <2>1, <1>t DEF TypeOK
  <2>3. SolutionOf' /\ StillOpen' /\ OutcomeOf' /\ FaultOf'
    BY <2>1, <1>t DEF SolutionOf, StillOpen, OutcomeOf, FaultOf
  <2>4. QED
    BY <2>2, <2>3 DEF IInv
<1>8. QED
  BY <1>1, <1>2, <1>3, <1>4, <1>5, <1>6, <1>7 DEF Next

(* The marks follow the answer: for localization,                          *)
LEMMA MarksMatch ==
  ASSUME ScoringAssumption, IInv
  PROVE  MarksMatchAnswer
<1>t. TypeOK /\ SolutionOf /\ OutcomeOf
  BY DEF IInv
<1>s. Shaped(solution) /\ problem.task \in ScoredTasks
  BY <1>t, SolutionShaped
<1>o. Scored => outcome = Eval(problem, solution) /\ ~Eval(problem, solution).raised
  BY <1>t, Outcomes DEF Scored, OutcomeOf
<1> DEFINE found == Named(solution) \intersect Alias(problem) # {}
           alone == Len(solution.items) = 1
<1>1. ASSUME Scored, problem.task = "localization"
      PROVE  /\ outcome.success <=> found /\ alone
             /\ outcome.success <=> outcome.marks = 100
             /\ found <=> outcome.marks > 0
  <2>1. /\ ~found => outcome = Marks(0, FALSE)
        /\ found /\ alone => outcome = Marks(100, TRUE)
        /\ found /\ ~alone => outcome = Marks(50, FALSE)
    BY <1>1, <1>o, <1>s, Localizing
  <2>2. CASE ~found
    <3>1. outcome.marks = 0 /\ ~outcome.success
      BY <2>1, <2>2, KnownOutcomes
    <3>2. QED
      BY <2>2, <3>1
  <2>3. CASE found /\ alone
    <3>1. outcome.marks = 100 /\ outcome.success
      BY <2>1, <2>3, KnownOutcomes
    <3>2. QED
      BY <2>3, <3>1
  <2>4. CASE found /\ ~alone
    <3>1. outcome.marks = 50 /\ ~outcome.success
      BY <2>1, <2>4, KnownOutcomes
    <3>2. QED
      BY <2>4, <3>1
  <2>5. QED
    BY <2>2, <2>3, <2>4
<1>2. ASSUME Scored, problem.task = "analysis"
      PROVE  outcome.success <=>
               /\ solution.kind = "dict"
               /\ Lower(solution.items[1]) = problem.family.cause[1]
               /\ solution.items[2] = problem.family.cause[2]
  <2> DEFINE Right(i) == Lower(solution.items[i]) = problem.family.cause[i]
  <2>1. /\ solution.kind # "dict" => outcome = Marks(0, FALSE)
        /\ solution.kind = "dict" /\ Right(1) /\ Right(2) =>
             outcome = Marks(100, TRUE)
        /\ solution.kind = "dict" /\ (Right(1) \/ Right(2))
               /\ ~(Right(1) /\ Right(2)) => outcome = Marks(50, FALSE)
        /\ solution.kind = "dict" /\ ~Right(1) /\ ~Right(2) =>
             outcome = Marks(0, FALSE)
    BY <1>2, <1>o, Analyzing
  <2>2. outcome.success <=> solution.kind = "dict" /\ Right(1) /\ Right(2)
    BY <2>1, KnownOutcomes
  <2>3. solution.kind = "dict" =>
          (Right(2) <=> solution.items[2] = problem.family.cause[2])
    <3>1. SUFFICES ASSUME solution.kind = "dict"
                   PROVE  Lower(solution.items[2]) = solution.items[2]
                            /\ Lower(problem.family.cause[2]) = problem.family.cause[2]
      OBVIOUS
    <3>2. problem.family \in Catalogue
      BY <1>t, ProblemsOfThePool DEF TypeOK
    <3>3. Lower(problem.family.cause[2]) = problem.family.cause[2]
      BY <3>2, CatalogueFits DEF Fits
    <3>4. ~Refusable(solution) /\ List(<<>>).kind = "list"
      BY <3>1, Constructors DEF Refusable
    <3>5. solution \in AnalysisAnswers(problem)
      BY <1>2, <1>t, <3>1, <3>4, AnswersOf DEF SolutionOf
    <3>6. solution.items[2] \in {problem.family.cause[2], "Code Defect", ""}
      <4> DEFINE levels == {"Application", "application ", "Virtualization", "#"}
                 types == {problem.family.cause[2], "Code Defect", ""}
      <4>1. solution # Str("Application")
        BY <3>1, Constructors
      <4>2. solution \in {Dict(q[1], q[2]) : q \in levels \X types}
        BY <3>5, <4>1, Zenon DEF AnalysisAnswers
      <4>3. PICK a \in levels, b \in types : solution = Dict(a, b)
        BY <4>2
      <4>4. solution.items = <<a, b>>
        BY <4>3, Constructors
      <4>5. solution.items[2] = b
        <5>1. <<a, b>>[2] = b
          OBVIOUS
        <5>2. QED
          BY <4>4, <5>1, Zenon
      <4>6. QED
        BY <4>5
    <3>7. Lower("Code Defect") = "Code Defect" /\ Lower("") = ""
      BY Lowered DEF FaultTypes
    <3>8. QED
      BY <3>3, <3>6, <3>7
  <2>4. QED
    BY <2>2, <2>3
<1>3. QED
  BY <1>1, <1>2 DEF MarksMatchAnswer

(* A success is one of the submission that was accepted.                   *)
LEMMA SubmissionDecided ==
  ASSUME ScoringAssumption, IInv
  PROVE  SubmissionDecides
<1>t. TypeOK /\ SolutionOf /\ OutcomeOf
  BY DEF IInv
<1>s. problem.task \in ScoredTasks
  BY <1>t, SolutionShaped
<1>o. Scored => outcome = Eval(problem, solution)
  BY <1>t, Outcomes DEF Scored, OutcomeOf
<1>1. OnlyAcceptedSucceeds
  <2>1. ~(accepted \/ written = "mixed") => ~Eval(problem, solution).success
    BY <1>s, <1>t, RefusedFails DEF SolutionOf
  <2>2. QED
    BY <1>o, <2>1 DEF OnlyAcceptedSucceeds
<1>2. ScoredAsSubmitted
  BY <1>t DEF ScoredAsSubmitted, SolutionOf
<1>3. QED
  BY <1>1, <1>2 DEF SubmissionDecides

(* What raises does so for what was submitted, or in the judge.            *)
LEMMA RaiseExplained ==
  ASSUME ScoringAssumption, IInv
  PROVE  RaisesExplained
<1>t. TypeOK /\ SolutionOf /\ OutcomeOf
  BY DEF IInv
<1>s. Shaped(solution) /\ problem.task \in ScoredTasks
  BY <1>t, SolutionShaped
<1>1. SUFFICES ASSUME outcome.raised, ~special, ~Qualitative
               PROVE  \/ problem.task = "localization"
                           /\ (solution.kind = "int" \/ "[]" \in ToSet(solution.items))
                      \/ problem.task = "analysis" /\ "#" \in ToSet(solution.items)
  BY DEF RaisesExplained
<1>2. outcome = Eval(problem, solution) /\ Eval(problem, solution).raised
  BY <1>1, <1>t, Outcomes DEF OutcomeOf
<1>3. problem.task # "detection"
  <2>1. SUFFICES ASSUME problem.task = "detection" PROVE FALSE
    OBVIOUS
  <2>2. outcome \in {Marks(100, TRUE), Marks(0, FALSE)}
    BY <1>2, <2>1, Detecting
  <2>3. QED
    BY <1>1, <2>2, KnownOutcomes
<1>4. CASE problem.task = "localization"
  <2>1. EvalLocalization(problem, solution).raised
    BY <1>2, <1>4, EvalOf
  <2>2. ~SetRaises(solution) =>
          \E n, s : EvalLocalization(problem, solution) = Marks(n, s)
    BY Zenon DEF EvalLocalization
  <2>3. SetRaises(solution)
    BY <2>1, <2>2, Outcomes
  <2>4. QED
    BY <1>4, <2>3 DEF SetRaises
<1>5. CASE problem.task = "analysis"
  <2>1. EvalAnalysis(problem, solution).raised
    BY <1>2, <1>5, EvalOf
  <2>2. ~(solution.kind = "dict" /\ \E i \in 1 .. 2 : solution.items[i] = "#") =>
          \E n, s : EvalAnalysis(problem, solution) = Marks(n, s)
    BY Zenon DEF EvalAnalysis
  <2>3. solution.kind = "dict" /\ \E i \in 1 .. 2 : solution.items[i] = "#"
    BY <2>1, <2>2, Outcomes
  <2>4. PICK a, b : solution.items = <<a, b>>
    BY <1>s, <2>3 DEF Shaped
  <2>5. a = "#" \/ b = "#"
    BY <2>3, <2>4
  <2>6. QED
    BY <1>5, <2>4, <2>5, ElementsOf
<1>6. QED
  BY <1>3, <1>4, <1>5, <1>s DEF ScoredTasks

(* A detection is marked by what is in the cluster.                        *)
LEMMA DetectionTruthful ==
  ASSUME ScoringAssumption, IInv
  PROVE  TruthfulWhileItLasts
<1>t. TypeOK /\ SolutionOf /\ OutcomeOf /\ FaultOf
  BY DEF IInv
<1>1. SUFFICES ASSUME Scored, problem.task = "detection", fault # "expired",
                      solution.kind = "str"
               PROVE  outcome.success <=>
                        (Lower(solution.items[1]) = "yes")
                          = (fault = "present"
                               \/ problem.family.fault = "app_misconfig")
  BY DEF TruthfulWhileItLasts
<1>2. outcome = Eval(problem, solution)
  BY <1>1, <1>t, Outcomes DEF Scored, OutcomeOf
<1>3. outcome.success <=> Lower(solution.items[1]) = problem.family.answer
  <2> DEFINE answer == Lower(solution.items[1]) = problem.family.answer
  <2>1. CASE answer
    <3>1. outcome = Marks(100, TRUE)
      BY <1>1, <1>2, <2>1, Detecting
    <3>2. QED
      BY <2>1, <3>1, KnownOutcomes
  <2>2. CASE ~answer
    <3>1. outcome = Marks(0, FALSE)
      BY <1>1, <1>2, <2>2, Detecting
    <3>2. QED
      BY <2>2, <3>1, KnownOutcomes
  <2>3. QED
    BY <2>1, <2>2
<1>4. Lower(solution.items[1]) \in {"yes", "no"}
  <2>1. ~Refusable(solution) /\ List(<<>>).kind = "list"
    BY <1>1, Constructors DEF Refusable
  <2>2. solution \in DetectionAnswers
    BY <1>1, <1>t, <2>1, AnswersOf DEF SolutionOf
  <2>3. solution \in {Str("Yes"), Str("YES "), Str("No")}
    BY <1>1, <2>2, Constructors DEF DetectionAnswers
  <2>4. solution.items[1] \in {"Yes", "YES ", "No"}
    <3>1. \A s : Str(s).items = <<s>>
      BY Constructors
    <3>2. \A s : Str(s).items[1] = s
      BY <3>1
    <3>3. QED
      BY <2>3, <3>2
  <2>5. QED
    BY <2>4, Lowered
<1>5. problem.family.answer = IF problem.family.fault = "no_op" THEN "no" ELSE "yes"
  <2>1. problem.family \in Catalogue
    BY <1>t, ProblemsOfThePool DEF TypeOK
  <2>2. QED
    BY <2>1, CatalogueFits DEF Fits
<1>6. problem.family.fault # "no_op" <=>
        fault = "present" \/ problem.family.fault = "app_misconfig"
  BY <1>1, <1>t DEF Scored, FaultOf, FaultIn, TypeOK
<1>7. QED
  BY <1>3, <1>4, <1>5, <1>6

-----------------------------------------------------------------------------
(* The theorems about sessions of one process, with the judge or without.  *)

(* The invariant is one: what the session keeps of a dialogue is what eval *)
(* and the judge go by.                                                    *)
THEOREM Invariance ==
  ASSUME ScoringAssumption
  PROVE  Spec => []IInv
<1>1. Init => IInv
  BY InitInv
<1>2. IInv /\ [Next]_vars => IInv'
  BY StepInv
<1>3. QED
  BY <1>1, <1>2, PTL DEF Spec

(* The types: marks are out of 100, and the dialogue has at most MaxSteps  *)
(* rounds (orchestrator.py:190).                                           *)
THEOREM ScoringTypes ==
  ASSUME ScoringAssumption
  PROVE  Spec => []TypeOK
<1>1. IInv => TypeOK
  BY DEF IInv
<1>2. QED
  BY <1>1, Invariance, PTL

(* A success names the fault and nothing else, part marks say that it is   *)
(* among what was named, and an analysis is right in both entries          *)
(* (quantitative.py:31, mongodb_auth_missing.py:139).                      *)
THEOREM MarksAreFair ==
  ASSUME ScoringAssumption
  PROVE  Spec => []MarksMatchAnswer
<1>1. IInv => MarksMatchAnswer
  BY MarksMatch
<1>2. QED
  BY <1>1, Invariance, PTL

(* The submission that was accepted decides, whatever was refused before   *)
(* it (orchestrator.py:125); one that mixes a value with a keyword too     *)
(* many is refused, and decides when it was the last (parser.py:151,       *)
(* orchestrator.py:187).                                                   *)
THEOREM LastSubmissionDecides ==
  ASSUME ScoringAssumption
  PROVE  Spec => []SubmissionDecides
<1>1. IInv => SubmissionDecides
  BY SubmissionDecided
<1>2. QED
  BY <1>1, Invariance, PTL

(* eval raises for a value it cannot take, for a special token in what the *)
(* environment answered, or in the judge (quantitative.py:33,61,           *)
(* qualitative.py:29).                                                     *)
THEOREM RaisesAreExplained ==
  ASSUME ScoringAssumption
  PROVE  Spec => []RaisesExplained
<1>1. IInv => RaisesExplained
  BY RaiseExplained
<1>2. QED
  BY <1>1, Invariance, PTL

(* While the experiment lasts, a detection is marked by what is in the     *)
(* cluster (network_loss.py:67), but for the generated problems, which put *)
(* nothing there and expect "yes" (generators/fault/base.py:67).           *)
THEOREM DetectionsAreTruthful ==
  ASSUME ScoringAssumption
  PROVE  Spec => []TruthfulWhileItLasts
<1>1. IInv => TruthfulWhileItLasts
  BY DetectionTruthful
<1>2. QED
  BY <1>1, Invariance, PTL

(* "Generate a 1-10 score based on the agent's response to a task"         *)
(* (qualitative.py:27): a process that runs one problem judges it on its   *)
(* own trace, as the one prompt is still fresh; the second problem is what *)
(* it takes to be wrong.                                                   *)
THEOREM OneSessionJudgedOnItsTrace ==
  ASSUME ScoringAssumption, MaxSessions = 1
  PROVE  Spec => JudgedOnOwnTrace
<1>1. ASSUME IInv, Next, pc = "eval", pc' = "idle", Qualitative, ~outcome'.raised
      PROVE  judged' = session
  <2>1. session \in 0 .. 1 /\ prompted \in 0 .. session
    BY <1>1 DEF IInv, TypeOK
  <2>2. CASE \E p \in Pool : Begin(p)
    BY <1>1, <2>2 DEF Begin
  <2>3. CASE Work
    BY <1>1, <2>3 DEF Work, Round
  <2>4. CASE \E form \in Forms : \E v \in Answers(problem) : Submit(form, v)
    BY <1>1, <2>4 DEF Submit, Round
  <2>5. CASE Expire
    BY <1>1, <2>5 DEF Expire
  <2>6. CASE Evaluate
    <3>1. /\ prompted' = IF prompted = 0 THEN session ELSE prompted
          /\ judged' = prompted'
      BY <1>1, <2>6 DEF Evaluate
    <3>2. QED
      BY <2>1, <3>1
  <2>7. CASE JudgeRaises
    <3>1. outcome' = Raised
      BY <2>7 DEF JudgeRaises
    <3>2. Raised.raised
      BY Zenon DEF Raised
    <3>3. outcome'.raised
      BY <3>1, <3>2, Zenon
    <3>4. QED
      BY <1>1, <3>3, Zenon
  <2>8. QED
    BY <1>1, <2>2, <2>3, <2>4, <2>5, <2>6, <2>7 DEF Next
<1>2. IInv /\ [Next]_vars =>
        [pc = "eval" /\ pc' = "idle" /\ Qualitative /\ ~outcome'.raised
           => judged' = session]_vars
  BY <1>1
<1>3. QED
  BY <1>2, Invariance, PTL DEF Spec, JudgedOnOwnTrace

=============================================================================
