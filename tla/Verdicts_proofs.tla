--------------------------- MODULE Verdicts_proofs ---------------------------
(***************************************************************************)
(* Proofs about what an agent is shown and how it is judged: the evals of  *)
(* mitigations and the onboarding evaluator, for any problems, rounds,     *)
(* polls and failing calls; about the shortening of logs, of any length    *)
(* and for any window; then about these and the scoring of answers, with   *)
(* the judge and without (see Scoring_proofs), in one specification.       *)
(***************************************************************************)
EXTENDS Verdicts, Scoring_proofs, WellFoundedInduction

(* The proofs about Scoring, for the sessions that have the judge.         *)
TS == INSTANCE Scoring_proofs WITH
  Pool <- JudgedPool, MaxSteps <- JudgedSteps, MaxSessions <- JudgedSessions,
  Qualitative <- TRUE

-----------------------------------------------------------------------------
(* The evals of mitigations.                                               *)

(* What the fields of a pod come to: a pod that is ready does not wait and *)
(* has not ended.                                                          *)
LEMMA ReadyPods ==
  /\ \A check : ~Mitigation!Abnormal(check, "ready")
  /\ \A check, s : check # "binary" /\ ~Mitigation!Abnormal(check, s)
       => Mitigation!Ready(s)
<1>1. Mitigation!Waiting("ready") = "no"
        /\ Mitigation!Terminated("ready") = "no"
  BY Zenon DEF Mitigation!Waiting, Mitigation!Terminated
<1>2. QED
  BY <1>1 DEF Mitigation!Abnormal, Mitigation!Ready

(* What the loop over the pods says of them.                               *)
LEMMA ScanSays ==
  ASSUME NEW check, NEW pods \in Seq(Mitigation!PodStates),
           Len(pods) \in 0 .. 4,
         NEW good \in BOOLEAN
  PROVE  /\ Mitigation!Scan(check, pods, good)
              \in {"success", "failure", "raised"}
         /\ Mitigation!Scan(check, pods, good) = "success" =>
              /\ good
              /\ \A i \in DOMAIN pods :
                   /\ Mitigation!HasStatuses(pods[i])
                        \/ Mitigation!Guarded(check)
                   /\ Mitigation!HasStatuses(pods[i])
                        => ~Mitigation!Abnormal(check, pods[i])
         /\ Mitigation!Scan(check, pods, good) = "failure" =>
              \/ ~good
              \/ \E i \in DOMAIN pods : Mitigation!Abnormal(check, pods[i])
         /\ Mitigation!Scan(check, pods, good) = "raised" =>
              \E i \in DOMAIN pods : ~Mitigation!HasStatuses(pods[i])
                /\ ~Mitigation!Guarded(check)
<1> DEFINE Blind(i) == ~Mitigation!HasStatuses(pods[i])
             /\ ~Mitigation!Guarded(check)
           Stop(i) == \/ ~good
                      \/ Blind(i)
                      \/ Mitigation!HasStatuses(pods[i])
                           /\ Mitigation!Abnormal(check, pods[i])
           stops == {i \in DOMAIN pods : Stop(i)}
           says == IF stops = {} THEN IF good THEN "success" ELSE "failure"
                   ELSE IF Blind(Mitigation!Min(stops)) THEN "raised"
                     ELSE "failure"
<1>1. Mitigation!Scan(check, pods, good) = says
  BY Zenon DEF Mitigation!Scan
<1>2. stops # {} => Mitigation!Min(stops) \in stops
  <2>1. SUFFICES ASSUME stops # {} PROVE Mitigation!Min(stops) \in stops
    OBVIOUS
  <2>2. stops \subseteq 1 .. 4
    OBVIOUS
  <2>3. \E k \in stops : \A m \in stops : k <= m
    <3> HIDE DEF stops
    <3>1. CASE 1 \in stops
      BY <2>2, <3>1
    <3>2. CASE 1 \notin stops /\ 2 \in stops
      BY <2>2, <3>2
    <3>3. CASE 1 \notin stops /\ 2 \notin stops /\ 3 \in stops
      BY <2>2, <3>3
    <3>4. CASE 1 \notin stops /\ 2 \notin stops /\ 3 \notin stops
      <4>1. PICK k \in stops : TRUE
        BY <2>1
      <4>2. \A m \in stops : m = 4
        BY <2>2, <3>4
      <4>3. QED
        BY <4>1, <4>2
    <3>5. QED
      BY <3>1, <3>2, <3>3, <3>4
  <2> HIDE DEF stops
  <2>4. QED
    BY <2>3, Zenon DEF Mitigation!Min
<1>3. stops = {} => \A i \in DOMAIN pods : ~Stop(i)
  OBVIOUS
<1>4. stops # {} => Mitigation!Min(stops) \in DOMAIN pods
        /\ Stop(Mitigation!Min(stops))
  BY <1>2
<1> HIDE DEF stops
<1>5. QED
  BY <1>1, <1>3, <1>4

(* The pods listed, the faulty service's between two others.               *)
LEMMA Listed ==
  ASSUME Mitigation!TypeOK
  PROVE  /\ Mitigation!List \in Seq(Mitigation!PodStates)
         /\ Len(Mitigation!List) \in 2 .. 4
         /\ Mitigation!List # <<>>
<1>1. <<m_others[1]>> \in Seq(Mitigation!PodStates)
        /\ <<m_others[2]>> \in Seq(Mitigation!PodStates)
  BY DEF Mitigation!TypeOK
<1>2. m_mine \in Seq(Mitigation!PodStates) /\ Len(m_mine) \in 0 .. 2
  BY DEF Mitigation!TypeOK
<1>3. /\ <<m_others[1]>> \o m_mine \in Seq(Mitigation!PodStates)
      /\ Len(<<m_others[1]>> \o m_mine) = 1 + Len(m_mine)
  BY <1>1, <1>2
<1>4. /\ Mitigation!List \in Seq(Mitigation!PodStates)
      /\ Len(Mitigation!List) = 2 + Len(m_mine)
  BY <1>1, <1>2, <1>3 DEF Mitigation!List
<1>5. Len(Mitigation!List) \in 2 .. 4
  <2>1. Len(m_mine) = 0 \/ Len(m_mine) = 1 \/ Len(m_mine) = 2
    BY <1>2
  <2>2. Len(Mitigation!List) = 2 \/ Len(Mitigation!List) = 3
          \/ Len(Mitigation!List) = 4
    <3>1. \A m, n : n = 2 + m /\ (m = 0 \/ m = 1 \/ m = 2) =>
                      n = 2 \/ n = 3 \/ n = 4
      OBVIOUS
    <3>2. QED
      BY <1>4, <2>1, <3>1, Zenon
  <2>3. \A n : n = 2 \/ n = 3 \/ n = 4 => n \in 2 .. 4
    OBVIOUS
  <2>4. QED
    BY <2>2, <2>3, Zenon
<1>6. Mitigation!List # <<>>
  BY <1>4, <1>5
<1>7. QED
  BY <1>4, <1>5, <1>6

(* Pods that are replaced wait for a node.                                 *)
LEMMA Replaced ==
  ASSUME NEW p, NEW v \in {"faulty", "right", "other"},
           NEW s \in Mitigation!PodStates
  PROVE  /\ [i \in 1 .. Mitigation!Replicas(p, v) |-> s]
              \in Seq(Mitigation!PodStates)
         /\ Len([i \in 1 .. Mitigation!Replicas(p, v) |-> s]) \in 0 .. 2
         /\ p.family.check # "replicas"
              => [i \in 1 .. Mitigation!Replicas(p, v) |-> s] # <<>>
<1>1. \/ Mitigation!Replicas(p, v) = 1
      \/ p.family.check = "replicas"
           /\ (Mitigation!Replicas(p, v) = 0 \/ Mitigation!Replicas(p, v) = 2)
  BY Zenon DEF Mitigation!Replicas
<1>2. ASSUME NEW n \in 0 .. 2
      PROVE  /\ [i \in 1 .. n |-> s] \in Seq(Mitigation!PodStates)
             /\ Len([i \in 1 .. n |-> s]) = n
  BY <1>2
<1>3. CASE Mitigation!Replicas(p, v) = 1
  BY <1>2, <1>3
<1>4. CASE p.family.check = "replicas"
             /\ (Mitigation!Replicas(p, v) = 0 \/ Mitigation!Replicas(p, v) = 2)
  BY <1>2, <1>4
<1>5. QED
  BY <1>1, <1>3, <1>4

(* Who evaluates an answer leaves the cluster alone.                       *)
LEMMA EndStep ==
  ASSUME Mitigation!IInv, NEW v \in {"success", "failure", "raised"},
           Mitigation!Ends(v),
         m_errors' \in 0 .. MaxErrors,
         m_trace' \in {"plain", "special", "unjudged"},
         v # "raised" => m_trace' = "plain",
         v = "success" =>
           /\ Mitigation!Check \in {"port", "replicas", "binary"}
                => m_exists /\ m_value = "right"
           /\ Mitigation!Check # "binary" =>
                /\ Mitigation!Check \in {"pods", "replicas", "wait"}
                     => Mitigation!AllReady(Mitigation!List)
                /\ \A i \in DOMAIN Mitigation!List :
                     Mitigation!HasStatuses(Mitigation!List[i])
                       => Mitigation!Ready(Mitigation!List[i]),
         v = "failure" =>
           \/ ~Mitigation!AllReady(Mitigation!List)
           \/ m_value # "right" \/ ~m_exists
           \/ m_errors' > 0
           \/ Mitigation!Check = "replicas" /\ ~m_normal,
         v = "raised" =>
           \/ m_trace' # "plain"
           \/ m_errors' > 0
           \/ ~m_exists /\ Mitigation!Check \in {"port", "replicas"}
           \/ ~Mitigation!Guarded(Mitigation!Check)
                /\ \E i \in DOMAIN Mitigation!List :
                     ~Mitigation!HasStatuses(Mitigation!List[i])
  PROVE  Mitigation!IInv'
<1>1. /\ m_pc' = "done" /\ m_verdict' = v
      /\ UNCHANGED <<m_problem, m_value, m_exists, m_mine, m_others, m_normal,
                     m_polls, m_actions>>
  BY DEF Mitigation!Ends, Mitigation!cluster
<1>2. Mitigation!Check' = Mitigation!Check /\ Mitigation!List' = Mitigation!List
  BY <1>1 DEF Mitigation!Check, Mitigation!List
<1>3. Mitigation!TypeOK'
  BY <1>1 DEF Mitigation!IInv, Mitigation!TypeOK
<1>4. Mitigation!ReadIsRight' /\ Mitigation!AttributeOf'
        /\ Mitigation!PodsOf' /\ Mitigation!VerdictLast'
  BY <1>1, <1>2
     DEF Mitigation!IInv, Mitigation!ReadIsRight, Mitigation!AttributeOf,
         Mitigation!PodsOf, Mitigation!VerdictLast
<1>5. Mitigation!SuccessIsEarned'
  BY <1>1, <1>2
     DEF Mitigation!SuccessIsEarned, Mitigation!SuccessMeansRepaired,
         Mitigation!SuccessMeansReady
<1>6. Mitigation!NegativeHasReason'
  BY <1>1, <1>2
     DEF Mitigation!NegativeHasReason, Mitigation!FailureHasReason,
         Mitigation!RaiseHasReason
<1>7. QED
  BY <1>3, <1>4, <1>5, <1>6 DEF Mitigation!IInv

(* As long as there is no verdict, nothing is claimed of one.              *)
LEMMA OpenStep ==
  ASSUME Mitigation!TypeOK', Mitigation!ReadIsRight', Mitigation!AttributeOf',
           Mitigation!PodsOf', m_verdict' = "none",
         m_pc' \in {"eval", "read"} => m_trace' = "plain"
  PROVE  Mitigation!IInv'
  BY DEF Mitigation!IInv, Mitigation!VerdictLast, Mitigation!SuccessIsEarned,
         Mitigation!SuccessMeansRepaired, Mitigation!SuccessMeansReady,
         Mitigation!NegativeHasReason, Mitigation!FailureHasReason,
         Mitigation!RaiseHasReason

(* The agent's steps and those of the cluster.                             *)
LEMMA WorkStep ==
  ASSUME Mitigation!MitigationAssumption, Mitigation!IInv,
         \/ \E v \in {"right", "other"} : Mitigation!Change(v)
         \/ Mitigation!Delete
         \/ \E i \in 1 .. 2 : Mitigation!Restart(i)
         \/ Mitigation!Kubelet
         \/ Mitigation!AnswerSpecial
  PROVE  Mitigation!IInv'
<1>t. Mitigation!TypeOK /\ Mitigation!ReadIsRight /\ Mitigation!AttributeOf
        /\ Mitigation!PodsOf /\ Mitigation!VerdictLast
  BY DEF Mitigation!IInv
<1>m. MaxActions \in Nat
  BY DEF Mitigation!MitigationAssumption
<1>1. ASSUME NEW v \in {"right", "other"}, Mitigation!Change(v)
               PROVE Mitigation!IInv'
  <2>1. /\ m_exists /\ m_pc = "dialogue" /\ m_value' = v
        /\ m_actions < MaxActions /\ m_actions' = m_actions + 1
        /\ UNCHANGED <<m_pc, m_problem, m_exists, m_others, m_trace, m_normal, m_polls,
                       m_errors, m_verdict>>
    BY <1>1 DEF Mitigation!Change, Mitigation!Acts
  <2>2. m_mine' = m_mine
          \/ m_mine'
               = [i \in 1 .. Mitigation!Replicas(m_problem, v) |-> "unscheduled"]
    BY <1>1 DEF Mitigation!Change
  <2>3. m_mine' \in Seq(Mitigation!PodStates) /\ Len(m_mine') \in 0 .. 2
    BY <2>2, <1>t, Replaced DEF Mitigation!TypeOK, Mitigation!PodStates
  <2>4. Mitigation!TypeOK'
    BY <2>1, <2>3, <1>t, <1>m DEF Mitigation!TypeOK
  <2>5. Mitigation!Check = "exists" => m_mine' # <<>>
    <3>1. Mitigation!Check = "exists" =>
            m_mine'
              = [i \in 1 .. Mitigation!Replicas(m_problem, v) |-> "unscheduled"]
      BY <1>1 DEF Mitigation!Change
    <3>2. QED
      BY <3>1, Replaced DEF Mitigation!Check, Mitigation!PodStates
  <2>6. Mitigation!ReadIsRight' /\ Mitigation!AttributeOf' /\ Mitigation!PodsOf'
    BY <2>1, <2>5, <1>t
       DEF Mitigation!ReadIsRight, Mitigation!AttributeOf, Mitigation!PodsOf,
           Mitigation!Check
  <2>7. m_verdict' = "none"
          /\ (m_pc' \in {"eval", "read"} => m_trace' = "plain")
    BY <2>1, <1>t DEF Mitigation!VerdictLast
  <2>8. QED
    BY <2>4, <2>6, <2>7, OpenStep
<1>2. CASE Mitigation!Delete
  <2>1. /\ m_exists' = FALSE /\ m_pc = "dialogue"
        /\ m_actions < MaxActions /\ m_actions' = m_actions + 1
        /\ UNCHANGED <<m_pc, m_problem, m_value, m_others, m_trace, m_normal, m_polls,
                       m_errors, m_verdict>>
    BY <1>2 DEF Mitigation!Delete, Mitigation!Acts
  <2>2. m_mine' \in Seq(Mitigation!PodStates) /\ Len(m_mine') \in 0 .. 2
    <3>1. <<>> \in Seq(Mitigation!PodStates) /\ Len(<<>>) = 0
      OBVIOUS
    <3>2. QED
      BY <1>2, <1>t, <3>1 DEF Mitigation!Delete, Mitigation!TypeOK
  <2>3. m_exists' \in BOOLEAN /\ ~m_exists'
    BY <2>1, Zenon
  <2>4. Mitigation!TypeOK'
    BY <2>1, <2>2, <2>3, <1>t, <1>m DEF Mitigation!TypeOK
  <2>5. Mitigation!ReadIsRight' /\ Mitigation!AttributeOf' /\ Mitigation!PodsOf'
    BY <2>1, <2>3, <1>t
       DEF Mitigation!ReadIsRight, Mitigation!AttributeOf, Mitigation!PodsOf,
           Mitigation!Check
  <2>6. m_verdict' = "none"
          /\ (m_pc' \in {"eval", "read"} => m_trace' = "plain")
    BY <2>1, <1>t DEF Mitigation!VerdictLast
  <2>7. QED
    BY <2>4, <2>5, <2>6, OpenStep
<1>3. ASSUME NEW i \in 1 .. 2, Mitigation!Restart(i) PROVE Mitigation!IInv'
  <2>1. /\ m_pc = "dialogue"
        /\ m_actions < MaxActions /\ m_actions' = m_actions + 1
        /\ m_others' = [m_others EXCEPT ![i] = "unscheduled"]
        /\ UNCHANGED <<m_pc, m_problem, m_value, m_exists, m_mine, m_trace,
                       m_normal, m_polls, m_errors, m_verdict>>
    BY <1>3 DEF Mitigation!Restart, Mitigation!Acts
  <2>2. m_others' \in [1 .. 2 -> Mitigation!PodStates]
    BY <2>1, <1>t DEF Mitigation!TypeOK, Mitigation!PodStates
  <2>3. Mitigation!TypeOK'
    BY <2>1, <2>2, <1>t, <1>m DEF Mitigation!TypeOK
  <2>4. Mitigation!ReadIsRight' /\ Mitigation!AttributeOf' /\ Mitigation!PodsOf'
    BY <2>1, <1>t
       DEF Mitigation!ReadIsRight, Mitigation!AttributeOf, Mitigation!PodsOf,
           Mitigation!Check
  <2>5. m_verdict' = "none"
          /\ (m_pc' \in {"eval", "read"} => m_trace' = "plain")
    BY <2>1, <1>t DEF Mitigation!VerdictLast
  <2>6. QED
    BY <2>3, <2>4, <2>5, OpenStep
<1>4. CASE Mitigation!Kubelet
  <2>1. /\ m_pc # "done"
        /\ UNCHANGED <<m_pc, m_problem, m_value, m_exists, m_trace, m_normal, m_polls,
                       m_actions, m_errors, m_verdict>>
    BY <1>4 DEF Mitigation!Kubelet
  <2>2. /\ m_mine' \in Seq(Mitigation!PodStates) /\ Len(m_mine') \in 0 .. 2
        /\ m_mine' = <<>> => m_mine = <<>>
        /\ m_others' \in [1 .. 2 -> Mitigation!PodStates]
    <3>1. CASE \E i \in DOMAIN m_mine : \E s \in Mitigation!PodStates :
                 m_mine' = [m_mine EXCEPT ![i] = s] /\ UNCHANGED m_others
      <4>1. PICK i \in DOMAIN m_mine, s \in Mitigation!PodStates :
              m_mine' = [m_mine EXCEPT ![i] = s] /\ UNCHANGED m_others
        BY <3>1
      <4>2. m_mine \in Seq(Mitigation!PodStates) /\ Len(m_mine) \in 0 .. 2
        BY <1>t DEF Mitigation!TypeOK
      <4>3. m_mine' \in Seq(Mitigation!PodStates) /\ Len(m_mine') = Len(m_mine)
        BY <4>1, <4>2
      <4>4. m_mine' = <<>> => m_mine = <<>>
        BY <4>2, <4>3
      <4>5. QED
        BY <1>t, <4>1, <4>2, <4>3, <4>4 DEF Mitigation!TypeOK
    <3>2. CASE \E i \in 1 .. 2 : \E s \in Mitigation!PodStates :
                 m_others' = [m_others EXCEPT ![i] = s] /\ UNCHANGED m_mine
      BY <1>t, <3>2 DEF Mitigation!TypeOK
    <3>3. QED
      BY <1>4, <3>1, <3>2 DEF Mitigation!Kubelet
  <2>3. Mitigation!TypeOK'
    BY <2>1, <2>2, <1>t DEF Mitigation!TypeOK
  <2>4. Mitigation!ReadIsRight' /\ Mitigation!AttributeOf' /\ Mitigation!PodsOf'
    BY <2>1, <2>2, <1>t
       DEF Mitigation!ReadIsRight, Mitigation!AttributeOf, Mitigation!PodsOf,
           Mitigation!Check
  <2>5. m_verdict' = "none"
          /\ (m_pc' \in {"eval", "read"} => m_trace' = "plain")
    BY <2>1, <1>t DEF Mitigation!VerdictLast
  <2>6. QED
    BY <2>3, <2>4, <2>5, OpenStep
<1>5. CASE Mitigation!AnswerSpecial
  <2>1. /\ m_pc = "dialogue" /\ m_trace' = "special"
        /\ UNCHANGED <<m_pc, m_problem, m_value, m_exists, m_mine, m_others,
                       m_normal, m_polls, m_actions, m_errors, m_verdict>>
    BY <1>5 DEF Mitigation!AnswerSpecial, Mitigation!cluster
  <2>2. Mitigation!TypeOK'
    BY <2>1, <1>t DEF Mitigation!TypeOK
  <2>3. Mitigation!ReadIsRight' /\ Mitigation!AttributeOf' /\ Mitigation!PodsOf'
    BY <2>1, <1>t
       DEF Mitigation!ReadIsRight, Mitigation!AttributeOf, Mitigation!PodsOf,
           Mitigation!Check
  <2>4. m_verdict' = "none" /\ m_pc' = "dialogue"
    BY <2>1, <1>t DEF Mitigation!VerdictLast
  <2>5. QED
    BY <2>2, <2>3, <2>4, OpenStep
<1>6. QED
  BY <1>1, <1>2, <1>3, <1>4, <1>5

(* What a scan of the pods of the cluster comes to.                        *)
LEMMA ScanOfList ==
  ASSUME Mitigation!TypeOK, NEW good \in BOOLEAN
  PROVE  /\ Mitigation!Scan(Mitigation!Check, Mitigation!List, good)
              \in {"success", "failure", "raised"}
         /\ Mitigation!Scan(Mitigation!Check, Mitigation!List, good)
              = "success" =>
              /\ good
              /\ Mitigation!Check # "binary" =>
                   /\ Mitigation!Check \in {"pods", "replicas"}
                        => Mitigation!AllReady(Mitigation!List)
                   /\ \A i \in DOMAIN Mitigation!List :
                        Mitigation!HasStatuses(Mitigation!List[i])
                          => Mitigation!Ready(Mitigation!List[i])
         /\ Mitigation!Scan(Mitigation!Check, Mitigation!List, good)
              = "failure" => ~good \/ ~Mitigation!AllReady(Mitigation!List)
         /\ Mitigation!Scan(Mitigation!Check, Mitigation!List, good)
              = "raised" =>
              ~Mitigation!Guarded(Mitigation!Check)
                /\ \E i \in DOMAIN Mitigation!List :
                     ~Mitigation!HasStatuses(Mitigation!List[i])
<1>1. /\ Mitigation!List \in Seq(Mitigation!PodStates) /\ Mitigation!List # <<>>
      /\ Len(Mitigation!List) \in 0 .. 4
  <2>1. \A n : n \in 2 .. 4 => n \in 0 .. 4
    OBVIOUS
  <2>2. QED
    BY <2>1, Listed, Zenon
<1>2. Mitigation!Check \in {"pods", "replicas"}
        => ~Mitigation!Guarded(Mitigation!Check)
  BY DEF Mitigation!Guarded
<1>3. Mitigation!Scan(Mitigation!Check, Mitigation!List, good)
        \in {"success", "failure", "raised"}
  BY <1>1, ScanSays
<1>4. ASSUME Mitigation!Scan(Mitigation!Check, Mitigation!List, good)
               = "success"
      PROVE  /\ good
             /\ Mitigation!Check # "binary" =>
                  /\ Mitigation!Check \in {"pods", "replicas"}
                       => Mitigation!AllReady(Mitigation!List)
                  /\ \A i \in DOMAIN Mitigation!List :
                       Mitigation!HasStatuses(Mitigation!List[i])
                         => Mitigation!Ready(Mitigation!List[i])
  <2>1. /\ good
        /\ \A i \in DOMAIN Mitigation!List :
             /\ Mitigation!HasStatuses(Mitigation!List[i])
                  \/ Mitigation!Guarded(Mitigation!Check)
             /\ Mitigation!HasStatuses(Mitigation!List[i])
                  => ~Mitigation!Abnormal(Mitigation!Check, Mitigation!List[i])
    BY <1>1, <1>4, ScanSays
  <2>2. Mitigation!Check # "binary" =>
          \A i \in DOMAIN Mitigation!List :
            Mitigation!HasStatuses(Mitigation!List[i])
              => Mitigation!Ready(Mitigation!List[i])
    BY <2>1, ReadyPods
  <2>3. Mitigation!Check \in {"pods", "replicas"}
          => Mitigation!AllReady(Mitigation!List)
    BY <1>1, <1>2, <2>1, <2>2 DEF Mitigation!AllReady
  <2>4. QED
    BY <2>1, <2>2, <2>3
<1>5. ASSUME Mitigation!Scan(Mitigation!Check, Mitigation!List, good)
               = "failure"
      PROVE  ~good \/ ~Mitigation!AllReady(Mitigation!List)
  <2>1. ~good
          \/ \E i \in DOMAIN Mitigation!List :
               Mitigation!Abnormal(Mitigation!Check, Mitigation!List[i])
    BY <1>1, <1>5, ScanSays
  <2>2. \A i \in DOMAIN Mitigation!List :
          Mitigation!Abnormal(Mitigation!Check, Mitigation!List[i])
            => ~Mitigation!Ready(Mitigation!List[i])
    BY ReadyPods DEF Mitigation!Ready
  <2>3. QED
    BY <2>1, <2>2 DEF Mitigation!AllReady
<1>6. ASSUME Mitigation!Scan(Mitigation!Check, Mitigation!List, good) = "raised"
      PROVE  ~Mitigation!Guarded(Mitigation!Check)
               /\ \E i \in DOMAIN Mitigation!List :
                    ~Mitigation!HasStatuses(Mitigation!List[i])
  BY <1>1, <1>6, ScanSays
<1>7. QED
  BY <1>3, <1>4, <1>5, <1>6

(* The steps of the evals.                                                 *)
LEMMA EvalStep ==
  ASSUME Mitigation!MitigationAssumption, Mitigation!IInv, Mitigation!Evaluate
  PROVE  Mitigation!IInv'
<1>t. Mitigation!TypeOK /\ Mitigation!ReadIsRight /\ Mitigation!AttributeOf
        /\ Mitigation!PodsOf /\ Mitigation!VerdictLast
  BY DEF Mitigation!IInv
<1>c. MaxErrors \in Nat /\ MaxPolls \in Nat \ {0}
  BY DEF Mitigation!MitigationAssumption
<1>e. m_errors \in 0 .. MaxErrors /\ m_polls \in 0 .. MaxPolls - 1
        /\ m_normal \in BOOLEAN
  BY <1>t DEF Mitigation!TypeOK
<1>s. TRUE \in BOOLEAN
  OBVIOUS
<1>p. m_pc \in {"eval", "read"} => m_trace = "plain"
  BY <1>t DEF Mitigation!VerdictLast
<1>1. CASE Mitigation!CallRaises
  <2>1. m_errors' \in 0 .. MaxErrors /\ m_errors' > 0 /\ m_trace' = "plain"
    BY <1>1, <1>c, <1>e, <1>p DEF Mitigation!CallRaises
  <2>2. CASE Mitigation!Ends("raised")
    BY <2>1, <2>2, EndStep
  <2>3. CASE Mitigation!Ends("failure")
    BY <2>1, <2>3, EndStep
  <2>4. QED
    BY <1>1, <2>2, <2>3 DEF Mitigation!CallRaises
<1>2. CASE Mitigation!ReadPort
  <2>1. m_pc = "eval" /\ Mitigation!Check = "port" /\ m_trace' = "plain"
    BY <1>2, <1>p DEF Mitigation!ReadPort
  <2>2. CASE ~m_exists
    <3>1. Mitigation!Ends("raised") /\ m_errors' = m_errors
      BY <1>2, <2>2 DEF Mitigation!ReadPort
    <3>2. QED
      BY <1>e, <2>1, <2>2, <3>1, EndStep
  <2>3. CASE m_exists /\ m_value # "right"
    <3>1. Mitigation!Ends("failure") /\ m_errors' = m_errors
      BY <1>2, <2>3 DEF Mitigation!ReadPort
    <3>2. QED
      BY <1>e, <2>1, <2>3, <3>1, EndStep
  <2>4. CASE m_exists /\ m_value = "right"
    <3>1. /\ m_pc' = "read"
          /\ UNCHANGED <<m_problem, m_value, m_exists, m_mine, m_others,
                         m_normal, m_polls,
                         m_actions, m_errors, m_verdict>>
      BY <1>2, <2>4 DEF Mitigation!ReadPort, Mitigation!cluster
    <3>2. Mitigation!TypeOK'
      BY <2>1, <3>1, <1>t DEF Mitigation!TypeOK
    <3>3. Mitigation!ReadIsRight' /\ Mitigation!AttributeOf'
            /\ Mitigation!PodsOf' /\ m_verdict' = "none"
      BY <2>1, <2>4, <3>1, <1>t
         DEF Mitigation!ReadIsRight, Mitigation!AttributeOf, Mitigation!PodsOf,
             Mitigation!VerdictLast, Mitigation!Check
    <3>4. QED
      BY <2>1, <3>2, <3>3, OpenStep
  <2>5. QED
    BY <2>2, <2>3, <2>4
<1>3. CASE Mitigation!ReadReplicas
  <2>1. m_pc = "eval" /\ Mitigation!Check = "replicas" /\ m_trace' = "plain"
    BY <1>3, <1>p DEF Mitigation!ReadReplicas
  <2>2. CASE ~m_exists
    <3>1. Mitigation!Ends("raised") /\ m_errors' = m_errors
      BY <1>3, <2>2 DEF Mitigation!ReadReplicas
    <3>2. QED
      BY <1>e, <2>1, <2>2, <3>1, EndStep
  <2>3. CASE m_exists
    <3>1. /\ m_pc' = "read"
          /\ UNCHANGED <<m_problem, m_value, m_exists, m_mine, m_others,
                         m_polls, m_actions,
                         m_errors, m_verdict>>
      BY <1>3, <2>3 DEF Mitigation!ReadReplicas, Mitigation!cluster
    <3>2. m_normal' \in BOOLEAN /\ (m_normal' => m_value = "right")
      <4>1. m_normal' = Mitigation!ReplicasRight
        BY <1>3, <2>3 DEF Mitigation!ReadReplicas
      <4>2. Mitigation!ReplicasRight \in BOOLEAN
              /\ (Mitigation!ReplicasRight => m_value = "right")
        BY Zenon DEF Mitigation!ReplicasRight
      <4>3. QED
        BY <4>1, <4>2, Zenon
    <3>3. Mitigation!TypeOK'
      BY <2>1, <3>1, <3>2, <1>t DEF Mitigation!TypeOK
    <3>4. Mitigation!ReadIsRight' /\ Mitigation!AttributeOf'
            /\ Mitigation!PodsOf' /\ m_verdict' = "none"
      BY <2>1, <2>3, <3>1, <3>2, <1>t
         DEF Mitigation!ReadIsRight, Mitigation!AttributeOf, Mitigation!PodsOf,
             Mitigation!VerdictLast, Mitigation!Check
    <3>5. QED
      BY <2>1, <3>3, <3>4, OpenStep
  <2>4. QED
    BY <2>2, <2>3
<1>4. CASE Mitigation!ScanAfterRead
  <2>1. /\ m_pc = "read" /\ Mitigation!Check \in {"port", "replicas"}
        /\ Mitigation!Ends(Mitigation!Scan(Mitigation!Check, Mitigation!List, m_normal))
        /\ m_errors' = m_errors /\ m_trace' = "plain"
    BY <1>4, <1>p DEF Mitigation!ScanAfterRead
  <2>2. /\ Mitigation!Check = "port" => m_exists /\ m_value = "right"
        /\ Mitigation!Check = "replicas" => m_exists
             /\ (m_normal => m_value = "right")
        /\ ~m_normal => Mitigation!Check = "replicas"
    BY <2>1, <1>t DEF Mitigation!ReadIsRight, Mitigation!AttributeOf
  <2>3. QED
    BY <1>e, <1>t, <2>1, <2>2, ScanOfList, EndStep
<1>5. CASE Mitigation!ScanExisting
  <2>1. Mitigation!Check = "exists" /\ m_errors' = m_errors /\ m_trace' = "plain"
    BY <1>5, <1>p DEF Mitigation!ScanExisting
  <2>2. CASE m_mine = <<>>
    <3>1. Mitigation!Ends("failure") /\ ~m_exists
      BY <1>5, <1>t, <2>1, <2>2 DEF Mitigation!ScanExisting, Mitigation!PodsOf
    <3>2. QED
      BY <1>e, <2>1, <3>1, EndStep
  <2>3. CASE m_mine # <<>>
    <3>1. Mitigation!Ends(Mitigation!Scan(Mitigation!Check, Mitigation!List, TRUE))
      BY <1>5, <2>3 DEF Mitigation!ScanExisting
    <3>2. QED
      BY <1>e, <1>s, <1>t, <2>1, <3>1, ScanOfList, EndStep
  <2>4. QED
    BY <2>2, <2>3
<1>6. CASE Mitigation!ScanOnly
  <2>1. /\ Mitigation!Check \in {"pods", "guarded"}
        /\ Mitigation!Ends(Mitigation!Scan(Mitigation!Check, Mitigation!List, TRUE))
        /\ m_errors' = m_errors /\ m_trace' = "plain"
    BY <1>6, <1>p DEF Mitigation!ScanOnly
  <2>2. QED
    BY <1>e, <1>s, <1>t, <2>1, ScanOfList, EndStep
<1>7. CASE Mitigation!ScanThenRead
  <2>1. /\ m_pc = "eval" /\ Mitigation!Check = "binary"
        /\ m_errors' = m_errors /\ m_trace' = "plain"
    BY <1>7, <1>p DEF Mitigation!ScanThenRead
  <2>2. CASE Mitigation!Scan(Mitigation!Check, Mitigation!List, TRUE) # "success"
    <3>1. Mitigation!Ends(Mitigation!Scan(Mitigation!Check, Mitigation!List, TRUE))
      BY <1>7, <2>2 DEF Mitigation!ScanThenRead
    <3>2. QED
      BY <1>e, <1>s, <1>t, <2>1, <2>2, <3>1, ScanOfList, EndStep
  <2>3. CASE Mitigation!Scan(Mitigation!Check, Mitigation!List, TRUE)
               = "success"
    <3>1. /\ m_pc' = "read"
          /\ UNCHANGED <<m_problem, m_value, m_exists, m_mine, m_others,
                         m_normal, m_polls,
                         m_actions, m_verdict>>
      BY <1>7, <2>3 DEF Mitigation!ScanThenRead, Mitigation!cluster
    <3>2. Mitigation!TypeOK'
      BY <2>1, <3>1, <1>t DEF Mitigation!TypeOK
    <3>3. Mitigation!ReadIsRight' /\ Mitigation!AttributeOf'
            /\ Mitigation!PodsOf' /\ m_verdict' = "none"
      BY <2>1, <3>1, <1>t
         DEF Mitigation!ReadIsRight, Mitigation!AttributeOf, Mitigation!PodsOf,
             Mitigation!VerdictLast, Mitigation!Check
    <3>4. QED
      BY <2>1, <3>2, <3>3, OpenStep
  <2>4. QED
    BY <2>2, <2>3
<1>8. CASE Mitigation!ReadCommand
  <2>1. Mitigation!Check = "binary" /\ m_errors' = m_errors /\ m_trace' = "plain"
    BY <1>8, <1>p DEF Mitigation!ReadCommand
  <2>2. CASE m_exists /\ m_value = "right"
    <3>1. Mitigation!Ends("success")
      BY <1>8, <2>2 DEF Mitigation!ReadCommand
    <3>2. QED
      BY <1>e, <2>1, <2>2, <3>1, EndStep
  <2>3. CASE ~(m_exists /\ m_value = "right")
    <3>1. Mitigation!Ends("failure")
      BY <1>8, <2>3 DEF Mitigation!ReadCommand
    <3>2. QED
      BY <1>e, <2>1, <2>3, <3>1, EndStep
  <2>4. QED
    BY <2>2, <2>3
<1>9. CASE Mitigation!Poll
  <2>1. m_pc = "eval" /\ Mitigation!Check = "wait" /\ m_trace' = "plain"
    BY <1>9, <1>p DEF Mitigation!Poll
  <2>2. PICK fails \in BOOLEAN :
          /\ fails => m_errors < MaxErrors
          /\ m_errors' = IF fails THEN m_errors + 1 ELSE m_errors
          /\ IF ~fails /\ Mitigation!AllReady(Mitigation!List)
             THEN Mitigation!Ends("success")
             ELSE IF m_polls = MaxPolls - 1 THEN Mitigation!Ends("failure")
             ELSE /\ m_polls' = m_polls + 1
                  /\ UNCHANGED <<m_pc, m_problem, Mitigation!cluster, m_normal,
                                 m_actions, m_verdict>>
    BY <1>9 DEF Mitigation!Poll
  <2>3. m_errors' \in 0 .. MaxErrors /\ (fails => m_errors' > 0)
    BY <1>c, <1>e, <2>2
  <2>4. CASE ~fails /\ Mitigation!AllReady(Mitigation!List)
    <3>1. Mitigation!Ends("success")
      BY <2>2, <2>4
    <3>2. \A i \in DOMAIN Mitigation!List : Mitigation!Ready(Mitigation!List[i])
      BY <2>4 DEF Mitigation!AllReady
    <3>3. QED
      BY <2>1, <2>3, <2>4, <3>1, <3>2, EndStep
  <2>5. CASE ~(~fails /\ Mitigation!AllReady(Mitigation!List))
               /\ m_polls = MaxPolls - 1
    <3>1. Mitigation!Ends("failure")
      BY <2>2, <2>5
    <3>2. QED
      BY <2>1, <2>3, <2>5, <3>1, EndStep
  <2>6. CASE ~(~fails /\ Mitigation!AllReady(Mitigation!List))
               /\ m_polls # MaxPolls - 1
    <3>1. /\ m_polls' = m_polls + 1
          /\ UNCHANGED <<m_pc, m_problem, m_value, m_exists, m_mine, m_others,
                         m_normal,
                         m_actions, m_verdict>>
      BY <2>2, <2>6 DEF Mitigation!cluster
    <3>2. m_polls' \in 0 .. MaxPolls - 1
      BY <1>c, <1>e, <2>6, <3>1
    <3>3. Mitigation!TypeOK'
      BY <2>1, <2>3, <3>1, <3>2, <1>t DEF Mitigation!TypeOK
    <3>4. Mitigation!ReadIsRight' /\ Mitigation!AttributeOf'
            /\ Mitigation!PodsOf' /\ m_verdict' = "none"
      BY <2>1, <3>1, <1>t
         DEF Mitigation!ReadIsRight, Mitigation!AttributeOf, Mitigation!PodsOf,
             Mitigation!VerdictLast, Mitigation!Check
    <3>5. QED
      BY <2>1, <3>3, <3>4, OpenStep
  <2>7. QED
    BY <2>4, <2>5, <2>6
<1>10. CASE Mitigation!CommonEval
  <2>1. m_pc = "common" /\ m_errors' = m_errors
    BY <1>10 DEF Mitigation!CommonEval
  <2>2. CASE /\ m_trace = "plain" /\ m_pc' = "eval"
             /\ UNCHANGED <<m_problem, m_value, m_exists, m_mine, m_others,
                            m_trace, m_normal, m_polls, m_actions, m_verdict>>
    <3>1. Mitigation!TypeOK'
      BY <2>1, <2>2, <1>t DEF Mitigation!TypeOK
    <3>2. Mitigation!ReadIsRight' /\ Mitigation!AttributeOf'
            /\ Mitigation!PodsOf' /\ m_verdict' = "none"
      BY <2>1, <2>2, <1>t
         DEF Mitigation!ReadIsRight, Mitigation!AttributeOf, Mitigation!PodsOf,
             Mitigation!VerdictLast, Mitigation!Check
    <3>3. QED
      BY <2>2, <3>1, <3>2, OpenStep
  <2>3. CASE Mitigation!Ends("raised") /\ m_trace' \in {"special", "unjudged"}
    BY <1>e, <2>1, <2>3, EndStep
  <2>4. QED
    BY <1>10, <2>2, <2>3 DEF Mitigation!CommonEval, Mitigation!cluster
<1>11. QED
  BY <1>1, <1>2, <1>3, <1>4, <1>5, <1>6, <1>7, <1>8, <1>9, <1>10
     DEF Mitigation!Evaluate

(* The invariant holds at the start,                                       *)
LEMMA MitigationInitInv ==
  ASSUME Mitigation!MitigationAssumption, Mitigation!Init
  PROVE  Mitigation!IInv
<1>0. MaxPolls \in Nat \ {0} /\ MaxActions \in Nat /\ MaxErrors \in Nat
  BY DEF Mitigation!MitigationAssumption
<1>1. /\ m_mine \in Seq(Mitigation!PodStates) /\ Len(m_mine) \in 0 .. 2
      /\ Mitigation!Check = "exists" => m_mine # <<>>
  <2>1. PICK s \in Mitigation!PodStates :
               m_mine
                 = [i \in 1 .. Mitigation!Replicas(m_problem, "faulty") |-> s]
    BY DEF Mitigation!Init, Mitigation!PodStates
  <2>2. QED
    BY <2>1, Replaced DEF Mitigation!Check
<1>2. m_others \in [1 .. 2 -> Mitigation!PodStates]
  BY DEF Mitigation!Init, Mitigation!PodStates
<1>3. Mitigation!TypeOK
  <2>1. /\ m_polls \in 0 .. MaxPolls - 1 /\ m_actions \in 0 .. MaxActions
        /\ m_errors \in 0 .. MaxErrors
    BY <1>0 DEF Mitigation!Init
  <2>2. m_exists \in BOOLEAN /\ m_normal \in BOOLEAN
    BY Zenon DEF Mitigation!Init
  <2>3. QED
    BY <1>1, <1>2, <2>1, <2>2 DEF Mitigation!Init, Mitigation!TypeOK
<1>4. Mitigation!ReadIsRight /\ Mitigation!AttributeOf /\ Mitigation!PodsOf
        /\ Mitigation!VerdictLast
  BY <1>1
     DEF Mitigation!Init, Mitigation!ReadIsRight, Mitigation!AttributeOf,
         Mitigation!PodsOf, Mitigation!VerdictLast
<1>5. Mitigation!SuccessIsEarned /\ Mitigation!NegativeHasReason
  BY DEF Mitigation!Init, Mitigation!SuccessIsEarned,
         Mitigation!SuccessMeansRepaired, Mitigation!SuccessMeansReady,
         Mitigation!NegativeHasReason, Mitigation!FailureHasReason,
         Mitigation!RaiseHasReason
<1>6. QED
  BY <1>3, <1>4, <1>5 DEF Mitigation!IInv

(* and every step keeps it.                                                *)
LEMMA MitigationStepInv ==
  ASSUME Mitigation!MitigationAssumption, Mitigation!IInv, Mitigation!Next
  PROVE  Mitigation!IInv'
<1>1. CASE Mitigation!Submit
  <2>1. /\ m_pc = "dialogue" /\ m_pc' = "common"
        /\ UNCHANGED <<m_problem, m_value, m_exists, m_mine, m_others,
                       m_trace, m_normal, m_polls,
                       m_actions, m_errors, m_verdict>>
    BY <1>1 DEF Mitigation!Submit, Mitigation!cluster
  <2>2. Mitigation!TypeOK'
    BY <2>1 DEF Mitigation!IInv, Mitigation!TypeOK
  <2>3. Mitigation!ReadIsRight' /\ Mitigation!AttributeOf'
          /\ Mitigation!PodsOf' /\ m_verdict' = "none"
    BY <2>1
       DEF Mitigation!IInv, Mitigation!ReadIsRight, Mitigation!AttributeOf,
           Mitigation!PodsOf, Mitigation!VerdictLast, Mitigation!Check
  <2>4. QED
    BY <2>1, <2>2, <2>3, OpenStep
<1>2. QED
  BY <1>1, WorkStep, EvalStep DEF Mitigation!Next

(* A step of another part keeps it, too.                                   *)
LEMMA MitigationStutterInv ==
  ASSUME Mitigation!IInv, UNCHANGED Mitigation!vars
  PROVE  Mitigation!IInv'
<1>1. UNCHANGED <<m_pc, m_problem, m_value, m_exists, m_mine, m_others,
                  m_trace, m_normal, m_polls,
                  m_actions, m_errors, m_verdict>>
  BY DEF Mitigation!vars, Mitigation!cluster
<1>2. Mitigation!TypeOK' /\ Mitigation!ReadIsRight'
        /\ Mitigation!AttributeOf' /\ Mitigation!PodsOf'
        /\ Mitigation!VerdictLast'
  BY <1>1
     DEF Mitigation!IInv, Mitigation!TypeOK, Mitigation!ReadIsRight,
         Mitigation!AttributeOf, Mitigation!PodsOf, Mitigation!VerdictLast,
         Mitigation!Check
<1>3. Mitigation!SuccessIsEarned' /\ Mitigation!NegativeHasReason'
  BY <1>1
     DEF Mitigation!IInv, Mitigation!SuccessIsEarned,
         Mitigation!SuccessMeansRepaired, Mitigation!SuccessMeansReady,
         Mitigation!NegativeHasReason, Mitigation!FailureHasReason,
         Mitigation!RaiseHasReason, Mitigation!Check, Mitigation!List
<1>4. QED
  BY <1>2, <1>3 DEF Mitigation!IInv

-----------------------------------------------------------------------------
(* The onboarding evaluator.                                               *)

(* What eval leaves in results["success"], by the task.                    *)
LEMMA SuccessOf ==
  ASSUME NEW r \in BOOLEAN
  PROVE  /\ o_problem.task = "detection" => Onboarding!Success(r) = o_success
         /\ o_problem.task = "mitigation" =>
              Onboarding!Success(r) = IF o_repaired THEN "yes" ELSE "no"
         /\ o_problem.task \notin {"detection", "mitigation"} =>
              Onboarding!Success(r) = IF r THEN "yes" ELSE "no"
<1>1. o_problem.task = "detection" => Onboarding!Success(r) = o_success
  BY Zenon DEF Onboarding!Success
<1>2. o_problem.task = "mitigation" =>
        Onboarding!Success(r) = IF o_repaired THEN "yes" ELSE "no"
  BY Zenon DEF Onboarding!Success
<1>3. o_problem.task # "detection" /\ o_problem.task # "mitigation" =>
        Onboarding!Success(r) = IF r THEN "yes" ELSE "no"
  BY Zenon DEF Onboarding!Success
<1>4. QED
  BY <1>1, <1>2, <1>3

(* The invariant holds at the start,                                       *)
LEMMA OnboardingInitInv ==
  ASSUME Onboarding!OnboardingAssumption, Onboarding!Init
  PROVE  Onboarding!IInv
<1>0. 0 \in 0 .. MaxRounds
  BY DEF Onboarding!OnboardingAssumption
<1>1. {o_right, o_repaired, o_moved, o_broke, o_saved} \subseteq BOOLEAN
  BY DEF Onboarding!Init
<1>2. Onboarding!TypeOK
  BY <1>0, <1>1 DEF Onboarding!Init, Onboarding!TypeOK
<1>3. Onboarding!FinalIsRight /\ Onboarding!ToldTheTruth
  BY DEF Onboarding!Init, Onboarding!FinalIsRight, Onboarding!ToldTheTruth,
         Onboarding!RecordedAsAnnounced, Onboarding!RightIsAccepted,
         Onboarding!Recorded, Onboarding!FoundRight, Onboarding!pods
<1>4. QED
  BY <1>2, <1>3 DEF Onboarding!IInv

(* A submission that ends the dialogue has been found right.               *)
LEMMA AnswerStep ==
  ASSUME Onboarding!IInv, NEW r \in BOOLEAN, Onboarding!Submit(r)
  PROVE  Onboarding!IInv'
<1>1. /\ o_pc = "env" /\ o_right' = r /\ o_moved' = FALSE
      /\ o_response' = "invalid"
           \/ (o_response' = "valid" /\ o_success' = "yes" /\ o_success' = Onboarding!Success(r))
      /\ o_response' = "invalid" => o_broke'
           \/ (o_success' # "yes" /\ o_success' = Onboarding!Success(r))
      /\ o_success' = o_success \/ o_success' = Onboarding!Success(r)
      /\ o_broke' \in BOOLEAN
      /\ o_pc' = IF o_response' = "valid" THEN "final" ELSE "ask"
      /\ UNCHANGED <<o_problem, o_fault, o_app, o_rounds, o_repaired, o_saved>>
  BY DEF Onboarding!Submit
<1>2. Onboarding!TypeOK /\ Onboarding!FinalIsRight /\ ~o_saved
  BY <1>1 DEF Onboarding!IInv, Onboarding!FinalIsRight, Onboarding!Ends
<1>3. o_success \in {"unset", "yes", "no"}
        /\ Onboarding!Success(r) \in {"unset", "yes", "no"}
  BY <1>2, SuccessOf DEF Onboarding!TypeOK
<1>4. Onboarding!TypeOK'
  BY <1>1, <1>2, <1>3 DEF Onboarding!TypeOK
<1>5. Onboarding!FinalIsRight'
  BY <1>1, <1>2, SuccessOf DEF Onboarding!FinalIsRight, Onboarding!Recorded,
         Onboarding!FoundRight
<1>6. Onboarding!RecordedAsAnnounced'
  BY <1>1, <1>2 DEF Onboarding!RecordedAsAnnounced
<1>7. Onboarding!RightIsAccepted'
  BY <1>1, <1>2, SuccessOf DEF Onboarding!RightIsAccepted
<1>8. QED
  BY <1>4, <1>5, <1>6, <1>7 DEF Onboarding!IInv, Onboarding!ToldTheTruth

(* and every step keeps it.                                                *)
LEMMA OnboardingStepInv ==
  ASSUME Onboarding!OnboardingAssumption, Onboarding!IInv, Onboarding!Next
  PROVE  Onboarding!IInv'
<1>0. MaxRounds \in Nat
  BY DEF Onboarding!OnboardingAssumption
<1>t. Onboarding!TypeOK /\ Onboarding!FinalIsRight
        /\ Onboarding!RecordedAsAnnounced /\ Onboarding!RightIsAccepted
  BY DEF Onboarding!IInv, Onboarding!ToldTheTruth
<1> USE DEF Onboarding!Goto, Onboarding!Ends
<1>1. CASE Onboarding!Deploy
  BY <1>1, <1>t
     DEF Onboarding!Deploy, Onboarding!IInv, Onboarding!TypeOK,
         Onboarding!FinalIsRight, Onboarding!ToldTheTruth,
         Onboarding!RecordedAsAnnounced, Onboarding!RightIsAccepted,
         Onboarding!Recorded, Onboarding!FoundRight, Onboarding!pods
<1>2. CASE Onboarding!Inject
  BY <1>2, <1>t
     DEF Onboarding!Inject, Onboarding!IInv, Onboarding!TypeOK,
         Onboarding!FinalIsRight, Onboarding!ToldTheTruth,
         Onboarding!RecordedAsAnnounced, Onboarding!RightIsAccepted,
         Onboarding!Recorded, Onboarding!FoundRight, Onboarding!pods
<1>3. CASE Onboarding!StartWorkload
  BY <1>3, <1>t
     DEF Onboarding!StartWorkload, Onboarding!IInv, Onboarding!TypeOK,
         Onboarding!FinalIsRight, Onboarding!ToldTheTruth,
         Onboarding!RecordedAsAnnounced, Onboarding!RightIsAccepted,
         Onboarding!Recorded, Onboarding!FoundRight, Onboarding!pods
<1>4. CASE Onboarding!AskAgent
  <2>1. o_rounds' \in 0 .. MaxRounds
    BY <1>0, <1>4, <1>t DEF Onboarding!AskAgent, Onboarding!TypeOK
  <2>2. QED
    BY <1>4, <1>t, <2>1
       DEF Onboarding!AskAgent, Onboarding!IInv, Onboarding!TypeOK,
           Onboarding!FinalIsRight, Onboarding!ToldTheTruth,
           Onboarding!RecordedAsAnnounced, Onboarding!RightIsAccepted,
         Onboarding!Recorded, Onboarding!FoundRight, Onboarding!pods
<1>5. CASE Onboarding!Act
  BY <1>5, <1>t
     DEF Onboarding!Act, Onboarding!IInv, Onboarding!TypeOK,
         Onboarding!FinalIsRight, Onboarding!ToldTheTruth,
         Onboarding!RecordedAsAnnounced, Onboarding!RightIsAccepted,
         Onboarding!Recorded, Onboarding!FoundRight, Onboarding!pods
<1>6. CASE Onboarding!Drift
  <2>1. o_repaired' \in BOOLEAN /\ o_moved' \in BOOLEAN /\ o_moved'
    BY <1>6, Zenon DEF Onboarding!Drift
  <2>2. QED
    BY <1>6, <1>t, <2>1
       DEF Onboarding!Drift, Onboarding!IInv, Onboarding!TypeOK,
           Onboarding!FinalIsRight, Onboarding!ToldTheTruth,
           Onboarding!RecordedAsAnnounced, Onboarding!RightIsAccepted,
         Onboarding!Recorded, Onboarding!FoundRight, Onboarding!pods
<1>7. ASSUME NEW r \in BOOLEAN, Onboarding!Submit(r) PROVE Onboarding!IInv'
  BY <1>7, AnswerStep
<1>8. CASE Onboarding!FinalEval
  <2>1. /\ o_pc = "final" /\ o_pc' = "save"
        /\ o_success' = Onboarding!Success(o_right)
        /\ UNCHANGED <<o_problem, o_fault, o_app, o_rounds, o_right,
                       o_repaired, o_moved, o_response,
                       o_broke, o_saved>>
    BY <1>8 DEF Onboarding!FinalEval, Onboarding!pods
  <2>2. o_right \in BOOLEAN /\ ~o_saved
    BY <2>1, <1>t DEF Onboarding!TypeOK, Onboarding!FinalIsRight
  <2>3. Onboarding!Success(o_right) \in {"unset", "yes", "no"}
    BY <1>t, <2>2, SuccessOf DEF Onboarding!TypeOK
  <2>4. Onboarding!TypeOK'
    BY <2>1, <2>3, <1>t DEF Onboarding!TypeOK
  <2>5. Onboarding!FinalIsRight'
    BY <2>1, <2>2, <1>t, SuccessOf DEF Onboarding!FinalIsRight, Onboarding!Recorded,
         Onboarding!FoundRight
  <2>6. Onboarding!RecordedAsAnnounced' /\ Onboarding!RightIsAccepted'
    BY <2>1, <2>2, <1>t
       DEF Onboarding!RecordedAsAnnounced, Onboarding!RightIsAccepted,
         Onboarding!Recorded, Onboarding!FoundRight, Onboarding!pods
  <2>7. QED
    BY <2>4, <2>5, <2>6 DEF Onboarding!IInv, Onboarding!ToldTheTruth
<1>9. CASE Onboarding!Save
  <2>1. o_saved' \in BOOLEAN
    BY <1>9, Zenon DEF Onboarding!Save
  <2>2. QED
    BY <1>9, <1>t, <2>1
       DEF Onboarding!Save, Onboarding!IInv, Onboarding!TypeOK,
           Onboarding!FinalIsRight, Onboarding!ToldTheTruth,
           Onboarding!RecordedAsAnnounced, Onboarding!RightIsAccepted,
         Onboarding!Recorded, Onboarding!FoundRight, Onboarding!pods
<1>10. CASE Onboarding!Recover
  BY <1>10, <1>t
     DEF Onboarding!Recover, Onboarding!IInv, Onboarding!TypeOK,
         Onboarding!FinalIsRight, Onboarding!ToldTheTruth,
         Onboarding!RecordedAsAnnounced, Onboarding!RightIsAccepted,
         Onboarding!Recorded, Onboarding!FoundRight, Onboarding!pods
<1>11. CASE Onboarding!Cleanup
  BY <1>11, <1>t
     DEF Onboarding!Cleanup, Onboarding!IInv, Onboarding!TypeOK,
         Onboarding!FinalIsRight, Onboarding!ToldTheTruth,
         Onboarding!RecordedAsAnnounced, Onboarding!RightIsAccepted,
         Onboarding!Recorded, Onboarding!FoundRight, Onboarding!pods
<1>12. CASE Onboarding!Raises
  <2>1. o_fault' \in {"out", "in", "recovered"}
    BY <1>12, <1>t DEF Onboarding!Raises, Onboarding!TypeOK
  <2>2. QED
    BY <1>12, <1>t, <2>1
       DEF Onboarding!Raises, Onboarding!IInv, Onboarding!TypeOK,
           Onboarding!FinalIsRight, Onboarding!ToldTheTruth,
           Onboarding!RecordedAsAnnounced, Onboarding!RightIsAccepted,
         Onboarding!Recorded, Onboarding!FoundRight, Onboarding!pods
<1>13. QED
  BY <1>1, <1>2, <1>3, <1>4, <1>5, <1>6, <1>7, <1>8, <1>9, <1>10, <1>11, <1>12
     DEF Onboarding!Next

(* A step of another part keeps it, too.                                   *)
LEMMA OnboardingStutterInv ==
  ASSUME Onboarding!IInv, UNCHANGED Onboarding!vars
  PROVE  Onboarding!IInv'
  BY DEF Onboarding!vars, Onboarding!IInv, Onboarding!TypeOK,
         Onboarding!FinalIsRight, Onboarding!ToldTheTruth,
         Onboarding!RecordedAsAnnounced, Onboarding!RightIsAccepted,
         Onboarding!Recorded, Onboarding!FoundRight, Onboarding!pods,
         Onboarding!Ends

-----------------------------------------------------------------------------
(* The parts together.                                                     *)

(* The definitions of the two instances of Scoring, the model's and that   *)
(* of its proofs, are the same: one by one, in the order they build on     *)
(* each other.                                                             *)
LEMMA SessionsSame ==
  /\ TS!ScoringAssumption <=> Judged!ScoringAssumption
  /\ TS!Init <=> Judged!Init
  /\ [TS!Next]_TS!vars <=> [Judged!Next]_Judged!vars
  /\ TS!IInv <=> Judged!IInv
  /\ TS!MarksMatchAnswer <=> Judged!MarksMatchAnswer
  /\ TS!SubmissionDecides <=> Judged!SubmissionDecides
  /\ TS!RaisesExplained <=> Judged!RaisesExplained
  /\ TS!TruthfulWhileItLasts <=> Judged!TruthfulWhileItLasts
  /\ TS!IInv' <=> Judged!IInv'
<1>0. \A S : TS!Cardinality(S) = Judged!Cardinality(S)
  BY DEF TS!Cardinality, Judged!Cardinality
<1>1. \A k, q : TS!Value(k, q) = Judged!Value(k, q)
  BY Zenon DEF TS!Value, Judged!Value
<1>2. \A s : TS!Str(s) = Judged!Str(s)
  BY <1>1, Zenon DEF TS!Str, Judged!Str
<1>3. \A q : TS!List(q) = Judged!List(q)
  BY <1>1, Zenon DEF TS!List, Judged!List
<1>4. \A a, b : TS!Dict(a, b) = Judged!Dict(a, b)
  BY <1>1, Zenon DEF TS!Dict, Judged!Dict
<1>5. TS!Number = Judged!Number
  BY <1>1, Zenon DEF TS!Number, Judged!Number
<1>6. TS!None = Judged!None
  BY <1>1, Zenon DEF TS!None, Judged!None
<1>7. \A s : TS!Lower(s) = Judged!Lower(s)
  BY Zenon DEF TS!Lower, Judged!Lower
<1>8. \A v : TS!Element(v) = Judged!Element(v)
  BY Zenon DEF TS!Element, Judged!Element
<1>9. \A f, v : TS!Arguments(f, v) = Judged!Arguments(f, v)
  BY Zenon DEF TS!Arguments, Judged!Arguments
<1>10. \A q : TS!Saved(q) = Judged!Saved(q)
  BY <1>3, <1>8, Zenon DEF TS!Saved, Judged!Saved
<1>11. \A c : TS!Performs(c) <=> Judged!Performs(c)
  BY Zenon DEF TS!Performs, Judged!Performs
<1>12. \A n, s : TS!Marks(n, s) = Judged!Marks(n, s)
  BY Zenon DEF TS!Marks, Judged!Marks
<1>13. TS!Raised = Judged!Raised
  BY Zenon DEF TS!Raised, Judged!Raised
<1>14. TS!NotScored = Judged!NotScored
  BY Zenon DEF TS!NotScored, Judged!NotScored
<1>15. \A v, t : TS!IsExactMatch(v, t) <=> Judged!IsExactMatch(v, t)
  BY Zenon DEF TS!IsExactMatch, Judged!IsExactMatch
<1>16. \A v : TS!SetRaises(v) <=> Judged!SetRaises(v)
  BY Zenon DEF TS!SetRaises, Judged!SetRaises, TS!ToSet, Judged!ToSet
<1>17. \A t, v : TS!IsSubset(t, v) <=> Judged!IsSubset(t, v)
  BY Zenon DEF TS!IsSubset, Judged!IsSubset, TS!ToSet, Judged!ToSet
<1>18. \A p : TS!Alias(p) = Judged!Alias(p)
  BY Zenon DEF TS!Alias, Judged!Alias
<1>19. \A p, v : TS!EvalDetection(p, v) = Judged!EvalDetection(p, v)
  BY <1>7, <1>12, Zenon DEF TS!EvalDetection, Judged!EvalDetection
<1>20. \A p, v : TS!EvalLocalization(p, v) = Judged!EvalLocalization(p, v)
  BY <1>18, <1>15, <1>17, <1>6, <1>12, <1>16, <1>13, Zenon
     DEF TS!EvalLocalization, Judged!EvalLocalization
<1>21. \A p, v : TS!EvalAnalysis(p, v) = Judged!EvalAnalysis(p, v)
  BY <1>12, <1>13, <1>7, <1>0, Zenon DEF TS!EvalAnalysis, Judged!EvalAnalysis
<1>22. \A p, v : TS!Eval(p, v) = Judged!Eval(p, v)
  BY <1>19, <1>20, <1>21, Zenon DEF TS!Eval, Judged!Eval
<1>23. TS!DetectionAnswers = Judged!DetectionAnswers
  BY <1>2, <1>5, <1>6, Zenon DEF TS!DetectionAnswers, Judged!DetectionAnswers
<1>24. \A p : TS!LocalizationAnswers(p) = Judged!LocalizationAnswers(p)
  BY <1>18, <1>2, <1>5, <1>6, <1>3, Zenon
     DEF TS!LocalizationAnswers, Judged!LocalizationAnswers
<1>25. \A p : TS!AnalysisAnswers(p) = Judged!AnalysisAnswers(p)
  BY <1>4, <1>2, Zenon DEF TS!AnalysisAnswers, Judged!AnalysisAnswers
<1>26. \A p : TS!Answers(p) = Judged!Answers(p)
  BY <1>23, <1>24, <1>25, Zenon DEF TS!Answers, Judged!Answers
<1>27. \A v : TS!Named(v) = Judged!Named(v)
  BY Zenon DEF TS!Named, Judged!Named, TS!ToSet, Judged!ToSet
<1>28. \A v : TS!Refusable(v) <=> Judged!Refusable(v)
  BY <1>6, <1>3, Zenon DEF TS!Refusable, Judged!Refusable
<1>r. TS!Registered = Judged!Registered
        /\ \A t : TS!ProblemIds(t) = Judged!ProblemIds(t)
  BY DEF TS!Tasks, Judged!Tasks, TS!NoCause, Judged!NoCause, TS!Family,
         Judged!Family, TS!Full, Judged!Full, TS!Limited, Judged!Limited,
         TS!Unlisted, Judged!Unlisted, TS!Chaos, Judged!Chaos, TS!Flag,
         Judged!Flag, TS!Misoperation, Judged!Misoperation,
         TS!K8STargetPortMisconfig, Judged!K8STargetPortMisconfig,
         TS!ScalePodSocialNet, Judged!ScalePodSocialNet,
         TS!AssignNonExistentNode, Judged!AssignNonExistentNode,
         TS!WrongBinUsage, Judged!WrongBinUsage, TS!RedeployWithoutPV,
         Judged!RedeployWithoutPV, TS!MongoDBAuthMissing,
         Judged!MongoDBAuthMissing, TS!MongoDBRevokeAuth,
         Judged!MongoDBRevokeAuth, TS!MongoDBUserUnregistered,
         Judged!MongoDBUserUnregistered, TS!MisconfigAppHotelRes,
         Judged!MisconfigAppHotelRes, TS!Generated, Judged!Generated, TS!NoOp,
         Judged!NoOp, TS!FlowerNodeStop, Judged!FlowerNodeStop,
         TS!FlowerModelMisconfig, Judged!FlowerModelMisconfig,
         TS!ContainerKill, Judged!ContainerKill, TS!PodFailure,
         Judged!PodFailure, TS!PodKill, Judged!PodKill, TS!NetworkLoss,
         Judged!NetworkLoss, TS!NetworkDelay, Judged!NetworkDelay,
         TS!KernelFault, Judged!KernelFault, TS!DiskWoreout,
         Judged!DiskWoreout, TS!AdServiceFailure, Judged!AdServiceFailure,
         TS!AdServiceHighCpu, Judged!AdServiceHighCpu, TS!AdServiceManualGc,
         Judged!AdServiceManualGc, TS!CartServiceFailure,
         Judged!CartServiceFailure, TS!ImageSlowLoad, Judged!ImageSlowLoad,
         TS!LoadGeneratorFloodHomepage, Judged!LoadGeneratorFloodHomepage,
         TS!PaymentServiceFailure, Judged!PaymentServiceFailure,
         TS!PaymentServiceUnreachable, Judged!PaymentServiceUnreachable,
         TS!ProductCatalogServiceFailure, Judged!ProductCatalogServiceFailure,
         TS!RecommendationServiceCacheFailure,
         Judged!RecommendationServiceCacheFailure, TS!KafkaQueueProblems,
         Judged!KafkaQueueProblems, TS!OverloadReplicas,
         Judged!OverloadReplicas, TS!NonExistentStorage,
         Judged!NonExistentStorage, TS!InvalidAffinityToleration,
         Judged!InvalidAffinityToleration, TS!SecurityContextFault,
         Judged!SecurityContextFault, TS!WrongUpdateStrategy,
         Judged!WrongUpdateStrategy, TS!Catalogue, Judged!Catalogue,
         TS!Registered, Judged!Registered, TS!ProblemIds, Judged!ProblemIds
<1>29. TS!ScoringAssumption <=> Judged!ScoringAssumption
  BY <1>r DEF TS!ScoringAssumption, Judged!ScoringAssumption
<1>f. \A p : TS!FaultIn(p) = Judged!FaultIn(p)
  BY Zenon DEF TS!FaultIn, Judged!FaultIn
<1>30. TS!Init <=> Judged!Init
  BY <1>6, <1>14 DEF TS!Init, Judged!Init
<1>31. \A p : TS!Begin(p) <=> Judged!Begin(p)
  BY <1>6, <1>14, <1>f DEF TS!Begin, Judged!Begin
<1>32. \A b : TS!Round(b) <=> Judged!Round(b)
  BY DEF TS!Round, Judged!Round
<1>33. TS!Work <=> Judged!Work
  BY <1>32 DEF TS!Work, Judged!Work
<1>34. \A f, v : TS!Submit(f, v) <=> Judged!Submit(f, v)
  BY <1>32, <1>9, <1>11, <1>10 DEF TS!Submit, Judged!Submit
<1>35. TS!Expire <=> Judged!Expire
  BY DEF TS!Expire, Judged!Expire, TS!dialogue, Judged!dialogue
<1>36. TS!Evaluate <=> Judged!Evaluate
  BY <1>13, <1>22 DEF TS!Evaluate, Judged!Evaluate, TS!dialogue, Judged!dialogue
<1>37. TS!JudgeRaises <=> Judged!JudgeRaises
  BY <1>22, <1>13
     DEF TS!JudgeRaises, Judged!JudgeRaises, TS!dialogue, Judged!dialogue
<1>38. [TS!Next]_TS!vars <=> [Judged!Next]_Judged!vars
  <2>1. (\E p \in JudgedPool : TS!Begin(p))
          <=> (\E p \in JudgedPool : Judged!Begin(p))
    BY <1>31
  <2>2. (\E form \in Forms : \E v \in TS!Answers(problem) : TS!Submit(form, v))
          <=> \E form \in Forms :
                \E v \in Judged!Answers(problem) : Judged!Submit(form, v)
    BY <1>34, <1>26
  <2>3. TS!Next <=> Judged!Next
    BY <2>1, <2>2, <1>33, <1>35, <1>36, <1>37 DEF TS!Next, Judged!Next
  <2>4. TS!vars = Judged!vars
    BY DEF TS!vars, Judged!vars, TS!dialogue, Judged!dialogue
  <2>5. TS!vars' = Judged!vars'
    BY DEF TS!vars, Judged!vars, TS!dialogue, Judged!dialogue
  <2>6. QED
    BY <2>3, <2>4, <2>5
<1>39. TS!TypeOK <=> Judged!TypeOK
  BY <1>14 DEF TS!TypeOK, Judged!TypeOK
<1>40. TS!SolutionOf <=> Judged!SolutionOf
  BY <1>26, <1>3, <1>28 DEF TS!SolutionOf, Judged!SolutionOf
<1>41. TS!OutcomeOf <=> Judged!OutcomeOf
  BY <1>14, <1>22, <1>13 DEF TS!OutcomeOf, Judged!OutcomeOf
<1>42. TS!FaultOf <=> Judged!FaultOf
  BY <1>14, <1>f DEF TS!FaultOf, Judged!FaultOf
<1>43. TS!StillOpen <=> Judged!StillOpen
  BY DEF TS!StillOpen, Judged!StillOpen
<1>44. TS!IInv <=> Judged!IInv
  BY <1>39, <1>40, <1>41, <1>42, <1>43 DEF TS!IInv, Judged!IInv
<1>45. TS!Scored <=> Judged!Scored
  BY <1>14 DEF TS!Scored, Judged!Scored
<1>46. TS!MarksMatchAnswer <=> Judged!MarksMatchAnswer
  BY <1>45, <1>27, <1>18, <1>7 DEF TS!MarksMatchAnswer, Judged!MarksMatchAnswer
<1>47. TS!OnlyAcceptedSucceeds <=> Judged!OnlyAcceptedSucceeds
  BY <1>45 DEF TS!OnlyAcceptedSucceeds, Judged!OnlyAcceptedSucceeds
<1>48. TS!ScoredAsSubmitted <=> Judged!ScoredAsSubmitted
  BY <1>45, <1>3 DEF TS!ScoredAsSubmitted, Judged!ScoredAsSubmitted
<1>49. TS!SubmissionDecides <=> Judged!SubmissionDecides
  BY <1>47, <1>48 DEF TS!SubmissionDecides, Judged!SubmissionDecides
<1>50. TS!RaisesExplained <=> Judged!RaisesExplained
  BY DEF TS!RaisesExplained, Judged!RaisesExplained, TS!ToSet, Judged!ToSet
<1>51. TS!TruthfulWhileItLasts <=> Judged!TruthfulWhileItLasts
  BY <1>45, <1>7 DEF TS!TruthfulWhileItLasts, Judged!TruthfulWhileItLasts
<1>52. TS!TypeOK' <=> Judged!TypeOK'
  BY <1>14 DEF TS!TypeOK, Judged!TypeOK
<1>53. TS!SolutionOf' <=> Judged!SolutionOf'
  BY <1>26, <1>3, <1>28 DEF TS!SolutionOf, Judged!SolutionOf
<1>54. TS!OutcomeOf' <=> Judged!OutcomeOf'
  BY <1>14, <1>22, <1>13 DEF TS!OutcomeOf, Judged!OutcomeOf
<1>55. TS!FaultOf' <=> Judged!FaultOf'
  BY <1>14, <1>f DEF TS!FaultOf, Judged!FaultOf
<1>56. TS!StillOpen' <=> Judged!StillOpen'
  BY DEF TS!StillOpen, Judged!StillOpen
<1>57. TS!IInv' <=> Judged!IInv'
  BY <1>52, <1>53, <1>54, <1>55, <1>56 DEF TS!IInv, Judged!IInv
<1> QED
  BY <1>29, <1>30, <1>38, <1>44, <1>46, <1>49, <1>50, <1>51, <1>57

(* What is said of marks and submissions is the same with the judge and    *)
(* without.                                                                *)
LEMMA JudgedAlike ==
  /\ Judged!MarksMatchAnswer <=> MarksMatchAnswer
  /\ Judged!SubmissionDecides <=> SubmissionDecides
  /\ Judged!TruthfulWhileItLasts <=> TruthfulWhileItLasts
<1>1. \A k, q : Judged!Value(k, q) = Value(k, q)
  BY Zenon DEF Judged!Value, Value
<1>2. \A q : Judged!List(q) = List(q)
  BY <1>1, Zenon DEF Judged!List, List
<1>3. \A s : Judged!Lower(s) = Lower(s)
  BY Zenon DEF Judged!Lower, Lower
<1>4. Judged!NotScored = NotScored
  BY Zenon DEF Judged!NotScored, NotScored
<1>5. \A p : Judged!Alias(p) = Alias(p)
  BY Zenon DEF Judged!Alias, Alias
<1>6. \A v : Judged!Named(v) = Named(v)
  BY Zenon DEF Judged!Named, Named, Judged!ToSet, ToSet
<1>7. Judged!Scored <=> Scored
  BY <1>4 DEF Judged!Scored, Scored
<1>8. Judged!MarksMatchAnswer <=> MarksMatchAnswer
  BY <1>6, <1>5, <1>7, <1>3 DEF Judged!MarksMatchAnswer, MarksMatchAnswer
<1>9. Judged!OnlyAcceptedSucceeds <=> OnlyAcceptedSucceeds
  BY <1>7 DEF Judged!OnlyAcceptedSucceeds, OnlyAcceptedSucceeds
<1>10. Judged!ScoredAsSubmitted <=> ScoredAsSubmitted
  BY <1>7, <1>2 DEF Judged!ScoredAsSubmitted, ScoredAsSubmitted
<1>11. Judged!SubmissionDecides <=> SubmissionDecides
  BY <1>9, <1>10 DEF Judged!SubmissionDecides, SubmissionDecides
<1>12. Judged!TruthfulWhileItLasts <=> TruthfulWhileItLasts
  BY <1>7, <1>3 DEF Judged!TruthfulWhileItLasts, TruthfulWhileItLasts
<1> QED
  BY <1>8, <1>11, <1>12

(* Sessions with the judge keep the invariant of Scoring,                  *)
LEMMA JudgedStep ==
  /\ Judged!Init => Judged!IInv
  /\ Judged!IInv /\ [Judged!Next]_vars => Judged!IInv'
<1>1. TS!ScoringAssumption
  BY VerdictAssumption, SessionsSame
<1>2. [Judged!Next]_vars => [Judged!Next]_Judged!vars
  BY DEF vars, Judged!vars, dialogue, Judged!dialogue
<1>3. QED
  BY <1>1, <1>2, SessionsSame, TS!InitInv, TS!StepInv

(* which says of them what the properties say.                             *)
LEMMA JudgedFairly ==
  ASSUME Judged!IInv
  PROVE  /\ MarksMatchAnswer /\ SubmissionDecides
         /\ Judged!RaisesExplained /\ TruthfulWhileItLasts
<1>1. TS!ScoringAssumption /\ TS!IInv
  BY VerdictAssumption, SessionsSame
<1>2. TS!MarksMatchAnswer /\ TS!SubmissionDecides
  BY <1>1, TS!MarksMatch, TS!SubmissionDecided
<1>3. TS!RaisesExplained /\ TS!TruthfulWhileItLasts
  BY <1>1, TS!RaiseExplained, TS!DetectionTruthful
<1>4. QED
  BY <1>2, <1>3, SessionsSame, JudgedAlike

-----------------------------------------------------------------------------
(* The shortening of logs.                                                 *)

(* What a recursive function or a fold over a sequence is, follows from    *)
(* induction over the numbers, here for a set of them in place of a        *)
(* predicate: a set that is not empty has a least number.                  *)
LEMMA LeastNumber ==
  ASSUME NEW S \in SUBSET Nat, S # {}
  PROVE  \E m \in S : \A k \in S : m <= k
<1>1. IsWellFoundedOn(OpToRel(<, Nat), Nat)
  BY NatLessThanWellFounded
<1>2. S \subseteq Nat
  OBVIOUS
<1>3. \E x \in S : \A y \in S : ~ (<<y, x>> \in OpToRel(<, Nat))
  BY <1>1, <1>2, WFMin, Zenon
<1>4. ASSUME NEW x \in Nat, NEW y \in Nat, x < y
      PROVE  <<x, y>> \in OpToRel(<, Nat)
  BY <1>4 DEF OpToRel
<1>5. PICK m \in S : \A y \in S : ~ (<<y, m>> \in OpToRel(<, Nat))
  BY <1>3
<1>6. ASSUME NEW k \in S PROVE m <= k
  <2>1. m \in Nat /\ k \in Nat
    OBVIOUS
  <2>2. ~(k < m)
    BY <2>1, <1>4, <1>5
  <2>3. QED
    BY <2>1, <2>2
<1>7. QED
  BY <1>6

(* A set of numbers that has 0, and the successor of each it has, has all. *)
LEMMA Induction ==
  ASSUME NEW S \in SUBSET Nat, 0 \in S, \A n \in S : n + 1 \in S
  PROVE  S = Nat
<1>1. SUFFICES ASSUME Nat \ S # {} PROVE FALSE
  OBVIOUS
<1>2. PICK m \in Nat \ S : \A k \in Nat \ S : m <= k
  BY <1>1, LeastNumber
<1>3. m # 0 /\ m - 1 \in Nat
  BY <1>2
<1>4. m - 1 \in S
  BY <1>2, <1>3
<1>5. (m - 1) + 1 \in S
  BY <1>4
<1>6. QED
  BY <1>2, <1>5

(* What is defined by recursion over the numbers up to n exists.           *)
Iterates(f, A, n, base, step) ==
  /\ f \in [0 .. n -> A]
  /\ f[0] = base /\ \A i \in 1 .. n : f[i] = step[<<f[i - 1], i>>]

LEMMA Recursion ==
  ASSUME NEW A, NEW n \in Nat, NEW base \in A, NEW step \in [A \X (1 .. n) -> A]
  PROVE  \E f : Iterates(f, A, n, base, step)
<1> DEFINE P(m) ==
      m <= n => \E f \in [0 .. m -> A] :
                  f[0] = base /\ \A i \in 1 .. m : f[i] = step[<<f[i - 1], i>>]
<1> DEFINE G == {m \in Nat : P(m)}
<1>1. P(0)
  <2> DEFINE f == [i \in 0 .. 0 |-> base]
  <2>1. f \in [0 .. 0 -> A] /\ f[0] = base
    OBVIOUS
  <2>2. \A i \in 1 .. 0 : FALSE
    OBVIOUS
  <2> HIDE DEF f
  <2>3. \A i \in 1 .. 0 : f[i] = step[<<f[i - 1], i>>]
    BY <2>2
  <2>4. QED
    BY <2>1, <2>3
<1>2. ASSUME NEW m \in Nat, P(m) PROVE P(m + 1)
  <2>1. SUFFICES ASSUME m + 1 <= n
        PROVE \E f \in [0 .. m + 1 -> A] :
                f[0] = base /\ \A i \in 1 .. m + 1 : f[i] = step[<<f[i - 1], i>>]
    OBVIOUS
  <2>2. PICK f \in [0 .. m -> A] :
               f[0] = base /\ \A i \in 1 .. m : f[i] = step[<<f[i - 1], i>>]
    BY <1>2, <2>1
  <2> DEFINE g == [i \in 0 .. m + 1 |->
                     IF i = m + 1 THEN step[<<f[m], m + 1>>] ELSE f[i]]
  <2>3. g \in [0 .. m + 1 -> A]
    BY <2>1
  <2>4. g[0] = base
    BY <2>2
  <2>5. ASSUME NEW i \in 1 .. m + 1 PROVE g[i] = step[<<g[i - 1], i>>]
    <3>1. i - 1 \in 0 .. m /\ g[i - 1] = f[i - 1]
      OBVIOUS
    <3>2. CASE i = m + 1
      <4>1. i - 1 = m /\ g[i] = step[<<f[m], m + 1>>]
        BY <3>2
      <4> HIDE DEF g
      <4>2. <<g[i - 1], i>> = <<f[m], m + 1>>
        BY <3>1, <3>2, <4>1
      <4>3. QED
        BY <4>1, <4>2, Zenon
    <3>3. CASE i # m + 1
      <4>1. i \in 1 .. m /\ g[i] = f[i]
        BY <3>3
      <4>2. f[i] = step[<<f[i - 1], i>>]
        BY <2>2, <4>1
      <4>3. QED
        BY <3>1, <4>1, <4>2
    <3>4. QED
      BY <3>2, <3>3
  <2>6. QED
    BY <2>3, <2>4, <2>5
<1>3. 0 \in G /\ \A m \in G : m + 1 \in G
  <2> HIDE DEF P
  <2>1. QED
    BY <1>1, <1>2
<1>4. G = Nat
  <2> HIDE DEF G
  <2>1. G \in SUBSET Nat
    BY DEF G
  <2>2. QED
    BY <1>3, <2>1, Induction
<1>5. P(n)
  <2> HIDE DEF P
  <2>1. QED
    BY <1>4
<1>6. QED
  BY <1>5 DEF Iterates

(* FlattenSeq joins one string after the other: what it has joined of the  *)
(* first i is f[i].                                                        *)
LEMMA FlattenRec ==
  ASSUME NEW A, NEW s \in Seq(Seq(A)), Len(s) > 0
  PROVE  \E f \in [1 .. Len(s) -> Seq(A)] :
           /\ f[1] = s[1]
           /\ \A i \in 2 .. Len(s) : f[i] = f[i - 1] \o s[i]
           /\ Log!FlattenSeq(s) = f[Len(s)]
<1> DEFINE n == Len(s)
<1> DEFINE T == Seq(A)
<1> DEFINE D(f) == f = [i \in 1 .. n |-> IF i = 1 THEN s[i] ELSE f[i - 1] \o s[i]]
<1> DEFINE step == [q \in T \X (1 .. n) |-> q[1] \o s[q[2]]]
<1>0. n \in Nat /\ n > 0 /\ \A i \in 1 .. n : s[i] \in T
  OBVIOUS
<1>1. step \in [T \X (1 .. n) -> T]
  <2>1. ASSUME NEW q \in T \X (1 .. n) PROVE q[1] \o s[q[2]] \in T
    <3>1. q[1] \in Seq(A) /\ s[q[2]] \in Seq(A)
      BY <1>0
    <3>2. QED
      BY <3>1
  <2>2. QED
    BY <2>1
<1>2. <<>> \in T
  OBVIOUS
<1>3. \A t \in T : \A i \in 1 .. n : step[<<t, i>>] = t \o s[i]
  OBVIOUS
<1>4. \A t \in T : <<>> \o t = t
  OBVIOUS
<1> HIDE DEF step, n, T
<1>5. PICK f \in [0 .. n -> T] :
             f[0] = <<>> /\ \A i \in 1 .. n : f[i] = step[<<f[i - 1], i>>]
  <2>1. \E f : Iterates(f, T, n, <<>>, step)
    BY <1>0, <1>1, <1>2, Recursion
  <2>2. QED
    BY <2>1 DEF Iterates
<1>6. ASSUME NEW i \in 1 .. n PROVE f[i] = f[i - 1] \o s[i]
  <2>1. i - 1 \in 0 .. n
    BY <1>0
  <2>2. f[i - 1] \in T
    BY <2>1
  <2>3. QED
    BY <1>3, <1>5, <2>2
<1>7. f[1] = s[1]
  <2>1. 1 \in 1 .. n /\ 1 - 1 = 0
    BY <1>0
  <2>2. f[1] = f[1 - 1] \o s[1]
    BY <1>6, <2>1, Zenon
  <2>3. f[1 - 1] = <<>>
    BY <1>5, <2>1, Zenon
  <2>4. s[1] \in T
    BY <1>0, <2>1, Zenon
  <2>5. QED
    BY <1>4, <2>2, <2>3, <2>4, Zenon
<1> DEFINE h == [i \in 1 .. n |-> f[i]]
<1>8. h = [i \in 1 .. n |-> IF i = 1 THEN s[i] ELSE h[i - 1] \o s[i]]
  <2>1. ASSUME NEW i \in 1 .. n
        PROVE  h[i] = IF i = 1 THEN s[i] ELSE h[i - 1] \o s[i]
    <3>1. CASE i = 1
      BY <1>7, <3>1
    <3>2. CASE i # 1
      <4>1. i - 1 \in 1 .. n
        BY <1>0, <3>2
      <4>2. h[i - 1] = f[i - 1] /\ h[i] = f[i]
        BY <4>1
      <4> HIDE DEF h
      <4>3. QED
        BY <1>6, <3>2, <4>2
    <3>3. QED
      BY <3>1, <3>2
  <2>2. h = [i \in 1 .. n |-> h[i]]
    OBVIOUS
  <2> HIDE DEF h
  <2>3. QED
    BY <2>1, <2>2
<1> DEFINE g == CHOOSE e : D(e)
<1>9. D(g)
  <2>1. D(h)
    BY <1>8
  <2> HIDE DEF h, D
  <2>2. QED
    BY <2>1, Zenon
<1>10. Log!FlattenSeq(s) = g[n]
  BY <1>0 DEF Log!FlattenSeq, n
<1> HIDE DEF g
<1>11. g = [i \in 1 .. n |-> IF i = 1 THEN s[i] ELSE g[i - 1] \o s[i]]
  BY <1>9
<1>12. g[1] = s[1] /\ \A i \in 2 .. n : g[i] = g[i - 1] \o s[i]
  <2>1. 1 \in 1 .. n
    BY <1>0
  <2>2. ASSUME NEW i \in 2 .. n PROVE i \in 1 .. n /\ i # 1
    BY <1>0
  <2>3. ASSUME NEW i \in 1 .. n
        PROVE  g[i] = IF i = 1 THEN s[i] ELSE g[i - 1] \o s[i]
    BY <1>11, Zenon
  <2>4. QED
    BY <2>1, <2>2, <2>3, Zenon
<1> DEFINE P == {i \in Nat : i + 1 <= n => g[i + 1] \in T}
<1>13. P = Nat
  <2>1. 0 \in P
    BY <1>0, <1>12
  <2>2. ASSUME NEW i \in P PROVE i + 1 \in P
    <3>1. SUFFICES ASSUME (i + 1) + 1 <= n PROVE g[(i + 1) + 1] \in T
      OBVIOUS
    <3>2. g[i + 1] \in T /\ (i + 1) + 1 \in 2 .. n
      BY <1>0, <3>1
    <3>3. g[(i + 1) + 1] = g[i + 1] \o s[(i + 1) + 1]
      <4>1. g[(i + 1) + 1] = g[((i + 1) + 1) - 1] \o s[(i + 1) + 1]
        BY <1>12, <3>2, Zenon
      <4>2. ((i + 1) + 1) - 1 = i + 1
        OBVIOUS
      <4>3. QED
        BY <4>1, <4>2, Zenon
    <3>4. s[(i + 1) + 1] \in T
      BY <1>0, <3>2
    <3>5. QED
      BY <3>2, <3>3, <3>4 DEF T
  <2> HIDE DEF P
  <2>3. P \in SUBSET Nat
    BY DEF P
  <2>4. QED
    BY <2>1, <2>2, <2>3, Induction
<1>14. ASSUME NEW i \in 1 .. n PROVE g[i] \in T
  <2>1. i - 1 \in P
    <3>1. i - 1 \in Nat
      OBVIOUS
    <3> HIDE DEF P
    <3>2. QED
      BY <1>13, <3>1
  <2>2. (i - 1) + 1 = i /\ (i - 1) + 1 <= n
    BY <1>0
  <2>3. (i - 1) + 1 <= n => g[(i - 1) + 1] \in T
    BY <2>1, Zenon
  <2>4. QED
    BY <2>2, <2>3, Zenon
<1>15. g \in [1 .. n -> T]
  BY <1>11, <1>14
<1>16. QED
  BY <1>10, <1>12, <1>15 DEF n, T

(* Two strings in one have the lines of both, in order if all of the first *)
(* come before all of the second.                                          *)
LEMMA ConcatFacts ==
  ASSUME NEW X \in SUBSET Nat, NEW a \in Seq(X), NEW b \in Seq(X)
  PROVE  /\ a \o b \in Seq(X)
         /\ Log!ToSet(a \o b) = Log!ToSet(a) \union Log!ToSet(b)
         /\ Log!Increasing(a) /\ Log!Increasing(b)
              /\ (\A i \in Log!ToSet(a), j \in Log!ToSet(b) : i < j)
            => Log!Increasing(a \o b)
<1> DEFINE c == a \o b
<1>1. /\ c \in Seq(X) /\ Len(c) = Len(a) + Len(b)
      /\ Len(a) \in Nat /\ Len(b) \in Nat
      /\ DOMAIN a = 1 .. Len(a) /\ DOMAIN b = 1 .. Len(b) /\ DOMAIN c = 1 .. Len(a) + Len(b)
      /\ \A k \in 1 .. Len(a) : c[k] = a[k]
      /\ \A k \in 1 .. Len(b) : c[Len(a) + k] = b[k]
  OBVIOUS
<1>2. ASSUME NEW k \in DOMAIN c
      PROVE  \/ k \in DOMAIN a /\ c[k] = a[k]
             \/ k - Len(a) \in DOMAIN b /\ c[k] = b[k - Len(a)]
  <2> HIDE DEF c
  <2>1. CASE k <= Len(a)
    BY <1>1, <2>1
  <2>2. CASE k > Len(a)
    <3>1. k - Len(a) \in 1 .. Len(b) /\ Len(a) + (k - Len(a)) = k
      BY <1>1, <2>2
    <3>2. c[Len(a) + (k - Len(a))] = b[k - Len(a)]
      BY <1>1, <3>1
    <3>3. QED
      BY <1>1, <3>1, <3>2
  <2>3. QED
    BY <1>1, <2>1, <2>2
<1>3. Log!ToSet(c) = Log!ToSet(a) \union Log!ToSet(b)
  <2> HIDE DEF c
  <2>1. ASSUME NEW x \in Log!ToSet(c) PROVE x \in Log!ToSet(a) \union Log!ToSet(b)
    BY <1>2 DEF Log!ToSet
  <2>2. ASSUME NEW x \in Log!ToSet(a) PROVE x \in Log!ToSet(c)
    BY <1>1 DEF Log!ToSet
  <2>3. ASSUME NEW x \in Log!ToSet(b) PROVE x \in Log!ToSet(c)
    <3>1. PICK k \in DOMAIN b : b[k] = x
      BY DEF Log!ToSet
    <3>2. Len(a) + k \in DOMAIN c /\ c[Len(a) + k] = x
      BY <1>1, <3>1
    <3>3. QED
      BY <3>2 DEF Log!ToSet
  <2>4. QED
    BY <2>1, <2>2, <2>3
<1>4. ASSUME Log!Increasing(a), Log!Increasing(b),
             \A i \in Log!ToSet(a), j \in Log!ToSet(b) : i < j,
             NEW k \in DOMAIN c, NEW l \in DOMAIN c, k < l
      PROVE  c[k] < c[l]
  <2> HIDE DEF c
  <2>1. k \in Nat /\ l \in Nat
    BY <1>1
  <2>2. CASE l \in DOMAIN a /\ c[l] = a[l]
    <3>1. k \in DOMAIN a /\ c[k] = a[k]
      BY <1>1, <1>4, <2>1, <2>2
    <3>2. QED
      BY <1>4, <2>2, <3>1 DEF Log!Increasing
  <2>3. CASE l - Len(a) \in DOMAIN b /\ c[l] = b[l - Len(a)]
    <3>1. CASE k \in DOMAIN a /\ c[k] = a[k]
      BY <1>4, <2>3, <3>1 DEF Log!ToSet
    <3>2. CASE k - Len(a) \in DOMAIN b /\ c[k] = b[k - Len(a)]
      <4>1. k - Len(a) < l - Len(a)
        BY <1>1, <1>4, <2>1
      <4>2. QED
        BY <1>4, <2>3, <3>2, <4>1 DEF Log!Increasing
    <3>3. QED
      BY <1>2, <3>1, <3>2
  <2>4. QED
    BY <1>2, <2>2, <2>3
<1>5. QED
  BY <1>1, <1>3, <1>4 DEF Log!Increasing

(* Strings joined to one: their lines, in order if they were.              *)
LEMMA FlattenFacts ==
  ASSUME NEW X \in SUBSET Nat, NEW s \in Seq(Seq(X))
  PROVE  /\ Log!FlattenSeq(s) \in Seq(X)
         /\ Log!ToSet(Log!FlattenSeq(s)) = Log!Lines(s)
         /\ Log!Ordered(s) => Log!Increasing(Log!FlattenSeq(s))
<1>1. CASE Len(s) = 0
  <2>1. s = <<>> /\ DOMAIN s = {}
    BY <1>1
  <2>2. Log!FlattenSeq(s) = <<>>
    BY <1>1, <2>1 DEF Log!FlattenSeq
  <2>3. DOMAIN <<>> = {} /\ <<>> \in Seq(X)
    OBVIOUS
  <2>4. Log!ToSet(<<>>) = {} /\ Log!Increasing(<<>>)
    BY <2>3 DEF Log!ToSet, Log!Increasing
  <2>5. Log!Lines(s) = {}
    BY <2>1 DEF Log!Lines
  <2>6. QED
    BY <2>2, <2>3, <2>4, <2>5
<1>2. CASE Len(s) # 0
  <2> DEFINE n == Len(s)
  <2>0. n \in Nat /\ n > 0 /\ DOMAIN s = 1 .. n /\ \A i \in 1 .. n : s[i] \in Seq(X)
    BY <1>2
  <2>1. PICK f \in [1 .. n -> Seq(X)] :
               /\ f[1] = s[1]
               /\ \A i \in 2 .. n : f[i] = f[i - 1] \o s[i]
               /\ Log!FlattenSeq(s) = f[n]
    BY <2>0, FlattenRec
  <2> HIDE DEF n
  <2> DEFINE Up(i) == UNION {Log!ToSet(s[h]) : h \in 1 .. i}
  <2> DEFINE Good(i) ==
        Log!ToSet(f[i]) = Up(i) /\ (Log!Ordered(s) => Log!Increasing(f[i]))
  <2> DEFINE P == {i \in Nat : i + 1 <= n => Good(i + 1)}
  <2>2. Good(1)
    <3>1. Up(1) = Log!ToSet(s[1])
      OBVIOUS
    <3>2. 1 \in DOMAIN s
      BY <2>0
    <3>3. Log!Ordered(s) => Log!Increasing(s[1])
      BY <3>2 DEF Log!Ordered
    <3> HIDE DEF Up
    <3>4. QED
      BY <2>1, <3>1, <3>3
  <2>3. ASSUME NEW i \in 1 .. n, i + 1 <= n, Good(i) PROVE Good(i + 1)
    <3>1. /\ i + 1 \in 2 .. n /\ (i + 1) - 1 = i /\ i + 1 \in DOMAIN s
          /\ i \in Nat
      BY <2>0, <2>3
    <3>2. f[i + 1] = f[i] \o s[i + 1]
      BY <2>1, <3>1
    <3>3. f[i] \in Seq(X) /\ s[i + 1] \in Seq(X)
      BY <2>0, <3>1
    <3>4. Up(i + 1) = Up(i) \union Log!ToSet(s[i + 1])
      <4>1. 1 .. i + 1 = (1 .. i) \union {i + 1}
        BY <3>1
      <4>2. QED
        BY <4>1
    <3>5. Log!ToSet(f[i + 1]) = Up(i + 1)
      <4>1. Log!ToSet(f[i] \o s[i + 1]) = Log!ToSet(f[i]) \union Log!ToSet(s[i + 1])
        BY <3>3, ConcatFacts
      <4>2. Log!ToSet(f[i]) = Up(i)
        BY <2>3
      <4> HIDE DEF Up
      <4>3. QED
        BY <3>2, <3>4, <4>1, <4>2
    <3>6. ASSUME Log!Ordered(s) PROVE Log!Increasing(f[i + 1])
      <4>1. Log!Increasing(s[i + 1])
        BY <3>1, <3>6 DEF Log!Ordered
      <4>2. ASSUME NEW x \in Log!ToSet(f[i]), NEW y \in Log!ToSet(s[i + 1])
            PROVE  x < y
        <5>1. PICK h \in 1 .. i : x \in Log!ToSet(s[h])
          BY <2>3, <4>2
        <5>2. h \in DOMAIN s /\ h < i + 1
          BY <2>0, <3>1
        <5>3. QED
          BY <3>1, <3>6, <5>1, <5>2 DEF Log!Ordered
      <4>3. QED
        BY <2>3, <3>2, <3>3, <3>6, <4>1, <4>2, ConcatFacts
    <3>7. QED
      BY <3>5, <3>6
  <2>4. P = Nat
    <3> HIDE DEF Good
    <3>1. 0 \in P
      BY <2>2
    <3>2. ASSUME NEW i \in P PROVE i + 1 \in P
      <4>1. SUFFICES ASSUME (i + 1) + 1 <= n PROVE Good((i + 1) + 1)
        OBVIOUS
      <4>2. i + 1 \in 1 .. n /\ Good(i + 1)
        BY <2>0, <4>1
      <4>3. QED
        BY <2>3, <4>1, <4>2
    <3> HIDE DEF P
    <3>3. P \in SUBSET Nat
      BY DEF P
    <3>4. QED
      BY <3>1, <3>2, <3>3, Induction
  <2>5. Good(n)
    <3> HIDE DEF Good
    <3>1. n - 1 \in Nat /\ (n - 1) + 1 = n
      BY <2>0
    <3>2. n - 1 \in P
      <4> HIDE DEF P
      <4>1. QED
        BY <2>4, <3>1
    <3>3. (n - 1) + 1 <= n => Good((n - 1) + 1)
      BY <3>2, Zenon
    <3>4. QED
      BY <2>0, <3>1, <3>3
  <2>6. Up(n) = Log!Lines(s)
    BY <2>0 DEF Log!Lines
  <2>7. f[n] \in Seq(X)
    BY <2>0
  <2>8. QED
    BY <2>1, <2>5, <2>6, <2>7
<1>3. QED
  BY <1>1, <1>2

(* One string, and two.                                                    *)
LEMMA FlattenFew ==
  ASSUME NEW X, NEW s \in Seq(Seq(X))
  PROVE  /\ Len(s) = 1 => Log!FlattenSeq(s) = s[1]
         /\ Len(s) = 2 => Log!FlattenSeq(s) = s[1] \o s[2]
<1>1. SUFFICES ASSUME Len(s) \in {1, 2}
               PROVE  /\ Len(s) = 1 => Log!FlattenSeq(s) = s[1]
                      /\ Len(s) = 2 => Log!FlattenSeq(s) = s[1] \o s[2]
  OBVIOUS
<1>2. PICK f \in [1 .. Len(s) -> Seq(X)] :
             /\ f[1] = s[1]
             /\ \A i \in 2 .. Len(s) : f[i] = f[i - 1] \o s[i]
             /\ Log!FlattenSeq(s) = f[Len(s)]
  <2> DEFINE n == Len(s)
  <2>1. n > 0
    BY <1>1
  <2>2. QED
    BY <2>1, FlattenRec
<1>3. ASSUME Len(s) = 2 PROVE f[2] = f[1] \o s[2]
  <2>1. 2 \in 2 .. Len(s) /\ 2 - 1 = 1
    BY <1>3
  <2>2. f[2] = f[2 - 1] \o s[2]
    BY <1>2, <2>1, Zenon
  <2>3. QED
    BY <2>1, <2>2, Zenon
<1>4. QED
  BY <1>2, <1>3, Zenon

(* Where the blocks begin and end.                                         *)
LEMMA DivFacts ==
  ASSUME NEW n \in Nat \ {0}, NEW a \in Nat
  PROVE  /\ a \div n \in Nat
         /\ n * (a \div n) <= a
         /\ a < n * (a \div n) + n
OBVIOUS

LEMMA TimesFacts ==
  ASSUME NEW n \in Nat \ {0}, NEW a \in Nat, NEW b \in Nat
  PROVE  /\ n * a \in Nat /\ n * (a + 1) = n * a + n
         /\ a <= b => n * a <= n * b
<1>1. n * a \in Nat /\ n * (a + 1) = n * a + n
  OBVIOUS
<1>2. ASSUME a <= b PROVE n * a <= n * b
  <2>1. PICK d \in Nat : b = a + d
    BY <1>2
  <2>2. n * b = n * a + n * d /\ n * d \in Nat /\ n * a \in Nat
    BY <2>1
  <2>3. QED
    BY <2>2
<1>3. QED
  BY <1>1, <1>2

(* Every string is in a block, and a block ends before the next begins.    *)
LEMMA BlockBounds ==
  ASSUME NEW n \in Nat \ {0}, NEW l \in Nat, NEW m, m = (l + n - 1) \div n
  PROVE  /\ m \in Nat
         /\ \A b \in 1 .. m : /\ n * (b - 1) \in Nat /\ n * b \in Nat
                            /\ n * (b - 1) + 1 <= l /\ n * (b - 1) + 1 <= n * b
         /\ \A s \in 1 .. l : \E b \in 1 .. m : n * (b - 1) + 1 <= s /\ s <= n * b
         /\ \A b, c \in 1 .. m : b < c => n * b <= n * (c - 1)
<1>0. l + n - 1 \in Nat
  OBVIOUS
<1>1. m \in Nat /\ n * m <= l + n - 1 /\ l + n - 1 < n * m + n /\ n * m \in Nat
  <2>1. /\ (l + n - 1) \div n \in Nat
        /\ n * ((l + n - 1) \div n) <= l + n - 1
        /\ l + n - 1 < n * ((l + n - 1) \div n) + n
    BY <1>0, DivFacts
  <2>2. m \in Nat
    BY <2>1
  <2>3. n * m \in Nat
    BY <2>2, TimesFacts
  <2>4. QED
    BY <2>1, <2>2, <2>3
<1>2. ASSUME NEW b \in 1 .. m
      PROVE  /\ n * (b - 1) \in Nat /\ n * b \in Nat
             /\ n * (b - 1) + 1 <= l /\ n * (b - 1) + 1 <= n * b
  <2>1. b \in Nat /\ b - 1 \in Nat /\ b <= m /\ (b - 1) + 1 = b
    BY <1>1
  <2>2. n * (b - 1) \in Nat /\ n * ((b - 1) + 1) = n * (b - 1) + n /\ n * b <= n * m
    BY <1>1, <2>1, TimesFacts
  <2>3. n * b = n * (b - 1) + n
    BY <2>1, <2>2
  <2>4. QED
    BY <1>1, <2>2, <2>3
<1>3. ASSUME NEW s \in 1 .. l
      PROVE  \E b \in 1 .. m : n * (b - 1) + 1 <= s /\ s <= n * b
  <2> DEFINE q == (s - 1) \div n
  <2>1. s - 1 \in Nat
    OBVIOUS
  <2>2. q \in Nat /\ n * q <= s - 1 /\ s - 1 < n * q + n
    BY <2>1, DivFacts
  <2> HIDE DEF q
  <2>3. n * q \in Nat /\ n * (q + 1) = n * q + n
    BY <2>2, TimesFacts
  <2>4. q < m
    <3>1. SUFFICES ASSUME m <= q PROVE FALSE
      BY <1>1, <2>2
    <3>2. n * m <= n * q
      BY <1>1, <2>2, <3>1, TimesFacts
    <3>3. QED
      BY <1>1, <2>2, <2>3, <3>2
  <2>5. q + 1 \in 1 .. m /\ (q + 1) - 1 = q
    BY <1>1, <2>2, <2>4
  <2>6. n * ((q + 1) - 1) + 1 <= s /\ s <= n * (q + 1)
    BY <2>2, <2>3, <2>5
  <2>7. QED
    BY <2>5, <2>6
<1>4. ASSUME NEW b \in 1 .. m, NEW c \in 1 .. m, b < c PROVE n * b <= n * (c - 1)
  <2>1. b \in Nat /\ c - 1 \in Nat /\ b <= c - 1
    BY <1>1, <1>4
  <2>2. QED
    BY <2>1, TimesFacts
<1>5. QED
  BY <1>1, <1>2, <1>3, <1>4

(* A part of a sequence.                                                   *)
LEMMA SubStrings ==
  ASSUME NEW T, NEW s \in Seq(T), NEW i \in Nat, NEW j \in Nat,
         1 <= i, i <= j, j <= Len(s)
  PROVE  /\ SubSeq(s, i, j) \in Seq(T)
         /\ Len(SubSeq(s, i, j)) = j - i + 1
         /\ DOMAIN SubSeq(s, i, j) = 1 .. j - i + 1
         /\ \A k \in 1 .. j - i + 1 : SubSeq(s, i, j)[k] = s[i + k - 1]
<1>1. \A k \in 1 .. j - i + 1 : i + k - 1 \in 1 .. Len(s)
  OBVIOUS
<1>2. QED
  BY <1>1

(* The part of two.                                                        *)
LEMMA SubPair ==
  ASSUME NEW T, NEW s \in Seq(T), NEW i \in Nat, NEW j \in Nat,
         1 <= i, j = i + 1, j <= Len(s)
  PROVE  /\ SubSeq(s, i, j) \in Seq(T) /\ Len(SubSeq(s, i, j)) = 2
         /\ SubSeq(s, i, j)[1] = s[i] /\ SubSeq(s, i, j)[2] = s[j]
<1>1. /\ SubSeq(s, i, j) \in Seq(T) /\ Len(SubSeq(s, i, j)) = j - i + 1
      /\ \A k \in 1 .. j - i + 1 : SubSeq(s, i, j)[k] = s[i + k - 1]
  BY SubStrings
<1>2. j - i + 1 = 2 /\ i + 1 - 1 = i /\ i + 2 - 1 = j
  OBVIOUS
<1>3. 1 \in 1 .. 2 /\ 2 \in 1 .. 2
  OBVIOUS
<1>4. QED
  BY <1>1, <1>2, <1>3, Zenon

(* A block is made of the strings i to j, and has their lines.             *)
BlockFrom(n, b) == n * (b - 1) + 1
BlockTo(strings, n, b) == IF n * b < Len(strings) THEN n * b ELSE Len(strings)

Joins(block, strings, i, j) ==
  /\ i \in Nat /\ j \in Nat /\ 1 <= i /\ i <= j /\ j <= Len(strings)
  /\ block = Log!FlattenSeq(SubSeq(strings, i, j))
  /\ Log!ToSet(block) = UNION {Log!ToSet(strings[s]) : s \in i .. j}
  /\ Log!Ordered(strings) => Log!Increasing(block)

(* make_blocks makes each of its blocks of the strings that are its own.   *)
LEMMA BlockOf ==
  ASSUME NEW X \in SUBSET Nat, NEW S \in Seq(Seq(X)), NEW n \in Nat \ {0},
         NEW B, B = Log!make_blocks(S, n)
  PROVE  /\ B \in Seq(Seq(X))
         /\ Len(B) = (Len(S) + n - 1) \div n
         /\ \A b \in 1 .. Len(B) : Joins(B[b], S, BlockFrom(n, b), BlockTo(S, n, b))
<1> DEFINE m == (Len(S) + n - 1) \div n
<1>1. Len(S) \in Nat /\ DOMAIN S = 1 .. Len(S)
  OBVIOUS
<1>2. /\ m \in Nat
      /\ \A b \in 1 .. m : /\ n * (b - 1) \in Nat /\ n * b \in Nat
                           /\ n * (b - 1) + 1 <= Len(S) /\ n * (b - 1) + 1 <= n * b
  BY <1>1, BlockBounds
<1>3. B = [b \in 1 .. m |-> Log!FlattenSeq(SubSeq(S, n * (b - 1) + 1, BlockTo(S, n, b)))]
  BY DEF Log!make_blocks, BlockTo
<1> HIDE DEF m
<1>4. ASSUME NEW b \in 1 .. m
      PROVE  /\ B[b] \in Seq(X)
             /\ Joins(B[b], S, BlockFrom(n, b), BlockTo(S, n, b))
  <2> DEFINE i == BlockFrom(n, b)
  <2> DEFINE j == BlockTo(S, n, b)
  <2> DEFINE t == SubSeq(S, i, j)
  <2>1. i \in Nat /\ j \in Nat /\ 1 <= i /\ i <= j /\ j <= Len(S)
    <3>1. /\ n * (b - 1) \in Nat /\ n * b \in Nat
          /\ n * (b - 1) + 1 <= Len(S) /\ n * (b - 1) + 1 <= n * b
      BY <1>2
    <3>2. (j = n * b /\ n * b < Len(S)) \/ j = Len(S)
      BY DEF BlockTo
    <3>3. i = n * (b - 1) + 1
      BY DEF BlockFrom
    <3> HIDE DEF i, j
    <3>4. QED
      BY <1>1, <3>1, <3>2, <3>3
  <2>2. B[b] = Log!FlattenSeq(t)
    BY <1>3 DEF BlockFrom
  <2> HIDE DEF i, j
  <2>3. /\ t \in Seq(Seq(X)) /\ Len(t) = j - i + 1
        /\ DOMAIN t = 1 .. j - i + 1
        /\ \A k \in 1 .. j - i + 1 : t[k] = S[i + k - 1]
    BY <2>1, SubStrings, SMTT(20)
  <2> HIDE DEF t
  <2>4. B[b] \in Seq(X) /\ Log!ToSet(B[b]) = Log!Lines(t)
    BY <2>2, <2>3, FlattenFacts
  <2>5. ASSUME NEW s \in i .. j
        PROVE  s - i + 1 \in DOMAIN t /\ t[s - i + 1] = S[s]
    <3>1. s - i + 1 \in 1 .. j - i + 1 /\ i + (s - i + 1) - 1 = s
      BY <2>1
    <3>2. t[s - i + 1] = S[i + (s - i + 1) - 1]
      BY <2>3, <3>1
    <3>3. QED
      BY <2>3, <3>1, <3>2
  <2>6. ASSUME NEW k \in DOMAIN t
        PROVE  k \in Nat /\ i + k - 1 \in i .. j /\ t[k] = S[i + k - 1]
    <3>1. k \in 1 .. j - i + 1
      BY <2>3
    <3>2. k \in Nat /\ i + k - 1 \in i .. j
      BY <2>1, <3>1
    <3>3. QED
      BY <2>3, <3>1, <3>2
  <2>7. Log!Lines(t) = UNION {Log!ToSet(S[s]) : s \in i .. j}
    <3>1. ASSUME NEW x \in Log!Lines(t)
          PROVE  x \in UNION {Log!ToSet(S[s]) : s \in i .. j}
      BY <2>6 DEF Log!Lines
    <3>2. ASSUME NEW s \in i .. j, NEW x \in Log!ToSet(S[s]) PROVE x \in Log!Lines(t)
      BY <2>5 DEF Log!Lines
    <3>3. QED
      BY <3>1, <3>2
  <2>8. ASSUME Log!Ordered(S) PROVE Log!Ordered(t)
    <3>1. ASSUME NEW k \in DOMAIN t PROVE Log!Increasing(t[k])
      <4>1. i + k - 1 \in DOMAIN S
        BY <1>1, <2>1, <2>6
      <4>2. QED
        BY <2>6, <2>8, <4>1 DEF Log!Ordered
    <3>2. ASSUME NEW k \in DOMAIN t, NEW l \in DOMAIN t, k < l,
                 NEW x \in Log!ToSet(t[k]), NEW y \in Log!ToSet(t[l])
          PROVE  x < y
      <4>1. /\ i + k - 1 \in DOMAIN S /\ i + l - 1 \in DOMAIN S
            /\ i + k - 1 < i + l - 1
        <5>1. k \in Nat /\ l \in Nat /\ i + k - 1 \in i .. j /\ i + l - 1 \in i .. j
          BY <2>6
        <5>2. i + k - 1 \in DOMAIN S /\ i + l - 1 \in DOMAIN S
          <6>1. \A r \in i .. j : r \in DOMAIN S
            BY <1>1, <2>1
          <6>2. QED
            BY <5>1, <6>1, Zenon
        <5>3. i + k - 1 < i + l - 1
          BY <2>1, <3>2, <5>1
        <5>4. QED
          BY <5>2, <5>3
      <4>2. QED
        BY <2>6, <2>8, <3>2, <4>1 DEF Log!Ordered
    <3>3. QED
      BY <3>1, <3>2 DEF Log!Ordered
  <2>9. Log!Ordered(S) => Log!Increasing(B[b])
    BY <2>2, <2>3, <2>8, FlattenFacts
  <2>10. QED
    BY <2>1, <2>2, <2>4, <2>7, <2>9 DEF Joins, i, j, t
<1>5. B \in Seq(Seq(X)) /\ Len(B) = m
  <2>1. \A b \in 1 .. m : B[b] \in Seq(X)
    BY <1>4
  <2>2. B \in [1 .. m -> Seq(X)]
    BY <1>3, <2>1
  <2>3. QED
    BY <1>2, <2>2
<1>6. QED
  BY <1>4, <1>5 DEF m

(* Blocks lose no line, and are in the order of their strings.             *)
LEMMA BlockFacts ==
  ASSUME NEW X \in SUBSET Nat, NEW S \in Seq(Seq(X)), NEW n \in Nat \ {0},
         NEW B, B = Log!make_blocks(S, n)
  PROVE  /\ Log!Lines(B) = Log!Lines(S)
         /\ Log!Ordered(S) => Log!Ordered(B)
<1> DEFINE From(b) == BlockFrom(n, b)
<1> DEFINE To(b) == BlockTo(S, n, b)
<1>1. Len(S) \in Nat /\ DOMAIN S = 1 .. Len(S)
  OBVIOUS
<1>2. /\ B \in Seq(Seq(X)) /\ Len(B) = (Len(S) + n - 1) \div n
      /\ \A b \in 1 .. Len(B) : Joins(B[b], S, From(b), To(b))
  BY BlockOf
<1>3. /\ \A s \in 1 .. Len(S) : \E b \in 1 .. Len(B) :
            n * (b - 1) + 1 <= s /\ s <= n * b
      /\ \A b, c \in 1 .. Len(B) : b < c => n * b <= n * (c - 1)
      /\ \A b \in 1 .. Len(B) : n * (b - 1) \in Nat /\ n * b \in Nat
  BY <1>1, <1>2, BlockBounds
<1>4. DOMAIN B = 1 .. Len(B) /\ Len(B) \in Nat
  BY <1>2
<1>5. ASSUME NEW s \in 1 .. Len(S) PROVE \E b \in 1 .. Len(B) : s \in From(b) .. To(b)
  <2>1. PICK b \in 1 .. Len(B) : n * (b - 1) + 1 <= s /\ s <= n * b
    BY <1>3
  <2>2. n * (b - 1) \in Nat /\ n * b \in Nat
    BY <1>3
  <2>3. s \in From(b) .. To(b)
    BY <1>1, <2>1, <2>2 DEF BlockFrom, BlockTo
  <2>4. QED
    BY <2>3
<1>6. ASSUME NEW b \in 1 .. Len(B), NEW c \in 1 .. Len(B), b < c PROVE To(b) < From(c)
  <2>1. /\ n * (c - 1) \in Nat /\ n * b \in Nat /\ n * b <= n * (c - 1)
    BY <1>3, <1>6
  <2>2. To(b) <= n * b /\ To(b) \in Nat
    BY <1>1, <2>1 DEF BlockTo
  <2>3. From(c) = n * (c - 1) + 1
    BY DEF BlockFrom
  <2> DEFINE p == n * (c - 1)
  <2> DEFINE q == n * b
  <2>4. p \in Nat /\ q \in Nat /\ q <= p /\ To(b) <= q /\ From(c) = p + 1
    BY <2>1, <2>2, <2>3, Zenon
  <2> HIDE DEF From, To, p, q
  <2>5. QED
    BY <2>2, <2>4
<1> HIDE DEF From, To
<1>7. ASSUME NEW b \in 1 .. Len(B)
      PROVE  /\ From(b) .. To(b) \subseteq DOMAIN S
             /\ From(b) \in Nat /\ To(b) \in Nat
             /\ Log!ToSet(B[b]) = UNION {Log!ToSet(S[s]) : s \in From(b) .. To(b)}
             /\ Log!Ordered(S) => Log!Increasing(B[b])
  <2>1. Joins(B[b], S, From(b), To(b))
    BY <1>2
  <2>2. QED
    BY <1>1, <2>1 DEF Joins
<1>8. ASSUME NEW x \in Log!Lines(B) PROVE x \in Log!Lines(S)
  <2>1. PICK b \in 1 .. Len(B) : x \in Log!ToSet(B[b])
    BY <1>4, <1>8 DEF Log!Lines
  <2> DEFINE parts == UNION {Log!ToSet(S[s]) : s \in From(b) .. To(b)}
  <2>a. x \in parts
    BY <1>7, <2>1, Zenon
  <2>2. PICK s \in From(b) .. To(b) : x \in Log!ToSet(S[s])
    BY <2>a
  <2>3. s \in DOMAIN S
    BY <1>7
  <2>4. QED
    BY <2>2, <2>3 DEF Log!Lines
<1>9. ASSUME NEW x \in Log!Lines(S) PROVE x \in Log!Lines(B)
  <2>1. PICK s \in 1 .. Len(S) : x \in Log!ToSet(S[s])
    BY <1>1, <1>9 DEF Log!Lines
  <2>2. PICK b \in 1 .. Len(B) : s \in From(b) .. To(b)
    BY <1>5
  <2> DEFINE parts == UNION {Log!ToSet(S[r]) : r \in From(b) .. To(b)}
  <2>a. x \in parts
    BY <2>1, <2>2
  <2>3. x \in Log!ToSet(B[b])
    BY <1>7, <2>a, Zenon
  <2>4. QED
    BY <1>4, <2>3 DEF Log!Lines
<1>10. ASSUME Log!Ordered(S), NEW b \in 1 .. Len(B), NEW c \in 1 .. Len(B), b < c,
             NEW x \in Log!ToSet(B[b]), NEW y \in Log!ToSet(B[c])
      PROVE  x < y
  <2>a. /\ x \in UNION {Log!ToSet(S[s]) : s \in From(b) .. To(b)}
        /\ y \in UNION {Log!ToSet(S[s]) : s \in From(c) .. To(c)}
    BY <1>7, Zenon
  <2>1. PICK s \in From(b) .. To(b) : x \in Log!ToSet(S[s])
    BY <2>a
  <2>2. PICK t \in From(c) .. To(c) : y \in Log!ToSet(S[t])
    BY <2>a
  <2>3. s < t
    BY <1>6, <1>7, <1>10
  <2>4. s \in DOMAIN S /\ t \in DOMAIN S
    BY <1>7
  <2>5. QED
    BY <1>10, <2>1, <2>2, <2>3, <2>4 DEF Log!Ordered
<1>11. Log!Ordered(S) => Log!Ordered(B)
  BY <1>4, <1>7, <1>10 DEF Log!Ordered
<1>12. QED
  BY <1>8, <1>9, <1>11

-----------------------------------------------------------------------------
(* A block is added to the ones kept, or takes the place of the last.      *)
Replaces(kept, block) == kept # <<>> /\ Log!Repeats(kept[Len(kept)], block)

Ends(r, T, kept, block) ==
  /\ r \in Seq(T) /\ Len(r) \in Nat /\ Len(r) >= 1 /\ r[Len(r)] = block
  /\ Len(r) = IF Replaces(kept, block) THEN Len(kept) ELSE Len(kept) + 1
  /\ \A k \in 1 .. Len(r) - 1 : k \in DOMAIN kept /\ r[k] = kept[k]

(* What Keep does to the blocks kept so far.                               *)
LEMMA KeepFacts ==
  ASSUME NEW T, NEW kept \in Seq(T), NEW block \in T
  PROVE  Ends(Log!Keep(kept, block), T, kept, block)
<1> DEFINE r == Log!Keep(kept, block)
<1>1. Log!Last(kept) = kept[Len(kept)]
  BY DEF Log!Last
<1> HIDE DEF r
<1>2. ASSUME Replaces(kept, block) PROVE Ends(r, T, kept, block)
  <2>1. r = Append(Log!Front(kept), block)
    BY <1>1, <1>2 DEF Log!Keep, Replaces, r
  <2>2. Len(kept) \in Nat /\ Len(kept) > 0 /\ DOMAIN kept = 1 .. Len(kept)
    BY <1>2 DEF Replaces
  <2> DEFINE front == SubSeq(kept, 1, Len(kept) - 1)
  <2>3. /\ front \in Seq(T) /\ Len(front) = Len(kept) - 1
        /\ \A k \in 1 .. Len(kept) - 1 : front[k] = kept[k]
    BY <2>2
  <2>4. r = Append(front, block)
    BY <2>1 DEF Log!Front
  <2> HIDE DEF front
  <2>5. /\ r \in Seq(T) /\ Len(r) = Len(front) + 1 /\ r[Len(front) + 1] = block
        /\ \A k \in 1 .. Len(front) : r[k] = front[k]
    BY <2>3, <2>4
  <2>6. Len(r) = Len(kept) /\ Len(front) + 1 = Len(r) /\ Len(front) = Len(r) - 1
    BY <2>2, <2>3, <2>5
  <2>7. \A k \in 1 .. Len(r) - 1 : k \in DOMAIN kept /\ r[k] = kept[k]
    BY <2>2, <2>3, <2>5, <2>6
  <2>8. QED
    BY <1>2, <2>2, <2>5, <2>6, <2>7 DEF Ends
<1>3. ASSUME ~Replaces(kept, block) PROVE Ends(r, T, kept, block)
  <2>1. r = Append(kept, block)
    BY <1>1, <1>3 DEF Log!Keep, Replaces, r
  <2>2. QED
    BY <1>3, <2>1 DEF Ends
<1>4. QED
  BY <1>2, <1>3 DEF r

(* What a pass has made once it has seen each of the blocks.               *)
LEMMA PassRec ==
  ASSUME NEW X, NEW S, NEW n, NEW B \in Seq(Seq(X)), B = Log!make_blocks(S, n)
  PROVE  \E f \in [0 .. Len(B) -> Seq(Seq(X))] :
           /\ f[0] = <<>>
           /\ \A b \in 1 .. Len(B) : f[b] = Log!Keep(f[b - 1], B[b])
           /\ Log!greedy_compress_pass(S, n) = f[Len(B)]
<1> DEFINE m == Len(B)
<1> DEFINE T == Seq(Seq(X))
<1> DEFINE D(f) == f = [b \in 0 .. m |-> IF b = 0 THEN <<>> ELSE Log!Keep(f[b - 1], B[b])]
<1> DEFINE step == [q \in T \X (1 .. m) |-> Log!Keep(q[1], B[q[2]])]
<1>0. m \in Nat /\ <<>> \in T /\ \A b \in 1 .. m : B[b] \in Seq(X)
  OBVIOUS
<1>1. ASSUME NEW q \in T \X (1 .. m) PROVE Log!Keep(q[1], B[q[2]]) \in T
  <2>1. q[1] \in Seq(Seq(X)) /\ B[q[2]] \in Seq(X)
    BY <1>0
  <2>2. QED
    BY <2>1, KeepFacts DEF Ends
<1>2. step \in [T \X (1 .. m) -> T]
  BY <1>1
<1>3. \A t \in T : \A b \in 1 .. m : step[<<t, b>>] = Log!Keep(t, B[b])
  OBVIOUS
<1> HIDE DEF step, m, T
<1>4. PICK f \in [0 .. m -> T] :
             f[0] = <<>> /\ \A b \in 1 .. m : f[b] = step[<<f[b - 1], b>>]
  <2>1. \E f : Iterates(f, T, m, <<>>, step)
    BY <1>0, <1>2, Recursion
  <2>2. QED
    BY <2>1 DEF Iterates
<1>5. ASSUME NEW b \in 1 .. m PROVE f[b] = Log!Keep(f[b - 1], B[b])
  <2>1. b - 1 \in 0 .. m
    BY <1>0
  <2>2. f[b - 1] \in T
    BY <2>1
  <2>3. QED
    BY <1>3, <1>4, <2>2
<1>6. D(f)
  <2>1. ASSUME NEW b \in 0 .. m
        PROVE  f[b] = IF b = 0 THEN <<>> ELSE Log!Keep(f[b - 1], B[b])
    <3>1. b = 0 \/ b \in 1 .. m
      BY <1>0
    <3>2. QED
      BY <1>4, <1>5, <3>1
  <2>2. f = [b \in 0 .. m |-> f[b]]
    OBVIOUS
  <2>3. QED
    BY <2>1, <2>2
<1> DEFINE g == CHOOSE e : D(e)
<1>7. D(g)
  <2> HIDE DEF D
  <2>1. QED
    BY <1>6, Zenon
<1>8. Log!greedy_compress_pass(S, n) = g[m]
  BY DEF Log!greedy_compress_pass, m
<1> HIDE DEF g
<1>9. g[0] = <<>> /\ \A b \in 1 .. m : g[b] = Log!Keep(g[b - 1], B[b])
  <2>1. ASSUME NEW b \in 0 .. m
        PROVE  g[b] = IF b = 0 THEN <<>> ELSE Log!Keep(g[b - 1], B[b])
    BY <1>7, Zenon
  <2>2. 0 \in 0 .. m
    BY <1>0
  <2>3. ASSUME NEW b \in 1 .. m PROVE b \in 0 .. m /\ b # 0
    BY <1>0
  <2>4. QED
    BY <2>1, <2>2, <2>3, Zenon
<1> DEFINE P == {b \in Nat : b <= m => g[b] \in T}
<1>10. P = Nat
  <2>1. 0 \in P
    BY <1>0, <1>9
  <2>2. ASSUME NEW b \in P PROVE b + 1 \in P
    <3>1. SUFFICES ASSUME b + 1 <= m PROVE g[b + 1] \in T
      OBVIOUS
    <3>2. g[b] \in T /\ b + 1 \in 1 .. m /\ (b + 1) - 1 = b
      BY <1>0, <3>1
    <3>3. g[b + 1] = Log!Keep(g[(b + 1) - 1], B[b + 1])
      BY <1>9, <3>2, Zenon
    <3>4. B[b + 1] \in Seq(X)
      BY <1>0, <3>2
    <3>5. Log!Keep(g[b], B[b + 1]) \in T
      BY <3>2, <3>4, KeepFacts DEF T, Ends
    <3>6. QED
      BY <3>2, <3>3, <3>5, Zenon
  <2> HIDE DEF P
  <2>3. P \in SUBSET Nat
    BY DEF P
  <2>4. QED
    BY <2>1, <2>2, <2>3, Induction
<1>11. g \in [0 .. m -> T]
  <2>1. ASSUME NEW b \in 0 .. m PROVE g[b] \in T
    <3>1. b \in Nat /\ b <= m
      BY <1>0
    <3>2. b \in P
      <4> HIDE DEF P
      <4>1. QED
        BY <1>10, <3>1
    <3>3. QED
      BY <3>1, <3>2
  <2>2. QED
    BY <1>7, <2>1
<1>12. QED
  BY <1>8, <1>9, <1>11 DEF m, T

(* The invariant of the loop of a pass, once it has seen the blocks up to  *)
(* b: the last that is kept is block b, the ones before are some of the    *)
(* earlier, in order, and a block that the next repeats is not among them. *)
Seen(B, b) == UNION {Log!ToSet(B[c]) : c \in 1 .. b}

PassInv(r, B, b) ==
  /\ Len(r) \in Nat /\ Len(r) >= 1 /\ r[Len(r)] = B[b]
  /\ Log!Ordered(r)
  /\ Log!Lines(r) \subseteq Seen(B, b)
  /\ \A x \in Seen(B, b) : Log!Covers(Log!Lines(r), x)
  /\ (\A i \in DOMAIN raw : ~raw[i].timed) => Seen(B, b) \subseteq Log!Lines(r)
  /\ \A c \in 1 .. b - 1 : Log!Repeats(B[c], B[c + 1]) =>
       \A x \in Log!ToSet(B[c]) : x \notin Log!Lines(r)
  /\ (\A c \in 1 .. b - 1 : ~Log!Repeats(B[c], B[c + 1])) =>
       Len(r) = b /\ \A c \in 1 .. b : r[c] = B[c]

(* A step of the loop keeps its invariant: the last block kept goes only   *)
(* if the next says the same, line by line.                                *)
LEMMA KeepStep ==
  ASSUME DOMAIN raw \subseteq Nat,
         NEW B \in Seq(Seq(DOMAIN raw)), Log!Ordered(B),
         NEW b \in 1 .. Len(B), b + 1 <= Len(B),
         NEW kept \in Seq(Seq(DOMAIN raw)), PassInv(kept, B, b),
         NEW r, r = Log!Keep(kept, B[b + 1])
  PROVE  PassInv(r, B, b + 1)
<1> DEFINE block == B[b + 1]
<1> DEFINE head == UNION {Log!ToSet(kept[k]) : k \in 1 .. Len(r) - 1}
<1>0. /\ Len(B) \in Nat /\ DOMAIN B = 1 .. Len(B) /\ b \in Nat /\ b + 1 \in DOMAIN B
      /\ b \in DOMAIN B /\ b < b + 1
      /\ Len(kept) \in Nat /\ Len(kept) >= 1 /\ DOMAIN kept = 1 .. Len(kept)
      /\ kept[Len(kept)] = B[b] /\ Len(kept) \in DOMAIN kept
      /\ block \in Seq(DOMAIN raw) /\ B[b] \in Seq(DOMAIN raw)
  BY DEF PassInv
<1>1. /\ r \in Seq(Seq(DOMAIN raw)) /\ Len(r) \in Nat /\ Len(r) >= 1 /\ r[Len(r)] = block
      /\ Len(r) = IF Replaces(kept, block) THEN Len(kept) ELSE Len(kept) + 1
      /\ \A k \in 1 .. Len(r) - 1 : k \in DOMAIN kept /\ r[k] = kept[k]
  <2> DEFINE T == Seq(DOMAIN raw)
  <2>1. kept \in Seq(T) /\ block \in T /\ r = Log!Keep(kept, block)
    BY <1>0
  <2> HIDE DEF block, T
  <2>2. Ends(r, T, kept, block)
    BY <2>1, KeepFacts
  <2>3. QED
    BY <2>2 DEF T, Ends
<1>2. Replaces(kept, block) <=> Log!Repeats(B[b], block)
  <2>1. kept # <<>>
    BY <1>0
  <2>2. QED
    BY <1>0, <2>1 DEF Replaces
<1>3. /\ DOMAIN r = 1 .. Len(r) /\ Len(r) \in DOMAIN r
      /\ \A k \in 1 .. Len(r) - 1 : k \in DOMAIN r /\ k \in Nat /\ k < Len(r)
      /\ \A k \in DOMAIN r : k \in 1 .. Len(r) - 1 \/ k = Len(r)
      /\ \A k \in DOMAIN r : \A l \in DOMAIN r : k < l => k \in 1 .. Len(r) - 1
  <2>1. Len(r) \in Nat /\ Len(r) >= 1 /\ DOMAIN r = 1 .. Len(r)
    BY <1>1
  <2>2. QED
    BY <2>1
<1>4. \A x \in Log!ToSet(block) : x \in DOMAIN raw /\ x \in Nat
  BY <1>0 DEF Log!ToSet
<1> HIDE DEF block
<1>5. Seen(B, b + 1) = Seen(B, b) \union Log!ToSet(block)
  <2>1. 1 .. b + 1 = (1 .. b) \union {b + 1}
    BY <1>0
  <2>2. QED
    BY <2>1 DEF Seen, block
<1>6. ASSUME NEW x \in Seen(B, b), NEW y \in Log!ToSet(block) PROVE x < y
  <2>1. PICK c \in 1 .. b : x \in Log!ToSet(B[c])
    BY <1>6 DEF Seen
  <2>2. c \in DOMAIN B /\ c < b + 1
    BY <1>0
  <2>3. QED
    BY <1>0, <1>6, <2>1, <2>2 DEF Log!Ordered, block
<1>7. head \subseteq Log!Lines(kept)
  BY <1>1 DEF Log!Lines
<1>8. Log!Lines(r) = head \union Log!ToSet(block)
  <2>1. ASSUME NEW x \in Log!Lines(r) PROVE x \in head \union Log!ToSet(block)
    <3>1. PICK k \in 1 .. Len(r) : x \in Log!ToSet(r[k])
      BY <1>3, <2>1 DEF Log!Lines
    <3>2. k \in 1 .. Len(r) - 1 \/ k = Len(r)
      BY <1>1
    <3>3. QED
      BY <1>1, <3>1, <3>2
  <2>2. ASSUME NEW x \in head PROVE x \in Log!Lines(r)
    <3>1. PICK k \in 1 .. Len(r) - 1 : x \in Log!ToSet(kept[k])
      OBVIOUS
    <3>2. k \in DOMAIN r /\ r[k] = kept[k]
      BY <1>1, <1>3, Zenon
    <3>3. QED
      BY <3>1, <3>2 DEF Log!Lines
  <2>3. ASSUME NEW x \in Log!ToSet(block) PROVE x \in Log!Lines(r)
    <3>1. Len(r) \in DOMAIN r
      BY <1>1, <1>3
    <3>2. QED
      BY <1>1, <2>3, <3>1 DEF Log!Lines
  <2> HIDE DEF head
  <2>4. QED
    BY <2>1, <2>2, <2>3
<1>9. ASSUME ~Replaces(kept, block) PROVE head = Log!Lines(kept)
  <2>1. 1 .. Len(r) - 1 = DOMAIN kept
    BY <1>0, <1>1, <1>9
  <2>2. QED
    BY <2>1 DEF Log!Lines
<1>10. ASSUME Replaces(kept, block) PROVE Log!Lines(kept) = head \union Log!ToSet(B[b])
  <2>1. Len(r) = Len(kept)
    BY <1>1, <1>10
  <2>2. ASSUME NEW x \in Log!Lines(kept) PROVE x \in head \union Log!ToSet(B[b])
    <3>1. PICK k \in 1 .. Len(kept) : x \in Log!ToSet(kept[k])
      BY <1>0, <2>2 DEF Log!Lines
    <3>2. k \in 1 .. Len(r) - 1 \/ k = Len(kept)
      BY <1>0, <1>3, <2>1, Zenon
    <3>3. QED
      BY <1>0, <3>1, <3>2
  <2>3. ASSUME NEW x \in Log!ToSet(B[b]) PROVE x \in Log!Lines(kept)
    BY <1>0, <2>3 DEF Log!Lines
  <2> HIDE DEF head
  <2>4. QED
    BY <1>7, <2>2, <2>3
<1>11. ASSUME Replaces(kept, block), NEW x \in head, NEW y \in Log!ToSet(B[b]) PROVE x < y
  <2>1. PICK k \in 1 .. Len(r) - 1 : x \in Log!ToSet(kept[k])
    BY <1>11
  <2>2. k \in DOMAIN kept /\ k < Len(kept)
    <3>1. Len(r) = Len(kept)
      BY <1>1, <1>11
    <3>2. QED
      BY <1>1, <1>3, <3>1, Zenon
  <2>3. Log!Ordered(kept)
    BY DEF PassInv
  <2>4. QED
    BY <1>0, <1>11, <2>1, <2>2, <2>3 DEF Log!Ordered
<1>12. head \subseteq Seen(B, b)
  BY <1>7 DEF PassInv
<1> HIDE DEF head
<1>13. Log!Ordered(r)
  <2>1. Log!Ordered(kept) /\ Log!Increasing(block)
    BY <1>0 DEF PassInv, Log!Ordered, block
  <2>2. ASSUME NEW k \in DOMAIN r PROVE Log!Increasing(r[k])
    <3>1. k \in 1 .. Len(r) - 1 \/ k = Len(r)
      BY <1>1, <1>3
    <3>2. QED
      BY <1>1, <2>1, <3>1 DEF Log!Ordered
  <2>3. ASSUME NEW k \in DOMAIN r, NEW l \in DOMAIN r, k < l,
               NEW x \in Log!ToSet(r[k]), NEW y \in Log!ToSet(r[l])
        PROVE  x < y
    <3>1. k \in 1 .. Len(r) - 1 /\ (l \in 1 .. Len(r) - 1 \/ l = Len(r))
      BY <1>3, <2>3, Zenon
    <3>2. k \in DOMAIN kept /\ x \in Log!ToSet(kept[k])
      BY <1>1, <2>3, <3>1
    <3>3. CASE l \in 1 .. Len(r) - 1
      <4>1. l \in DOMAIN kept /\ y \in Log!ToSet(kept[l])
        BY <1>1, <2>3, <3>3
      <4>2. QED
        BY <2>1, <2>3, <3>2, <4>1 DEF Log!Ordered
    <3>4. CASE l = Len(r)
      <4>1. y \in Log!ToSet(block)
        BY <1>1, <2>3, <3>4
      <4>2. x \in Log!Lines(kept)
        BY <3>2 DEF Log!Lines
      <4>3. x \in Seen(B, b)
        BY <4>2 DEF PassInv
      <4>4. QED
        BY <1>6, <4>1, <4>3
    <3>5. QED
      BY <3>1, <3>3, <3>4
  <2>4. QED
    BY <2>2, <2>3 DEF Log!Ordered
<1>14. Log!Lines(r) \subseteq Seen(B, b + 1)
  BY <1>5, <1>8, <1>12
<1>15. ASSUME NEW x \in Seen(B, b + 1) PROVE Log!Covers(Log!Lines(r), x)
  <2>1. CASE x \in Log!ToSet(block)
    BY <1>4, <1>8, <2>1 DEF Log!Covers
  <2>2. CASE x \in Seen(B, b)
    <3>1. PICK y \in Log!Lines(kept) : raw[y] = raw[x] /\ y >= x
      BY <2>2 DEF PassInv, Log!Covers
    <3>2. CASE y \in head
      BY <1>8, <3>1, <3>2 DEF Log!Covers
    <3>3. CASE y \notin head
      <4>1. Replaces(kept, block) /\ y \in Log!ToSet(B[b])
        BY <1>9, <1>10, <3>1, <3>3
      <4>2. PICK k \in DOMAIN B[b] : y = B[b][k]
        BY <4>1 DEF Log!ToSet
      <4>3. Log!Masked(B[b]) = Log!Masked(block)
        BY <1>2, <4>1 DEF Log!Repeats
      <4>4. k \in DOMAIN block /\ raw[block[k]] = raw[B[b][k]]
        BY <4>3 DEF Log!Masked
      <4>5. block[k] \in Log!ToSet(block) /\ y \in Seen(B, b)
        <5>1. block[k] \in Log!ToSet(block)
          BY <4>4 DEF Log!ToSet
        <5>2. b \in 1 .. b
          BY <1>0
        <5>3. y \in Seen(B, b)
          BY <4>1, <5>2 DEF Seen
        <5>4. QED
          BY <5>1, <5>3
      <4>6. y < block[k] /\ block[k] \in Nat
        BY <1>4, <1>6, <4>5
      <4>7. x \in Nat /\ y \in Nat
        <5>1. ASSUME NEW z \in Seen(B, b) PROVE z \in Nat
          <6>1. PICK c \in 1 .. b : z \in Log!ToSet(B[c])
            BY <5>1 DEF Seen
          <6>2. B[c] \in Seq(DOMAIN raw)
            BY <1>0
          <6>3. QED
            BY <6>1, <6>2 DEF Log!ToSet
        <5>2. QED
          BY <2>2, <4>5, <5>1
      <4>8. block[k] >= x /\ raw[block[k]] = raw[x] /\ block[k] \in Log!Lines(r)
        BY <1>8, <3>1, <4>2, <4>4, <4>5, <4>6, <4>7
      <4>9. QED
        BY <4>8 DEF Log!Covers
    <3>4. QED
      BY <3>2, <3>3
  <2>3. QED
    BY <1>5, <2>1, <2>2
<1>16. ASSUME \A i \in DOMAIN raw : ~raw[i].timed PROVE Seen(B, b + 1) \subseteq Log!Lines(r)
  <2>1. ~Log!Repeats(B[b], block)
    <3>1. \A k \in DOMAIN block : block[k] \in DOMAIN raw
      BY <1>0
    <3>2. QED
      BY <1>16, <3>1 DEF Log!Repeats
  <2>2. head = Log!Lines(kept)
    BY <1>2, <1>9, <2>1
  <2>3. Seen(B, b) \subseteq Log!Lines(kept)
    BY <1>16 DEF PassInv
  <2>4. QED
    BY <1>5, <1>8, <2>2, <2>3
<1>17. ASSUME NEW c \in 1 .. (b + 1) - 1, Log!Repeats(B[c], B[c + 1]),
             NEW x \in Log!ToSet(B[c])
       PROVE  x \notin Log!Lines(r)
  <2>1. c \in 1 .. b
    BY <1>0
  <2>2. x \in Seen(B, b)
    BY <1>17, <2>1 DEF Seen
  <2>3. x \in Nat
    <3>1. c \in DOMAIN B /\ B[c] \in Seq(DOMAIN raw)
      BY <1>0, <2>1
    <3>2. QED
      BY <1>17, <3>1 DEF Log!ToSet
  <2>4. x \notin Log!ToSet(block)
    BY <1>6, <2>2, <2>3
  <2>5. CASE c \in 1 .. b - 1
    <3>1. x \notin Log!Lines(kept)
      BY <1>17, <2>5 DEF PassInv
    <3>2. QED
      BY <1>7, <1>8, <2>4, <3>1
  <2>6. CASE c = b
    <3>1. Replaces(kept, block)
      BY <1>2, <1>17, <2>6 DEF block
    <3>2. x \notin head
      BY <1>11, <1>17, <2>3, <2>6, <3>1
    <3>3. QED
      BY <1>8, <2>4, <3>2
  <2>7. QED
    BY <1>0, <2>1, <2>5, <2>6
<1>18. ASSUME \A c \in 1 .. (b + 1) - 1 : ~Log!Repeats(B[c], B[c + 1])
       PROVE  Len(r) = b + 1 /\ \A c \in 1 .. b + 1 : r[c] = B[c]
  <2>1. (\A c \in 1 .. b - 1 : ~Log!Repeats(B[c], B[c + 1])) /\ ~Log!Repeats(B[b], B[b + 1])
    BY <1>0, <1>18
  <2>2. Len(kept) = b /\ \A c \in 1 .. b : kept[c] = B[c]
    BY <2>1 DEF PassInv
  <2>3. ~Replaces(kept, block)
    BY <1>2, <2>1 DEF block
  <2>4. Len(r) = b + 1
    BY <1>1, <2>2, <2>3
  <2>5. ASSUME NEW c \in 1 .. b + 1 PROVE r[c] = B[c]
    <3>1. CASE c = b + 1
      BY <1>1, <2>4, <3>1 DEF block
    <3>2. CASE c \in 1 .. b
      <4>1. c \in 1 .. Len(r) - 1
        BY <1>0, <2>4, <3>2
      <4>2. QED
        BY <1>1, <2>2, <3>2, <4>1
    <3>3. QED
      BY <1>0, <3>1, <3>2
  <2>6. QED
    BY <2>4, <2>5
<1>19. QED
  BY <1>1, <1>13, <1>14, <1>15, <1>16, <1>17, <1>18 DEF PassInv, block

(* What a pass makes of strings that are in the order of the log.          *)
PassMakes(r, S, B) ==
  /\ r \in Seq(Seq(DOMAIN raw)) /\ Log!Ordered(r) /\ Log!Lines(r) \subseteq Log!Lines(S)
  /\ \A x \in Log!Lines(S) : Log!Covers(Log!Lines(r), x)
  /\ (\A i \in DOMAIN raw : ~raw[i].timed) => Log!Lines(S) \subseteq Log!Lines(r)
  /\ \A c \in 1 .. Len(B) - 1 : Log!Repeats(B[c], B[c + 1]) =>
       \A x \in Log!ToSet(B[c]) : x \notin Log!Lines(r)
  /\ (\A c \in 1 .. Len(B) - 1 : ~Log!Repeats(B[c], B[c + 1])) => r = B

(* What a pass makes of the strings S and their blocks B.                  *)
LEMMA PassFacts ==
  ASSUME DOMAIN raw \in SUBSET Nat,
         NEW S \in Seq(Seq(DOMAIN raw)), Log!Ordered(S), NEW n \in Nat \ {0}
  PROVE  PassMakes(Log!greedy_compress_pass(S, n), S, Log!make_blocks(S, n))
<1> DEFINE B == Log!make_blocks(S, n)
<1> DEFINE r == Log!greedy_compress_pass(S, n)
<1> DEFINE X == DOMAIN raw
<1> DEFINE T == Seq(Seq(X))
<1>1. B \in Seq(Seq(X)) /\ Log!Lines(B) = Log!Lines(S) /\ Log!Ordered(B)
  BY BlockOf, BlockFacts
<1> HIDE DEF B
<1>2. PICK f \in [0 .. Len(B) -> T] :
             /\ f[0] = <<>>
             /\ \A b \in 1 .. Len(B) : f[b] = Log!Keep(f[b - 1], B[b])
             /\ r = f[Len(B)]
  BY <1>1, PassRec DEF B
<1> HIDE DEF r
<1>3. Len(B) \in Nat /\ DOMAIN B = 1 .. Len(B) /\ \A b \in 1 .. Len(B) : B[b] \in Seq(X)
  BY <1>1
<1>4. r \in T
  <2>1. Len(B) \in 0 .. Len(B)
    BY <1>3
  <2> HIDE DEF T
  <2>2. QED
    BY <1>2, <2>1, Zenon
<1>5. CASE Len(B) = 0
  <2>1. r = <<>> /\ B = <<>> /\ DOMAIN <<>> = {}
    BY <1>1, <1>2, <1>5
  <2>2. Log!Lines(r) = {} /\ Log!Lines(B) = {} /\ Log!Ordered(r)
    BY <2>1 DEF Log!Lines, Log!Ordered
  <2>3. 1 .. Len(B) - 1 = {}
    BY <1>5
  <2>4. QED
    BY <1>1, <1>4, <2>1, <2>2, <2>3 DEF PassMakes, B, r
<1>6. CASE Len(B) # 0
  <2>1. PassInv(f[1], B, 1)
    <3>1. 1 \in 1 .. Len(B) /\ 1 - 1 = 0 /\ 1 - 1 \in 0 .. Len(B) /\ B[1] \in Seq(X)
      BY <1>3, <1>6
    <3>2. f[1] = Log!Keep(<<>>, B[1])
      BY <1>2, <3>1
    <3> DEFINE Y == Seq(X)
    <3> DEFINE k == f[1]
    <3>3. <<>> \in Seq(Y) /\ B[1] \in Y
      BY <3>1
    <3>4. Ends(k, Y, <<>>, B[1])
      <4> HIDE DEF Y
      <4>1. QED
        BY <3>2, <3>3, KeepFacts
    <3> HIDE DEF k
    <3>5. Len(k) = 1 /\ k[1] = B[1] /\ k \in Seq(Seq(X)) /\ DOMAIN k = {1}
      <4>1. ~Replaces(<<>>, B[1]) /\ Len(<<>>) = 0
        BY DEF Replaces
      <4>2. QED
        BY <3>4, <4>1 DEF Ends
    <3>6. Log!Lines(k) = Log!ToSet(B[1]) /\ Seen(B, 1) = Log!ToSet(B[1])
      <4>1. 1 .. 1 = {1}
        OBVIOUS
      <4>2. QED
        BY <3>5, <4>1 DEF Log!Lines, Seen
    <3>7. Log!Ordered(k)
      <4>1. Log!Increasing(B[1])
        BY <1>1, <1>3, <3>1 DEF Log!Ordered
      <4>2. QED
        BY <3>5, <4>1 DEF Log!Ordered
    <3>8. ASSUME NEW x \in Log!ToSet(B[1]) PROVE Log!Covers(Log!ToSet(B[1]), x)
      <4>1. x \in Nat
        BY <3>1 DEF Log!ToSet
      <4>2. QED
        BY <4>1 DEF Log!Covers
    <3>9. QED
      BY <3>5, <3>6, <3>7, <3>8 DEF PassInv, k
  <2>2. ASSUME NEW b \in 1 .. Len(B), b + 1 <= Len(B), PassInv(f[b], B, b)
        PROVE  PassInv(f[b + 1], B, b + 1)
    <3>1. b + 1 \in 1 .. Len(B) /\ (b + 1) - 1 = b /\ b \in 0 .. Len(B)
      BY <1>3, <2>2
    <3>2. f[b + 1] = Log!Keep(f[b], B[b + 1]) /\ f[b] \in Seq(Seq(X))
      BY <1>2, <3>1
    <3>3. QED
      BY <1>1, <2>2, <3>2, KeepStep
  <2> DEFINE P == {b \in Nat : b + 1 <= Len(B) => PassInv(f[b + 1], B, b + 1)}
  <2>3. P = Nat
    <3>1. 0 \in P
      BY <2>1
    <3>2. ASSUME NEW b \in P PROVE b + 1 \in P
      <4>1. SUFFICES ASSUME (b + 1) + 1 <= Len(B) PROVE PassInv(f[(b + 1) + 1], B, (b + 1) + 1)
        OBVIOUS
      <4>2. b + 1 \in 1 .. Len(B) /\ PassInv(f[b + 1], B, b + 1)
        BY <1>3, <4>1
      <4>3. QED
        BY <2>2, <4>1, <4>2
    <3> HIDE DEF P
    <3>3. P \in SUBSET Nat
      BY DEF P
    <3>4. QED
      BY <3>1, <3>2, <3>3, Induction
  <2>4. PassInv(r, B, Len(B))
    <3>1. Len(B) - 1 \in Nat /\ (Len(B) - 1) + 1 = Len(B)
      BY <1>3, <1>6
    <3>2. Len(B) - 1 \in P
      <4> HIDE DEF P
      <4>1. QED
        BY <2>3, <3>1
    <3>3. (Len(B) - 1) + 1 <= Len(B) => PassInv(f[(Len(B) - 1) + 1], B, (Len(B) - 1) + 1)
      BY <3>2, Zenon
    <3>4. QED
      BY <1>2, <1>3, <3>1, <3>3
  <2>5. Seen(B, Len(B)) = Log!Lines(S)
    BY <1>1, <1>3 DEF Seen, Log!Lines
  <2>6. ASSUME \A c \in 1 .. Len(B) - 1 : ~Log!Repeats(B[c], B[c + 1]) PROVE r = B
    <3>1. Len(r) = Len(B) /\ \A c \in 1 .. Len(B) : r[c] = B[c]
      BY <2>4, <2>6 DEF PassInv
    <3>2. DOMAIN r = 1 .. Len(r) /\ r = [c \in 1 .. Len(r) |-> r[c]]
      BY <1>4
    <3>3. B = [c \in 1 .. Len(B) |-> B[c]]
      BY <1>1
    <3>4. QED
      BY <3>1, <3>2, <3>3
  <2>7. QED
    BY <1>4, <2>4, <2>5, <2>6 DEF PassInv, PassMakes, B, r
<1>7. QED
  BY <1>5, <1>6

-----------------------------------------------------------------------------
(* The blocks of the first two passes, when the strings are the lines.     *)
LEMMA SingleFacts ==
  ASSUME NEW l \in Nat, DOMAIN raw = 1 .. l
  PROVE  /\ Log!Single \in Seq(Seq(DOMAIN raw)) /\ Len(Log!Single) = l
         /\ Log!Ordered(Log!Single) /\ Log!Lines(Log!Single) = DOMAIN raw
<1> DEFINE S == Log!Single
<1>1. S = [i \in 1 .. l |-> <<i>>]
  BY DEF Log!Single
<1> HIDE DEF S
<1>2. \A i \in 1 .. l : <<i>> \in Seq(1 .. l) /\ Log!ToSet(<<i>>) = {i} /\ Log!Increasing(<<i>>)
  <2>1. ASSUME NEW i \in 1 .. l
        PROVE  <<i>> \in Seq(1 .. l) /\ DOMAIN <<i>> = {1} /\ <<i>>[1] = i
    OBVIOUS
  <2>2. QED
    BY <2>1 DEF Log!ToSet, Log!Increasing
<1>3. S \in [1 .. l -> Seq(1 .. l)] /\ DOMAIN S = 1 .. l /\ \A i \in 1 .. l : S[i] = <<i>>
  BY <1>1, <1>2
<1>4. S \in Seq(Seq(1 .. l)) /\ Len(S) = l
  BY <1>3
<1>5. Log!Ordered(S)
  <2>1. ASSUME NEW s \in 1 .. l PROVE Log!Increasing(S[s]) /\ Log!ToSet(S[s]) = {s}
    BY <1>2, <1>3, Zenon
  <2>2. ASSUME NEW s \in 1 .. l, NEW t \in 1 .. l, s < t,
               NEW i \in Log!ToSet(S[s]), NEW j \in Log!ToSet(S[t])
        PROVE  i < j
    <3>1. i = s /\ j = t
      BY <2>1
    <3>2. QED
      BY <2>2, <3>1
  <2>3. QED
    BY <1>3, <2>1, <2>2 DEF Log!Ordered
<1>6. Log!Lines(S) = 1 .. l
  <2>1. \A s \in 1 .. l : Log!ToSet(S[s]) = {s}
    BY <1>2, <1>3, Zenon
  <2>2. QED
    BY <1>3, <2>1 DEF Log!Lines
<1>7. QED
  BY <1>4, <1>5, <1>6 DEF S

(* Blocks of one line are the lines.                                       *)
LEMMA FirstBlocks ==
  ASSUME NEW l \in Nat, DOMAIN raw = 1 .. l
  PROVE  Log!make_blocks(Log!Single, 1) = Log!Single
<1> DEFINE S == Log!Single
<1> DEFINE X == 1 .. l
<1> DEFINE B == Log!make_blocks(S, 1)
<1>1. S \in Seq(Seq(X)) /\ Len(S) = l
  BY SingleFacts
<1> HIDE DEF S
<1>2. /\ B \in Seq(Seq(X)) /\ Len(B) = (l + 1 - 1) \div 1
      /\ \A b \in 1 .. Len(B) : Joins(B[b], S, BlockFrom(1, b), BlockTo(S, 1, b))
  <2>1. X \in SUBSET Nat /\ 1 \in Nat \ {0}
    OBVIOUS
  <2> HIDE DEF X, B
  <2>2. B = Log!make_blocks(S, 1)
    BY DEF B
  <2>3. QED
    BY <1>1, <2>1, <2>2, BlockOf
<1> HIDE DEF B
<1>3. Len(B) = l
  BY <1>2
<1>4. ASSUME NEW b \in 1 .. l PROVE B[b] = S[b]
  <2>1. BlockFrom(1, b) = b /\ BlockTo(S, 1, b) = b
    BY <1>1 DEF BlockFrom, BlockTo
  <2>2. B[b] = Log!FlattenSeq(SubSeq(S, b, b))
    BY <1>2, <1>3, <2>1 DEF Joins
  <2> DEFINE t == SubSeq(S, b, b)
  <2>3. t \in Seq(Seq(X)) /\ Len(t) = 1 /\ t[1] = S[b]
    BY <1>1
  <2> HIDE DEF t
  <2>4. Log!FlattenSeq(t) = t[1]
    BY <2>3, FlattenFew
  <2>5. QED
    BY <2>2, <2>3, <2>4 DEF t
<1>5. QED
  BY <1>1, <1>2, <1>3, <1>4 DEF B, S

(* Blocks of two lines, but for the last if the log is odd.                *)
LEMMA SecondBlocks ==
  ASSUME NEW l \in Nat, DOMAIN raw = 1 .. l, NEW B, B = Log!make_blocks(Log!Single, 2)
  PROVE  /\ Len(B) = (l + 1) \div 2
         /\ \A b \in 1 .. Len(B) : 2 * b <= l => B[b] = <<2 * b - 1, 2 * b>>
<1> DEFINE S == Log!Single
<1> DEFINE X == 1 .. l
<1>1. S \in Seq(Seq(X)) /\ Len(S) = l
  BY SingleFacts
<1>2. \A i \in X : S[i] = <<i>>
  BY DEF Log!Single
<1> HIDE DEF S
<1>3. /\ B \in Seq(Seq(X)) /\ Len(B) = (l + 2 - 1) \div 2
      /\ \A b \in 1 .. Len(B) : Joins(B[b], S, BlockFrom(2, b), BlockTo(S, 2, b))
  <2>1. X \in SUBSET Nat /\ 2 \in Nat \ {0}
    OBVIOUS
  <2> HIDE DEF X
  <2>2. B = Log!make_blocks(S, 2)
    BY DEF S
  <2>3. /\ B \in Seq(Seq(X)) /\ Len(B) = (Len(S) + 2 - 1) \div 2
        /\ \A b \in 1 .. Len(B) : Joins(B[b], S, BlockFrom(2, b), BlockTo(S, 2, b))
    BY <1>1, <2>1, <2>2, BlockOf
  <2>4. QED
    BY <1>1, <2>3, Zenon
<1>4. ASSUME NEW b \in 1 .. Len(B), 2 * b <= l PROVE B[b] = <<2 * b - 1, 2 * b>>
  <2>1. BlockFrom(2, b) = 2 * b - 1 /\ BlockTo(S, 2, b) = 2 * b
    BY <1>1, <1>4 DEF BlockFrom, BlockTo
  <2>2. B[b] = Log!FlattenSeq(SubSeq(S, 2 * b - 1, 2 * b))
    BY <1>3, <2>1 DEF Joins
  <2> DEFINE t == SubSeq(S, 2 * b - 1, 2 * b)
  <2>3. 2 * b - 1 \in X /\ 2 * b \in X
    BY <1>4
  <2>4. t \in Seq(Seq(X)) /\ Len(t) = 2 /\ t[1] = S[2 * b - 1] /\ t[2] = S[2 * b]
    <3> DEFINE i == 2 * b - 1
    <3> DEFINE j == 2 * b
    <3>1. i \in Nat /\ j \in Nat /\ 1 <= i /\ j = i + 1 /\ j <= l
      BY <1>4
    <3>2. S \in Seq(Seq(X)) /\ j <= Len(S)
      BY <1>1, <3>1, Zenon
    <3> HIDE DEF i, j, X
    <3>3. /\ SubSeq(S, i, j) \in Seq(Seq(X)) /\ Len(SubSeq(S, i, j)) = 2
          /\ SubSeq(S, i, j)[1] = S[i] /\ SubSeq(S, i, j)[2] = S[j]
      BY <3>1, <3>2, SubPair
    <3>4. QED
      BY <3>3, Zenon DEF i, j
  <2> HIDE DEF t
  <2>5. Log!FlattenSeq(t) = t[1] \o t[2]
    BY <2>4, FlattenFew
  <2>6. t[1] = <<2 * b - 1>> /\ t[2] = <<2 * b>>
    BY <1>2, <2>3, <2>4
  <2>7. <<2 * b - 1>> \o <<2 * b>> = <<2 * b - 1, 2 * b>>
    <3> DEFINE x == 2 * b - 1
    <3> DEFINE y == 2 * b
    <3>1. x \in X /\ y \in X
      BY <2>3
    <3> HIDE DEF x, y, X
    <3>2. <<x>> \o <<y>> \in Seq(X) /\ <<x, y>> \in Seq(X)
      BY <3>1
    <3>3. /\ Len(<<x>> \o <<y>>) = 2 /\ Len(<<x, y>>) = 2
          /\ (<<x>> \o <<y>>)[1] = x /\ (<<x>> \o <<y>>)[2] = y
      BY <3>1
    <3>4. <<x>> \o <<y>> = <<x, y>>
      <4> DEFINE p == <<x>> \o <<y>>
      <4> DEFINE q == <<x, y>>
      <4>1. /\ p \in Seq(X) /\ q \in Seq(X) /\ Len(p) = 2 /\ Len(q) = 2
            /\ p[1] = q[1] /\ p[2] = q[2]
        BY <3>2, <3>3
      <4> HIDE DEF p, q
      <4>2. \A i \in 1 .. 2 : p[i] = q[i]
        BY <4>1
      <4>3. p = q
        BY <4>1, <4>2
      <4>4. QED
        BY <4>3 DEF p, q
    <3>5. QED
      BY <3>4 DEF x, y
  <2>8. Log!FlattenSeq(t) = <<2 * b - 1>> \o <<2 * b>>
    BY <2>5, <2>6, Zenon
  <2>9. QED
    BY <2>2, <2>7, <2>8, Zenon DEF t
<1>5. QED
  BY <1>3, <1>4

-----------------------------------------------------------------------------
(* Lines are numbered from 1.                                              *)
LEMMA LogDomain ==
  ASSUME NEW A, raw \in Seq(A)
  PROVE  /\ Len(raw) \in Nat /\ DOMAIN raw = 1 .. Len(raw)
         /\ DOMAIN raw \in SUBSET Nat
OBVIOUS

(* Each line is a string of its own at the beginning.                      *)
LEMMA LogInitInv ==
  ASSUME Log!LogAssumption, Log!Init
  PROVE  Log!IInv
<1>1. raw \in Seq([msg : Messages, timed : BOOLEAN])
  <2>1. raw \in Log!Logs
    BY DEF Log!Init
  <2>2. PICK n \in 0 .. MaxLines : \E messages \in [1 .. n -> Messages] :
               \E stamped : raw = Log!Stamped(messages, stamped)
    BY <2>1 DEF Log!Logs
  <2>m. PICK messages \in [1 .. n -> Messages] : \E stamped : raw = Log!Stamped(messages, stamped)
    BY <2>2
  <2>s. PICK stamped : raw = Log!Stamped(messages, stamped)
    BY <2>m
  <2>3. raw = [i \in 1 .. n |-> [msg |-> messages[i], timed |-> i \in stamped]]
    BY <2>s DEF Log!Stamped
  <2>4. ASSUME NEW i \in 1 .. n
        PROVE  [msg |-> messages[i], timed |-> i \in stamped] \in [msg : Messages, timed : BOOLEAN]
    OBVIOUS
  <2>5. raw \in [1 .. n -> [msg : Messages, timed : BOOLEAN]]
    BY <2>3, <2>4
  <2>6. n \in Nat
    BY DEF Log!LogAssumption
  <2>7. \A X : raw \in [1 .. n -> X] => raw \in Seq(X)
    BY <2>6
  <2>8. QED
    BY <2>5, <2>7
<1>2. /\ Len(raw) \in Nat /\ DOMAIN raw = 1 .. Len(raw)
      /\ DOMAIN raw \in SUBSET Nat
  BY <1>1, LogDomain
<1>3. result = Log!Single /\ size = 1
  BY DEF Log!Init, Log!Single
<1>4. /\ Log!Single \in Seq(Seq(DOMAIN raw)) /\ Log!Ordered(Log!Single)
      /\ Log!Lines(Log!Single) = DOMAIN raw
  BY <1>2, SingleFacts
<1>5. 1 \in 1 .. Window + 1 /\ ~(1 > 1) /\ ~(1 > 2)
  BY DEF Log!LogAssumption
<1>6. \A i \in DOMAIN raw : Log!Covers(DOMAIN raw, i)
  BY <1>2 DEF Log!Covers
<1>7. QED
  BY <1>1, <1>3, <1>4, <1>5, <1>6 DEF Log!IInv, Log!TypeOK

(* What the invariant says of the strings once a pass of size n is done.   *)
LEMMA PassKeeps ==
  ASSUME Log!LogAssumption, Log!IInv, size <= Window,
         NEW r, r = Log!greedy_compress_pass(result, size)
  PROVE  /\ r \in Seq(Seq(DOMAIN raw)) /\ Log!Ordered(r)
         /\ \A i \in DOMAIN raw : Log!Covers(Log!Lines(r), i)
         /\ (\A i \in DOMAIN raw : ~raw[i].timed) => Log!Lines(r) = DOMAIN raw
         /\ \A i \in DOMAIN raw : Log!Repeated(i) => i \notin Log!Lines(r)
         /\ (\A i \in DOMAIN raw : ~Log!Repeated(i)) =>
              /\ size = 1 => r = Log!Single
              /\ size > 1 => \A i \in DOMAIN raw : Log!RepeatedPair(i) =>
                               i \notin Log!Lines(r) /\ i + 1 \notin Log!Lines(r)
<1> DEFINE l == Len(raw)
<1> DEFINE B == Log!make_blocks(result, size)
<1>1. l \in Nat /\ DOMAIN raw = 1 .. l /\ DOMAIN raw \in SUBSET Nat
  BY LogDomain DEF Log!IInv, Log!TypeOK
<1> HIDE DEF l
<1>2. /\ result \in Seq(Seq(DOMAIN raw)) /\ size \in Nat \ {0} /\ Log!Ordered(result)
  BY DEF Log!IInv, Log!TypeOK, Log!LogAssumption
<1>3. PassMakes(r, result, B)
  BY <1>1, <1>2, PassFacts
<1> HIDE DEF B
<1>4. Log!Lines(r) \subseteq Log!Lines(result)
  BY <1>3 DEF PassMakes
<1>5. \A x \in Log!Lines(result) : x \in DOMAIN raw /\ x \in Nat
  <2>1. ASSUME NEW x \in Log!Lines(result) PROVE x \in DOMAIN raw
    <3>1. PICK s \in DOMAIN result : x \in Log!ToSet(result[s])
      BY DEF Log!Lines
    <3>2. result[s] \in Seq(DOMAIN raw)
      BY <1>2
    <3>3. QED
      BY <3>1, <3>2 DEF Log!ToSet
  <2>2. QED
    BY <1>1, <2>1
<1>6. ASSUME NEW i \in DOMAIN raw PROVE Log!Covers(Log!Lines(r), i)
  <2>1. PICK x \in Log!Lines(result) : raw[x] = raw[i] /\ x >= i
    BY DEF Log!IInv, Log!Covers
  <2>2. PICK y \in Log!Lines(r) : raw[y] = raw[x] /\ y >= x
    BY <1>3, <2>1 DEF PassMakes, Log!Covers
  <2>3. i \in Nat /\ x \in Nat /\ y \in Nat
    BY <1>1, <1>4, <1>5
  <2>4. y >= i
    BY <2>1, <2>2, <2>3
  <2>5. QED
    BY <2>1, <2>2, <2>4 DEF Log!Covers
<1>7. ASSUME \A i \in DOMAIN raw : ~raw[i].timed PROVE Log!Lines(r) = DOMAIN raw
  <2>1. Log!Lines(result) = DOMAIN raw
    BY <1>7 DEF Log!IInv
  <2>2. QED
    BY <1>3, <1>4, <1>7, <2>1 DEF PassMakes
<1>8. ASSUME NEW i \in DOMAIN raw, Log!Repeated(i) PROVE i \notin Log!Lines(r)
  <2>1. CASE size = 1
    <3>1. B = Log!Single /\ Len(B) = l
      BY <1>1, <2>1, FirstBlocks, SingleFacts DEF B, Log!IInv
    <3>2. i \in 1 .. Len(B) - 1 /\ B[i] = <<i>> /\ B[i + 1] = <<i + 1>>
      BY <1>1, <1>8, <3>1 DEF Log!Repeated, Log!Single
    <3>3. Log!Repeats(B[i], B[i + 1]) /\ i \in Log!ToSet(B[i])
      <4>1. i \in Log!ToSet(<<i>>)
        BY DEF Log!ToSet
      <4>2. QED
        BY <1>8, <3>2, <4>1 DEF Log!Repeated
    <3>4. QED
      BY <1>3, <3>2, <3>3 DEF PassMakes
  <2>2. CASE size > 1
    BY <1>4, <1>8, <2>2 DEF Log!IInv
  <2>3. QED
    BY <1>2, <2>1, <2>2
<1>9. ASSUME \A i \in DOMAIN raw : ~Log!Repeated(i), size = 1 PROVE r = Log!Single
  <2>1. B = Log!Single /\ Len(B) = l
    BY <1>1, <1>9, FirstBlocks, SingleFacts DEF B, Log!IInv
  <2>2. ASSUME NEW c \in 1 .. Len(B) - 1 PROVE ~Log!Repeats(B[c], B[c + 1])
    <3>1. c \in DOMAIN raw /\ c + 1 \in DOMAIN raw
      BY <1>1, <2>1
    <3>2. B[c] = <<c>> /\ B[c + 1] = <<c + 1>>
      BY <2>1, <3>1 DEF Log!Single
    <3>3. QED
      BY <1>9, <3>1, <3>2 DEF Log!Repeated
  <2>3. QED
    BY <1>3, <2>1, <2>2 DEF PassMakes
<1>10. ASSUME \A i \in DOMAIN raw : ~Log!Repeated(i), size > 1,
              NEW i \in DOMAIN raw, Log!RepeatedPair(i)
       PROVE  i \notin Log!Lines(r) /\ i + 1 \notin Log!Lines(r)
  <2>1. CASE size = 2
    <3>1. /\ Len(B) = (l + 1) \div 2
          /\ \A b \in 1 .. Len(B) : 2 * b <= l => B[b] = <<2 * b - 1, 2 * b>>
      <4>1. result = Log!Single
        BY <1>10, <2>1 DEF Log!IInv
      <4>2. QED
        BY <1>1, <2>1, <4>1, SecondBlocks DEF B
    <3> DEFINE b == (i + 1) \div 2
    <3>2. /\ b \in Nat /\ 2 * b - 1 = i /\ 2 * b = i + 1
          /\ 2 * (b + 1) - 1 = i + 2 /\ 2 * (b + 1) = i + 3
      <4>1. i \in Nat /\ i % 2 = 1
        BY <1>1, <1>10 DEF Log!RepeatedPair
      <4>2. b \in Nat /\ 2 * b = i + 1
        BY <4>1
      <4> HIDE DEF b
      <4>3. QED
        BY <4>1, <4>2
    <3>3. i + 3 <= l
      BY <1>1, <1>10 DEF Log!RepeatedPair
    <3> HIDE DEF b
    <3>4. b \in 1 .. Len(B) - 1 /\ b \in 1 .. Len(B) /\ b + 1 \in 1 .. Len(B)
      <4>1. Len(B) \in Nat /\ l <= 2 * Len(B)
        BY <1>1, <3>1
      <4>2. QED
        BY <1>1, <3>2, <3>3, <4>1
    <3>5. B[b] = <<i, i + 1>> /\ B[b + 1] = <<i + 2, i + 3>>
      <4>1. 2 * b <= l /\ 2 * (b + 1) <= l
        BY <1>1, <3>2, <3>3
      <4>2. B[b] = <<2 * b - 1, 2 * b>> /\ B[b + 1] = <<2 * (b + 1) - 1, 2 * (b + 1)>>
        BY <3>1, <3>4, <4>1
      <4>3. QED
        BY <3>2, <4>2, Zenon
    <3>6. Log!Repeats(B[b], B[b + 1])
      BY <1>10, <3>5 DEF Log!RepeatedPair
    <3>7. i \in Log!ToSet(B[b]) /\ i + 1 \in Log!ToSet(B[b])
      <4>1. i \in Log!ToSet(<<i, i + 1>>) /\ i + 1 \in Log!ToSet(<<i, i + 1>>)
        BY DEF Log!ToSet
      <4>2. QED
        BY <3>5, <4>1
    <3>8. QED
      BY <1>3, <3>4, <3>6, <3>7 DEF PassMakes
  <2>2. CASE size > 2
    BY <1>4, <1>10, <2>2 DEF Log!IInv
  <2>3. QED
    BY <1>2, <1>10, <2>1, <2>2
<1>11. QED
  BY <1>3, <1>6, <1>7, <1>8, <1>9, <1>10 DEF PassMakes

(* A pass keeps the invariant.                                             *)
LEMMA LogStepInv ==
  ASSUME Log!LogAssumption, Log!IInv, Log!Next
  PROVE  Log!IInv'
<1>1. /\ size <= Window /\ raw' = raw /\ size' = size + 1
      /\ result' = Log!greedy_compress_pass(result, size)
  BY DEF Log!Next, Log!Pass
<1>2. size \in 1 .. Window + 1 /\ raw \in Seq([msg : Messages, timed : BOOLEAN])
  BY DEF Log!IInv, Log!TypeOK
<1>3. size' \in 1 .. Window + 1 /\ size' > 1 /\ size' # 1
      /\ (size' <= 2 => size = 1) /\ (size' > 2 => size > 1)
  BY <1>1, <1>2 DEF Log!LogAssumption
<1>4. Log!TypeOK'
  <2>1. result' \in Seq(Seq(DOMAIN raw))
    BY <1>1, PassKeeps
  <2>2. QED
    BY <1>1, <1>2, <1>3, <2>1 DEF Log!TypeOK
<1>5. /\ Log!Ordered(result')
      /\ \A i \in DOMAIN raw : Log!Covers(Log!Lines(result'), i)
      /\ (\A i \in DOMAIN raw : ~raw[i].timed) => Log!Lines(result') = DOMAIN raw
      /\ \A i \in DOMAIN raw : Log!Repeated(i) => i \notin Log!Lines(result')
      /\ (\A i \in DOMAIN raw : ~Log!Repeated(i)) =>
           /\ size = 1 => result' = Log!Single
           /\ size > 1 => \A i \in DOMAIN raw : Log!RepeatedPair(i) =>
                 i \notin Log!Lines(result') /\ i + 1 \notin Log!Lines(result')
  BY <1>1, PassKeeps
<1>6. Log!Single' = Log!Single
  BY <1>1 DEF Log!Single
<1>7. /\ \A i : Log!Repeated(i)' = Log!Repeated(i)
      /\ \A i : Log!RepeatedPair(i)' = Log!RepeatedPair(i)
      /\ \A lines, i : Log!Covers(lines, i)' = Log!Covers(lines, i)
  BY <1>1 DEF Log!Repeated, Log!RepeatedPair, Log!Repeats, Log!Masked, Log!Covers
<1>8. QED
  BY <1>1, <1>3, <1>4, <1>5, <1>6, <1>7 DEF Log!IInv

(* A step of another part leaves the log alone.                            *)
LEMMA LogStutterInv ==
  ASSUME Log!IInv, UNCHANGED Log!vars
  PROVE  Log!IInv'
<1>1. raw' = raw /\ result' = result /\ size' = size
  BY DEF Log!vars
<1>2. Log!TypeOK' = Log!TypeOK /\ Log!Single' = Log!Single
  BY <1>1 DEF Log!TypeOK, Log!Single
<1>3. /\ \A i : Log!Repeated(i)' = Log!Repeated(i)
      /\ \A i : Log!RepeatedPair(i)' = Log!RepeatedPair(i)
      /\ \A lines, i : Log!Covers(lines, i)' = Log!Covers(lines, i)
  BY <1>1 DEF Log!Repeated, Log!RepeatedPair, Log!Repeats, Log!Masked, Log!Covers
<1>4. QED
  BY <1>1, <1>2, <1>3 DEF Log!IInv

(* Nothing is wrong with the log that nobody asked for.                    *)
LEMMA LogIdleInv ==
  ASSUME Log!LogAssumption, raw = <<>>, result = <<>>, size = 1
  PROVE  Log!IInv
<1>1. DOMAIN raw = {} /\ raw \in Seq([msg : Messages, timed : BOOLEAN])
  OBVIOUS
<1>2. result \in Seq(Seq(DOMAIN raw)) /\ DOMAIN result = {}
  OBVIOUS
<1>3. size \in 1 .. Window + 1 /\ ~(size > 1) /\ ~(size > 2)
  BY DEF Log!LogAssumption
<1>4. Log!Single = <<>>
  BY <1>1 DEF Log!Single
<1>5. Log!Lines(result) = {} /\ Log!Ordered(result)
  BY <1>2 DEF Log!Lines, Log!Ordered
<1>6. QED
  BY <1>1, <1>2, <1>3, <1>4, <1>5 DEF Log!IInv, Log!TypeOK

(* What the invariant says of the strings, the text shows.                 *)
LEMMA LogTrims ==
  ASSUME Log!IInv
  PROVE  Log!TrimsRepetitionsOnly
<1>1. /\ Log!Shown = Log!Lines(result) /\ Log!Increasing(Log!Text)
  <2>1. result \in Seq(Seq(DOMAIN raw)) /\ DOMAIN raw \in SUBSET Nat /\ Log!Ordered(result)
    BY LogDomain DEF Log!IInv, Log!TypeOK
  <2>2. QED
    BY <2>1, FlattenFacts DEF Log!Shown, Log!Text
<1>2. Log!EveryMessageKept
  BY <1>1 DEF Log!IInv, Log!Covers, Log!EveryMessageKept
<1>3. Log!InOrder /\ Log!UntimedKept
  BY <1>1 DEF Log!IInv, Log!InOrder, Log!UntimedKept
<1>4. Log!RepetitionTrimmed
  BY <1>1 DEF Log!IInv, Log!RepetitionTrimmed
<1>5. QED
  BY <1>2, <1>3, <1>4 DEF Log!TrimsRepetitionsOnly

-----------------------------------------------------------------------------
(* The inductive invariants of the parts.                                  *)
VerdictIInv ==
  /\ IF part = "scoring" THEN IInv ELSE Judged!IInv
  /\ Mitigation!IInv /\ Onboarding!IInv /\ Log!IInv

(* A step of one part leaves the others as they are: all keep theirs.      *)
THEOREM VerdictInvariance == VerdictSpec => []VerdictIInv
<1>a. /\ ScoringAssumption /\ Mitigation!MitigationAssumption
      /\ Onboarding!OnboardingAssumption
  BY VerdictAssumption
<1>1. VerdictInit => VerdictIInv
  <2> SUFFICES ASSUME VerdictInit PROVE VerdictIInv
    OBVIOUS
  <2>1. IF part = "scoring" THEN IInv ELSE Judged!IInv
    BY <1>a, InitInv, JudgedStep DEF VerdictInit
  <2>2. Mitigation!IInv /\ Onboarding!IInv
    BY <1>a, MitigationInitInv, OnboardingInitInv DEF VerdictInit
  <2>3. Log!IInv
    BY VerdictAssumption, LogInitInv, LogIdleInv DEF VerdictInit
  <2>4. QED
    BY <2>1, <2>2, <2>3 DEF VerdictIInv
<1>2. VerdictIInv /\ [VerdictNext]_verdictVars => VerdictIInv'
  <2> SUFFICES ASSUME VerdictIInv, [VerdictNext]_verdictVars PROVE VerdictIInv'
    OBVIOUS
  <2>1. /\ part' = part
        /\ part = "scoring" => [Next]_vars
        /\ part # "scoring" => [Judged!Next]_vars
        /\ [Mitigation!Next]_mitigationVars
        /\ [Onboarding!Next]_onboardingVars
        /\ [Log!Next]_logVars
    BY DEF VerdictNext, verdictVars, Scorer, Evals, Evaluator, GetLogs
  <2>2. IF part' = "scoring" THEN IInv' ELSE Judged!IInv'
    BY <1>a, <2>1, StepInv, JudgedStep DEF VerdictIInv
  <2>3. Mitigation!IInv'
    <3>1. Mitigation!Next \/ UNCHANGED Mitigation!vars
      BY <2>1 DEF mitigationVars, Mitigation!vars, Mitigation!cluster
    <3>2. QED
      BY <1>a, <3>1, MitigationStepInv, MitigationStutterInv DEF VerdictIInv
  <2>4. Onboarding!IInv'
    <3>1. Onboarding!Next \/ UNCHANGED Onboarding!vars
      BY <2>1 DEF onboardingVars, Onboarding!vars, Onboarding!pods
    <3>2. QED
      BY <1>a, <3>1, OnboardingStepInv, OnboardingStutterInv DEF VerdictIInv
  <2>5. Log!IInv'
    <3>1. Log!Next \/ UNCHANGED Log!vars
      BY <2>1 DEF logVars, Log!vars
    <3>2. QED
      BY VerdictAssumption, <3>1, LogStepInv, LogStutterInv DEF VerdictIInv
  <2>6. QED
    BY <2>2, <2>3, <2>4, <2>5 DEF VerdictIInv
<1>3. QED
  BY <1>1, <1>2, PTL DEF VerdictSpec

-----------------------------------------------------------------------------
(* Every part keeps its types.                                             *)
THEOREM VerdictTypes == VerdictSpec => []TypesOK
<1>1. VerdictIInv => TypesOK
  BY DEF VerdictIInv, TypesOK, IInv, Judged!IInv, Mitigation!IInv,
         Onboarding!IInv, Log!IInv
<1>2. QED
  BY <1>1, VerdictInvariance, PTL

(* A localization succeeds with the name of the fault alone, has part      *)
(* marks where it is among the names, and none where it is not; an         *)
(* analysis succeeds with both entries (target_port.py:86,                 *)
(* target_port.py:156): with the judge and without.                        *)
THEOREM MarksOfVerdicts == VerdictSpec => []MarksMatchAnswer
<1>1. VerdictIInv => MarksMatchAnswer
  BY VerdictAssumption, MarksMatch, JudgedFairly DEF VerdictIInv
<1>2. QED
  BY <1>1, VerdictInvariance, PTL

(* No submission that was refused is a success, but for one that mixes a   *)
(* value with a keyword too many, and the one that was accepted is scored  *)
(* on its value (orchestrator.py:125).                                     *)
THEOREM SubmissionsOfVerdicts == VerdictSpec => []SubmissionDecides
<1>1. VerdictIInv => SubmissionDecides
  BY VerdictAssumption, SubmissionDecided, JudgedFairly DEF VerdictIInv
<1>2. QED
  BY <1>1, VerdictInvariance, PTL

(* eval raises for what cannot be compared, for a special token in what    *)
(* the environment answered, or in the judge where there is one            *)
(* (quantitative.py:33,61, qualitative.py:29).                             *)
THEOREM RaisesOfVerdicts == VerdictSpec => []RaisesForAReason
<1>1. VerdictIInv => RaisesForAReason
  BY VerdictAssumption, RaiseExplained, JudgedFairly
     DEF VerdictIInv, RaisesForAReason
<1>2. QED
  BY <1>1, VerdictInvariance, PTL

(* A detection is marked by what is in the cluster, as long as the         *)
(* experiment lasts (target_port.py:60, inject_symp.py:57), but for the    *)
(* generated problems, which put nothing there (base.py:67).               *)
THEOREM DetectionsOfVerdicts == VerdictSpec => []TruthfulWhileItLasts
<1>1. VerdictIInv => TruthfulWhileItLasts
  BY VerdictAssumption, DetectionTruthful, JudgedFairly DEF VerdictIInv
<1>2. QED
  BY <1>1, VerdictInvariance, PTL

(* A mitigation succeeds only when the attribute its eval reads is right,  *)
(* and the pods it lists are ready (scale_pod_social_net.py:178).          *)
THEOREM SuccessEarned == VerdictSpec => []SuccessIsEarned
<1>1. VerdictIInv => SuccessIsEarned
  BY DEF VerdictIInv, Mitigation!IInv, SuccessIsEarned
<1>2. QED
  BY <1>1, VerdictInvariance, PTL

(* A mitigation fails, or its eval raises, for a pod, an attribute, an     *)
(* object that is missing or a failing call                                *)
(* (assign_non_existent_node_social_net.py:198), or raises for a trace     *)
(* with a special token or one on which the judge raised; and such a trace *)
(* has no other verdict (mitigation.py:76, quantitative.py:33).            *)
THEOREM NegativesHaveReasons == VerdictSpec => []NegativeHasReason
<1>1. VerdictIInv => NegativeHasReason
  BY DEF VerdictIInv, Mitigation!IInv, NegativeHasReason
<1>2. QED
  BY <1>1, VerdictInvariance, PTL

(* The onboarding evaluator records what it announced, unless the pods of  *)
(* a mitigation changed before its second eval, whose finding is then      *)
(* recorded; and it calls nothing invalid that was right or in order when  *)
(* it was submitted, but a detection (onboarding_evaluator.py:190,         *)
(* assessment.py:33).                                                      *)
THEOREM EvaluatorTellsTheTruth == VerdictSpec => []ToldTheTruth
<1>1. VerdictIInv => ToldTheTruth
  BY DEF VerdictIInv, Onboarding!IInv, ToldTheTruth
<1>2. QED
  BY <1>1, VerdictInvariance, PTL

(* Of any log and for any LOG_TRIM, an agent is shown lines in their       *)
(* order, and every line or a later one that says the same; a log without  *)
(* timestamps is shown whole.  The lines that the next one repeats are     *)
(* gone after the first pass, and if there were none, the pairs that the   *)
(* next pair repeats after the second (log_deduplication.py:60,            *)
(* .env.example:59).                                                       *)
THEOREM LogTrimmed == VerdictSpec => []TrimsRepetitionsOnly
<1>1. VerdictIInv => TrimsRepetitionsOnly
  BY LogTrims DEF VerdictIInv, TrimsRepetitionsOnly
<1>2. QED
  BY <1>1, VerdictInvariance, PTL

=============================================================================
