----------------------------- MODULE MCScoring -----------------------------
(* Small instances of Scoring: the whole registry without mitigation, and  *)
(* one problem of each task.                                               *)
EXTENDS Scoring

MCPool == Registered \ ProblemIds("mitigation")

MCOfEachTask ==
  {[family |-> MongoDBRevokeAuth, task |-> t, target |-> "mongodb-geo"] :
     t \in {"localization", "analysis"}}
    \union {[family |-> NetworkLoss, task |-> "detection", target |-> "user"],
            [family |-> NoOp("hotel"), task |-> "detection",
             target |-> "PLACEHOLDER"]}

MCForms == {"positional", "empty", "twice", "keyword", "mixed"}

=============================================================================
