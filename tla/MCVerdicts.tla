----------------------------- MODULE MCVerdicts -----------------------------
(* Small instances for Verdicts: the registry, one mitigation for each way *)
(* in which an eval checks the cluster, and an assessment of each task.    *)
EXTENDS Verdicts, MCScoring

OneTask(f, task) == [family |-> f, task |-> task, target |-> CHOOSE t \in f.targets : TRUE]

(* A problem for each way in which an eval checks the cluster.             *)
MCMitigations ==
  {OneTask(f, "mitigation") :
     f \in {K8STargetPortMisconfig, ScalePodSocialNet, AssignNonExistentNode,
            WrongBinUsage, MongoDBAuthMissing, KafkaQueueProblems,
            MisconfigAppHotelRes}}

(* One problem of each task.                                               *)
MCOnboarding ==
  {OneTask(RedeployWithoutPV, t) : t \in {"detection", "analysis", "mitigation"}}
    \union {OneTask(ScalePodSocialNet, "localization")}

MCMessages == {"a", "b", "c"}

=============================================================================
