------------------------------ MODULE Problems ------------------------------
(***************************************************************************)
(* The catalogue of orchestrator/problems.  A family is what one problem   *)
(* file defines: a base class that deploys an application and puts a fault *)
(* in, and one class per task whose eval compares the agent's solution, or *)
(* the cluster, with what the family expects.  The files are copies of one *)
(* another, so that a family is told apart by a record:                    *)
(*                                                                         *)
(*   app      the application                                              *)
(*   fault    the fault type its inject_fault names                        *)
(*   targets  the services it may be instantiated with                     *)
(*   tasks    the tasks it defines                                         *)
(*   answer   what its detection expects                                   *)
(*   alias    its localization also accepts the target without the prefix  *)
(*            "mongodb-"                                                   *)
(*   cause    what its analysis expects: system level and fault type       *)
(*   check    how its mitigation inspects the cluster (see Mitigation)     *)
(*   lasts    "until_recovered", or "limited" when the experiment ends by  *)
(*            itself after its duration                                    *)
(*   listed   whether the registry lists it                                *)
(***************************************************************************)

Tasks == {"detection", "localization", "analysis", "mitigation"}

NoCause == <<"", "">>

(* What most files have in common.                                         *)
Family(app, fault, targets) ==
  [app |-> app, fault |-> fault, targets |-> targets,
   tasks |-> {"detection", "localization"}, answer |-> "yes", alias |-> FALSE,
   cause |-> NoCause, check |-> "none", lasts |-> "until_recovered",
   listed |-> TRUE]

(* A file that defines all four tasks.                                     *)
Full(family, level, type, check) ==
  [family EXCEPT !.tasks = Tasks, !.cause = <<level, type>>, !.check = check]

Limited(family) == [family EXCEPT !.lasts = "limited"]
Unlisted(family) == [family EXCEPT !.listed = FALSE]

(* A chaos experiment on a service of the hotel reservation.               *)
Chaos(fault, target) == Limited(Family("hotel", fault, {target}))

(* A feature flag of the OpenTelemetry shop.                               *)
Flag(flag, target) == Family("astronomy", flag, {target})

(* An invalid custom resource for the TiDB operator; what is to be located *)
(* is the kind of resource.                                                *)
Misoperation(fault) == Unlisted(Family("tidb", fault, {"tidbclusters"}))

-----------------------------------------------------------------------------
(* Kubernetes and application faults.                                      *)

K8STargetPortMisconfig ==
  Full(Family("social", "misconfig_k8s",
              {"user-service", "text-service", "post-storage-service"}),
       "Virtualization", "Misconfiguration", "port")

ScalePodSocialNet ==
  Full(Family("social", "scale_pods_to_zero", {"user-service"}),
       "Virtualization", "Operation Error", "replicas")

AssignNonExistentNode ==
  Full(Family("social", "assign_to_non_existent_node", {"user-service"}),
       "Virtualization", "Dependency Problem", "exists")

WrongBinUsage ==
  Full(Family("hotel", "wrong_bin_usage", {"profile"}),
       "Application", "Network/Storage Issue", "binary")

RedeployWithoutPV ==
  [Full(Family("hotel", "redeploy_without_pv", {"namespace"}),
        "Virtualization", "Operation Error", "pods")
   EXCEPT !.tasks = Tasks \ {"localization"}]

MongoDBAuthMissing ==
  Full(Family("social", "auth_miss_mongodb", {"url-shorten-mongodb"}),
       "Application", "Misconfiguration", "pods")

MongoDBRevokeAuth ==
  [Full(Family("hotel", "revoke_auth", {"mongodb-geo", "mongodb-rate"}),
        "Application", "Authentication Issue", "pods") EXCEPT !.alias = TRUE]

MongoDBUserUnregistered ==
  [Full(Family("hotel", "storage_user_unregistered",
               {"mongodb-geo", "mongodb-rate"}),
        "Application", "Network/Storage Issue", "pods") EXCEPT !.alias = TRUE]

MisconfigAppHotelRes ==
  Full(Family("hotel", "misconfig_app", {"geo"}),
       "Application", "Misconfiguration", "wait")

Generated ==
  Full(Family("hotel", "app_misconfig",
              {"geo", "rate", "profile", "user", "search", "recommendation",
               "reservation", "db"}),
       "Application", "Misconfiguration", "wait")

NoOp(app) ==
  [Family(app, "no_op", {"PLACEHOLDER"})
   EXCEPT !.tasks = {"detection"}, !.answer = "no"]

FlowerNodeStop ==
  [Family("flower", "container_stop", {"supernode-1"})
   EXCEPT !.tasks = {"detection"}]

FlowerModelMisconfig ==
  [Family("flower", "model_misconfig", {"clientapp-1"})
   EXCEPT !.tasks = {"detection"}]

(* Chaos experiments.                                                      *)
ContainerKill == Chaos("container_kill", "geo")
PodFailure == Chaos("pod_failure", "user")
PodKill == Chaos("pod_kill", "user")
NetworkLoss == Chaos("network_loss", "user")
NetworkDelay == Chaos("network_delay", "user")
KernelFault == Unlisted(Family("hotel", "kernel_fault", {"user"}))
DiskWoreout == Unlisted(Family("hotel", "disk_woreout", {"xxx"}))

(* Feature flags of the shop.                                              *)
AdServiceFailure == Flag("adFailure", "ad")
AdServiceHighCpu == Flag("adHighCpu", "ad")
AdServiceManualGc == Flag("adManualGc", "ad")
CartServiceFailure == Flag("cartFailure", "cart")
ImageSlowLoad == Flag("imageSlowLoad", "frontend")
LoadGeneratorFloodHomepage ==
  Flag("loadGeneratorFloodHomepage", "frontend")
PaymentServiceFailure == Flag("paymentFailure", "payment")
PaymentServiceUnreachable == Flag("paymentUnreachable", "checkout")
ProductCatalogServiceFailure ==
  Flag("productCatalogFailure", "product-catalog")
RecommendationServiceCacheFailure ==
  Flag("recommendationCacheFailure", "recommendation")
KafkaQueueProblems ==
  [Flag("kafkaQueueProblems", "kafka")
   EXCEPT !.tasks = {"detection", "localization", "mitigation"},
          !.check = "guarded"]

(* Misoperations of the TiDB operator.                                     *)
OverloadReplicas == Misoperation("overload_replicas")
NonExistentStorage == Misoperation("non_existent_storage")
InvalidAffinityToleration == Misoperation("invalid_affinity_toleration")
SecurityContextFault == Misoperation("security_context_fault")
WrongUpdateStrategy == Misoperation("wrong_update_strategy")

-----------------------------------------------------------------------------
Catalogue ==
  {K8STargetPortMisconfig, ScalePodSocialNet, AssignNonExistentNode,
   WrongBinUsage, RedeployWithoutPV, MongoDBAuthMissing, MongoDBRevokeAuth,
   MongoDBUserUnregistered, MisconfigAppHotelRes, Generated, FlowerNodeStop,
   FlowerModelMisconfig, ContainerKill, PodFailure, PodKill, NetworkLoss,
   NetworkDelay, KernelFault, DiskWoreout, AdServiceFailure,
   AdServiceHighCpu, AdServiceManualGc, CartServiceFailure, ImageSlowLoad,
   LoadGeneratorFloodHomepage, PaymentServiceFailure,
   PaymentServiceUnreachable, ProductCatalogServiceFailure,
   RecommendationServiceCacheFailure, KafkaQueueProblems, OverloadReplicas,
   NonExistentStorage, InvalidAffinityToleration, SecurityContextFault,
   WrongUpdateStrategy}
    \union {NoOp(app) : app \in {"hotel", "social", "astronomy"}}

(* The problems of the registry: a family, the task and the target.        *)
Registered ==
  UNION { [family : {f}, task : f.tasks, target : f.targets] :
            f \in {g \in Catalogue : g.listed} }

ProblemIds(task) == { p \in Registered : p.task = task }

=============================================================================
