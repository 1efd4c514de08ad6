--------------------------- MODULE MCPipelinePlan ---------------------------
(* Small instances of PipelinePlan: any modules, and the modules of two
   pipelines of ClusterPipelines. *)
EXTENDS PipelinePlan, ClusterPipelines

\* The modules of the instances are as the theorems of PipelinePlanProofs ask.
ASSUME ModulesSound

Planning(f) == [result |-> IF f.ok THEN "fragment" ELSE "error", frag |-> f]

-----------------------------------------------------------------------------
(* Three modules of up to two nodes each. *)

AnyNodes == {"a1", "a2", "b1", "b2", "c1", "c2", "s"}

FragmentOf(ns, edges) == TaskOf(ns, edges, TRUE).frag

\* Nothing, one node, one after the other, side by side, side by side with one of
\* them as the exit node, without entry and exit nodes, a cycle, a node every
\* module may plan, an error or a panic.
Shapes(x, y) ==
    {Planning(f) : f \in {NewExecutionFragment, FragmentOf({x}, {}),
                          FragmentOf({x, y}, {<<x, y>>}), FragmentOf({x, y}, {}),
                          [FragmentOf({x, y}, {}) EXCEPT !.exit = {y}],
                          [FragmentOf({x, y}, {<<x, y>>}) EXCEPT !.entry = {}, !.exit = {}],
                          FragmentOf({x, y}, {<<x, y>>, <<y, x>>}),
                          FragmentOf({"s"}, {}), Failure}}
    \cup {[result |-> "panic", frag |-> NewExecutionFragment]}

\* The linking of create_cluster.go and that of the other pipelines.
InlineLinking   == [linking |-> "inline"]
FragmentLinking == [linking |-> "linked"]
AnyConfig == {InlineLinking, FragmentLinking}

AnyPlanned ==
    [c \in AnyConfig |-> <<Shapes("a1", "a2"), Shapes("b1", "b2"), Shapes("c1", "c2")>>]

-----------------------------------------------------------------------------
(* The pipelines of ClusterPipelines. *)

PipelineNodes ==
    {"CheckConnectivity", "PreflightChecks", "ConfigureHost", "GenerateEtcdCA",
     "GenerateEtcdCerts", "ExtractEtcd", "DeployEtcd", "DeployContainerd",
     "DeployKubeVip", "InstallKubelet", "InstallKubeadm", "InstallKubectl",
     "InstallKubeletService", "InstallKubeletDropin", "BootstrapFirstMaster",
     "GenerateKubePKI", "GenerateControlPlaneKubeconfigs",
     "ConfigureControlPlane", "StartControlPlane", "GenerateAdminKubeconfig",
     "JoinMasters", "InstallNetworkPlugin", "DeployWorkerNodes", "JoinWorkers",
     "InstallAddon", "GenerateNewAssets", "GenerateKubeconfigs",
     "RolloutLeafCertsToMasters", "RolloutK8sCABundle", "FinalizeMasters",
     "UpdateWorkerNodes", "CleanupAfterRenewal"}

Of(p) == [k \in DOMAIN p |-> {Planning(p[k])}]

Renewal == [c \in Configuration |-> Of(RenewKubernetesCA(c))]

\* Any modules, and the creation of a cluster.
PlanNodes   == AnyNodes \cup PipelineNodes
PlanConfig  == AnyConfig \cup Configuration
PlanPlanned == [c \in PlanConfig |-> IF c \in AnyConfig THEN AnyPlanned[c]
                                                       ELSE Of(CreateCluster(c))]
PlanLinked  == {FragmentLinking}
PlanAssets  == {InlineLinking} \cup Configuration

\* "This module should run before any other module in every pipeline."
ConnectivityFirst == {"CheckConnectivity"} \X (PipelineNodes \ {"CheckConnectivity"})

\* "It chains generation, rollout, cleanup tasks for each cert type."
RenewalChain ==
    {<<KubernetesRenewalTasks[k], KubernetesRenewalTasks[l]>> :
        <<k, l>> \in {p \in (1..7) \X (1..7) : p[1] < p[2]}}

\* Without a load balancer the modules' entry and exit nodes see to it that
\* connectivity comes first (PipelinePlanProofs, OrderKept).
ASSUME Order = ConnectivityFirst =>
           \A c \in Config \cap Configuration : ~c.ha => OrderedIn(c)

\* Create cluster plans exactly the binary clusters whose etcd kubexm does not
\* deploy: the others fail over a node id two of their tasks plan.
ASSUME Order = ConnectivityFirst =>
           \A c \in Config \cap Configuration :
               (c.type = "kubexm" /\ c.etcd # "kubexm")
               <=> /\ \A k \in DOMAIN Planned[c] : Returned(c, k) # {}
                   /\ \A k, l \in DOMAIN Planned[c] : k < l =>
                          \A f \in Returned(c, k), h \in Returned(c, l) :
                              f.nodes \cap h.nodes = {}
=============================================================================
