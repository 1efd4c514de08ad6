-------------------------- MODULE ClusterPipelines --------------------------
(***************************************************************************)
(* The modules two pipelines of internal/pipeline/cluster are made of, in  *)
(* order, and the fragments they plan for a cluster configuration. A task  *)
(* whose node names occur in another task of the pipeline plans these      *)
(* nodes; the names of all others are their own, so one node, named after  *)
(* the task, stands for them.                                              *)
(***************************************************************************)
EXTENDS ModulePlans

\* The parts of a cluster configuration that decide which tasks are planned.
Configuration == [type    : {"kubeadm", "kubexm"},
                  ha      : BOOLEAN,
                  etcd    : {"kubexm", "external"},
                  masters : {1, 3},
                  workers : BOOLEAN,
                  addons  : BOOLEAN]

\* A task that plans the nodes ns, with the dependencies edges between them.
TaskOf(ns, edges, required) ==
    [required |-> required,
     frag     |-> CalculateEntryAndExitNodes(
                      [NewExecutionFragment EXCEPT
                          !.nodes = ns,
                          !.deps  = [n \in NodeId |-> {m \in ns : <<m, n>> \in edges}]])]

\* A task whose nodes no other task plans.
OneNode(n, required) == TaskOf({n}, {}, required)

connectivity == PlanTasks(<<OneNode("CheckConnectivity", TRUE)>>)

preflight == PreflightModule(<<OneNode("PreflightChecks", TRUE)>>)

generateEtcdPKI(c) ==
    TaskOf({"GenerateEtcdCA", "GenerateEtcdCerts"},
           {<<"GenerateEtcdCA", "GenerateEtcdCerts">>}, c.etcd = "kubexm")

\* DeployEtcdClusterTask plans the certificates too. The nodes of the etcd hosts
\* are one.
deployEtcdCluster(c) ==
    TaskOf({"GenerateEtcdCA", "GenerateEtcdCerts", "ExtractEtcd", "DeployEtcd"},
           {<<"GenerateEtcdCA", "GenerateEtcdCerts">>,
            <<"GenerateEtcdCerts", "DeployEtcd">>, <<"ExtractEtcd", "DeployEtcd">>},
           c.etcd = "kubexm")

infrastructure(c) ==
    InfrastructureModule(<<OneNode("ConfigureHost", TRUE)>>, generateEtcdPKI(c),
                         deployEtcdCluster(c), OneNode("DeployContainerd", TRUE))

loadbalancer(c) == LoadBalancerModule(c.ha, <<OneNode("DeployKubeVip", TRUE)>>)

\* InstallKubeComponentsTask is a task of both kubeadm modules.
installKubeComponents ==
    TaskOf({"InstallKubelet", "InstallKubeadm", "InstallKubectl",
            "InstallKubeletService", "InstallKubeletDropin"},
           {<<"InstallKubelet", "InstallKubeletService">>,
            <<"InstallKubeletService", "InstallKubeletDropin">>}, TRUE)

controlPlane(c) ==
    IF c.type = "kubexm"
    THEN KubexmControlPlaneModule(OneNode("GenerateKubePKI", TRUE),
                                  OneNode("GenerateControlPlaneKubeconfigs", TRUE),
                                  OneNode("ConfigureControlPlane", TRUE),
                                  OneNode("StartControlPlane", TRUE),
                                  OneNode("GenerateAdminKubeconfig", TRUE),
                                  OneNode("JoinMasters", c.masters > 1))
    ELSE KubeadmControlPlaneModule(installKubeComponents,
                                   OneNode("BootstrapFirstMaster", TRUE),
                                   OneNode("JoinMasters", c.masters > 1))

network == SingleTaskModule(OneNode("InstallNetworkPlugin", TRUE))

worker(c) ==
    IF c.type = "kubexm"
    THEN SingleTaskModule(OneNode("DeployWorkerNodes", c.workers))
    ELSE KubeadmWorkerModule(installKubeComponents, OneNode("JoinWorkers", c.workers))

addons(c) == AddonsModule(<<OneNode("InstallAddon", c.addons)>>)

\* NewCreateClusterPipeline
CreateCluster(c) ==
    <<connectivity, preflight, infrastructure(c), loadbalancer(c),
      controlPlane(c), network, worker(c), addons(c)>>

\* The tasks of the Kubernetes certificate renewal chain, in order.
KubernetesRenewalTasks ==
    <<"GenerateNewAssets", "GenerateKubeconfigs", "RolloutLeafCertsToMasters",
      "RolloutK8sCABundle", "FinalizeMasters", "UpdateWorkerNodes",
      "CleanupAfterRenewal">>

\* PKIModule.Plan for the Kubernetes certificates. UpdateWorkerNodes plans
\* nothing without workers.
pkiKubernetes(c) ==
    PlanTasks([k \in DOMAIN KubernetesRenewalTasks |->
                  OneNode(KubernetesRenewalTasks[k],
                          KubernetesRenewalTasks[k] # "UpdateWorkerNodes" \/ c.workers)])

\* NewRenewKubernetesCAPipeline
RenewKubernetesCA(c) == <<connectivity, preflight, pkiKubernetes(c)>>
=============================================================================
