----------------------------- MODULE ClusterTasks -----------------------------
(***************************************************************************)
(* The graphs planned by internal/task/etcd, kubernetes, network, dns,     *)
(* addon, cd, gateway, storage, backup and reconfigure: the cluster and    *)
(* what runs on it. A loop over hosts whose iterations are not linked is   *)
(* one node for all of them; a rolling one is written for two hosts.       *)
(***************************************************************************)
EXTENDS TaskGraphs

etcd    == INSTANCE EtcdSteps
k8s     == INSTANCE KubernetesSteps
kubeadm == INSTANCE KubeadmSteps
net     == INSTANCE NetworkSteps
addon   == INSTANCE AddonSteps
common  == INSTANCE CommonSteps

On(hosts, steps) == [i \in DOMAIN steps |-> Node(steps[i], hosts)]

-----------------------------------------------------------------------------
(* etcd *)

GenerateEtcdPKI ==
    Chain(On("control", <<etcd!GenerateEtcdCA, etcd!GenerateEtcdCerts>>))

Members == On("etcd", <<etcd!DistributeEtcdCerts, etcd!InstallEtcd,
                        etcd!ConfigureEtcd, etcd!InstallEtcdService,
                        etcd!StartEtcd>>)
\* Both tasks take all hosts with the role; they differ in the initial state
\* the configuration names.
DeployFirstEtcd == Graph(
    On("control", <<etcd!ExtractEtcd>>) \o Members
    \o On("firstEtcd", <<etcd!CheckEtcdHealth>>),
    {<<1, 3>>, <<3, 4>>, <<2, 4>>, <<4, 5>>, <<5, 6>>, <<6, 7>>})
DeployEtcd == DeployFirstEtcd

\* One member after the other.
Member(host) == Graph(On(host,
    <<etcd!DistributeEtcdCerts, etcd!InstallEtcd, etcd!ConfigureEtcd,
      etcd!InstallEtcdService, etcd!StartEtcd, etcd!CheckEtcdHealth>>),
    {<<2, 3>>, <<1, 3>>, <<3, 4>>, <<4, 5>>, <<5, 6>>})
DeployEtcdCluster ==
    Then(Graph(On("control", <<etcd!GenerateEtcdCA, etcd!GenerateEtcdCerts,
                               etcd!ExtractEtcd>>), {<<1, 2>>}),
         Rolling(Member, "firstEtcd", "otherEtcd"))

\* The step is not told which member to remove.
CleanEtcd == Chain(On("etcd",
    <<etcd!StopEtcd, etcd!DisableEtcd, etcd!RemoveEtcdMember(FALSE),
      etcd!CleanupEtcd>>))

-----------------------------------------------------------------------------
(* kubernetes with kubeadm *)

InstallKubeComponents == Graph(On("nodes",
    <<k8s!InstallKubelet, kubeadm!InstallKubeadm, k8s!InstallKubectl,
      k8s!InstallKubeletService, k8s!InstallKubeletDropIn>>),
    {<<1, 4>>, <<4, 5>>})
BootstrapFirstMaster == Chain(On("firstMaster",
    <<kubeadm!GenerateInitConfig, kubeadm!KubeadmInit,
      kubeadm!KubeadmVerifyControlPlaneHealth, kubeadm!KubeadmWaitClusterHealthy,
      k8s!CopyKubeconfig>>))
KubeadmJoinMasters == Chain(On("otherMasters",
    <<kubeadm!GenerateJoinMasterConfig, kubeadm!KubeadmJoinMaster>>))
JoinWorkers == Chain(On("workers",
    <<kubeadm!GenerateJoinWorkerConfig, kubeadm!KubeadmJoinWorker>>))
UpgradeControlPlane == Chain(<<Node(kubeadm!KubeadmUpgradeApply, "firstMaster"),
                               Node(kubeadm!KubeadmUpgradeNode, "otherMasters")>>)
UpgradeWorkers      == Single(kubeadm!KubeadmUpgradeNode, "workers")
DrainNode           == Single(k8s!DrainNode, "control")
ResetNode           == Single(kubeadm!KubeadmReset, "workers")
CleanKubernetes     == Single(kubeadm!KubeadmReset, "nodes")
CleanKubeComponents == Single(kubeadm!CleanKubeComponents, "nodes")

(* kubernetes from binaries *)

GenerateKubePKI == Graph(On("control",
    <<k8s!GenerateKubeCA, k8s!GenerateKubeCerts,
      k8s!GenerateKubeletCertsForAllNodes, k8s!GenerateKubeProxyCerts>>),
    {<<1, 2>>, <<1, 3>>, <<1, 4>>})
GenerateNodePKI == Together(On("control",
    <<k8s!GenerateKubeletCertsForAllNodes, k8s!GenerateKubeProxyCerts>>))
GenerateAdminConfig == Single(k8s!GenerateAdminKubeconfig, "control")
GenerateControlPlaneKubeconfigs == Together(On("masters",
    <<k8s!CreateControllerManagerKubeconfig, k8s!CreateSchedulerKubeconfig>>))
GenerateNodeKubeconfigs == Together(On("nodes",
    <<k8s!CreateKubeletKubeconfig, k8s!CreateKubeProxyKubeconfig>>))
GenerateNodeComponentConfigs == Together(On("nodes",
    <<k8s!CreateKubeletConfigYAML, k8s!CreateKubeProxyConfigYAML>>))
GenerateControlPlaneConfigs == Together(On("masters",
    <<k8s!ConfigureKubeAPIServer, k8s!ConfigureKubeControllerManager,
      k8s!ConfigureKubeScheduler>>))
DistributeControlPlaneAssets == Together(On("masters",
    <<k8s!DistributeKubeCerts, k8s!DistributeKubeconfigs, k8s!InstallKubeApiServer,
      k8s!InstallKubeControllerManager, k8s!InstallKubeScheduler>>))
ConfigureControlPlane == Graph(On("masters",
    <<k8s!ConfigureKubeAPIServer, k8s!InstallKubeAPIServerService,
      k8s!ConfigureKubeControllerManager, k8s!InstallKubeControllerManagerService,
      k8s!ConfigureKubeScheduler, k8s!InstallKubeSchedulerService>>),
    {<<1, 2>>, <<3, 4>>, <<5, 6>>})
\* The API server is not started but restarted.
StartControlPlane == Graph(On("masters",
    <<k8s!EnableKubeAPIServer, k8s!RestartKubeApiServer, k8s!CheckAPIServerHealth,
      k8s!EnableKubeControllerManager, k8s!StartKubeControllerManager,
      k8s!CheckControllerManagerHealth,
      k8s!EnableKubeScheduler, k8s!StartKubeScheduler, k8s!CheckSchedulerHealth>>),
    {<<1, 2>>, <<2, 3>>, <<4, 5>>, <<5, 6>>, <<7, 8>>, <<8, 9>>, <<3, 4>>, <<3, 7>>})
DeployWorkerNodes == Graph(On("workers",
    <<k8s!DistributeKubeCACerts, k8s!DistributeKubeletConfigForAllNodes,
      k8s!InstallKubelet, k8s!InstallKubeProxy, k8s!CreateKubeletConfigYAML,
      k8s!CreateKubeProxyConfigYAML, k8s!InstallKubeletService,
      k8s!InstallKubeletDropIn, k8s!EnableKubelet, k8s!StartKubelet,
      k8s!InstallKubeProxyService, k8s!EnableKubeProxy, k8s!StartKubeProxy>>),
    {<<3, 7>>, <<1, 5>>, <<2, 8>>, <<5, 8>>, <<7, 8>>, <<8, 9>>, <<9, 10>>,
     <<4, 11>>, <<6, 11>>, <<11, 12>>, <<12, 13>>, <<10, 13>>})
FinalizeClusterSetup == Graph(
    On("firstMaster", <<k8s!ApplyEssentialRBAC>>)
    \o On("all", <<k8s!InstallKubectl, k8s!ConfigureKubectl, k8s!CopyKubeconfig>>),
    {<<2, 1>>, <<2, 3>>, <<2, 4>>})

(* kubernetes/health.go and reconfigure ask for hosts of a role no host has, *)
(* and plan nothing without any; for the steps of kubelet and kube-proxy the  *)
(* workers are left.                                                          *)

CheckAPIServerHealth         == Single(k8s!VerifyAPIServerHealth, "controlPlane")
CheckSchedulerHealth         == Single(k8s!VerifySchedulerHealth, "controlPlane")
CheckControllerManagerHealth == 
    Single(k8s!VerifyControllerManagerHealth, "controlPlane")
CheckKubeletHealth           == Single(k8s!VerifyKubeletHealth, "workers")
CheckClusterHealth           == Single(k8s!CheckClusterHealth, "controlPlane")

Reconfigure(hosts, configure, service) ==
    Chain(On(hosts, <<configure, common!ManageServiceRestart(service)>>))
ReconfigureAPIServer ==
    Reconfigure("controlPlane", k8s!ConfigureKubeAPIServer, "kube-apiserver")
ReconfigureScheduler ==
    Reconfigure("controlPlane", k8s!ConfigureKubeScheduler, "kube-scheduler")
ReconfigureControllerManager ==
    Reconfigure("controlPlane", k8s!ConfigureKubeControllerManager,
                "kube-controller-manager")
ReconfigureKubelet == Reconfigure("workers", k8s!CreateKubeletConfigYAML, "kubelet")
ReconfigureProxy   == Reconfigure("workers", k8s!CreateKubeProxyConfigYAML, "kube-proxy")

(* backup *)

BackupPKI         == Single(k8s!BinaryFetchConfigs, "firstMaster")
BackupEtcd        == Single(k8s!BinaryFetchConfigs, "firstMaster")
BackupK8sConfigs  == Single(k8s!BinaryFetchConfigs, "masters")
RestorePKI        == Single(k8s!RestoreFetchedConfigs, "masters")
RestoreK8sConfigs == Single(k8s!RestoreFetchedConfigs, "masters")
RestoreEtcd ==
    Chain(On("masters", <<etcd!StopEtcd, etcd!RestoreEtcd, etcd!StartEtcd>>))

-----------------------------------------------------------------------------
(* network and dns *)

Release(generator, generate, distribute, install) ==
    Chain(<<Node(generate, generator), Node(distribute, "firstMaster"),
            Node(install, "firstMaster")>>)
DeployCalico ==
    LET release == Release("firstMaster", net!GenerateCalicoValues,
                           net!DistributeCalicoArtifacts, net!InstallCalicoHelmChart)
    IN  Graph(release.nodes \o On("masters", <<net!InstallCalicoctl>>), release.edges)
DeployCilium == Release("control", net!GenerateCiliumValues,
                        net!DistributeCiliumArtifacts, net!InstallCiliumHelmChart)
DeployFlannel == Release("control", net!GenerateFlannelValues,
                         net!DistributeFlannelArtifacts, net!InstallFlannelHelmChart)
DeployHybridnet == Release("firstMaster", net!GenerateHybridnetValues,
                           net!DistributeHybridnetArtifacts,
                           net!InstallHybridnetHelmChart)
DeployKubeovn == Release("firstMaster", net!GenerateKubeovnValues,
                         net!DistributeKubeovnArtifacts, net!InstallKubeOvnHelmChart)
DeployMultus == Release("firstMaster", net!GenerateMultusValues,
                        net!DistributeMultusArtifacts, net!InstallMultusHelmChart)
CleanCalico == Together(<<Node(net!CleanCalico, "firstMaster"),
                          Node(net!RemoveCalicoctl, "masters")>>)
CleanCilium == Chain(<<Node(net!UninstallCiliumHelmChart, "firstMaster"),
                       Node(net!CleanCiliumNodeState, "nodes")>>)
CleanFlannel == Chain(<<Node(net!UninstallFlannelHelmChart, "firstMaster"),
                        Node(net!CleanFlannelNodeFiles, "nodes")>>)
CleanHybridnet == Single(net!CleanHybridnet, "firstMaster")
CleanKubeovn   == Single(net!CleanKubeovn, "firstMaster")
CleanMultus    == Single(net!CleanMultus, "firstMaster")

\* One task for all plugins, with graphs of its own.
CleanNetworkPlugin(plugin) ==
    CASE plugin = "calico" ->
             Chain(On("masters", <<net!CleanCalico, net!RemoveCalicoctl>>))
      [] plugin = "flannel" -> Single(net!CleanFlannelNodeFiles, "firstMaster")
      [] plugin = "cilium"  -> Single(net!CleanCiliumNodeState, "firstMaster")
      [] plugin = "kubeovn" -> CleanKubeovn
      [] plugin = "hybridnet" -> CleanHybridnet
      [] plugin = "multus"  -> CleanMultus
InstallNetworkPlugin(plugin) ==
    CASE plugin = "calico"  -> DeployCalico
      [] plugin = "flannel" -> DeployFlannel
      [] plugin = "cilium"  -> DeployCilium
      [] plugin = "kubeovn" -> DeployKubeovn
      [] plugin = "hybridnet" -> DeployHybridnet
      [] plugin = "multus"  -> DeployMultus

DeployCoreDNS == Chain(On("firstMaster",
    <<addon!GenerateCoreDNSArtifacts, addon!InstallCoreDNS>>))
DeployNodeLocalDNS == Chain(On("firstMaster",
    <<addon!GenerateNodeLocalDNSArtifacts, addon!InstallNodeLocalDNS>>))
CleanCoreDNS      == Single(addon!CleanCoreDNS, "firstMaster")
CleanNodeLocalDNS == Single(addon!CleanNodeLocalDNS, "firstMaster")

(* cd, gateway, storage and addon *)

DeployArgoCD == Release("firstMaster", addon!GenerateArgoCDValues,
                        addon!DistributeArgoCDArtifacts, addon!InstallArgoCDHelmChart)
DeployLonghorn == Release("firstMaster", addon!GenerateLonghornValues,
                          addon!DistributeLonghornArtifacts,
                          addon!InstallLonghornHelmChart)
DeployNfs == Release("firstMaster", addon!GenerateNFSProvisionerValues,
                     addon!DistributeNFSProvisionerArtifacts,
                     addon!InstallNFSProvisionerHelmChart)
DeployOpenebs == Release("firstMaster", addon!GenerateOpenEBSValues,
                         addon!DistributeOpenEBSArtifacts,
                         addon!InstallOpenEBSHelmChart)
\* The artifacts are distributed to the control node, not to the master.
DeployIngressNginx ==
    Chain(<<Node(addon!GenerateIngressNginxValues, "firstMaster"),
            Node(addon!DistributeIngressNginxArtifacts, "control"),
            Node(addon!InstallIngressNginxHelmChart, "firstMaster")>>)
CleanArgoCD       == Single(addon!CleanArgoCD, "firstMaster")
CleanLonghorn     == Single(addon!CleanLonghorn(FALSE), "nodes")
CleanNfs          == Single(addon!CleanNFSProvisioner, "firstMaster")
CleanOpenebs      == Single(addon!CleanOpenEBS, "firstMaster")
CleanIngressNginx == Single(addon!CleanIngressNginx, "firstMaster")

\* The three steps of a YAML source are planned without an edge.
InstallAddonYaml(x) == Together(On("control",
    <<addon!DownloadAddonArtifacts(x), addon!DistributeAddonArtifacts(x),
      addon!ApplyAddonYaml(x)>>))
InstallAddonHelm(x) == Chain(On("control",
    <<addon!DownloadAddonArtifacts(x), addon!DistributeAddonArtifacts(x),
      addon!AddRepo(x), addon!InstallChart(x)>>))
CleanAddonHelm(x) == Single(addon!UninstallChart(x), "control")
=============================================================================
