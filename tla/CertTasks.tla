------------------------------ MODULE CertTasks ------------------------------
(***************************************************************************)
(* The graphs planned by internal/task/pki: the renewal of certificates    *)
(* that are due, of etcd, of a kubeadm cluster and of one from binaries.   *)
(* Host by host is written for two hosts.                                  *)
(***************************************************************************)
EXTENDS TaskGraphs

pki     == INSTANCE PkiEtcdSteps
kubeadm == INSTANCE PkiKubeadmSteps
kubexm  == INSTANCE PkiKubexmSteps
checks  == INSTANCE KubeadmSteps
k8s     == INSTANCE KubernetesSteps
etcd    == INSTANCE EtcdSteps
common  == INSTANCE CommonSteps

On(hosts, steps) == [i \in DOMAIN steps |-> Node(steps[i], hosts)]

-----------------------------------------------------------------------------
(* pki/etcd *)

CheckRenewalStatus == Graph(
    On("control", <<pki!RestoreCAFromRemote, pki!CheckCAExpiration>>)
    \o On("etcd", <<pki!CheckLeafCertsExpiration>>), {<<1, 2>>, <<1, 3>>})
GenerateNewCertificates == Graph(On("control",
    <<pki!PrepareAssets, pki!ResignCA, pki!GenerateNewLeafCerts,
      pki!PrepareCATransition>>),
    {<<1, 2>>, <<1, 4>>, <<2, 3>>, <<2, 4>>})
FinalCA(host) ==
    Chain(On(host, <<pki!DistributeCABundle, pki!RestartEtcd, etcd!WaitClusterHealthy>>))
DeployFinalCARolling == Rolling(FinalCA, "firstEtcd", "otherEtcd")
TrustBundle(host) ==
    Chain(On(host, <<pki!BackupRemoteEtcdCerts, pki!DistributeCABundle,
                     pki!RestartEtcd, etcd!WaitClusterHealthy>>))
DeployTrustBundleRolling ==
    Then(Single(pki!PrepareCATransition, "control"),
         Rolling(TrustBundle, "firstEtcd", "otherEtcd"))
NewLeaves(host) ==
    Chain(On(host, <<pki!BackupRemoteEtcdCerts, pki!DistributeLeafCerts,
                     pki!RestartEtcd, etcd!WaitClusterHealthy>>))
DeployNewLeafCertsRolling ==
    Then(Single(pki!MoveNewAssets, "control"),
         Rolling(NewLeaves, "firstEtcd", "otherEtcd"))
FinalizeWorkspace == Single(pki!CleanupTransitionAssets, "control")

-----------------------------------------------------------------------------
(* pki/kubeadm *)

CheckEtcdCertsExpiration == Graph(
    <<Node(kubeadm!KubeadmFetchFullPKI, "firstEtcd"),
      Node(kubeadm!KubeadmCheckEtcdCAExpiration, "control"),
      Node(kubeadm!KubeadmCheckLeafCertsExpiration, "firstEtcd")>>,
    {<<1, 2>>, <<1, 3>>})
KubeadmCheckClusterCertificates == Graph(
    <<Node(kubeadm!KubeadmFetchFullPKI, "control"),
      Node(kubeadm!KubeadmCheckK8sCAExpiration, "control"),
      Node(kubeadm!KubeadmCheckLeafCertsExpiration, "firstMaster")>>,
    {<<1, 2>>, <<1, 3>>})
GenerateEtcdCABundleCerts == Graph(On("control",
    <<kubeadm!KubeadmPrepareStackedEtcdCAAssets, kubeadm!KubeadmRenewStackedEtcdCA,
      kubeadm!KubeadmRenewStackedEtcdLeafCerts,
      kubeadm!KubeadmPrepareStackedEtcdCATransition>>),
    {<<1, 2>>, <<2, 3>>, <<2, 4>>})
GenerateLeafCerts == Single(kubeadm!KubeadmRenewStackedEtcdLeafCerts, "control")
\* These nodes are planned without a host.
GenerateK8sCACerts == Graph(On("nobody",
    <<kubeadm!KubeadmPrepareCAAssets, kubeadm!KubeadmRenewK8sCA,
      kubeadm!KubeadmRenewLeafCerts, kubeadm!KubeadmPrepareCATransition>>),
    {<<1, 2>>, <<2, 3>>, <<2, 4>>, <<1, 4>>})
GenerateK8sLeafCerts == Single(kubeadm!KubeadmRenewLeafCerts, "nobody")
KubeadmGenerateKubeconfigs == Chain(On("control",
    <<kubeadm!KubeadmMoveNewAssets, kubeadm!KubeadmCreateKubeconfigs>>))

ClusterVerified == Single(checks!KubeadmVerifyClusterHealth, "firstMaster")
FinalMaster(host) == Graph(On(host,
    <<kubeadm!KubeadmDistributeKubeconfigs, kubeadm!KubeadmDistributeKubeletConfig,
      kubeadm!KubeadmDistributeK8sPKI, kubeadm!KubeadmRestartKubelet,
      checks!KubeadmVerifyWorkerHealth, kubeadm!KubeadmRestartControlPlane,
      checks!KubeadmVerifyControlPlaneHealth>>),
    {<<1, 6>>, <<2, 4>>, <<3, 4>>, <<3, 6>>, <<4, 5>>, <<5, 6>>, <<6, 7>>})
KubeadmFinalizeMasters ==
    Then(Rolling(FinalMaster, "firstMaster", "otherMasters"), ClusterVerified)
MasterCA(host) == Chain(On(host,
    <<kubeadm!KubeadmBackupRemotePKI, kubeadm!KubeadmDistributeK8sPKI,
      kubeadm!KubeadmRestartControlPlane, checks!KubeadmVerifyControlPlaneHealth>>))
RolloutMasterCertsCA ==
    Then(Rolling(MasterCA, "firstMaster", "otherMasters"), ClusterVerified)
MasterLeaf(host) == Chain(On(host,
    <<kubeadm!KubeadmDistributeLeafCerts, kubeadm!KubeadmRestartControlPlane,
      checks!KubeadmVerifyControlPlaneHealth>>))
RolloutMasterLeafCerts ==
    Then(Rolling(MasterLeaf, "firstMaster", "otherMasters"), ClusterVerified)
StackedEtcd(host, distribute) == Chain(On(host,
    <<kubeadm!KubeadmBackupRemotePKI, distribute, kubeadm!KubeadmRestartEtcd,
      checks!KubeadmVerifyEtcdPodHealth>>))
EtcdVerified == Single(checks!KubeadmVerifyEtcdClusterHealth, "control")
StackedEtcdCA(host) == StackedEtcd(host, kubeadm!KubeadmDistributeStackedEtcdPKI)
RolloutEtcdCertsCA ==
    Then(Rolling(StackedEtcdCA, "firstEtcd", "otherEtcd"), EtcdVerified)
\* After a renewal of the CA the new files are moved first, and the first host
\* waits for that.
StackedEtcdLeaf(host) ==
    StackedEtcd(host, kubeadm!KubeadmDistributeStackedEtcdLeafCerts)
RolloutEtcdLeafCerts ==
    Then(Single(kubeadm!KubeadmMoveNewAssets, "control"),
         Then(Rolling(StackedEtcdLeaf, "firstEtcd", "otherEtcd"), EtcdVerified))
KubeadmWorker(host) == Chain(On(host,
    <<kubeadm!KubeadmDistributeK8sPKI, kubeadm!KubeadmDistributeKubeletConfig,
      kubeadm!KubeadmRestartKubelet, checks!KubeadmVerifyWorkerHealth>>))
KubeadmUpdateWorkerNodes ==
    Then(Rolling(KubeadmWorker, "firstWorker", "otherWorkers"), ClusterVerified)
KubeadmCleanup == Together(<<Node(kubeadm!KubeadmLocalCleanup, "control"),
                             Node(kubeadm!KubeadmRemoteCleanup, "all")>>)
CleanupWorkspace == Single(kubeadm!KubeadmLocalCleanup, "control")

-----------------------------------------------------------------------------
(* pki/kubexm *)

KubexmCheckClusterCertificates == Graph(
    <<Node(kubexm!KubxmFetchPKI, "firstMaster"),
      Node(kubexm!KubexmCheckK8sCAExpiration, "control"),
      Node(kubexm!KubexmCheckLeafCertsExpiration, "firstMaster")>>,
    {<<1, 2>>, <<1, 3>>})
GenerateClusterCerts == Graph(On("control",
    <<kubexm!KubexmPrepareCAAssets, kubexm!KubexmRenewK8sCA,
      kubexm!BinaryRenewAllLeafCerts, kubexm!KubexmPrepareCATransition>>),
    {<<1, 2>>, <<1, 4>>, <<2, 3>>, <<2, 4>>})
KubexmGenerateKubeconfigs == Chain(On("control",
    <<kubexm!MoveNewAssets, kubexm!BinaryRenewAllKubeconfigs>>))

BinaryClusterVerified == Single(k8s!CheckClusterHealth, "firstMaster")
Restarts ==
    <<k8s!RestartKubeApiServer, k8s!VerifyAPIServerHealth,
      k8s!RestartKubeControllerManager, k8s!VerifyControllerManagerHealth,
      k8s!RestartKubeScheduler, k8s!VerifySchedulerHealth>>
BundleMaster(host) == Chain(On(host,
    <<kubexm!KubexmBackupRemotePKI, kubexm!KubexmDistributeK8sPKI>> \o Restarts))
RolloutK8sCABundle ==
    Then(Rolling(BundleMaster, "firstMaster", "otherMasters"), BinaryClusterVerified)
LeafMaster(host) == Chain(On(host,
    <<kubexm!KubexmBackupRemotePKI, kubexm!DistributeLeafCerts>> \o Restarts))
RolloutLeafCertsToMasters ==
    Then(Rolling(LeafMaster, "firstMaster", "otherMasters"), BinaryClusterVerified)
BinaryFinalMaster(host) == Graph(On(host,
    <<kubexm!BackupKubeconfigs, kubexm!KubexmDistributeK8sPKI,
      kubexm!DistributeMasterKubeconfigs, k8s!RestartKubelet,
      k8s!VerifyKubeletHealth, k8s!RestartKubeProxy, k8s!VerifyKubeProxyHealth>>
    \o Restarts \o <<common!NoOp>>),
    {<<1, 2>>, <<1, 3>>, <<2, 4>>, <<3, 4>>, <<2, 6>>, <<3, 6>>, <<4, 5>>, <<6, 7>>,
     <<2, 8>>, <<3, 8>>, <<5, 8>>, <<8, 9>>, <<9, 10>>, <<10, 11>>, <<11, 12>>,
     <<12, 13>>, <<5, 14>>, <<7, 14>>, <<13, 14>>})
KubexmFinalizeMasters ==
    Then(Rolling(BinaryFinalMaster, "firstMaster", "otherMasters"),
         BinaryClusterVerified)

\* The node that verifies kube-proxy is given the name of the one that verifies
\* the kubelet, so AddNode refuses it and the edges to and from it.
BinaryWorker(host) == Graph(On(host,
    <<kubexm!KubexmBackupRemotePKI, kubexm!KubexmDistributeK8sPKI,
      kubexm!DistributeWorkerKubeconfigs, k8s!RestartKubelet,
      k8s!VerifyKubeletHealth, k8s!RestartKubeProxy, common!NoOp>>),
    {<<1, 2>>, <<1, 3>>, <<2, 4>>, <<3, 4>>, <<2, 6>>, <<3, 6>>, <<4, 5>>, <<5, 7>>})
\* The next worker, and the last check, wait for the barrier alone.
KubexmUpdateWorkerNodes ==
    LET first == BinaryWorker("firstWorker")
        other == BinaryWorker("otherWorkers")
    IN  Graph(first.nodes \o other.nodes \o BinaryClusterVerified.nodes,
              first.edges \cup {<<e[1] + 7, e[2] + 7>> : e \in other.edges}
              \cup {<<7, 8>>, <<14, 15>>})
KubexmCleanup == Together(<<Node(kubexm!KubeadmLocalCleanup, "control"),
                            Node(kubexm!KubeadmRemoteCleanup, "all")>>)
=============================================================================
