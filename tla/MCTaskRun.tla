------------------------------ MODULE MCTaskRun ------------------------------
(* The tasks of internal/task on small clusters, with the promises they keep. *)
EXTENDS TaskRun
LOCAL INSTANCE TLC

node    == INSTANCE NodeTasks
cluster == INSTANCE ClusterTasks
cert    == INSTANCE CertTasks
kubeadm == INSTANCE PkiKubeadmSteps
spare   == INSTANCE UnplannedSteps

one    == Layout(<<"m1">>, <<>>)
both   == Layout(<<"m1">>, <<"w1">>)
two    == Layout(<<"m1", "m2">>, <<"w1", "w2">>)
double == Layout(<<"m1">>, <<"m1">>)

services == {Running(x) : x \in {"kubelet", "kube-proxy", "kube-apiserver",
                                 "kube-controller-manager", "kube-scheduler"}}
backedUp == {File("/etc/kubernetes/pki/ca"), File("/etc/kubernetes/pki/certs"),
             adminConf}

\* A node or cluster task on one master; on a master and a worker; and a task that
\* goes from host to host on two of each.
OnOne == [
    PrepareOSNodes |-> node!PrepareOSNodes, CleanOSNodes |-> node!CleanOSNodes,
    PreflightChecks |-> node!PreflightChecks,
    DeployContainerd |-> node!DeployContainerd,
    DeployCrio |-> node!DeployCrio(TRUE), CleanDocker |-> node!CleanDocker,
    DeployHarbor |-> node!DeployHarbor,
    InstallKubeComponents |-> cluster!InstallKubeComponents,
    DistributeControlPlaneAssets |-> cluster!DistributeControlPlaneAssets,
    ConfigureControlPlane |-> cluster!ConfigureControlPlane,
    StartControlPlane |-> cluster!StartControlPlane]
OnBoth == [
    ConfigureHost |-> node!ConfigureHost,
    ConfigureKernel |-> node!ConfigureKernel,
    DisableServices |-> node!DisableServices,
    InstallPrerequisitesOffline |-> node!InstallPrerequisites(TRUE),
    InstallPrerequisitesOnline |-> node!InstallPrerequisites(FALSE),
    PreflightCheck |-> node!PreflightCheck,
    CheckConnectivity |-> node!CheckConnectivity, Greeting |-> node!Greeting,
    ExtractBundle |-> node!ExtractBundle, PackageAssets |-> node!PackageAssets,
    InstallToolBinaries |-> node!InstallToolBinaries({"jq"}),
    PrepareAssets |-> node!PrepareAssets({"helm"}, "app"),
    PushImagesToRegistry |-> node!PushImagesToRegistry,
    ConfirmTask |-> node!ConfirmTask(TRUE),
    VerifyArtifacts |-> node!VerifyArtifacts({Work("artifact")}),
    CreateRepositoryApt |-> node!CreateRepository(TRUE),
    CreateRepositoryYum |-> node!CreateRepository(FALSE),
    DownloadAssets |-> node!DownloadAssets({"helm", "etcd"}),
    CleanContainerd |-> node!CleanContainerd, CleanCrio |-> node!CleanCrio,
    InstallCNIPlugins |-> node!InstallCNIPlugins,
    CleanCNIPlugins |-> node!CleanCNIPlugins,
    DeployHAProxyAsDaemon |-> node!DeployHAProxyAsDaemon,
    DeployNginxAsDaemon |-> node!DeployNginxAsDaemon,
    DeployNginxOnWorkers |-> node!DeployNginxOnWorkers,
    DeployHAProxyOnWorkers |-> node!DeployHAProxyOnWorkers,
    DeployHAProxyAsStaticPod |-> node!DeployHAProxyAsStaticPod,
    DeployNginxAsStaticPod |-> node!DeployNginxAsStaticPod,
    CleanHAProxyAsDaemon |-> node!CleanHAProxyAsDaemon,
    CleanNginxAsDaemon |-> node!CleanNginxAsDaemon,
    CleanHAProxyOnWorkers |-> node!CleanHAProxyOnWorkers,
    CleanNginxOnWorkers |-> node!CleanNginxOnWorkers,
    CleanHAProxyStaticPod |-> node!CleanHAProxyStaticPod,
    CleanNginxStaticPod |-> node!CleanNginxStaticPod,
    InstallHAProxyAsDaemon |-> node!InstallHAProxyAsDaemon,
    InstallKeepalived |-> node!InstallKeepalived,
    UninstallKeepalived |-> node!UninstallKeepalived,
    DeployKeepalived |-> node!DeployKeepalived,
    CleanKeepalived |-> node!CleanKeepalived,
    DeployKubeVIP |-> node!DeployKubeVIP, CleanupKubeVIP |-> node!CleanupKubeVIP,
    DeployKubeVip |-> node!DeployKubeVip, CleanKubeVip |-> node!CleanKubeVip,
    CleanRegistry |-> node!CleanRegistry, CleanHarbor |-> node!CleanHarbor,
    GenerateEtcdPKI |-> cluster!GenerateEtcdPKI,
    DeployFirstEtcd |-> cluster!DeployFirstEtcd, CleanEtcd |-> cluster!CleanEtcd,
    BootstrapFirstMaster |-> cluster!BootstrapFirstMaster,
    UpgradeWorkers |-> cluster!UpgradeWorkers, DrainNode |-> cluster!DrainNode,
    ResetNode |-> cluster!ResetNode, CleanKubernetes |-> cluster!CleanKubernetes,
    CleanKubeComponents |-> cluster!CleanKubeComponents,
    GenerateKubePKI |-> cluster!GenerateKubePKI,
    GenerateNodePKI |-> cluster!GenerateNodePKI,
    GenerateAdminConfig |-> cluster!GenerateAdminConfig,
    GenerateControlPlaneKubeconfigs |-> cluster!GenerateControlPlaneKubeconfigs,
    GenerateNodeKubeconfigs |-> cluster!GenerateNodeKubeconfigs,
    GenerateNodeComponentConfigs |-> cluster!GenerateNodeComponentConfigs,
    GenerateControlPlaneConfigs |-> cluster!GenerateControlPlaneConfigs,
    DeployWorkerNodes |-> cluster!DeployWorkerNodes,
    FinalizeClusterSetup |-> cluster!FinalizeClusterSetup,
    CheckAPIServerHealth |-> cluster!CheckAPIServerHealth,
    CheckSchedulerHealth |-> cluster!CheckSchedulerHealth,
    CheckControllerManagerHealth |-> cluster!CheckControllerManagerHealth,
    CheckKubeletHealth |-> cluster!CheckKubeletHealth,
    CheckClusterHealth |-> cluster!CheckClusterHealth,
    ReconfigureAPIServer |-> cluster!ReconfigureAPIServer,
    ReconfigureScheduler |-> cluster!ReconfigureScheduler,
    ReconfigureControllerManager |-> cluster!ReconfigureControllerManager,
    ReconfigureKubelet |-> cluster!ReconfigureKubelet,
    ReconfigureProxy |-> cluster!ReconfigureProxy,
    BackupPKI |-> cluster!BackupPKI, BackupEtcd |-> cluster!BackupEtcd,
    BackupK8sConfigs |-> cluster!BackupK8sConfigs,
    RestoreEtcd |-> cluster!RestoreEtcd, DeployCalico |-> cluster!DeployCalico,
    DeployCilium |-> cluster!DeployCilium,
    DeployFlannel |-> cluster!DeployFlannel,
    DeployHybridnet |-> cluster!DeployHybridnet,
    DeployKubeovn |-> cluster!DeployKubeovn,
    DeployMultus |-> cluster!DeployMultus, CleanCalico |-> cluster!CleanCalico,
    CleanCilium |-> cluster!CleanCilium, CleanFlannel |-> cluster!CleanFlannel,
    CleanHybridnet |-> cluster!CleanHybridnet,
    CleanKubeovn |-> cluster!CleanKubeovn, CleanMultus |-> cluster!CleanMultus,
    CleanNetworkPluginCalico |-> cluster!CleanNetworkPlugin("calico"),
    CleanNetworkPluginFlannel |-> cluster!CleanNetworkPlugin("flannel"),
    CleanNetworkPluginCilium |-> cluster!CleanNetworkPlugin("cilium"),
    DeployCoreDNS |-> cluster!DeployCoreDNS,
    DeployNodeLocalDNS |-> cluster!DeployNodeLocalDNS,
    CleanCoreDNS |-> cluster!CleanCoreDNS,
    CleanNodeLocalDNS |-> cluster!CleanNodeLocalDNS,
    DeployArgoCD |-> cluster!DeployArgoCD,
    DeployLonghorn |-> cluster!DeployLonghorn, DeployNfs |-> cluster!DeployNfs,
    DeployOpenebs |-> cluster!DeployOpenebs, CleanArgoCD |-> cluster!CleanArgoCD,
    CleanLonghorn |-> cluster!CleanLonghorn, CleanNfs |-> cluster!CleanNfs,
    CleanOpenebs |-> cluster!CleanOpenebs,
    CleanIngressNginx |-> cluster!CleanIngressNginx,
    InstallAddonYaml |-> cluster!InstallAddonYaml("app"),
    InstallAddonHelm |-> cluster!InstallAddonHelm("app"),
    CleanAddonHelm |-> cluster!CleanAddonHelm("app")]
OnTwo == [
    DeployEtcdCluster |-> cluster!DeployEtcdCluster,
    UpgradeControlPlane |-> cluster!UpgradeControlPlane,
    CheckRenewalStatus |-> cert!CheckRenewalStatus,
    DeployFinalCARolling |-> cert!DeployFinalCARolling,
    DeployTrustBundleRolling |-> cert!DeployTrustBundleRolling,
    DeployNewLeafCertsRolling |-> cert!DeployNewLeafCertsRolling,
    FinalizeWorkspace |-> cert!FinalizeWorkspace,
    CheckEtcdCertsExpiration |-> cert!CheckEtcdCertsExpiration,
    KubeadmCheckClusterCertificates |-> cert!KubeadmCheckClusterCertificates,
    GenerateLeafCerts |-> cert!GenerateLeafCerts,
    GenerateK8sCACerts |-> cert!GenerateK8sCACerts,
    GenerateK8sLeafCerts |-> cert!GenerateK8sLeafCerts,
    KubeadmGenerateKubeconfigs |-> cert!KubeadmGenerateKubeconfigs,
    RolloutEtcdCertsCA |-> cert!RolloutEtcdCertsCA,
    RolloutEtcdLeafCerts |-> cert!RolloutEtcdLeafCerts,
    KubeadmCleanup |-> cert!KubeadmCleanup,
    CleanupWorkspace |-> cert!CleanupWorkspace,
    KubexmCheckClusterCertificates |-> cert!KubexmCheckClusterCertificates,
    KubexmGenerateKubeconfigs |-> cert!KubexmGenerateKubeconfigs,
    KubexmCleanup |-> cert!KubexmCleanup]

\* Tasks that follow another one, find something in place that they make too, ask for
\* what nobody makes, or meet a host that is master and worker.
Special ==
   [ConfigureTime |-> Having({Running("chronyd")}, Case(node!ConfigureTime, two)),
    DeployDocker |-> Lacking({Extracted("cni")}, Case(node!DeployDocker, one)),
    DeployRegistry |->
        Lacking({Work("registry next to its archive")},
                Case(node!DeployRegistry, both)),
    KubeadmJoinMasters |->
        Case(Then(cluster!BootstrapFirstMaster, cluster!KubeadmJoinMasters), two),
    JoinWorkers |->
        Case(Then(cluster!BootstrapFirstMaster, cluster!JoinWorkers), both),
    RestorePKI |-> Having(backedUp, Case(cluster!RestorePKI, both)),
    RestoreK8sConfigs |-> Having(backedUp, Case(cluster!RestoreK8sConfigs, both)),
    DeployIngressNginx |->
        Lacking({cluster!addon!remoteValues("ingress-nginx"),
                 cluster!addon!remoteChart("ingress-nginx")},
                Case(cluster!DeployIngressNginx, both)),
    GenerateNewCertificates |->
        Having({cert!pki!ca, cert!pki!caKey},
               Case(cert!GenerateNewCertificates, two)),
    GenerateEtcdCABundleCerts |->
        Having({kubeadm!Local("etcd/ca")},
               Case(cert!GenerateEtcdCABundleCerts, two)),
    KubeadmFinalizeMasters |->
        Having(services \cup {kubeadm!pkiBackupPath, kubeadm!pki, kubeadm!kubeconfigs,
                kubeadm!kubeletPki, kubeadm!manifests},
               Case(cert!KubeadmFinalizeMasters, two)),
    RolloutMasterCertsCA |->
        Having(services \cup {kubeadm!pki, kubeadm!manifests},
               Case(cert!RolloutMasterCertsCA, two)),
    RolloutMasterLeafCerts |->
        Having(services \cup {kubeadm!pkiBackupPath, kubeadm!pki, kubeadm!manifests},
               Case(cert!RolloutMasterLeafCerts, two)),
    KubeadmUpdateWorkerNodes |->
        Having(services \cup {kubeadm!pkiBackupPath, kubeadm!pki, kubeadm!kubeletPki},
               Case(cert!KubeadmUpdateWorkerNodes, two)),
    GenerateClusterCerts |->
        Having({kubeadm!Local("ca"), kubeadm!Local("key")},
               Case(cert!GenerateClusterCerts, two)),
    RolloutK8sCABundle |->
        Having(services \cup {kubeadm!pki},
               Case(cert!RolloutK8sCABundle, two)),
    RolloutLeafCertsToMasters |->
        Having(services \cup {kubeadm!pki},
               Case(cert!RolloutLeafCertsToMasters, two)),
    KubexmFinalizeMasters |->
        Having(services \cup {kubeadm!pkiBackupPath, kubeadm!pki, kubeadm!kubeconfigs},
               Case(cert!KubexmFinalizeMasters, two)),
    KubexmUpdateWorkerNodes |->
        Having(services \cup {kubeadm!pkiBackupPath, kubeadm!pki, kubeadm!kubeconfigs},
               Case(cert!KubexmUpdateWorkerNodes, two)),
    ConvergedContainerd |-> Case(node!DeployContainerd, double),
    ConvergedDocker |-> Case(node!DeployDocker, double),
    ConvergedKubeComponents |-> Case(cluster!InstallKubeComponents, double)]

\* A deployment and the task that takes it down, one after the other.
Takedowns ==
   [PurgeContainerd |-> Purge(node!DeployContainerd, node!CleanContainerd, one),
    PurgeDocker |-> Purge(node!DeployDocker, node!CleanDocker, one),
    PurgeCNIPlugins |-> Purge(node!InstallCNIPlugins, node!CleanCNIPlugins, one),
    PurgeKeepalived |-> Purge(node!InstallKeepalived, node!UninstallKeepalived, one),
    PurgeKeepalivedCleaned |->
        Purge(node!DeployKeepalived, node!CleanKeepalived, one),
    PurgeHAProxy |->
        Purge(node!InstallHAProxyAsDaemon, node!CleanHAProxyAsDaemon, one),
    PurgeKubeVip |-> Purge(node!DeployKubeVip, node!CleanKubeVip, two),
    PurgeHarbor |-> Purge(node!DeployHarbor, node!CleanHarbor, one),
    PurgeCalico |-> Purge(cluster!DeployCalico, cluster!CleanCalico, both),
    PurgeCoreDNS |-> Purge(cluster!DeployCoreDNS, cluster!CleanCoreDNS, both),
    PurgeAddonHelm |->
        Purge(cluster!InstallAddonHelm("app"), cluster!CleanAddonHelm("app"), both),
    PurgeKubeComponents |->
        Purge(cluster!InstallKubeComponents, cluster!CleanKubeComponents, one),
    PurgeKubernetes |->
        Purge(cluster!BootstrapFirstMaster, cluster!CleanKubernetes, one)]

Plain(graphs, layout) == [t \in DOMAIN graphs |-> Case(graphs[t], layout)]

Tasks == Plain(OnOne, one) @@ Plain(OnBoth, both) @@ Plain(OnTwo, two) @@ Special

-----------------------------------------------------------------------------
(* The promises the tasks do not keep. Every name stands for a defect of the  *)
(* planner or of one of its steps: without it TLC finds the property violated. *)

\* AddDependency is called with its arguments exchanged, so the service is
\* restarted first and the package installed after.
Backward == {"DeployHAProxyAsDaemon", "DeployNginxAsDaemon", "DeployNginxOnWorkers",
             "DeployHAProxyOnWorkers", "DeployHAProxyAsStaticPod",
             "DeployNginxAsStaticPod"}

\* The planner gives its nodes no hosts. The engine takes such a node for done.
Unhosted == {"GenerateK8sCACerts", "GenerateK8sLeafCerts"}

\* A step needs what no step, in any order, leaves where it looks for it: the
\* extracted CRI-O, the CNI plugins, the registry binary, the chart on the master,
\* the member to remove, the version to upgrade to, a running API server (it is
\* restarted, never started), the certificates that are to be renewed.
Unfed == {"DeployCrio", "DeployDocker", "DeployRegistry", "DeployIngressNginx",
          "CleanEtcd", "UpgradeControlPlane", "UpgradeWorkers", "StartControlPlane",
          "GenerateNewCertificates", "DeployTrustBundleRolling",
          "DeployNewLeafCertsRolling", "GenerateEtcdCABundleCerts",
          "GenerateLeafCerts"}

\* Edges are missing, so a step may run before what it needs is there.
Unordered == {"InstallAddonYaml", "FinalizeClusterSetup"}

Doomed == Backward \cup Unhosted \cup Unfed

\* A host that is master and worker is listed twice.
Converged == {"ConvergedContainerd", "ConvergedDocker", "ConvergedKubeComponents"}

\* The path of a backup is remembered without the name of the host, so no host
\* after the first has one, and no worker when a master has; a second run backs up
\* what the first one has distributed.
SharedBackup == {"RolloutMasterCertsCA", "RolloutK8sCABundle",
                 "RolloutLeafCertsToMasters", "KubexmFinalizeMasters"}
NoBackup == SharedBackup \cup {"KubexmUpdateWorkerNodes", "RolloutEtcdCertsCA",
                                "RolloutEtcdLeafCerts"}

Flaws == [
    \* The join token is remembered by kubeadm init alone; what was cleaned is needed
    \* for the next deployment.
    NeedsMet |-> Backward \cup Unfed \cup Unordered
                 \cup {"KubeadmJoinMasters", "JoinWorkers", "CleanAddonHelm",
                       "PurgeKeepalivedCleaned"},
    \* Edges are missing, the hosts of a node share what its step keeps for Rollback,
    \* every host does the same to the cluster, or a host is listed twice.
    RaceFree |-> Unordered \cup {"PrepareOSNodes", "ConfigureHost", "ConfigureKernel",
                  "DisableServices", "CleanLonghorn", "CheckRenewalStatus"} \cup Converged,
    \* Hosts without a backup; and the etcd manifest is looked for among the
    \* certificates, so it is neither moved away nor put back.
    Deployed |-> NoBackup,
    Current  |-> NoBackup \cup {"PrepareOSNodes"},
    \* A second run makes a new secret, or restores what the first one has changed.
    Idempotent |-> SharedBackup \cup {"DeployHarbor", "RestorePKI",
                                      "RestoreK8sConfigs"},
    \* Files are left, or a Precheck takes what is there for gone.
    Cleaned  |-> {"DisableServices", "KubeadmCleanup", "KubexmCleanup",
                  "PrepareOSNodes", "PurgeContainerd", "PurgeDocker", "PurgeCalico",
                  "PurgeHarbor", "PurgeKubernetes"},
    Delivers |-> Doomed \cup Unordered,
    Deliverable |-> Doomed,
    CrashSafe |-> {}]

\* What else a task does not keep once a Run has failed and was rolled back.
RollbackFlaws == [
    \* Rollback removes what was there before.
    NeedsMet |-> {"RolloutK8sCABundle", "RolloutLeafCertsToMasters",
                  "KubexmFinalizeMasters", "RestorePKI", "RestoreK8sConfigs",
                  "ConvergedContainerd", "ConvergedDocker"},
    RaceFree |-> {},
    \* What a host has done, its second entry rolls back, and the failure of one is
    \* hidden by the success of the other.
    Deployed |-> Converged,
    \* Rollback leaves half of a download or of a configuration, and Precheck is
    \* content with its presence.
    Current  |-> {"InstallPrerequisitesOffline", "InstallPrerequisitesOnline",
                  "PrepareAssets", "DownloadAssets",
                  "RestorePKI", "RestoreK8sConfigs", "FinalizeClusterSetup"}
                 \cup Converged,
    Idempotent |-> Converged, Cleaned |-> {}, Delivers |-> {},
    Deliverable |-> {},
    \* Precheck asks whether a file exists, or one of several, and takes what a Run
    \* that was cut off has left for the whole.
    CrashSafe |-> {
        "PrepareOSNodes", "DeployContainerd", "DeployHarbor",
        "DistributeControlPlaneAssets", "ConfigureKernel", "InstallCNIPlugins",
        "InstallHAProxyAsDaemon", "InstallKeepalived", "DeployKeepalived",
        "GenerateEtcdPKI", "BootstrapFirstMaster",
        "GenerateKubePKI", "GenerateNodePKI", "DeployWorkerNodes",
        "FinalizeClusterSetup", "BackupPKI", "BackupEtcd", "BackupK8sConfigs",
        "DeployCalico", "DeployCilium", "DeployFlannel", "DeployHybridnet",
        "DeployKubeovn", "DeployMultus", "DeployArgoCD", "DeployLonghorn",
        "DeployNfs", "DeployOpenebs", "InstallAddonYaml", "InstallAddonHelm",
        "DeployEtcdCluster", "CheckRenewalStatus", "CheckEtcdCertsExpiration",
        "KubeadmCheckClusterCertificates", "KubexmCheckClusterCertificates",
        "ConfigureTime", "KubeadmFinalizeMasters", "RolloutMasterCertsCA",
        "RolloutMasterLeafCerts", "KubeadmUpdateWorkerNodes", "GenerateClusterCerts",
        "KubexmUpdateWorkerNodes"}]

\* The same for the steps no task plans, each of them alone.
Restarts == {"RestartContainerd", "RestartDocker", "RestartCriDockerd", "RestartCrio"}
SpareFlaws == [
    \* What an earlier step of the run remembers.
    NeedsMet |-> {"KubeadmFinalizeUpgrade", "ExtractArchiver", "CopyAddonManifest",
                  "RestoreKubeadmBackup", "CopyConfig"},
    \* A service that is down after its restart failed needs no restart.
    Deployed |-> Restarts,
    \* What is half pulled or installed is not looked at again.
    Current  |-> Restarts \cup {"PullImages", "InstallPackage"},
    CrashSafe |-> DOMAIN spare!Downloads \cup {
        "DownloadHelmCharts", "DownloadBinary", "DispatchBinary", "ExtractArchive",
        "InstallPackages", "InstallAddonChart", "GenerateKubeconfigs", "ManageSysctl",
        "SetupEtcdDirs", "EtcdBackupData", "KubeadmBackupEtcd",
        "KubernetesBackupObjects"}]

-----------------------------------------------------------------------------

\* The cases, and what they break according to a table of flaws.
With(cases, flaws) ==
    [t \in DOMAIN cases |->
        But(cases[t].breaks \cup {p \in DOMAIN flaws : t \in flaws[p]}, cases[t])]
Alone(steps) == [s \in DOMAIN steps |-> Single(steps[s], "all")]
Without(cases, names) == [t \in DOMAIN cases \ names |-> cases[t]]

OrderCases == With(Tasks @@ Takedowns, Flaws)

\* Too many states with a fault at every place.
Wide == {"CleanCrio", "KubeadmCleanup", "KubexmCleanup", "PreflightCheck",
         "CleanContainerd"}
RecoveryCases ==
    With(With(Without(Tasks, Doomed \cup Wide), Flaws), RollbackFlaws)
    @@ With(Plain(Alone(spare!Downloads @@ spare!Others), one), SpareFlaws)

-----------------------------------------------------------------------------
(* The theorems of TaskRunProofs tell from a plan alone what comes of it, with any *)
(* faults and in any number of rounds. This is which plans they apply to. It is    *)
(* looked at in the run with faults.                                               *)

\* The cases that keep the promises but lack the mark of one in their plan.
Unmarked(cases, promises, Mark(_)) ==
    {t \in DOMAIN cases : cases[t].breaks \cap promises = {}
                          /\ \E plan \in {Planned(cases[t])} : ~Mark(plan)}

AllCases ==
    With(With(Tasks @@ Takedowns, Flaws), RollbackFlaws)
    @@ With(Plain(Alone(spare!Downloads @@ spare!Others), one), SpareFlaws)
\* What has something to remove.
Wasteful == {t \in DOMAIN AllCases : Planned(AllCases[t]).waste # {}}

\* The tasks on clusters with several hosts of every role.
On(layout) ==
    [t \in DOMAIN Without(Tasks @@ Takedowns, Converged) |->
        [AllCases[t] EXCEPT !.layout = layout]]
three == Layout(<<"m1", "m2", "m3">>, <<"w1", "w2", "w3">>)

\* What is needed is there from the beginning or made by a step that may be skipped.
FedByLuck == {"KubeadmGenerateKubeconfigs", "KubexmGenerateKubeconfigs",
              "PurgeKeepalived", "PurgeHAProxy", "PurgeKubernetes"}

\* A Precheck looks for one resource of several that come and go together, or the
\* goal was there from the beginning.
BuiltByLuck == {"CleanOSNodes", "InstallPrerequisitesOffline", "ExtractBundle",
                "KubeadmGenerateKubeconfigs", "KubexmGenerateKubeconfigs",
                "KubeadmJoinMasters", "JoinWorkers",
                "PurgeDocker", "PurgeKubernetes", "EtcdBackupLocalData",
                "BackupRemoteConfigs", "GenerateNginxConfig"}

\* What is rendered or remembered for a host has a key without its name, or every
\* host does the same to the cluster, so that hosts disturb each other as soon as
\* there are several: the configuration of keepalived and of the load balancers,
\* the paths of backups.
CrowdRaces == {"CleanOSNodes", "InstallKeepalived", "DeployKeepalived", "CleanEtcd",
               "BackupK8sConfigs", "CleanNetworkPluginCalico", "PurgeKeepalived",
               "PurgeKeepalivedCleaned", "KubexmUpdateWorkerNodes",
               "RolloutEtcdCertsCA", "RolloutEtcdLeafCerts"}
              \cup Backward \cup SharedBackup

\* Doomed tasks that fail for other reasons than one step without what it insists on.
DoomedOtherwise == {"DeployCrio", "StartControlPlane", "GenerateNewCertificates"}

ASSUME Survey ==
    DOMAIN Cases # DOMAIN RecoveryCases \/
        /\ Unmarked(AllCases, {"RaceFree"}, ClashesOrdered) = {}
        /\ Unmarked(AllCases, {"NeedsMet", "CrashSafe"}, Feeds) = FedByLuck
        /\ Unmarked(AllCases, {"Deployed", "CrashSafe", "Deliverable"}, Builds) = BuiltByLuck
        /\ Unmarked(AllCases, {"Delivers"}, LAMBDA plan : Forward(plan) /\ Hosted(plan))
               = {"CleanOSNodes"}
        /\ Cardinality({t \in Wasteful : Clears(Planned(AllCases[t]))}) = 39
        /\ {t \in Doomed : \E plan \in {Planned(AllCases[t])} : Hosted(plan) /\ ~Stuck(plan)}
               = DoomedOtherwise
        /\ Unmarked(On(two), {"NeedsMet", "CrashSafe"}, Feeds) = FedByLuck
        /\ Unmarked(On(three), {"RaceFree"}, ClashesOrdered) = CrowdRaces
=============================================================================
