--------------------------- MODULE UnplannedSteps ---------------------------
(* The steps no planner of internal/task uses, each of them for some value of *)
(* its parameters.                                                            *)
EXTENDS StepEffects

containerd == INSTANCE ContainerdSteps
docker     == INSTANCE DockerSteps
crio       == INSTANCE CrioSteps
etcd       == INSTANCE EtcdSteps
kubernetes == INSTANCE KubernetesSteps
kubeadm    == INSTANCE KubeadmSteps
pki        == INSTANCE PkiEtcdSteps
pkiKubeadm == INSTANCE PkiKubeadmSteps
lb         == INSTANCE LoadBalancerSteps
network    == INSTANCE NetworkSteps
addon      == INSTANCE AddonSteps
os         == INSTANCE OSSteps
common     == INSTANCE CommonSteps
registry   == INSTANCE RegistrySteps

\* Downloads, and the extraction of what was downloaded.
Downloads ==
   [DownloadContainerd |-> containerd!DownloadContainerd,
    DownloadCNIPlugins |-> containerd!DownloadCNIPlugins,
    DownloadRunc |-> containerd!DownloadRunc,
    DownloadCriCtl |-> containerd!DownloadCriCtl,
    ExtractCriCtl |-> containerd!ExtractCriCtl,
    DownloadDocker |-> docker!DownloadDocker,
    DownloadCriDockerd |-> docker!DownloadCriDockerd,
    DownloadCriCtlDocker |-> docker!DownloadCriCtl,
    DownloadBuildx |-> docker!DownloadBuildx,
    DownloadDockerCompose |-> docker!DownloadDockerCompose,
    DownloadCrio |-> crio!DownloadCrio,
    DownloadCNIPluginsCrio |-> crio!DownloadCNIPlugins,
    DownloadEtcd |-> etcd!DownloadEtcd,
    DownloadKubeApiServer |-> kubernetes!DownloadKubeApiServer,
    DownloadKubeControllerManager |-> kubernetes!DownloadKubeControllerManager,
    DownloadKubeScheduler |-> kubernetes!DownloadKubeScheduler,
    DownloadKubeProxy |-> kubernetes!DownloadKubeProxy,
    DownloadKubelet |-> kubernetes!DownloadKubelet,
    DownloadKubectl |-> kubernetes!DownloadKubectl,
    DownloadKubeadm |-> kubeadm!DownloadKubeadm,
    DownloadCalicoChart |-> network!DownloadCalicoChart,
    DownloadCalicoctl |-> network!DownloadCalicoctl,
    DownloadCiliumChart |-> network!DownloadCiliumChart,
    DownloadFlannelChart |-> network!DownloadFlannelChart,
    DownloadHybridnetChart |-> network!DownloadHybridnetChart,
    DownloadKubeovnChart |-> network!DownloadKubeovnChart,
    DownloadMultusChart |-> network!DownloadMultusChart,
    DownloadHelm |-> addon!DownloadHelm, ExtractHelm |-> addon!ExtractHelm,
    DownloadArgoCDChart |-> addon!DownloadArgoCDChart,
    DownloadIngressNginxChart |-> addon!DownloadIngressNginxChart,
    DownloadLonghornChart |-> addon!DownloadLonghornChart,
    DownloadNFSProvisionerChart |-> addon!DownloadNFSProvisionerChart,
    DownloadOpenEBSChart |-> addon!DownloadOpenEBSChart,
    DownloadRegistry |-> registry!DownloadRegistry,
    DownloadHarbor |-> registry!DownloadHarbor]

Others ==
   [InstallCriCtl |-> containerd!InstallCriCtl,
    ConfigureContainerdDropIn |-> containerd!ConfigureContainerdDropIn(TRUE),
    ConfigureCriCtl |-> containerd!ConfigureCriCtl,
    EnableContainerd |-> containerd!EnableContainerd,
    RestartContainerd |-> containerd!RestartContainerd,
    InstallCriCtlDocker |-> docker!InstallCriCtl,
    InstallBuildx |-> docker!InstallBuildx,
    InstallDockerCompose |-> docker!InstallDockerCompose,
    ConfigureCriCtlDocker |-> docker!ConfigureCriCtl,
    SetupDockerDropIn |-> docker!SetupDockerDropIn,
    SetupCriDockerdSocket |-> docker!SetupCriDockerdSocket,
    EnableDocker |-> docker!EnableDocker, RestartDocker |-> docker!RestartDocker,
    EnableCriDockerd |-> docker!EnableCriDockerd,
    RestartCriDockerd |-> docker!RestartCriDockerd,
    RemoveBuildx |-> docker!RemoveBuildx, RemoveCrictl |-> docker!RemoveCrictl,
    VerifyCrictl |-> docker!VerifyCrictl, ConfigureCrictl |-> crio!ConfigureCrictl,
    RestartCrio |-> crio!RestartCrio,
    ConfigureEtcdDropIn |-> etcd!ConfigureEtcdDropIn,
    SetupEtcdDirs |-> etcd!SetupEtcdDirs, EnableEtcd |-> etcd!EnableEtcd,
    RestartEtcd |-> etcd!RestartEtcd, EtcdStatusCheck |-> etcd!EtcdStatusCheck,
    DefragmentEtcd |-> etcd!DefragmentEtcd,
    EtcdVerifyMemberHealth |-> etcd!EtcdVerifyMemberHealth,
    EtcdVerifyClusterHealth |-> etcd!EtcdVerifyClusterHealth,
    AddEtcdMember |-> etcd!AddEtcdMember(TRUE), BackupEtcdEtcd |-> etcd!BackupEtcd,
    EtcdBackupData |-> etcd!EtcdBackupData,
    EtcdBackupLocalData |-> etcd!EtcdBackupLocalData,
    EtcdCleanupBackups |-> etcd!EtcdCleanupBackups,
    EtcdFinalizeUpgrade |-> etcd!EtcdFinalizeUpgrade,
    CollectEtcdLogs |-> etcd!CollectEtcdLogs,
    DisableKubeApiServer |-> kubernetes!DisableKubeApiServer,
    StartKubeAPIServer |-> kubernetes!StartKubeAPIServer,
    StopKubeApiServer |-> kubernetes!StopKubeApiServer,
    DisableKubeControllerManager |-> kubernetes!DisableKubeControllerManager,
    StopKubeControllerManager |-> kubernetes!StopKubeControllerManager,
    DisableKubeScheduler |-> kubernetes!DisableKubeScheduler,
    StopKubeScheduler |-> kubernetes!StopKubeScheduler,
    DisableKubeProxy |-> kubernetes!DisableKubeProxy,
    StopKubeProxy |-> kubernetes!StopKubeProxy,
    DisableKubelet |-> kubernetes!DisableKubelet,
    StopKubelet |-> kubernetes!StopKubelet,
    GenerateKubeconfigs |-> kubernetes!GenerateKubeconfigs,
    KubernetesBackupObjects |-> kubernetes!KubernetesBackupObjects,
    BackupRemoteConfigs |-> kubernetes!BackupRemoteConfigs,
    KubexmWaitClusterHealthy |-> kubernetes!KubexmWaitClusterHealthy,
    KubeadmLabelControlPlaneNode |-> kubernetes!KubeadmLabelControlPlaneNode,
    KubeadmLabelNodes |-> kubernetes!KubeadmLabelNodes,
    KubeadmLabelWorkerNode |-> kubernetes!KubeadmLabelWorkerNode,
    CordonNode |-> kubernetes!CordonNode, UncordonNode |-> kubernetes!UncordonNode,
    CleanupBackups |-> kubernetes!CleanupBackups,
    CleanupAllBackups |-> kubernetes!CleanupAllBackups,
    KubeadmBackupEtcd |-> kubeadm!KubeadmBackupEtcd,
    KubeadmUpgradePlan |-> kubeadm!KubeadmUpgradePlan,
    KubeadmFinalizeUpgrade |-> kubeadm!KubeadmFinalizeUpgrade,
    RestoreKubeadmBackup |-> kubeadm!RestoreKubeadmBackup,
    KubeadmCleanupBackups |-> kubeadm!KubeadmCleanupBackups,
    BackupPKIPkiEtcd |-> pki!BackupPKI(File("dir")),
    CopyPKICert |-> pki!CopyPKICert(File("from"), File("to")),
    CheckCertExpiration |-> pki!CheckCertExpiration,
    KubeadmCheckStackedEtcdLeafCertsExpiration |->
        pkiKubeadm!KubeadmCheckStackedEtcdLeafCertsExpiration,
    CollectLBBackends |-> lb!CollectLBBackends,
    CollectLBIdentity |-> lb!CollectLBIdentity,
    GenerateHAProxyStaticPod |-> lb!GenerateHAProxyStaticPod,
    GenerateNginxConfig |-> lb!GenerateNginxConfig,
    GenerateNginxStaticPod |-> lb!GenerateNginxStaticPod,
    StartNginx |-> lb!StartNginx, ApplyManifest |-> network!ApplyManifest("app"),
    CopyNetworkConfig |-> network!CopyNetworkConfig(File("from"), File("to")),
    PrepareNetworkDirs |-> network!PrepareNetworkDirs({File("to")}),
    RenderNetworkConfig |-> network!RenderNetworkConfig(File("to")),
    InstallHelm |-> addon!InstallHelm, RemoveHelm |-> addon!RemoveHelm,
    DownloadHelmCharts |-> addon!DownloadHelmCharts,
    RenderHelmValues |-> addon!RenderHelmValues("app"),
    InstallAddonChart |-> addon!InstallAddonChart("app"),
    RunAddonPreInstallHook |-> addon!RunAddonPreInstallHook,
    RunAddonPostInstallHook |-> addon!RunAddonPostInstallHook,
    ApplyManifestAddon |-> addon!ApplyManifest(File("from"), "app"),
    CopyAddonManifest |-> addon!CopyAddonManifest("key", File("to")),
    WaitForAddonReady |-> addon!WaitForAddonReady("app"),
    ApplyDNSManifest |-> addon!ApplyDNSManifest(File("from"), "app"),
    WaitForDNSReady |-> addon!WaitForDNSReady("app"),
    ApplyCDManifest |-> addon!ApplyCDManifest(File("from"), "app"),
    CheckHelmRelease |-> addon!CheckHelmRelease("app"),
    WaitForStorageReady |-> addon!WaitForStorageReady("app"),
    RunCommand |-> os!RunCommand("out"),
    PrepareOSDirs |-> os!PrepareOSDirs({File("to")}),
    ManageService |-> os!ManageService(DaemonReload),
    ApplySysctl |-> os!ApplySysctl, StartChrony |-> os!StartChrony,
    StopChrony |-> os!StopChrony, DisableChrony |-> os!DisableChrony,
    ConfigureChrony |-> os!ConfigureChrony,
    ChronyService |-> os!ChronyService(DaemonReload),
    InstallPackage |-> os!InstallPackage("app"),
    CheckDiskSpace |-> os!CheckDiskSpace,
    CheckKernelVersion |-> os!CheckKernelVersion,
    VerifyChecksums |-> os!VerifyChecksums({File("to")}), Confirm |-> os!Confirm,
    CheckPortConnectivity |-> os!CheckPortConnectivity,
    RunCommandForResult |-> os!RunCommandForResult("out"),
    CheckResource |-> os!CheckResource("app"),
    DeleteFile |-> common!DeleteFile(File("to")),
    DownloadFile |-> common!DownloadFile(Work("to")),
    ExtractArchive |->
        common!ExtractArchive(File("from"), File("to"), {File("expected")}),
    FileChecksum |-> common!FileChecksum(Work("to")),
    RemoteFileChecksum |-> common!RemoteFileChecksum(File("to")),
    RemoteDownloadFile |-> common!RemoteDownloadFile(File("to"), TRUE),
    ExtractArchiver |-> common!ExtractArchiver("in", "out", File("to")),
    RenderTemplate |-> common!RenderTemplate(File("to")),
    UploadFile |-> common!UploadFile(Work("to"), File("to")),
    GenerateCA |-> common!GenerateCA(Work("cert"), Work("key")),
    GenerateCAPEM |-> common!GenerateCAPEM(Work("cert"), Work("key")),
    GenerateCerts |-> common!GenerateCerts({Work("ca")}, Work("cert"), Work("key")),
    GenerateCertsPEM |->
        common!GenerateCertsPEM({Work("ca")}, Work("cert"), Work("key")),
    InstallPackages |-> common!InstallPackages("app", TRUE),
    UninstallPackage |-> common!UninstallPackage("app"),
    ManageFirewallRule |-> common!ManageFirewallRule(TRUE),
    ManageFirewallState |-> common!ManageFirewallState(TRUE),
    ManageHosts |-> common!ManageHosts(TRUE), ManageLimits |-> common!ManageLimits,
    ManageModules |-> common!ManageModules, ManageSELinux |-> common!ManageSELinux,
    ManageSwap |-> common!ManageSwap(TRUE), ManageSysctl |-> common!ManageSysctl,
    SetHostname |-> common!SetHostname, PullImages |-> common!PullImages,
    PushImages |-> common!PushImages, TransformImages |-> common!TransformImages,
    GatherFacts |-> common!GatherFacts, WaitForPort |-> common!WaitForPort("port"),
    PrintMessage |-> common!PrintMessage, ReportTable |-> common!ReportTable,
    CopyBinary |-> common!CopyBinary(File("from"), File("to")),
    DownloadBinary |-> common!DownloadBinary(File("to")),
    Command |->
        common!Command(Exists({File("to")}), Write({File("to")}), <<Remove({File("to")})>>),
    RunCommandCommon |-> common!RunCommand(Write({File("to")})),
    ShareData |-> common!ShareData(File("from"), File("to")),
    CopyConfig |-> common!CopyConfig("key", File("to")),
    PrepareRuntimeDirs |-> common!PrepareRuntimeDirs({File("to")}),
    DispatchBinary |-> common!DispatchBinary(File("from"), File("to")),
    RenderConfig |-> common!RenderConfig("key"),
    Service |-> common!Service(DaemonReload),
    EnableService |-> common!EnableService("app"),
    StartService |-> common!StartService("app"),
    RestartService |-> common!RestartService("app"),
    StartRegistryService |-> registry!StartRegistryService,
    CopyRegistryCert |-> registry!CopyRegistryCert(File("from"), File("to")),
    RegistryService |-> registry!RegistryService(DaemonReload),
    DistributeHarborConfig |-> registry!DistributeHarborConfig,
    RestartHarbor |-> registry!RestartHarbor,
    StopHarborService |-> registry!StopHarborService,
    CopyHarborCert |-> registry!CopyHarborCert(File("from"), File("to")),
    HarborService |-> registry!HarborService(DaemonReload),
    PushImage |-> registry!PushImage, SaveImage |-> registry!SaveImage(File("to")),
    DeployRepoServer |-> registry!DeployRepoServer]
=============================================================================
