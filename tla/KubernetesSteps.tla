--------------------------- MODULE KubernetesSteps ---------------------------
(***************************************************************************)
(* The steps of internal/step/kubernetes for a cluster of binaries: the    *)
(* control plane services, kubelet, kube-proxy, their certificates and     *)
(* kubeconfigs. kubeadm has a module of its own. That kubectl is answered  *)
(* is not part of the model, only that it and its kubeconfig are there.    *)
(***************************************************************************)
EXTENDS StepEffects

Bin(x)    == File("/usr/local/bin/" \o x)
Config(x) == File("/etc/kubernetes/" \o x \o ".yaml")
Conf(x)   == File("/etc/kubernetes/" \o x \o ".conf")
pkiCA     == File("/etc/kubernetes/pki/ca")
pkiCerts  == File("/etc/kubernetes/pki/certs")
ca        == Work("certs/kubernetes/ca")
certs     == Work("certs/kubernetes/certs")
kubeconfigs == Work("kubeconfigs")
configDir == {pkiCA, pkiCerts, adminConf}
\* The directory of that name on the machine kubexm runs on.
localPki  == Work("/etc/kubernetes/pki")

\* A service that is started from its binary, its unit and F.
NeedOf(x, F) == {Bin(x), Unit(x)} \cup F
\* systemd reads its units again before it starts the service.
ReloadAndStart(x, F) ==
    Step({}, Exists({Running(x)}), <<DaemonReload, Start(x, F, {})>>,
         <<StopService(x)>>)
\* Precheck wants the service active; Run reads the units and restarts it.
ReloadAndRestart(x, F) ==
    Step({Running(x)}, Never, <<DaemonReload, Restart(x, F, {})>>,
         <<Restart(x, F, {})>>)
\* A kubeconfig rendered from local certificates F, in Precheck as well.
Kubeconfig(F, f) == Installed(F, f)

-----------------------------------------------------------------------------
(* apiserver *)

apiserver == NeedOf("kube-apiserver", {Config("kube-apiserver"), pkiCA, pkiCerts})

DownloadKubeApiServer  == Download("kube-apiserver")
InstallKubeApiServer   == Installed({Archive("kube-apiserver")}, Bin("kube-apiserver"))
\* The policy is written when auditing is enabled.
ConfigureKubeAPIServer ==
    LET files == {Config("audit-policy"), Config("kube-apiserver")}
    IN  Step({}, Matches(files),
             <<Write({Config("audit-policy")}), Write({Config("kube-apiserver")})>>,
             <<Remove(files)>>)
InstallKubeAPIServerService == RenderedUnit(Unit("kube-apiserver"))
EnableKubeAPIServer    == Enabling("kube-apiserver")
DisableKubeApiServer   == Disabling("kube-apiserver")
StartKubeAPIServer     == ReloadAndStart("kube-apiserver", apiserver)
StopKubeApiServer      == Stopping("kube-apiserver", apiserver, {})
RestartKubeApiServer   == Restarting("kube-apiserver", apiserver, {})
CheckAPIServerHealth   == Polled({Running("kube-apiserver"), pkiCA})

-----------------------------------------------------------------------------
(* controller-manager *)

controllerManager ==
    NeedOf("kube-controller-manager",
           {Config("kube-controller-manager"), Conf("controller-manager")})

DownloadKubeControllerManager == Download("kube-controller-manager")
InstallKubeControllerManager  ==
    Installed({Archive("kube-controller-manager")}, Bin("kube-controller-manager"))
ConfigureKubeControllerManager == Rendered(Config("kube-controller-manager"))
CreateControllerManagerKubeconfig == Kubeconfig({localPki}, Conf("controller-manager"))
InstallKubeControllerManagerService == RenderedUnit(Unit("kube-controller-manager"))
EnableKubeControllerManager  == Enabling("kube-controller-manager")
DisableKubeControllerManager == Disabling("kube-controller-manager")
StartKubeControllerManager   == Starting("kube-controller-manager", controllerManager, {})
StopKubeControllerManager    == Stopping("kube-controller-manager", controllerManager, {})
RestartKubeControllerManager == Restarting("kube-controller-manager", controllerManager, {})
CheckControllerManagerHealth == Polled({Running("kube-controller-manager")})

-----------------------------------------------------------------------------
(* scheduler *)

scheduler == NeedOf("kube-scheduler", {Config("kube-scheduler"), Conf("scheduler")})

DownloadKubeScheduler  == Download("kube-scheduler")
InstallKubeScheduler   == Installed({Archive("kube-scheduler")}, Bin("kube-scheduler"))
ConfigureKubeScheduler == Rendered(Config("kube-scheduler"))
CreateSchedulerKubeconfig   == Kubeconfig({localPki}, Conf("scheduler"))
InstallKubeSchedulerService == RenderedUnit(Unit("kube-scheduler"))
EnableKubeScheduler    == Enabling("kube-scheduler")
DisableKubeScheduler   == Disabling("kube-scheduler")
StartKubeScheduler     == Starting("kube-scheduler", scheduler, {})
StopKubeScheduler      == Stopping("kube-scheduler", scheduler, {})
RestartKubeScheduler   == Restarting("kube-scheduler", scheduler, {})
CheckSchedulerHealth   == Polled({Running("kube-scheduler")})

-----------------------------------------------------------------------------
(* kube-proxy *)

proxyCert == Work("certs/kubernetes/kube-proxy")
kubeProxy == NeedOf("kube-proxy", {Config("kube-proxy-config"), Conf("kube-proxy")})

DownloadKubeProxy      == Download("kube-proxy")
InstallKubeProxy       == Installed({Archive("kube-proxy")}, Bin("kube-proxy"))
GenerateKubeProxyCerts ==
    Step({}, Exists({proxyCert}), <<Fill({ca}, {proxyCert})>>, <<Remove({proxyCert})>>)
CreateKubeProxyConfigYAML == Rendered(Config("kube-proxy-config"))
CreateKubeProxyKubeconfig == Kubeconfig({ca, proxyCert}, Conf("kube-proxy"))
InstallKubeProxyService   == RenderedUnit(Unit("kube-proxy"))
EnableKubeProxy        == Enabling("kube-proxy")
DisableKubeProxy       == Disabling("kube-proxy")
StartKubeProxy         == Starting("kube-proxy", kubeProxy, {})
StopKubeProxy          == Stopping("kube-proxy", kubeProxy, {})
RestartKubeProxy       == ReloadAndRestart("kube-proxy", kubeProxy)

-----------------------------------------------------------------------------
(* kubelet *)

nodeCerts      == Work("certs/kubernetes/kubelet-NODE")
nodeConf       == Work("kubeconfigs/kubelet-NODE.conf")
kubeletClient  == Work("certs/kubernetes/kubelet-client")
kubeletPki     == File("/var/lib/kubelet/pki")
kubeletConfig  == File("/var/lib/kubelet/config.yaml")
dropIn         == Unit("kubelet.service.d/10-kubexm.conf")
kubelet        == NeedOf("kubelet", {dropIn, kubeletConfig, Conf("kubelet")})

DownloadKubelet == Download("kubelet")
InstallKubelet  == Installed({Archive("kubelet")}, Bin("kubelet"))
GenerateKubeletCertsForAllNodes ==
    Step({}, Exists({nodeCerts}), <<Fill({ca}, {nodeCerts})>>, <<Remove({nodeCerts})>>)
\* The client certificate it looks for is not the one generated per node.
CreateKubeletKubeconfig == Kubeconfig({ca, kubeletClient}, Conf("kubelet"))
DistributeKubeletConfigForAllNodes ==
    Step({}, Exists({kubeletPki, Conf("kubelet")}),
         <<Fill({nodeCerts}, {kubeletPki}), Fill({nodeConf}, {Conf("kubelet")})>>,
         <<Remove({kubeletPki, Conf("kubelet")})>>)
CreateKubeletConfigYAML == Rendered(kubeletConfig)
InstallKubeletService   == RenderedUnit(Unit("kubelet"))
\* systemd is not told of the drop-in.
InstallKubeletDropIn    == Rendered(dropIn)
EnableKubelet ==
    Step({}, Exists({Enabled("kubelet")}), <<DaemonReload, Enable("kubelet")>>,
         <<Disable("kubelet")>>)
DisableKubelet == Disabling("kubelet")
StartKubelet   == ReloadAndStart("kubelet", kubelet)
StopKubelet    == Stopping("kubelet", kubelet, {})
RestartKubelet == ReloadAndRestart("kubelet", kubelet)

-----------------------------------------------------------------------------
(* certs, kubeconfig and kubectl *)

GenerateKubeCA == Step({}, Exists({ca}), <<Fill({}, {ca})>>, <<Remove({ca})>>)
GenerateKubeCerts ==
    Step({}, Exists({certs}), <<Fill({ca}, {certs})>>, <<Remove({certs})>>)
GenerateKubeconfigs ==
    Step({}, Exists({kubeconfigs}), <<Fill({ca}, {kubeconfigs})>>,
         <<Remove({kubeconfigs})>>)
DistributeKubeCACerts ==
    Step({}, Exists({pkiCA}), <<Fill({ca}, {pkiCA})>>, <<Remove({pkiCA})>>)
\* Rollback removes the directory, whatever was in it.
DistributeKubeCerts ==
    Step({}, Exists({pkiCA, pkiCerts}),
         <<Fill({ca}, {pkiCA}), Fill({certs}, {pkiCerts})>>,
         <<Remove({pkiCA, pkiCerts})>>)
DistributeKubeconfigs ==
    LET files == {Conf("controller-manager"), Conf("scheduler"), adminConf}
    IN  Step({}, Exists(files), <<Fill({kubeconfigs}, files)>>, <<Remove(files)>>)

GenerateAdminKubeconfig == Kubeconfig({ca, certs}, adminConf)
CopyKubeconfig ==
    Step({adminConf}, Matches({File("~/.kube/config")}),
         <<Fill({adminConf}, {File("~/.kube/config")})>>,
         <<Remove({File("~/.kube/config")})>>)

DownloadKubectl == Download("kubectl")
InstallKubectl  == Installed({Archive("kubectl")}, kubectlBin)
ConfigureKubectl ==
    LET dest == File("/root/.kube/config")
    IN  Step({}, Both(Exists({adminConf}), Matches({dest})),
             <<Fill({adminConf}, {dest}),
               Ensure({kubectlBin}, {File("/etc/profile.d/kubectl")})>>,
             <<Remove({dest})>>)

-----------------------------------------------------------------------------
(* backup *)

fetched    == Work("remote-configs/NODE")
configCopy == File("/etc/kubernetes.k8s-config.bak")
stateFile  == Work("cluster-backups/cluster-state.yaml")

BinaryFetchConfigs ==
    Asking(configDir, Step({}, Exists({fetched}), <<Fill(configDir, {fetched})>>,
                           <<Remove({fetched})>>))
KubernetesBackupObjects ==
    Asking({kubectlBin}, Step({}, Exists({stateFile}), <<Fill(Kubectl, {stateFile})>>,
                              <<Remove({stateFile})>>))
BackupRemoteConfigs ==
    Asking(configDir, Step({}, Exists({Memory("config-backup")}),
                           <<Fill(configDir, {configCopy}), Write({Memory("config-backup")})>>,
                           <<Reclaim(Memory("config-backup"), {configCopy})>>))
\* The directory is gone before what was fetched from it is uploaded.
RestoreFetchedConfigs ==
    Step({fetched}, Never,
         <<Fill(configDir, {File("/etc/kubernetes.kubexm-restore-backup")}),
           Remove(configDir), Fill({fetched}, configDir),
           Restart("kubelet", kubelet, {})>>, NoUndo)

-----------------------------------------------------------------------------
(* health, labels, perform and rbac *)

VerifyKubeletHealth           == Checked({Running("kubelet")})
VerifyControllerManagerHealth == Checked({Running("kube-controller-manager")})
VerifySchedulerHealth         == Checked({Running("kube-scheduler")})
VerifyKubeProxyHealth         == Checked({Running("kube-proxy")})
\* The CA is looked for in a directory no step fills.
VerifyAPIServerHealth         ==
    Checked({Running("kube-apiserver"), File("/etc/kubernetes/ssl/ca.crt")})
CheckClusterHealth            == Asking({kubectlBin}, Checked(Kubectl))
KubexmWaitClusterHealthy      == Asking(Kubectl, Checked({adminConf}))

Label(x) == Object("label/" \o x)
cordoned == Object("cordoned")

KubeadmLabelControlPlaneNode ==
    Asking({kubectlBin},
           Repeated(<<Apply(Kubectl, {Label("control-plane")}),
                      Apply(Kubectl, {Object("taint/control-plane")})>>))
KubeadmLabelNodes ==
    Step({kubectlBin}, Both(Exists(Kubectl), Matches({Label("nodes")})),
         <<Apply(Kubectl, {Label("nodes")})>>, <<Remove({Label("nodes")})>>)
KubeadmLabelWorkerNode ==
    Asking({kubectlBin},
           Step({}, Never, <<Apply(Kubectl, {Label("worker")})>>,
                <<Remove({Label("worker")})>>))

CordonNode ==
    Step(Kubectl, Exists({cordoned}), <<Apply(Kubectl, {cordoned})>>,
         <<Remove({cordoned})>>)
DrainNode ==
    Step(Kubectl \cup {cordoned}, Never, <<Apply(Kubectl, {Object("drained")})>>, NoUndo)
UncordonNode ==
    Step(Kubectl, Gone({cordoned}), <<Need(Kubectl), Remove({cordoned})>>,
         <<Apply(Kubectl, {cordoned})>>)

\* What the backup step remembered in this run.
CleanupBackups    == Repeated(<<Reclaim(Memory("config-backup"), {configCopy})>>)
CleanupAllBackups == Repeated(<<Reclaim(Memory("config-backup"), {configCopy})>>)

\* Without a kubeconfig argument kubectl takes the one of the user.
ApplyEssentialRBAC ==
    LET client == {kubectlBin, File("/root/.kube/config")}
    IN  Step({}, Exists(client \cup {Object("rbac/kubexm:essential")}),
             <<Apply(client, {Object("rbac/kubexm:essential")})>>,
             <<Remove({Object("rbac/kubexm:essential")})>>)
=============================================================================
