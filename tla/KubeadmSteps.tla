----------------------------- MODULE KubeadmSteps -----------------------------
(* The steps of internal/step/kubernetes/kubeadm. *)
EXTENDS StepEffects

kubeadm  == File("/usr/local/bin/kubeadm")
kubelet  == File("/usr/local/bin/kubelet")
crictl   == File("/usr/local/bin/crictl")
ConfigOf(x) == File("/etc/kubernetes/kubeadm-" \o x \o "-config.yaml")
pki      == File("/etc/kubernetes/pki")
kubeletConf == File("/etc/kubernetes/kubelet.conf")
manifests   == File("/etc/kubernetes/manifests")
kubeletDir  == File("/var/lib/kubelet")
kubeletUnits == {Unit("kubelet"), Unit("kubelet.service.d/10-kubexm.conf")}
\* The nodes the configuration names are registered and ready.
nodesReady  == Object("nodes/ready")

token      == Shared("kubeadm.init.token")
certKey    == Shared("kubeadm.init.certkey")
version    == Shared("kubeadm.upgrade.target.version")
backupPath == Memory("kubeadm.upgrade.backup.path")
backup     == File("/etc/kubernetes/tmp/kubeadm-backup")

DownloadKubeadm == Download("kubeadm")
InstallKubeadm  == Installed({Archive("kubeadm")}, kubeadm)

GenerateInitConfig == Rendered(ConfigOf("init"))
\* The token and the key are looked up in Precheck as well.
GenerateJoinMasterConfig ==
    Step({token, certKey}, Matches({ConfigOf("join-master")}),
         <<Copy({token, certKey}, {ConfigOf("join-master")})>>,
         <<Remove({ConfigOf("join-master")})>>)
GenerateJoinWorkerConfig ==
    Step({token}, Matches({ConfigOf("join-worker")}),
         <<Copy({token}, {ConfigOf("join-worker")})>>,
         <<Remove({ConfigOf("join-worker")})>>)

\* kubeadm writes certificates and kubeconfigs, starts kubelet and lets it run
\* the control plane; kubeadm reset takes all of it away.
Begin(config, files) ==
    <<Fill({kubeadm, config}, files),
      Start("kubelet", {kubelet} \cup kubeletUnits, {kubeletConf}),
      Fill({pki}, {manifests})>>
Reset(config) ==
    <<Remove({pki, adminConf, kubeletConf, manifests, Running("kubelet")}),
      Remove({config})>>

KubeadmInit ==
    Step({}, Exists({adminConf}),
         Begin(ConfigOf("init"), {pki, adminConf, kubeletConf})
         \o <<Write({token, certKey})>>, Reset(ConfigOf("init")))
KubeadmJoinMaster ==
    Step({}, Exists({adminConf}),
         Begin(ConfigOf("join-master"), {pki, adminConf, kubeletConf}),
         Reset(ConfigOf("join-master")))
KubeadmJoinWorker ==
    Step({}, Exists({kubeletConf}),
         <<Fill({kubeadm, ConfigOf("join-worker")}, {pki, kubeletConf}),
           Start("kubelet", {kubelet} \cup kubeletUnits, {kubeletConf})>>,
         Reset(ConfigOf("join-worker")))
\* Precheck takes the directory as a whole, in which kubeadm leaves what it did
\* not make. Errors of kubeadm are logged.
KubeadmReset ==
    LET files == {pki, adminConf, kubeletConf, manifests}
        left  == {ConfigOf(x) : x \in {"init", "join-master", "join-worker"}}
    IN  Step({}, Gone(files \cup left),
             <<Discard({kubeadm}, files \cup {Running("kubelet")}),
               Remove({kubeletDir, File("~/.kube"), File("/var/lib/etcd")})>>, NoUndo)

\* Mutant: the unit and its drop-in are left.
CleanKubeComponentsPartly ==
    LET paths == {kubelet, kubectlBin, kubeadm}
    IN  Step({}, Gone(paths \cup {Running("kubelet")}),
             <<StopService("kubelet"), Disable("kubelet"), Remove(paths),
               DaemonReload>>, NoUndo)
CleanKubeComponents ==
    LET paths == {kubelet, kubectlBin, kubeadm} \cup kubeletUnits
    IN  Step({}, Gone(paths \cup {Running("kubelet")}),
             <<StopService("kubelet"), Disable("kubelet"), Remove(paths),
               DaemonReload>>, NoUndo)

-----------------------------------------------------------------------------
(* Health *)

KubeadmVerifyClusterHealth      == Asking({kubectlBin}, Checked(Kubectl \cup {nodesReady}))
KubeadmVerifyControlPlaneHealth == Asking({crictl}, Checked({crictl, manifests}))
KubeadmVerifyEtcdClusterHealth  == Asking({kubectlBin}, Checked(Kubectl))
KubeadmVerifyEtcdPodHealth      == Asking({crictl}, Checked({crictl, manifests}))
KubeadmVerifyWorkerHealth       == Asking({crictl}, Checked({crictl, Running("kubelet")}))
KubeadmWaitClusterHealthy       == Asking(Kubectl, Checked({adminConf, nodesReady}))

-----------------------------------------------------------------------------
(* Upgrade *)

upgraded == Object("control-plane/version")

KubeadmBackupEtcd ==
    LET local  == Work("cluster-backups/etcd-snapshot-kubeadm.db")
        remote == File("/tmp/etcd-snapshot-kubeadm.db")
    IN  Asking({kubectlBin},
               Step({}, Exists({local}),
                    <<Fill(Kubectl, {remote}), Fill({remote}, {local}), Remove({remote})>>,
                    <<Remove({local})>>))

\* The version to upgrade to is an option, and remembered for the steps after.
KubeadmUpgradePlan ==
    Step(Kubectl, Matches({upgraded}),
         <<Need({kubeadm, File("/etc/kubernetes/kubeadm-config.yaml")}), Write({version})>>,
         NoUndo)
KubeadmUpgradeApply ==
    Step({version}, Never,
         <<Fill({kubeadm, version}, {backup}), Apply({kubeadm, version}, {upgraded}),
           Write({backupPath})>>, NoUndo)
KubeadmUpgradeNode ==
    Step({version, kubelet}, Matches({kubelet}),
         <<Fill({kubeadm}, {backup}), Fill({kubeadm}, {kubeletDir}),
           Write({backupPath})>>, NoUndo)
KubeadmFinalizeUpgrade ==
    Asking({kubeadm, kubectlBin},
           Repeated(<<Apply({kubeadm, version}, {Object("coredns")})>>))

\* The configuration is removed before the backup, which is below it, is moved
\* to its place.
RestoreKubeadmBackup ==
    LET files == {pki, adminConf, kubeletConf, manifests}
    IN  Step({backupPath, backup}, Never,
             <<Remove(files \cup {backup}), Copy({backup}, files),
               Restart("kubelet", {kubelet} \cup kubeletUnits, {kubeletConf}),
               Remove({backupPath})>>, NoUndo)
KubeadmCleanupBackups == Repeated(<<Reclaim(backupPath, {backup})>>)
=============================================================================
