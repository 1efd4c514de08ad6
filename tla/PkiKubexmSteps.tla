---------------------------- MODULE PkiKubexmSteps ----------------------------
(* The steps of internal/step/pki/kubexm. Most are those of the kubeadm      *)
(* package with other names for the files.                                   *)
EXTENDS StepEffects
kubeadm == INSTANCE PkiKubeadmSteps

Local(x) == kubeadm!Local(x)
configs  == Work("kubernetes/kubeconfig")

BackupKubeconfigs      == kubeadm!KubeadmBackupKubeconfigs
KubexmBackupRemotePKI  == kubeadm!KubeadmBackupRemotePKI
KubexmCheckK8sCAExpiration     == kubeadm!KubeadmCheckK8sCAExpiration
KubexmCheckLeafCertsExpiration == kubeadm!KubeadmCheckLeafCertsExpiration
KubeadmRemoteCleanup   == kubeadm!KubeadmRemoteCleanup
KubeadmLocalCleanup    == kubeadm!KubeadmLocalCleanup
DistributeLeafCerts    == kubeadm!KubeadmDistributeLeafCerts
KubexmDistributeK8sPKI == kubeadm!KubeadmDistributeK8sPKI
MoveNewAssets          == kubeadm!KubeadmMoveNewAssets
KubexmPrepareCAAssets  == kubeadm!KubeadmPrepareCAAssets
KubexmRenewK8sCA       == kubeadm!KubeadmRenewK8sCA
KubexmPrepareCATransition == kubeadm!KubeadmPrepareCATransition
BinaryRenewAllLeafCerts   == kubeadm!KubeadmRenewLeafCerts

\* Only what is missing is fetched.
KubxmFetchPKI ==
    LET files == {Local("ca"), Local("key")}
    IN  Step({}, Exists(files), <<Ensure({kubeadm!pki}, files)>>, <<Remove(files)>>)

BinaryRenewAllKubeconfigs ==
    Step({}, Never, <<Fill({Local("ca"), Local("leaf")}, {configs})>>, NoUndo)
DistributeMasterKubeconfigs ==
    Step({configs}, Never, <<Fill({configs}, {kubeadm!kubeconfigs})>>, NoUndo)
DistributeWorkerKubeconfigs ==
    Step({}, Never, <<Fill({configs}, {kubeadm!kubeconfigs})>>, NoUndo)
=============================================================================
