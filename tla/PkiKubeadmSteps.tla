--------------------------- MODULE PkiKubeadmSteps ---------------------------
(* The steps of internal/step/pki/kubeadm, for certificates that are due    *)
(* for renewal.                                                             *)
EXTENDS StepEffects

Local(x) == Work("certs/kubernetes/" \o x)
Old(x)   == Local("certs-old/" \o x)
New(x)   == Local("certs-new/" \o x)

pki         == File("/etc/kubernetes/pki")
etcdPki     == File("/etc/etcd/pki")
kubeconfigs == File("/etc/kubernetes/kubeconfigs")
kubeletPki  == File("/var/lib/kubelet/pki")
manifests   == File("/etc/kubernetes/manifests")
setAside    == File("/tmp/manifests")

\* Backups made beside the directories. The path is remembered under a key
\* without the name of the host.
pkiBackup   == File("/etc/kubernetes/pki.kubexm-backup")
confBackup  == File("/etc/kubernetes.kubexm-backup-kubeconfigs")
pkiBackupPath  == Shared("kube.certs.backup.path")
confBackupPath == Shared("kubeconfigs.backup.path")

Backup(dir, copy, path, undo) ==
    Asking({dir}, Step({}, Exists({path}), <<Fill({dir}, {copy}), Write({path})>>, undo))
KubeadmBackupKubeconfigs ==
    Backup(kubeconfigs, confBackup, confBackupPath, <<Reclaim(confBackupPath, {confBackup})>>)
\* Rollback leaves the path in the cache.
KubeadmBackupRemotePKI ==
    Backup(pki, pkiBackup, pkiBackupPath, <<Discard({pkiBackupPath}, {pkiBackup})>>)

\* What the checks find out, for the task cache.
KubeadmCheckK8sCAExpiration ==
    Step({Local("ca")}, Never, <<Copy({Local("ca")}, {Shared("k8s.ca.renew")})>>, NoUndo)
\* The CA is looked for in a directory named after the host.
KubeadmCheckEtcdCAExpiration ==
    Step({Local("NODE/etcd/ca")}, Never,
         <<Copy({Local("NODE/etcd/ca")}, {Shared("etcd.ca.renew")})>>, NoUndo)
KubeadmCheckStackedEtcdLeafCertsExpiration ==
    Asking({pki}, Step({}, Never, <<Copy({pki}, {Shared("etcd.leaf.renew")})>>, NoUndo))
KubeadmCheckLeafCertsExpiration ==
    Repeated(<<Copy({pki}, {Shared("k8s.leaf.renew")})>>)

KubeadmFetchFullPKI ==
    Step({}, Exists({Local("ca")}), <<Fill({pki}, {Local("ca"), Local("leaf"), Local("etcd/ca")})>>,
         <<Remove({Local("ca"), Local("leaf"), Local("etcd/ca")})>>)

\* Errors of the two cleanups are logged. The remote one leaves the paths in
\* the cache.
KubeadmLocalCleanup ==
    Repeated(<<Remove({Local("NODE/etcd/ca")} \cup
                      UNION {{New(x), Old(x)} : x \in {"ca", "key", "leaf", "etcd/ca", "etcd/key",
                                                       "etcd/leaf"}})>>)
KubeadmRemoteCleanup ==
    Repeated(<<Discard({pkiBackupPath}, {pkiBackup}), Discard({confBackupPath}, {confBackup})>>)

-----------------------------------------------------------------------------
(* New certificates *)

\* The old CA is copied aside and its key to where the new one is made.
Prepare(x, key) ==
    Step({Local(x), Local(key)}, Matches({Old(x)}),
         <<Fill({Local(x), Local(key)}, {Old(x), Old(key)}), Fill({Local(key)}, {New(key)})>>,
         <<Remove({Old(x), Old(key), New(x), New(key)})>>)
\* What an earlier renewal left is removed first.
KubeadmPrepareCAAssets ==
    [Prepare("ca", "key") EXCEPT
         !.run = <<Remove({Old("ca"), Old("key"), New("ca"), New("key"), New("leaf")})>> \o @]
KubeadmPrepareStackedEtcdCAAssets == Prepare("etcd/ca", "etcd/key")

Renew(x, key) ==
    Step({New(key)}, Exists({New(x)}), <<Fill({New(key)}, {New(x)})>>, <<Remove({New(x)})>>)
KubeadmRenewK8sCA         == Renew("ca", "key")
KubeadmRenewStackedEtcdCA == Renew("etcd/ca", "etcd/key")

\* Whether certificates are due is asked of the module's and the pipeline's
\* cache; the second step takes the answer for granted.
KubeadmRenewLeafCerts ==
    Step({}, Gone({Unset}) \cup Exists({New("leaf")}),
         <<Fill({New("ca"), New("key")}, {New("leaf")})>>, <<Remove({New("leaf")})>>)
KubeadmRenewStackedEtcdLeafCerts ==
    Asking({New("etcd/ca")},
           Step({Unset}, Never, <<Fill({New("etcd/ca"), New("etcd/key")}, {New("etcd/leaf")})>>,
                <<Remove({New("etcd/leaf"), New("etcd/ca"), New("etcd/key")})>>))

\* Old and new CA are both trusted while certificates of both are in use.
Bundle(x) ==
    Step({Old(x), New(x)}, Matches({Local(x \o ".bundle")}),
         <<Fill({Old(x), New(x)}, {Local(x \o ".bundle"), Local(x)})>>,
         <<Carry({Old(x)}, {Local(x)}), Discard({Old(x)}, {Local(x \o ".bundle")})>>)
KubeadmPrepareCATransition            == Bundle("ca")
KubeadmPrepareStackedEtcdCATransition == Bundle("etcd/ca")

KubeadmMoveNewAssets ==
    Step({}, Gone({New(x) : x \in {"ca", "key", "leaf"}}),
         <<Move(New("ca"), Local("ca")), Move(New("key"), Local("key")),
           Move(New("leaf"), Local("leaf"))>>,
         <<Back(New("ca"), Local("ca")), Back(New("key"), Local("key")),
           Back(New("leaf"), Local("leaf"))>>)

KubeadmCreateKubeconfigs ==
    Step({Local("ca")}, Never,
         <<Fill({Local("ca"), Local("key")}, {Local("kubeconfigs"), Local("kubelet-NODE.conf")})>>,
         NoUndo)

-----------------------------------------------------------------------------
(* Distribution *)

\* Rollback replaces the directory by its backup.
Distribute(needs, from, dir, undo) == Step(needs \cup from, Never, <<Fill(from, {dir})>>, undo)
Restored(dir, path, copy) ==
    <<Discard({path}, {dir}), [Carry({path, copy}, {dir}) EXCEPT !.drops = {copy}]>>

KubeadmDistributeK8sPKI ==
    Distribute({pkiBackupPath}, {Local("ca"), Local("key")}, pki,
               Restored(pki, pkiBackupPath, pkiBackup)
               \o <<Discard({pkiBackupPath}, {pkiBackupPath})>>)
KubeadmDistributeLeafCerts ==
    Distribute({pkiBackupPath}, {Local("leaf")}, pki, Restored(pki, pkiBackupPath, pkiBackup))
KubeadmDistributeStackedEtcdPKI ==
    Distribute({pkiBackupPath}, {Local("etcd/ca"), Local("etcd/key")}, etcdPki,
               Restored(etcdPki, pkiBackupPath, pkiBackup))
\* Taken from the new directory while there is one.
KubeadmDistributeStackedEtcdLeafCerts ==
    Distribute({pkiBackupPath}, {New("etcd/leaf")}, etcdPki,
               Restored(etcdPki, pkiBackupPath, pkiBackup))
\* The path is forgotten after its use. A missing backup is noted, no more.
KubeadmDistributeKubeconfigs ==
    Distribute({}, {Local("kubeconfigs")}, kubeconfigs,
               Restored(kubeconfigs, confBackupPath, confBackup)
               \o <<Discard({confBackupPath}, {confBackupPath})>>)
\* The backup of the kubeconfigs is put in the place of the kubelet's directory.
KubeadmDistributeKubeletConfig ==
    Distribute({}, {Local("ca"), Local("kubelet-NODE.conf")}, kubeletPki,
               Restored(kubeletPki, confBackupPath, confBackup)
               \o <<Discard({confBackupPath}, {confBackupPath})>>)

\* The manifests are moved out of the directory kubelet watches and back.
KubeadmRestartControlPlane ==
    Step({manifests}, Never, <<Move(manifests, setAside), Move(setAside, manifests)>>,
         <<Move(setAside, manifests)>>)
\* The manifest is looked for among the certificates of etcd.
KubeadmRestartEtcd ==
    LET manifest == File("/etc/etcd/pki/etcd.yaml")
    IN  Step({}, Gone({manifest}), <<Move(manifest, setAside), Move(setAside, manifest)>>,
             <<Move(setAside, manifest)>>)
KubeadmRestartKubelet ==
    LET restart == Restart("kubelet", {Unit("kubelet")}, {kubeletPki})
    IN  Step({Running("kubelet")}, Never, <<DaemonReload, restart>>, <<restart>>)
=============================================================================
