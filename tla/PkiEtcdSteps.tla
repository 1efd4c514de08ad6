---------------------------- MODULE PkiEtcdSteps ----------------------------
(* The steps of internal/step/pki/etcd and internal/step/pki/common, for    *)
(* certificates that are due for renewal.                                   *)
EXTENDS StepEffects

\* The local certificates, the copies to go back to and the ones to come.
ca      == Work("certs/etcd/ca")
caKey   == Work("certs/etcd/ca-key")
leaves  == Work("certs/etcd/nodes")
bundle  == Work("certs/etcd/ca-bundle")
oldCa   == Work("certs/etcd/certs-old/ca")
oldKey  == Work("certs/etcd/certs-old/ca-key")
newCa   == Work("certs/etcd/certs-new/ca")
newKey  == Work("certs/etcd/certs-new/ca-key")
newLeaves == Work("certs/etcd/certs-new/nodes")
newDir  == Work("certs/etcd/certs-new")

remoteCa     == File("/etc/etcd/pki/ca.pem")
remoteLeaves == File("/etc/etcd/pki/nodes")
remoteBackup == File("/etc/etcd/pki-backup")

\* What the checks find out about the certificates of this run.
caDue   == Shared("kubexm.etcd.ca.renew")
leafDue == Shared("kubexm.etcd.leaf.renew")

\* The flags are looked for under the keys of a kubeadm cluster, which the
\* checks of this package do not write.
BackupRemoteEtcdCerts ==
    Step({Unset}, Gone({remoteLeaves}) \cup Matches({remoteBackup}),
         <<Fill({remoteLeaves}, {remoteBackup})>>, <<Remove({remoteBackup})>>)

CheckCAExpiration        == Step({ca}, Never, <<Copy({ca}, {caDue})>>, NoUndo)
CheckLeafCertsExpiration == Repeated(<<Write({leafDue})>>)

\* The CA is looked for on the host of the node; its key comes along.
RestoreCAFromRemote ==
    Step({}, Exists({ca, caKey}), <<Ensure({remoteCa}, {ca, caKey})>>,
         <<Remove({ca, caKey})>>)

\* The new directory is given the key, not the certificate, of the CA.
PrepareAssets ==
    Step({ca, caKey}, Both(Exists({oldKey, newCa}), Matches({oldCa})),
         <<Fill({ca, caKey}, {oldCa, oldKey}), Fill({caKey}, {newDir, newKey})>>,
         <<Remove({oldCa, oldKey}), Remove({newDir, newKey, newCa})>>)
ResignCA ==
    Step({newCa, newKey}, Matches({newCa}), <<Fill({newKey}, {newCa})>>, NoUndo)
\* The leaves of a CA that is renewed; without a flag there is nothing to do.
GenerateNewLeafCerts ==
    Asking({newCa, newKey},
           Step({}, Gone({caDue, leafDue}), <<Fill({newCa, newKey}, {newDir, newLeaves})>>,
                <<Remove({newDir, newLeaves, newCa, newKey})>>))
PrepareCATransition ==
    Step({oldCa, newCa}, Matches({bundle}),
         <<Fill({oldCa, newCa}, {bundle}), Fill({oldCa, newCa}, {ca})>>,
         <<Carry({oldCa}, {ca}), Discard({oldCa}, {bundle})>>)
MoveNewAssets ==
    Step({newDir}, Gone({newCa, newKey, newLeaves}),
         <<Move(newCa, ca), Move(newKey, caKey), Move(newLeaves, leaves)>>,
         <<Back(newCa, ca), Back(newKey, caKey), Back(newLeaves, leaves)>>)

DistributeCABundle  == Step({ca}, Never, <<Copy({ca}, {remoteCa})>>, NoUndo)
DistributeLeafCerts == Step({leaves}, Never, <<Copy({leaves}, {remoteLeaves})>>, NoUndo)
RestartEtcd ==
    Repeated(<<Restart("etcd", {Unit("etcd")}, {remoteCa, remoteLeaves})>>)
CleanupTransitionAssets ==
    Repeated(<<Remove({oldCa, newCa, bundle}), Remove({oldKey, newDir, newKey, newLeaves})>>)

-----------------------------------------------------------------------------
(* internal/step/pki/common *)

BackupPKI(dir) ==
    LET archive == File("pki-backup.tar.gz")
    IN  Step({}, Never, <<Fill({dir}, {archive})>>, <<Remove({archive})>>)
CopyPKICert(from, to) ==
    Step({}, Never, <<Fill({from}, {to})>>, <<Remove({to})>>)
\* A certificate that cannot be read is reported as invalid.
CheckCertExpiration == Repeated(<<Write({Memory("cert-dates")})>>)
=============================================================================
