------------------------------ MODULE EtcdSteps ------------------------------
(* The steps of internal/step/etcd. *)
EXTENDS StepEffects

etcd     == File("/usr/local/bin/etcd")
etcdctl  == File("/usr/local/bin/etcdctl")
etcdutl  == File("/usr/local/bin/etcdutl")
config   == File("/etc/etcd/etcd.conf.yaml")
certs    == File("/etc/etcd/pki")
data     == File("/var/lib/etcd")
dropIn   == Unit("etcd.service.d/kubexm.conf")
dataCopy == File("/var/lib/etcd.etcd-data.bak")
ca       == Work("certs/etcd/ca")
leaves   == Work("certs/etcd/nodes")
member   == Object("etcd/member")

needed == {etcd, Unit("etcd"), config, certs}
\* What an etcdctl command needs to be answered.
client == {etcdctl, certs, Running("etcd")}

DownloadEtcd == Download("etcd")

\* The archive is unpacked beside its destination and its files moved in.
ExtractEtcd ==
    Step({Archive("etcd")}, Exists({Extracted("etcd")}),
         <<Copy({Archive("etcd")}, {Extracted("etcd")})>>,
         <<Remove({Extracted("etcd")})>>)

InstallEtcd ==
    LET files == {etcd, etcdctl, etcdutl}
    IN  Step({Extracted("etcd")}, Matches(files),
             <<Copy({Extracted("etcd")}, files)>>, <<Remove(files)>>)

GenerateEtcdCA == Step({}, Exists({ca}), <<Fill({}, {ca})>>, <<Remove({ca})>>)
GenerateEtcdCerts ==
    Step({}, Exists({leaves}), <<Fill({ca}, {leaves})>>, <<Remove({leaves})>>)

DistributeEtcdCerts ==
    Step({ca, leaves}, Matches({certs}), <<Fill({ca, leaves}, {certs})>>,
         <<Remove({certs})>>)

ConfigureEtcd       == Rendered(config)
ConfigureEtcdDropIn == RenderedUnit(dropIn)
\* Rollback removes the unit without a reload.
InstallEtcdService ==
    Step({}, Matches({Unit("etcd")}), <<Write({Unit("etcd")}), DaemonReload>>,
         <<Remove({Unit("etcd")})>>)

\* Rollback removes the directories and then the parent of the configuration
\* directory, which is /etc.
SetupEtcdDirs ==
    LET dirs == {data, certs, config}
    IN  Step({}, Exists(dirs), <<Mkdirp(dirs)>>,
             <<Remove(dirs), Remove({File("/etc")})>>)

EnableEtcd  == Enabling("etcd")
DisableEtcd == Disabling("etcd")
StartEtcd   == Starting("etcd", needed, {data})
StopEtcd    == Stopping("etcd", needed, {data})
RestartEtcd == Repeated(<<Restart("etcd", needed, {data})>>)

CheckEtcdHealth         == Checked(client)
EtcdStatusCheck         == Checked(client)
DefragmentEtcd          == Checked(client)
EtcdVerifyMemberHealth  == Asking({etcdctl}, Checked(client))
EtcdVerifyClusterHealth == Asking({etcdctl}, Checked(client))
WaitClusterHealthy      == Checked(client)

\* The other node is an option without a default.
AddEtcdMember(node) ==
    Step(IF node THEN {} ELSE {Unset}, Exists(client \cup {member}),
         <<Apply(client, {member})>>, <<Remove({member})>>)
\* Run refuses to leave a cluster of two or fewer members.
RemoveEtcdMember(node) ==
    Step(IF node THEN {} ELSE {Unset},
         Both(Exists(client), Gone({member})),
         <<Need(client), Remove({member})>>, <<Apply(client, {member})>>)

BackupEtcd ==
    Step({}, Never, <<Fill(client, {File("/var/backups/etcd/snapshot")})>>,
         <<Remove({File("/var/backups/etcd/snapshot")})>>)
EtcdBackupData ==
    Asking({etcdctl},
           Step({}, Exists({Work("etcd-snapshot.db")}),
                <<Fill(client, {File("/tmp/etcd-snapshot.db")}),
                  Fill({File("/tmp/etcd-snapshot.db")}, {Work("etcd-snapshot.db")}),
                  Remove({File("/tmp/etcd-snapshot.db")})>>,
                <<Remove({Work("etcd-snapshot.db"),
                          File("/tmp/etcd-snapshot.db")})>>))
EtcdBackupLocalData ==
    Asking({data},
           Step({}, Exists({Memory("etcd-backup")}),
                <<Fill({data}, {dataCopy}), Write({Memory("etcd-backup")})>>,
                <<Reclaim(Memory("etcd-backup"), {dataCopy})>>))
EtcdCleanupBackups ==
    Repeated(<<Reclaim(Memory("etcd-backup"), {dataCopy})>>)

\* The data directory is removed before the snapshot is restored into it.
RestoreEtcd ==
    Repeated(<<Need({Work("snapshot")}), Remove({data}),
               Copy({Work("snapshot"), etcdctl}, {data})>>)

EtcdFinalizeUpgrade ==
    Step({etcd} \cup client, Matches({Object("etcd/cluster-version")}),
         <<Apply(client, {Object("etcd/cluster-version")})>>, NoUndo)

CollectEtcdLogs ==
    Step({}, Never, <<Fill({}, {File("logs/etcd.log")})>>,
         <<Remove({File("logs/etcd.log")})>>)

\* etcdutl and what systemd has loaded are left.
CleanupEtcd ==
    Cleared({data, config, certs, Unit("etcd"), dropIn, etcd, etcdctl})
=============================================================================
