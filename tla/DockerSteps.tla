----------------------------- MODULE DockerSteps -----------------------------
(* The steps of internal/step/docker. *)
EXTENDS StepEffects

\* The eight files of the Docker archive, the one the unit executes apart.
dockerd    == File("/usr/local/bin/dockerd")
binaries   == {dockerd, File("/usr/local/bin/containerd..runc")}
criDockerd == File("/usr/local/bin/cri-dockerd")
crictl     == File("/usr/local/bin/crictl")
crictlYaml == File("/etc/crictl.yaml")
buildx     == File("cli-plugins/docker-buildx")
compose    == File("/usr/local/bin/docker-compose")
daemonJson == File("/etc/docker/daemon.json")
dropIn     == Unit("docker.service.d/kubexm.conf")
criDropIn  == Unit("cri-dockerd.service.d")
cniDirs    == {File("/etc/cni/net.d"), File("/opt/cni/bin")}

needed    == {dockerd, Unit("docker")}
criNeeded == {criDockerd, Unit("cri-dockerd")}

DownloadDocker        == Download("docker")
DownloadCriDockerd    == Download("cri-dockerd")
DownloadCriCtl        == Download("crictl")
DownloadBuildx        == Download("buildx")
DownloadDockerCompose == Download("compose")

ExtractDocker     == Extract("docker")
ExtractCriDockerd == Extract("cri-dockerd")

InstallDocker ==
    Step({Extracted("docker")}, Matches(binaries),
         <<Copy({Extracted("docker")}, binaries)>>, <<Remove(binaries)>>)

InstallCriDockerd    == Installed({Extracted("cri-dockerd")}, criDockerd)
InstallCriCtl        == Installed({Extracted("crictl")}, crictl)
InstallBuildx        == Installed({Archive("buildx")}, buildx)
InstallDockerCompose == Installed({Archive("compose")}, compose)

ConfigureDocker == Rendered(daemonJson)
ConfigureCriCtl == Rendered(crictlYaml)

\* The unit files are written without a daemon-reload; the rollbacks of the
\* first two reload.
SetupDockerService ==
    Step({}, Matches({Unit("docker")}), <<Write({Unit("docker")})>>,
         <<Remove({Unit("docker")}), DaemonReload>>)
SetupDockerDropIn ==
    Step({}, Matches({dropIn}), <<Write({dropIn})>>,
         <<Remove({dropIn}), DaemonReload>>)
SetupCriDockerdService ==
    Step({criDockerd}, Matches({Unit("cri-dockerd")}),
         <<Write({Unit("cri-dockerd")})>>, <<Remove({Unit("cri-dockerd")})>>)
SetupCriDockerdSocket == Rendered(Unit("cri-dockerd.socket"))

EnableDocker  == Enabling("docker")
DisableDocker == Disabling("docker")
StartDocker   == Starting("docker", needed, {daemonJson})
\* Rollback starts Docker again only if Run found it active, and Run is only
\* reached when it was.
StopDocker    == Stopping("docker", needed, {daemonJson})
RestartDocker == Restarting("docker", needed, {daemonJson})

EnableCriDockerd  == Enabling("cri-dockerd")
DisableCriDockerd == Disabling("cri-dockerd")
StartCriDockerd   == Starting("cri-dockerd", criNeeded, {Running("docker")})
StopCriDockerd    == Stopping("cri-dockerd", criNeeded, {Running("docker")})
RestartCriDockerd == Restarting("cri-dockerd", criNeeded, {Running("docker")})

RemoveBuildx == Cleared({buildx})
RemoveCrictl == Cleared({crictl, crictlYaml})

RemoveCriDockerd ==
    LET paths == {criDockerd, Unit("cri-dockerd"), criDropIn}
    IN  Step({}, Gone(paths \cup {Running("cri-dockerd")}),
             <<StopService("cri-dockerd"), Disable("cri-dockerd"),
               Remove(paths), DaemonReload>>, NoUndo)

RemoveDocker ==
    LET paths == binaries \cup {Unit("docker"), dropIn, daemonJson}
    IN  Step({}, Gone(paths \cup {Running("docker")}),
             <<StopService("docker"), Disable("docker"), Remove(paths),
               DaemonReload>>, NoUndo)

\* filesAndDirsToRemove, without the data directories. containerd goes too, and
\* runc is looked for in /usr/sbin.
CleanDocker ==
    LET paths == binaries \cup cniDirs
                 \cup {crictl, crictlYaml, File("/usr/sbin/runc"), daemonJson,
                       File("/etc/containerd/config.toml"), Unit("docker"),
                       Unit("containerd")}
    IN  Step({}, Gone(paths \cup {Running("docker"), Running("containerd")}),
             <<StopService("docker"), Disable("docker"),
               StopService("containerd"), Disable("containerd"),
               Remove(paths), DaemonReload>>, NoUndo)

\* `crictl info` answers only through a cri-dockerd that runs.
VerifyCrictl ==
    Step({}, Exists({crictl, Running("cri-dockerd")}),
         <<Need({crictl, Running("cri-dockerd")})>>, NoUndo)
=============================================================================
