--------------------------- MODULE ContainerdSteps ---------------------------
(* The steps of internal/step/containerd. *)
EXTENDS StepEffects

\* The files InstallContainerd installs, the first eight CNI plugins in the
\* order of knownCniPlugins (the last of those its Precheck looks at is the
\* eighth) and the others.
binaries   == {File("/usr/local/bin/containerd"), File("/usr/local/bin/ctr")}
cniChecked == File("/opt/cni/bin/bridge..loopback")
cniOthers  == File("/opt/cni/bin/macvlan..vrf")
runc       == File("/usr/local/sbin/runc")
crictl     == File("/usr/local/bin/crictl")
config     == File("/etc/containerd/config.toml")
dropIn     == Unit("containerd.service.d/kubexm.conf")
crictlYaml == File("/etc/crictl.yaml")

\* What the unit executes, and what containerd reads when it starts.
needed == {File("/usr/local/bin/containerd"), Unit("containerd")}
read   == {config, runc, cniChecked, cniOthers}

DownloadContainerd == Download("containerd")
DownloadCNIPlugins == Download("cni")
DownloadRunc       == Download("runc")
DownloadCriCtl     == Download("crictl")

ExtractContainerd == Extract("containerd")
ExtractCNIPlugins == Extract("cni")
ExtractCriCtl     == Extract("crictl")

InstallContainerd ==
    Step({Extracted("containerd")}, Exists(binaries),
         <<Copy({Extracted("containerd")}, binaries)>>, <<Remove(binaries)>>)

InstallCNIPlugins ==
    Step({Extracted("cni")}, Exists({cniChecked}),
         <<Copy({Extracted("cni")}, {cniChecked}),
           Copy({Extracted("cni")}, {cniOthers})>>,
         <<Remove({cniChecked, cniOthers})>>)

InstallRunc   == Installed({Archive("runc")}, runc)
InstallCriCtl == Installed({Extracted("crictl")}, crictl)

ConfigureContainerd == Rendered(config)

\* Without a proxy the rendered text is empty, and the step removes the file.
ConfigureContainerdDropIn(proxy) ==
    IF proxy
    THEN RenderedUnit(dropIn)
    ELSE Step({}, Gone({dropIn}), <<Remove({dropIn}), DaemonReload>>,
              <<Remove({dropIn}), DaemonReload>>)

ConfigureCriCtl          == Rendered(crictlYaml)
InstallContainerdService == RenderedUnit(Unit("containerd"))

EnableContainerd  == Enabling("containerd")
DisableContainerd == Disabling("containerd")
StartContainerd   == Starting("containerd", needed, read)
StopContainerd    == Stopping("containerd", needed, read)
RestartContainerd == Restarting("containerd", needed, read)

\* filesAndDirsToRemove, without PurgeData. runc is looked for in /usr/sbin.
leftovers ==
    binaries \cup {cniChecked, cniOthers, crictl, File("/usr/sbin/runc"),
                   File("/etc/cni/net.d"), config, crictlYaml,
                   Unit("containerd"), dropIn}

CleanupContainerd ==
    Step({}, Gone(leftovers), <<Remove(leftovers), DaemonReload>>, NoUndo)
=============================================================================
