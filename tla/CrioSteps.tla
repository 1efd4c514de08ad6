------------------------------ MODULE CrioSteps ------------------------------
(* The steps of internal/step/crio and internal/step/network/cni. *)
EXTENDS StepEffects

crio       == File("/usr/local/bin/crio")
binaries   == {crio, File("/usr/local/bin/pinns"), File("crio/conmon..crun")}
crictl     == File("/usr/local/bin/crictl")
crictlYaml == File("/etc/crictl.yaml")
config     == File("/etc/crio/crio.conf.d/00-kubexm-crio.conf")
auth       == File("/etc/crio/auth.json")
registries == File("/etc/containers/registries.conf")
policy     == File("/etc/containers/policy.json")
env        == File("/etc/default/crio")
cniChecked == File("/opt/cni/bin/bridge..loopback")
cniOthers  == File("/opt/cni/bin/macvlan..vrf")
cniBin     == {cniChecked, cniOthers}

needed == {crio, Unit("crio")}
read   == {config, registries, policy}

DownloadCrio == Download("crio")

\* Precheck looks at the directory the archive itself is in, so the step is
\* done as soon as the archive is there.
ExtractCrio ==
    Step({Archive("crio")}, Exists({Archive("crio")}),
         <<Fetch({Archive("crio")}, {Extracted("crio")})>>,
         <<Remove({Extracted("crio")})>>)

InstallCrio  == InstalledOnce({Extracted("crio")}, binaries)
InstallCni   == Step({}, Exists({cniChecked}),
                     <<Fill({Extracted("crio")}, cniBin)>>, NoUndo)
InstallCrictl     == InstalledOnce({Extracted("crio")}, {crictl})
InstallCrioEnv    == InstalledOnce({Extracted("crio")}, {env})
InstallPolicyJson == InstalledOnce({Extracted("crio")}, {policy})

InstallCrioService ==
    Step({}, Exists({Unit("crio")}),
         <<Copy({Extracted("crio")}, {Unit("crio")}), DaemonReload>>,
         <<Remove({Unit("crio")}), DaemonReload>>)

ConfigureCrio       == Rendered(config)
ConfigureRegistries == Rendered(registries)
ConfigureCrictl     == Rendered(crictlYaml)
\* Without credentials there is nothing to write.
ConfigureAuth(auths) ==
    IF auths THEN Rendered(auth)
             ELSE Step({}, Always, <<>>, <<Remove({auth})>>)

EnableCrio  == Enabling("crio")
DisableCrio == Disabling("crio")
StartCrio   == Starting("crio", needed, read)
StopCrio    == Stopping("crio", needed, read)
RestartCrio == Restarting("crio", needed, read)

\* filesAndDirsToRemove without PurgeData.
CleanCrio ==
    LET paths == binaries \cup cniBin
                 \cup {crictl, crictlYaml, auth, registries, config, env,
                       Unit("crio"), File("/etc/cni/net.d")}
    IN  Step({}, Gone(paths), <<Remove(paths), DaemonReload>>, NoUndo)

-----------------------------------------------------------------------------
(* network/cni *)

DownloadCNIPlugins == Download("cni")
ExtractCNIPlugins  == Extract("cni")

\* Precheck looks at bridge, host-local and loopback only, the last of which is
\* the eighth of the seventeen plugins Run installs in order.
InstallCNIPlugins ==
    Step({Extracted("cni")}, Exists({cniChecked}),
         <<Copy({Extracted("cni")}, {cniChecked}),
           Copy({Extracted("cni")}, {cniOthers})>>, <<Remove(cniBin)>>)

CleanCNI == Cleared(cniBin \cup {File("/etc/cni/net.d")})
=============================================================================
