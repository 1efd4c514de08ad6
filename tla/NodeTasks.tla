------------------------------ MODULE NodeTasks ------------------------------
(***************************************************************************)
(* The graphs planned by internal/task/os, preflight, pre, packages,       *)
(* containerd, docker, crio, network/cni, loadbalancer and registry: what  *)
(* is done to the hosts before and around Kubernetes itself. A loop over   *)
(* hosts whose iterations are not linked is one node for all of them.      *)
(***************************************************************************)
EXTENDS TaskGraphs

os         == INSTANCE OSSteps
common     == INSTANCE CommonSteps
containerd == INSTANCE ContainerdSteps
docker     == INSTANCE DockerSteps
crio       == INSTANCE CrioSteps
lb         == INSTANCE LoadBalancerSteps
registry   == INSTANCE RegistrySteps
addon      == INSTANCE AddonSteps
effects    == INSTANCE StepEffects

On(hosts, steps) == [i \in DOMAIN steps |-> Node(steps[i], hosts)]

-----------------------------------------------------------------------------
(* os *)

PrepareOSNodes == Together(On("all",
    <<os!DisableSwap, os!DisableSelinux, os!DisableFirewall, os!UpdateEtcHosts,
      os!LoadKernelModules, os!ConfigureSysctl, os!ConfigureSecurityLimits>>))
CleanOSNodes == Graph(On("all",
    <<os!EnableSwap, os!EnableSelinux, os!EnableFirewall, os!RemoveEtcHosts,
      os!RemoveKernelModules, os!RemoveSysctl, os!RemoveSecurityLimits>>),
    {<<4, 1>>, <<4, 2>>, <<4, 3>>, <<1, 5>>, <<2, 6>>, <<3, 7>>})
ConfigureHost   == Chain(On("all", <<os!SetHostname, os!UpdateEtcHosts>>))
ConfigureKernel == Chain(On("all", <<os!LoadKernelModules, os!ConfigureSysctl>>))
DisableServices == Together(On("all",
    <<os!DisableSwap, os!DisableSelinux, os!DisableFirewall>>))
InstallPrerequisites(offline) ==
    IF offline
    THEN Chain(On("all", <<os!DistributePackages, os!ExtractPackages,
                           os!InstallOfflinePackages>>))
    ELSE Single(os!InstallPackages, "all")

(* preflight, pre and packages *)

\* The next host waits for the one before, except with its time zone.
TimeOf(hosts, configure) == Chain(On(hosts,
    <<os!ConfigureTimezone, configure, os!EnableChrony, os!RestartChrony,
      os!VerifyTimeSync>>))
ConfigureTime ==
    LET server == TimeOf("firstMaster", os!ConfigureChronyAsServer)
        client == TimeOf("otherMasters", os!ConfigureChronyAsClient)
    IN  Graph(server.nodes \o client.nodes,
              server.edges \cup {<<e[1] + 5, e[2] + 5>> : e \in client.edges}
              \cup {<<5, 7>>})
PreflightChecks == Together(
    On("all", <<os!CheckCPU, os!CheckMemory, os!CheckHostConnectivity,
                os!CheckDNSConfig, os!CheckRequiredCommands, os!CheckTimeSync>>)
    \o On("control", <<os!LintClusterSpec, os!CheckVersionCompatibility>>))
PreflightCheck == Graph(
    On("control", <<os!LintClusterSpec>>)
    \o On("all", <<os!CheckTimeSync, os!CheckDNSConfig, os!CheckHostConnectivity,
                   os!CheckRequiredCommands>>),
    {<<1, 2>>, <<1, 3>>, <<1, 4>>, <<1, 5>>})
CheckConnectivity   == Single(common!CheckConnectivity, "all")
Greeting            == Single(os!PrintMessage, "control")
ExtractBundle       == Single(registry!ExtractBundle, "control")
PackageAssets       == Single(registry!CompressBundle, "control")
InstallToolBinaries(X) == Single(common!InstallToolBinaries(X), "all")
PrepareAssets(X, x) == Graph(On("control",
    <<common!DownloadBinaries(X), addon!DownloadHelmCharts2, registry!SaveImages,
      addon!DownloadAddonArtifacts(x)>>), {<<1, 2>>})
PushImagesToRegistry ==
    Chain(On("control", <<registry!PushImages, registry!PushManifestList>>))
ConfirmTask(assumeYes) == Single(common!Confirm(assumeYes), "control")
VerifyArtifacts(S)  == Single(common!VerifyChecksums(S), "control")
CreateRepository(apt) == Chain(On("control",
    <<common!Mkdir(registry!repoDir),
      IF apt THEN registry!CreateAptRepo ELSE registry!CreateYumRepo,
      registry!RenderRepoNginxConfig, registry!DeployRepoNginxPod>>))
DownloadAssets(X)   == Single(common!DownloadBinaries(X), "control")

-----------------------------------------------------------------------------
(* containerd, docker, crio and network/cni *)

\* Mutant: the binaries are not waited for.
DeployContainerdUnlinked == Graph(
    On("control", <<containerd!ExtractContainerd, containerd!ExtractCNIPlugins>>)
    \o On("nodes", <<containerd!InstallRunc, containerd!InstallCNIPlugins,
                     containerd!InstallContainerd, containerd!ConfigureContainerd,
                     containerd!InstallContainerdService,
                     containerd!StartContainerd>>),
    {<<2, 4>>, <<3, 6>>, <<4, 6>>, <<5, 6>>, <<6, 7>>, <<7, 8>>})
\* Mutant: the service is started while its unit is installed.
DeployContainerdEager == Graph(
    On("control", <<containerd!ExtractContainerd, containerd!ExtractCNIPlugins>>)
    \o On("nodes", <<containerd!InstallRunc, containerd!InstallCNIPlugins,
                     containerd!InstallContainerd, containerd!ConfigureContainerd,
                     containerd!InstallContainerdService,
                     containerd!StartContainerd>>),
    {<<2, 4>>, <<1, 5>>, <<3, 6>>, <<4, 6>>, <<5, 6>>, <<6, 7>>, <<6, 8>>})
DeployContainerd == Graph(
    On("control", <<containerd!ExtractContainerd, containerd!ExtractCNIPlugins>>)
    \o On("nodes", <<containerd!InstallRunc, containerd!InstallCNIPlugins,
                     containerd!InstallContainerd, containerd!ConfigureContainerd,
                     containerd!InstallContainerdService,
                     containerd!StartContainerd>>),
    {<<2, 4>>, <<1, 5>>, <<3, 6>>, <<4, 6>>, <<5, 6>>, <<6, 7>>, <<7, 8>>})
CleanContainerd == Chain(On("nodes",
    <<containerd!StopContainerd, containerd!DisableContainerd,
      containerd!CleanupContainerd>>))

\* Nothing extracts the CNI plugins that are installed last.
DeployDocker == Graph(
    On("control", <<docker!ExtractDocker, docker!ExtractCriDockerd>>)
    \o On("nodes", <<docker!InstallDocker, docker!ConfigureDocker,
                     docker!SetupDockerService, docker!StartDocker,
                     docker!InstallCriDockerd, docker!SetupCriDockerdService,
                     docker!StartCriDockerd, crio!InstallCNIPlugins>>),
    {<<1, 3>>, <<2, 7>>, <<3, 4>>, <<4, 5>>, <<5, 6>>, <<7, 8>>, <<6, 8>>,
     <<8, 9>>, <<9, 10>>})
CleanDocker == Graph(On("nodes",
    <<docker!StopCriDockerd, docker!DisableCriDockerd, docker!RemoveCriDockerd,
      docker!StopDocker, docker!DisableDocker, docker!RemoveDocker,
      docker!CleanDocker>>),
    {<<1, 4>>, <<1, 2>>, <<2, 3>>, <<4, 5>>, <<5, 6>>, <<3, 7>>, <<6, 7>>})

DeployCrio(auths) == Graph(
    On("control", <<crio!ExtractCrio>>)
    \o On("nodes", <<crio!InstallCrio, crio!InstallCni, crio!InstallCrictl,
                     crio!InstallPolicyJson, crio!InstallCrioEnv,
                     crio!ConfigureCrio, crio!ConfigureRegistries,
                     crio!ConfigureAuth(auths), crio!InstallCrioService,
                     crio!EnableCrio, crio!StartCrio>>),
    {<<1, i>> : i \in 2 .. 6} \cup {<<i, 7>> : i \in {2, 3, 5}}
    \cup {<<i, 10>> : i \in 7 .. 9} \cup {<<10, 11>>, <<11, 12>>})
CleanCrio ==
    Chain(On("nodes", <<crio!StopCrio, crio!DisableCrio, crio!CleanCrio>>))

\* Mutant: the other way round.
InstallCNIPluginsFirst == Chain(<<Node(crio!InstallCNIPlugins, "nodes"),
                                  Node(crio!ExtractCNIPlugins, "control")>>)
InstallCNIPlugins == Chain(<<Node(crio!ExtractCNIPlugins, "control"),
                             Node(crio!InstallCNIPlugins, "nodes")>>)
CleanCNIPlugins   == Single(crio!CleanCNI, "nodes")

-----------------------------------------------------------------------------
(* loadbalancer. The AddDependency calls of the HAProxy and NGINX planners   *)
(* name the later step first, so their graphs run backwards.                 *)

Backwards(nodes) == Graph(nodes, {<<i + 1, i>> : i \in 1 .. Len(nodes) - 1})

Configured(b, render) ==
    <<lb!PrepareLBDirs({lb!confDir(b)}), render,
      lb!CopyFile(lb!rendered(b), lb!conf(b))>>
DeployHAProxyAsDaemon == Backwards(On("balancers",
    Configured("haproxy", lb!RenderHAProxyConfig)
    \o <<lb!InstallHAProxy, lb!EnableHAProxy, lb!RestartHAProxy>>))
DeployNginxAsDaemon == Backwards(On("balancers",
    Configured("nginx", lb!RenderNginxConfig)
    \o <<lb!InstallNginx, lb!EnableNginx, lb!RestartNginx>>))
DeployNginxOnWorkers == Backwards(On("workers",
    Configured("nginx", lb!RenderNginxConfig)
    \o <<lb!InstallNginx, lb!EnableNginx, lb!RestartNginx>>))
\* The package is never installed on workers.
DeployHAProxyOnWorkers == Backwards(On("workers",
    Configured("haproxy", lb!RenderHAProxyConfig)
    \o <<lb!RenderHAProxyService,
         lb!CopyFile(lb!renderedUnit, effects!Unit("haproxy")),
         lb!EnableHAProxy, lb!RestartHAProxy>>))
DeployHAProxyAsStaticPod == Backwards(On("workers",
    Configured("haproxy", lb!RenderHAProxyConfig)
    \o <<lb!RenderHAProxyPodManifest,
         lb!CopyFile(lb!renderedPod("haproxy"), lb!manifest("haproxy"))>>))
DeployNginxAsStaticPod == Backwards(On("workers",
    Configured("nginx", lb!RenderNginxConfig)
    \o <<lb!RenderNginxPodManifest,
         lb!CopyFile(lb!renderedPod("nginx"), lb!manifest("nginx"))>>))

CleanHAProxyAsDaemon == Chain(On("balancers",
    <<lb!StopHAProxy, lb!DisableHAProxy, lb!CleanHAProxy>>))
CleanNginxAsDaemon == Chain(On("balancers",
    <<lb!StopNginx, lb!DisableNginx, lb!CleanNginx>>))
CleanOnWorkers(b) == Chain(On("workers",
    <<lb!StopLBService(b), lb!DisableLBService(b), lb!RemoveLBFile(lb!conf(b)),
      lb!RemoveLBFile(effects!Unit(b))>>))
CleanHAProxyOnWorkers == CleanOnWorkers("haproxy")
CleanNginxOnWorkers   == CleanOnWorkers("nginx")
CleanHAProxyStaticPod == Single(lb!CleanHAProxyStaticPod, "workers")
CleanNginxStaticPod   == Single(lb!CleanNginxStaticPod, "workers")

InstallHAProxyAsDaemon == Chain(On("balancers",
    <<lb!InstallHAProxy, lb!GenerateHAProxyConfig, lb!EnableHAProxy,
      lb!StartHAProxy>>))
UninstallHAProxyAsDaemon == CleanHAProxyAsDaemon
InstallKeepalived == Chain(On("balancers",
    <<lb!InstallKeepalivedPackage, lb!GenerateKeepalivedConfig,
      lb!DeployKeepalivedConfig, lb!EnableKeepalived, lb!StartKeepalived>>))
UninstallKeepalived == Chain(On("balancers",
    <<lb!StopKeepalived, lb!DisableKeepalived, lb!RemoveKeepalivedPackage,
      lb!RemoveKeepalivedConfig>>))
\* The generated configuration is not written to the host.
DeployKeepalived == Chain(On("balancers",
    <<lb!InstallKeepalivedPackage, lb!GenerateKeepalivedConfig,
      lb!EnableKeepalived, lb!RestartKeepalived>>))
CleanKeepalived == Chain(On("balancers",
    <<lb!StopKeepalived, lb!DisableKeepalived, lb!CleanKeepalivedPackage>>))
DeployKubeVIP  == Single(lb!GenerateKubeVipManifest, "controlPlane")
CleanupKubeVIP == Single(lb!CleanKubeVipManifest, "controlPlane")
DeployKubeVip == Single(lb!GenerateKubeVipManifest, "masters")
CleanKubeVip  == Single(lb!CleanKubeVipManifest, "masters")

-----------------------------------------------------------------------------
(* registry *)

DeployRegistry == Graph(
    On("control", <<registry!GenerateRegistryConfig, registry!ExtractRegistry>>)
    \o On("registry", <<registry!DistributeRegistryConfig, registry!InstallRegistry,
                        registry!SetupRegistryService,
                        registry!EnableRegistryService,
                        registry!RestartRegistryService>>),
    {<<2, 4>>, <<1, 3>>, <<3, 5>>, <<4, 5>>, <<5, 6>>, <<6, 7>>})
CleanRegistry == Graph(On("registry",
    <<registry!StopRegistryService, registry!DisableRegistryService,
      registry!RemoveRegistryArtifacts, registry!RemoveRegistryData>>),
    {<<1, 2>>, <<2, 3>>, <<1, 4>>})
DeployHarbor == Graph(
    <<Node(registry!GenerateHarborCerts, "control"),
      Node(registry!DistributeHarborCACert, "nodes"),
      Node(registry!ExtractHarbor, "control"),
      Node(registry!GenerateHarborConfig, "control")>>
    \o On("registry", <<registry!UploadHarborInstaller,
                        registry!ExtractHarborInstaller,
                        registry!ConfigureHarbor, registry!InstallAndStartHarbor>>),
    {<<1, 2>>, <<3, 4>>, <<1, 4>>, <<5, 6>>, <<6, 7>>, <<7, 8>>, <<4, 7>>,
     <<2, 8>>})
CleanHarbor == Graph(
    On("registry", <<registry!StopAndRemoveHarbor, registry!RemoveHarborArtifacts>>)
    \o On("nodes", <<registry!RemoveHarborCACert>>), {<<1, 2>>})
=============================================================================
