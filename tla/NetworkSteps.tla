---------------------------- MODULE NetworkSteps ----------------------------
(* The steps of internal/step/network, for the plugin that is configured. *)
EXTENDS HelmCharts

calicoctl == File("/usr/local/bin/calicoctl")

DownloadCalicoChart       == DownloadChart("calico")
GenerateCalicoValues      == GenerateValues("calico")
DistributeCalicoArtifacts == DistributeArtifacts("calico")
InstallCalicoHelmChart    == InstallHelmChart("calico")
CleanCalico               == UninstallRelease("calico")
DownloadCalicoctl         == Download("calicoctl")
InstallCalicoctl          == Installed({Archive("calicoctl")}, calicoctl)
RemoveCalicoctl           == Cleared({calicoctl})

DownloadCiliumChart       == DownloadChart("cilium")
GenerateCiliumValues      == GenerateValues("cilium")
DistributeCiliumArtifacts == DistributeArtifacts("cilium")
InstallCiliumHelmChart    == InstallHelmChart("cilium")
UninstallCiliumHelmChart  == UninstallRelease("cilium")
CleanCiliumNodeState      == Cleared({File("/run/cilium")})

DownloadFlannelChart       == DownloadChart("flannel")
GenerateFlannelValues      == GenerateValues("flannel")
DistributeFlannelArtifacts == DistributeArtifacts("flannel")
InstallFlannelHelmChart    == InstallHelmChart("flannel")
UninstallFlannelHelmChart  == UninstallRelease("flannel")
CleanFlannelNodeFiles      == Cleared({File("/run/flannel")})

DownloadHybridnetChart       == DownloadChart("hybridnet")
GenerateHybridnetValues      == GenerateValues("hybridnet")
DistributeHybridnetArtifacts == DistributeArtifacts("hybridnet")
InstallHybridnetHelmChart    == InstallHelmChart("hybridnet")
CleanHybridnet               == CleanRelease("hybridnet")

DownloadKubeovnChart       == DownloadChart("kubeovn")
GenerateKubeovnValues      == GenerateValues("kubeovn")
DistributeKubeovnArtifacts == DistributeArtifacts("kubeovn")
InstallKubeOvnHelmChart    == InstallHelmChart("kubeovn")
CleanKubeovn               == CleanRelease("kubeovn")

DownloadMultusChart       == DownloadChart("multus")
GenerateMultusValues      == GenerateValues("multus")
DistributeMultusArtifacts == DistributeArtifacts("multus")
InstallMultusHelmChart    == InstallHelmChart("multus")
CleanMultus               == CleanRelease("multus")

(* common; kubectl is called without a kubeconfig *)
ApplyManifest(x) ==
    Step({}, Never, <<Write({File("/tmp/" \o x)}),
                      Apply({kubectlBin, userConf, File("/tmp/" \o x)}, {Object(x)})>>,
         <<Discard({kubectlBin, userConf, File("/tmp/" \o x)}, {Object(x)})>>)
CopyNetworkConfig(from, to) ==
    Step({}, Never, <<Copy({from}, {to})>>, <<Remove({to})>>)
PrepareNetworkDirs(S)     == Repeated(<<Mkdirp(S)>>)
RenderNetworkConfig(to)   == Repeated(<<Write({to})>>)
=============================================================================
