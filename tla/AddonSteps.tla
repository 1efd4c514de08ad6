----------------------------- MODULE AddonSteps -----------------------------
(* The steps of internal/step/addon, cd, dns, gateway, helm and storage: what *)
(* is put into a running cluster. kubectl and helm are found in PATH.         *)
EXTENDS HelmCharts

userKubectl == {kubectlBin, userConf}

\* kubectl apply -f of a manifest on the host, and its delete as Rollback.
Applying(m, x) ==
    Step({}, Never, <<Apply(Kubectl \cup {m}, {Object(x)})>>,
         <<Discard(Kubectl \cup {m}, {Object(x)})>>)
Waiting(x) == Repeated(<<Need(Kubectl \cup {Object(x)})>>)

(* helm *)
repo(x) == File(x \o " helm repo")
helmCharts == Work("helm charts")
DownloadHelm == Download("helm")
ExtractHelm  == Extract("helm")
InstallHelm  == Installed({Extracted("helm")}, helmBin)
RemoveHelm   == Cleared({helmBin})
DownloadHelmCharts ==
    Step({localHelm}, Exists({helmCharts}), <<Ensure({}, {helmCharts})>>,
         <<Remove({helmCharts})>>)
\* helm itself is taken from the archive that was downloaded.
DownloadHelmCharts2 ==
    Step({Archive("helm")}, Exists({helmCharts}), <<Ensure({}, {helmCharts})>>,
         <<Remove({helmCharts})>>)
AddRepo(x) ==
    Step({helmBin}, Exists({repo(x)}), <<Write({repo(x)})>>, <<Remove({repo(x)})>>)
\* The release is compared by version, and no kubeconfig is given.
InstallChart(x) ==
    Step({helmBin}, Matches({release(x)}), <<Apply({userConf}, {release(x), inForce(x)})>>,
         <<Discard({helmBin, userConf}, {release(x), inForce(x)})>>)
UninstallChart(x) ==
    Repeated(<<Need({helmBin, userConf, release(x)}), Remove({release(x), inForce(x)})>>)
RenderHelmValues(x) == Repeated(<<Write({Shared(x)})>>)

(* addon *)
artifact(x)       == Work(x \o " addon")
remoteArtifact(x) == File(x \o " addon")
DownloadAddonArtifacts(x) ==
    Step({localHelm}, Exists({artifact(x)}), <<Fetch({}, {artifact(x)})>>,
         <<Remove({artifact(x)})>>)
DistributeAddonArtifacts(x) ==
    Step({artifact(x)}, Matches({remoteArtifact(x)}),
         <<Copy({artifact(x)}, {remoteArtifact(x)})>>, <<Remove({remoteArtifact(x)})>>)
ApplyAddonYaml(x) ==
    [Applying(remoteArtifact(x), x) EXCEPT !.expects = {remoteArtifact(x)}]
InstallAddonChart(x) ==
    Step({helmBin}, Matches({release(x)}),
         <<Apply({remoteArtifact(x), adminConf}, {release(x), inForce(x)})>>,
         <<Discard({helmBin, adminConf}, {release(x), inForce(x)})>>)
RunAddonPreInstallHook  == Repeated(<<>>)
RunAddonPostInstallHook == Repeated(<<>>)
ApplyManifest(m, x)  == Applying(m, x)
CopyAddonManifest(key, to) ==
    Step({}, Never, <<Copy({Shared(key)}, {to})>>, <<Remove({to})>>)
WaitForAddonReady(x) == Waiting(x)

(* dns *)
corednsManifest      == File("upload/coredns.yaml")
nodelocaldnsManifest == File("upload/nodelocaldns.yaml")
GenerateCoreDNSArtifacts ==
    Step({}, Never, <<Write({corednsManifest})>>, <<Remove({corednsManifest})>>)
InstallCoreDNS ==
    [Applying(corednsManifest, "coredns") EXCEPT !.expects = {corednsManifest}]
CleanCoreDNS ==
    Repeated(<<Discard(Kubectl \cup {corednsManifest}, {Object("coredns")}),
               Remove({corednsManifest})>>)
GenerateNodeLocalDNSArtifacts ==
    Step({}, Never, <<Write({nodelocaldnsManifest})>>, <<Remove({nodelocaldnsManifest})>>)
InstallNodeLocalDNS ==
    [Applying(nodelocaldnsManifest, "nodelocaldns")
        EXCEPT !.expects = {nodelocaldnsManifest}]
\* By its manifest or, without it, by label.
CleanNodeLocalDNS ==
    Step({}, Both(Exists(userKubectl), Gone({Object("nodelocaldns")})),
         <<Discard(userKubectl, {Object("nodelocaldns")})>>, NoUndo)
ApplyDNSManifest(m, x) == Applying(m, x)
WaitForDNSReady(x)     == Waiting(x)

(* cd *)
DownloadArgoCDChart       == DownloadChart("argocd")
GenerateArgoCDValues      == GenerateValues("argocd")
DistributeArgoCDArtifacts == DistributeArtifacts("argocd")
InstallArgoCDHelmChart    == InstallHelmChart("argocd")
CleanArgoCD               == CleanRelease("argocd")
ApplyCDManifest(m, x)     == Applying(m, x)

(* gateway *)
DownloadIngressNginxChart       == DownloadChart("ingress-nginx")
GenerateIngressNginxValues      == GenerateValues("ingress-nginx")
DistributeIngressNginxArtifacts == DistributeArtifacts("ingress-nginx")
InstallIngressNginxHelmChart    == InstallHelmChart("ingress-nginx")
CleanIngressNginx               == UninstallRelease("ingress-nginx")
InstallGatewayChart(x) ==
    Step({}, Never, <<Apply({helmBin, adminConf, remoteChart(x), remoteValues(x)},
                            {release(x), inForce(x)})>>,
         <<Discard({helmBin, adminConf}, {release(x), inForce(x)})>>)
CheckHelmRelease(x) == Checked({helmBin, adminConf, release(x)})

(* storage *)
longhornData == File("/var/lib/longhorn")
DownloadLonghornChart       == DownloadChart("longhorn")
GenerateLonghornValues      == GenerateValues("longhorn")
DistributeLonghornArtifacts == DistributeArtifacts("longhorn")
InstallLonghornHelmChart    == InstallHelmChart("longhorn")
\* On a master; the data is only removed when that is asked for.
CleanLonghorn(purge) ==
    Step({}, Both(Exists(userKubectl), Gone({release("longhorn")})),
         <<Discard(userKubectl, {release("longhorn"), inForce("longhorn")})>>
         \o (IF purge THEN <<Remove({longhornData})>> ELSE <<>>), NoUndo)
DownloadNFSProvisionerChart       == DownloadChart("nfs")
GenerateNFSProvisionerValues      == GenerateValues("nfs")
DistributeNFSProvisionerArtifacts == DistributeArtifacts("nfs")
InstallNFSProvisionerHelmChart    == InstallHelmChart("nfs")
CleanNFSProvisioner               == CleanRelease("nfs")
DownloadOpenEBSChart       == DownloadChart("openebs")
GenerateOpenEBSValues      == GenerateValues("openebs")
DistributeOpenEBSArtifacts == DistributeArtifacts("openebs")
InstallOpenEBSHelmChart    == InstallHelmChart("openebs")
CleanOpenEBS               == CleanRelease("openebs")
WaitForStorageReady(x)     == Waiting(x)
=============================================================================
