---------------------------- MODULE RegistrySteps ----------------------------
(* The steps of internal/step/registry, harbor, images, repository and      *)
(* offline: a registry for images, a repository for packages, and what is   *)
(* put into them.                                                           *)
EXTENDS StepEffects

(* registry *)
registryBin    == File("/usr/local/bin/registry")
registryConf   == File("/etc/docker/registry/config.yml")
registryData   == File("/var/lib/registry")
localRegistryConf == Work("registry/config.yml")
registryFrom   == {Unit("registry"), registryBin, registryConf}
DownloadRegistry == Download("registry")
ExtractRegistry  == Extract("registry")
\* The binary is looked for next to the archive, which is not where
\* ExtractRegistry puts it.
InstallRegistry ==
    Installed({Work("registry next to its archive")}, registryBin)
GenerateRegistryConfig   == Rendered(localRegistryConf)
DistributeRegistryConfig == Installed({localRegistryConf}, registryConf)
\* A unit that exists is left as it is.
SetupRegistryService   == Step({}, Exists({Unit("registry")}),
                               <<Write({Unit("registry")})>>, <<Remove({Unit("registry")})>>)
EnableRegistryService  == Step({}, Exists({Enabled("registry")}),
                               <<DaemonReload, Enable("registry")>>, <<Disable("registry")>>)
DisableRegistryService == Disabling("registry")
StartRegistryService   == Step({}, Exists({Running("registry")}),
                               <<Restart("registry", registryFrom, {})>>,
                               <<StopService("registry")>>)
StopRegistryService    == Stopping("registry", registryFrom, {})
RestartRegistryService == Step({}, Gone({Running("registry")}),
                               <<DaemonReload, Restart("registry", registryFrom, {})>>,
                               <<StopService("registry")>>)
RemoveRegistryArtifacts ==
    Step({}, Gone({registryBin, registryConf, Unit("registry")}),
         <<Remove({registryBin, registryConf, Unit("registry")}), DaemonReload>>, NoUndo)
RemoveRegistryData     == Cleared({registryData})
CopyRegistryCert(from, to) == Step({}, Never, <<Fill({from}, {to})>>, <<Remove({to})>>)
RegistryService(e)     == Repeated(<<e>>)

(* harbor *)
harborCerts   == Work("harbor certs")
harborCA      == Work("harbor ca.crt")
harborYml     == Work("harbor.yml")
installer     == File("/tmp/harbor.tgz")
installDir    == File("/opt/harbor")
remoteYml     == File("/opt/harbor/harbor.yml")
remoteCerts   == File("/opt/harbor/certificates")
trustedCA     == File("certs.d/ca.crt")
compose       == File("/opt/harbor/docker-compose.yml")
composeBin    == File("docker-compose")
harbor        == Running("harbor")
DownloadHarbor == Download("harbor")
ExtractHarbor  == Extract("harbor")
GenerateHarborCerts ==
    Step({}, Exists({harborCerts, harborCA}), <<Write({harborCA}), Write({harborCerts})>>,
         <<Remove({harborCerts, harborCA})>>)
GenerateHarborConfig ==
    Step({Extracted("harbor")}, Matches({harborYml}), <<Fill({Extracted("harbor")}, {harborYml})>>,
         <<Remove({harborYml})>>)
DistributeHarborCACert == Installed({harborCA}, trustedCA)
DistributeHarborConfig == Installed({harborYml}, remoteYml)
UploadHarborInstaller  ==
    Step({}, Exists({installer}), <<Fill({Archive("harbor")}, {installer})>>,
         <<Remove({installer})>>)
\* The archive is removed once it is extracted.
ExtractHarborInstaller ==
    Step({}, Exists({installDir}), <<Fill({installer}, {installDir}), Remove({installer})>>,
         <<Remove({installDir, remoteYml, remoteCerts, compose}), Remove({installer})>>)
ConfigureHarbor ==
    Step({}, Never, <<Copy({harborYml}, {remoteYml}), Copy({harborCerts}, {remoteCerts})>>,
         <<Remove({remoteYml, remoteCerts})>>)
InstallAndStartHarbor ==
    Step({composeBin}, Exists({harbor}),
         <<Apply({installDir, remoteYml, remoteCerts}, {compose, harbor})>>,
         <<Discard({installDir}, {harbor})>>)
RestartHarbor       == Repeated(<<Need({compose}), Copy({compose, remoteYml}, {harbor})>>)
StopHarborService   ==
    Step({}, Gone({harbor}), <<Discard({compose}, {harbor})>>, <<Carry({installDir}, {harbor})>>)
StopAndRemoveHarbor == Step({}, Gone({harbor}), <<Discard({compose}, {harbor})>>, NoUndo)
RemoveHarborArtifacts == Cleared({installDir, remoteYml, remoteCerts, compose})
RemoveHarborCACert    == Cleared({trustedCA})
CopyHarborCert(from, to) == Step({}, Never, <<Fill({from}, {to})>>, <<Remove({to})>>)
HarborService(e)      == Repeated(<<e>>)

(* images; skopeo is on the control node *)
skopeo      == Work("skopeo")
imagesDir   == Work("images")
pushedList  == Shared("pushed manifests")
SaveImages  == Step({skopeo}, Never, <<Fill({}, {imagesDir})>>, NoUndo)
PushImages  == Step({skopeo, imagesDir}, Never,
                    <<Apply({imagesDir}, {Object("images")}), Write({pushedList})>>, NoUndo)
PushManifestList == Step({skopeo}, Never,
                         <<Apply({pushedList}, {Object("manifest lists")})>>, NoUndo)
PushImage == Repeated(<<Apply({Setting("image")}, {Object("image")})>>)
SaveImage(f) == Repeated(<<Fill({Setting("image")}, {f})>>)

(* repository *)
repoDir     == File("repository")
repoIndex   == File("repository index")
repoConf    == File("repository nginx.conf")
repoPod     == File("/etc/kubernetes/manifests/kube-repo-nginx.yaml")
CreateAptRepo == Step({Setting("dpkg-scanpackages")}, Never,
                      <<Fill({repoDir}, {repoIndex})>>, NoUndo)
CreateYumRepo == Step({Setting("createrepo")}, Never,
                      <<Fill({repoDir}, {repoIndex})>>, NoUndo)
RenderRepoNginxConfig == Repeated(<<Write({repoConf})>>)
DeployRepoNginxPod == Step({}, Never, <<Copy({repoConf}, {repoPod})>>, <<Remove({repoPod})>>)
DeployRepoServer   == Repeated(<<>>)

(* offline *)
bundle     == Work("bundle")
bundleDir  == Work("bundle contents")
bundleMark == Work("bundle extracted")
CompressBundle == Step({bundleDir}, Never, <<Fill({bundleDir}, {bundle})>>, <<Remove({bundle})>>)
ExtractBundle  == Step({bundle}, Exists({bundleMark}),
                       <<Fill({bundle}, {bundleDir}), Write({bundleMark})>>, NoUndo)
=============================================================================
