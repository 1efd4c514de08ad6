----------------------------- MODULE HelmCharts -----------------------------
(* The steps every component deployed as a Helm chart comes with, x naming  *)
(* the chart: internal/step/cd/argocd and its copies under network, gateway *)
(* and storage.                                                             *)
EXTENDS StepEffects

localHelm == Work("helm")
helmBin   == File("/usr/local/bin/helm")
\* What kubectl and helm use when they are given no kubeconfig.
userConf  == File("/root/.kube/config")

chart(x)        == Work(x \o " chart")
values(x)       == Work(x \o " values")
remoteChart(x)  == File(x \o " chart")
remoteValues(x) == File(x \o " values")
\* The release, by the version of its chart, and the values it was given.
release(x)  == Object(x \o " release")
inForce(x)  == Object(x \o " values")

DownloadChart(x) ==
    Step({localHelm}, Exists({chart(x)}), <<Fetch({}, {chart(x)})>>,
         <<Remove({chart(x)})>>)
\* A values file that exists is not rendered again.
GenerateValues(x) ==
    Step({}, Exists({values(x)}), <<Fill({}, {values(x)})>>, <<Remove({values(x)})>>)
DistributeArtifacts(x) ==
    Step({values(x), chart(x)}, Matches({remoteValues(x), remoteChart(x)}),
         <<Copy({values(x)}, {remoteValues(x)}), Copy({chart(x)}, {remoteChart(x)})>>,
         <<Remove({remoteValues(x), remoteChart(x)})>>)
\* The version of a deployed release is compared, its values are not.
InstallHelmChart(x) ==
    Step({helmBin, remoteValues(x), remoteChart(x), adminConf}, Matches({release(x)}),
         <<Apply({remoteChart(x), adminConf}, {release(x)}),
           Apply({remoteValues(x)}, {inForce(x)})>>,
         <<Discard({helmBin, adminConf}, {release(x), inForce(x)})>>)
\* Nothing is left to clean where helm cannot be asked.
CleanRelease(x) ==
    Step({}, Gone({helmBin}) \cup Gone({adminConf}) \cup Gone({release(x)}),
         <<Discard({helmBin, adminConf}, {release(x), inForce(x)})>>, NoUndo)
\* The same without a kubeconfig; the uninstall may fail.
UninstallRelease(x) ==
    Step({}, Gone({release(x)}),
         <<Discard({helmBin, userConf}, {release(x), inForce(x)})>>, NoUndo)
=============================================================================
