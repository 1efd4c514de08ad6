-------------------------- MODULE LoadBalancerSteps --------------------------
(* The steps of internal/step/loadbalancer. HAProxy and NGINX come with the *)
(* same steps, told apart by the balancer lb.                               *)
EXTENDS StepEffects

binary(lb)   == File(lb)
confDir(lb)  == File(lb \o " conf dir")
conf(lb)     == File(lb \o " conf")
manifest(lb) == File("/etc/kubernetes/manifests/" \o lb)
rendered(lb) == Shared(lb \o "_rendered_config")
renderedPod(lb) == Shared(lb \o "_rendered_pod_manifest")
renderedUnit == Shared("haproxy_worker_service")
\* The manifest GenerateNginxStaticPod writes and CleanNginxStaticPod removes is
\* not the one NginxManifestPath names.
nginxLbManifest == File("/etc/kubernetes/manifests/kube-nginx-lb.yaml")

(* common *)
CollectLBBackends == Repeated(<<>>)
CollectLBIdentity == Repeated(<<>>)
PrepareLBDirs(S)  == Repeated(<<Mkdirp(S)>>)
CopyFile(from, to) == Step({}, Never, <<Copy({from}, {to})>>, <<Remove({to})>>)
StopLBService(x)    == Step({}, Gone({Unit(x)}) \cup Gone({Running(x)}),
                            <<StopService(x)>>, NoUndo)
DisableLBService(x) == Step({}, Gone({Unit(x)}) \cup Gone({Enabled(x)}),
                            <<Disable(x)>>, NoUndo)
RemoveLBFile(f)     == Cleared({f})

(* haproxy and nginx *)
InstallBalancer(lb) ==
    Step({}, Exists({binary(lb)}), <<Fetch({}, {binary(lb), Unit(lb)})>>, NoUndo)
CleanBalancer(lb) ==
    Repeated(<<Remove({confDir(lb), conf(lb)}), Remove({binary(lb), Unit(lb)})>>)
CleanStaticPod(lb, pod) ==
    Step({}, Gone({pod, confDir(lb)}), <<Remove({pod}), Remove({confDir(lb), conf(lb)})>>,
         NoUndo)
GenerateBalancerConfig(lb) ==
    Step({}, Matches({conf(lb)}), <<Mkdirp({confDir(lb)}), Write({conf(lb)})>>,
         <<Remove({conf(lb)})>>)
GenerateStaticPod(lb, pod) ==
    Step({}, Matches({pod}), <<Copy({conf(lb)}, {pod})>>, <<Remove({pod})>>)
RenderConfig(lb)   == Repeated(<<Write({rendered(lb)})>>)
RenderManifest(lb) == Repeated(<<Copy({rendered(lb)}, {renderedPod(lb)})>>)
StopBalancer(lb)    == [Stopping(lb, {}, {}) EXCEPT !.undo = NoUndo]
DisableBalancer(lb) == [Disabling(lb) EXCEPT !.undo = NoUndo]
StartBalancer(lb)   == Starting(lb, {Unit(lb), conf(lb)}, {})
RestartBalancer(lb) == Restarting(lb, {Unit(lb), conf(lb)}, {})

InstallHAProxy        == InstallBalancer("haproxy")
CleanHAProxy          == CleanBalancer("haproxy")
CleanHAProxyStaticPod == CleanStaticPod("haproxy", manifest("haproxy"))
GenerateHAProxyConfig == GenerateBalancerConfig("haproxy")
GenerateHAProxyStaticPod == GenerateStaticPod("haproxy", manifest("haproxy"))
RenderHAProxyConfig   == RenderConfig("haproxy")
RenderHAProxyPodManifest == RenderManifest("haproxy")
RenderHAProxyService  == Repeated(<<Write({renderedUnit})>>)
StopHAProxy           == StopBalancer("haproxy")
DisableHAProxy        == DisableBalancer("haproxy")
EnableHAProxy         == Enabling("haproxy")
StartHAProxy          == StartBalancer("haproxy")
RestartHAProxy        == RestartBalancer("haproxy")

InstallNginx        == InstallBalancer("nginx")
CleanNginx          == CleanBalancer("nginx")
CleanNginxStaticPod == CleanStaticPod("nginx", nginxLbManifest)
GenerateNginxConfig == GenerateBalancerConfig("nginx")
GenerateNginxStaticPod == GenerateStaticPod("nginx", nginxLbManifest)
RenderNginxConfig   == RenderConfig("nginx")
RenderNginxPodManifest == RenderManifest("nginx")
StopNginx           == StopBalancer("nginx")
DisableNginx        == DisableBalancer("nginx")
EnableNginx         == Enabling("nginx")
StartNginx          == StartBalancer("nginx")
RestartNginx        == RestartBalancer("nginx")

(* keepalived; its service steps act without looking *)
keepalivedBin  == File("/usr/sbin/keepalived")
keepalivedConf == File("/etc/keepalived/keepalived.conf")
generatedConf  == Shared("keepalived.config")
InstallKeepalivedPackage ==
    Step({}, Exists({keepalivedBin}),
         <<Fetch({}, {keepalivedBin, Unit("keepalived")})>>, NoUndo)
GenerateKeepalivedConfig == Repeated(<<Write({generatedConf})>>)
DeployKeepalivedConfig ==
    Step({}, Never, <<Copy({generatedConf}, {keepalivedConf})>>,
         <<Remove({keepalivedConf})>>)
EnableKeepalived  == Repeated(<<Enable("keepalived")>>)
DisableKeepalived == Repeated(<<Disable("keepalived")>>)
StartKeepalived   ==
    Repeated(<<Start("keepalived", {Unit("keepalived"), keepalivedConf}, {})>>)
RestartKeepalived ==
    Repeated(<<Restart("keepalived", {Unit("keepalived"), keepalivedConf}, {})>>)
StopKeepalived    == Repeated(<<StopService("keepalived")>>)
RemoveKeepalivedPackage == Cleared({keepalivedBin, Unit("keepalived")})
RemoveKeepalivedConfig  == Cleared({keepalivedConf})
CleanKeepalivedPackage ==
    Step({}, Gone({keepalivedBin, keepalivedConf, Running("keepalived"),
                   Enabled("keepalived")}),
         <<StopService("keepalived"), Disable("keepalived"),
           Remove({keepalivedBin, Unit("keepalived"), keepalivedConf})>>, NoUndo)

(* kube-vip *)
kubeVip == File("/etc/kubernetes/manifests/kube-vip.yaml")
GenerateKubeVipManifest == Rendered(kubeVip)
CleanKubeVipManifest    == Cleared({kubeVip})
=============================================================================
