------------------------------- MODULE OSSteps -------------------------------
(* The steps of internal/step/os, chrony, packages and preflight: the       *)
(* operating system of a host. What a step saves for its Rollback it keeps  *)
(* in a field, which all the hosts of its node share.                       *)
EXTENDS StepEffects

\* What was there before, or nothing.
Restore(f) == <<Remove({f}), Carry({Saved(f)}, {f})>>

swap       == Setting("swap in use")
swapLine   == Setting("swap in /etc/fstab")
enforcing  == Setting("SELinux enforcing")
selinuxOn  == Setting("SELINUX in /etc/selinux/config")
hostsBlock == Setting("KubeXM block in /etc/hosts")
modules    == Setting("kernel modules")
modulesConf == File("/etc/modules-load.d/99-kubexm.conf")
limitsConf  == File("/etc/security/limits.d/99-kubexm.conf")
sysctlConf  == File("/etc/sysctl.d/99-kubexm.conf")
kernelParameters == Setting("kernel parameters")
\* Parameters of br_netfilter are only known once the module is loaded.
SysctlSystem == Effect("install", {}, {sysctlConf, modules}, {kernelParameters})

(* os *)
DisableSwap ==
    Step({}, Gone({swap}), <<Remove({swap}), Save(swapLine), Remove({swapLine})>>,
         <<Carry({Saved(swapLine)}, {swapLine}), Carry({swapLine}, {swap})>>)
EnableSwap ==
    Step({}, Exists({swap}), <<Write({swapLine}), Write({swap})>>,
         <<Remove({swapLine}), Remove({swap})>>)
DisableSelinux ==
    Step({}, Gone({enforcing}),
         <<Save(enforcing), Save(selinuxOn), Remove({enforcing}), Remove({selinuxOn})>>,
         <<Carry({Saved(selinuxOn)}, {selinuxOn}), Carry({Saved(enforcing)}, {enforcing})>>)
EnableSelinux ==
    Step({}, Exists({enforcing}), <<Write({selinuxOn}), Write({enforcing})>>,
         <<Remove({selinuxOn}), Remove({enforcing})>>)
\* systemctl prints a line end after "active", which the Precheck does not
\* expect: whatever the answer, there is nothing to do.
DisableFirewall ==
    Step({}, Always, <<StopService("firewalld"), Disable("firewalld")>>,
         <<Enable("firewalld"), Start("firewalld", {}, {})>>)
EnableFirewall ==
    Step({}, Exists({Running("firewalld")}),
         <<Enable("firewalld"), Start("firewalld", {}, {}),
           Write({Created(Running("firewalld"))})>>,
         <<Reclaim(Created(Running("firewalld")),
                   {Running("firewalld"), Enabled("firewalld")})>>)
UpdateEtcHosts ==
    Step({}, Matches({hostsBlock}), <<Save(hostsBlock), Write({hostsBlock})>>,
         Restore(hostsBlock))
RemoveEtcHosts ==
    Step({}, Gone({hostsBlock}), <<Save(hostsBlock), Remove({hostsBlock})>>,
         <<Carry({Saved(hostsBlock)}, {hostsBlock})>>)
LoadKernelModules ==
    Step({}, Both(Exists({modules}), Matches({modulesConf})),
         <<Save(modulesConf), Write({modules}), Write({modulesConf})>>,
         Restore(modulesConf))
ConfigureSecurityLimits ==
    Step({}, Matches({limitsConf}),
         <<Note(limitsConf), Write({limitsConf})>>,
         <<Reclaim(Created(limitsConf), {limitsConf})>>)
\* What is in force is not looked at, only the file.
ConfigureSysctl ==
    Step({}, Matches({sysctlConf}),
         <<Note(sysctlConf), Write({sysctlConf}),
           SysctlSystem>>,
         <<Reclaim(Created(sysctlConf), {sysctlConf})>>)
\* The file goes, what it set stays until the next boot.
RemovedConf(f) ==
    Step({}, Gone({f}), <<Save(f), Remove({f})>>, <<Carry({Saved(f)}, {f})>>)
RemoveKernelModules  == RemovedConf(modulesConf)
RemoveSecurityLimits == RemovedConf(limitsConf)
RemoveSysctl         == RemovedConf(sysctlConf)
SetHostname       == Step({}, Matches({Setting("hostname")}),
                          <<Write({Setting("hostname")})>>, NoUndo)
ConfigureTimezone == Step({}, Matches({Setting("timezone")}),
                          <<Write({Setting("timezone")})>>, NoUndo)
RunCommand(out)   == Repeated(<<Write({Shared(out)})>>)
PrepareOSDirs(S)  == Repeated(<<Mkdirp(S)>>)
ManageService(e)  == Repeated(<<e>>)
\* Every run appends the lines once more, and Rollback sets zero.
ApplySysctl ==
    Step({}, Never, <<Write({kernelParameters}), Fill({}, {sysctlConf})>>,
         <<Remove({kernelParameters})>>)

(* chrony *)
chronyConf == File("/etc/chrony.conf")
StartChrony   == Starting("chronyd", {Unit("chronyd")}, {chronyConf})
StopChrony    == Stopping("chronyd", {Unit("chronyd")}, {chronyConf})
RestartChrony ==
    Step({}, Gone({Running("chronyd")}),
         <<DaemonReload, Restart("chronyd", {Unit("chronyd")}, {chronyConf})>>,
         <<Restart("chronyd", {Unit("chronyd")}, {chronyConf})>>)
EnableChrony  == Enabling("chronyd")
DisableChrony == Disabling("chronyd")
ConfigureChronyAsClient == Repeated(<<Write({chronyConf})>>)
ConfigureChronyAsServer == Repeated(<<Write({chronyConf})>>)
ConfigureChrony   == Repeated(<<>>)
ChronyService(e)  == Repeated(<<e>>)
VerifyTimeSync    == Polled({Running("chronyd")})

(* packages *)
packages       == Setting("required packages")
offlineTarball == Work("packages.tar.gz")
remoteTarball  == File("packages.tar.gz")
extractedDir   == File("packages")
DistributePackages == InstalledOnce({offlineTarball}, {remoteTarball})
ExtractPackages ==
    Step({}, Exists({extractedDir}), <<Fill({remoteTarball}, {extractedDir})>>,
         <<Remove({extractedDir})>>)
InstallOfflinePackages ==
    Step({}, Exists({packages}), <<Need({extractedDir}), Ensure({}, {packages})>>,
         <<Remove({extractedDir})>>)
\* The online one asks the package manager, and leaves what it installed.
InstallPackages == Step({}, Exists({packages}), <<Ensure({}, {packages})>>, NoUndo)
InstallPackage(x)  == Repeated(<<Ensure({}, {Setting(x)})>>)
ExtractPackage(from, to) == Repeated(<<Fill({from}, {to})>>)

(* preflight; a requirement that holds is asked for once, one that does not *)
(* a second time, to report it                                              *)
CheckCPU           == Polled({Setting("cpu cores")})
CheckMemory        == Polled({Setting("memory")})
CheckDiskSpace     == Polled({Setting("disk space")})
CheckKernelVersion == Polled({Setting("kernel version")})
CheckVersionCompatibility == Polled({Setting("compatible versions")})
CheckDNSConfig        == Checked({File("/etc/resolv.conf")})
CheckHostConnectivity == Checked({Setting("open ports")})
CheckRequiredCommands == Checked({Setting("required commands")})
CheckTimeSync         == Checked({Running("chronyd")})
LintClusterSpec       == Checked({Setting("valid cluster spec")})
VerifyChecksums(S)    == Checked(S)
Confirm               == Checked({Setting("yes")})
PrintMessage          == Repeated(<<>>)
CheckPortConnectivity == Checked({Setting("open port")})
RunCommandForResult(out) == Repeated(<<Write({Shared(out)})>>)
CheckResource(x)      == Checked({Setting(x)})
=============================================================================
