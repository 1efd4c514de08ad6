----------------------------- MODULE CommonSteps -----------------------------
(* The steps of internal/step/common, and of binary, command, datashare,    *)
(* pre and runtime/common, which any task may use: what they act on is a    *)
(* parameter.                                                               *)
EXTENDS StepEffects

(* files; DownloadFile and ExtractArchive work on the control node *)
DeleteFile(f) == Cleared({f})
Mkdir(d)      == Step({}, Matches({d}), <<Mkdirp({d})>>, <<Remove({d})>>)
\* A file with another checksum is removed by Precheck already.
DownloadFile(w) ==
    Step({}, Matches({w}), <<Remove({w}), Write({w})>>, <<Remove({w})>>)
\* Without files to expect, a directory that exists is no reason to be done.
ExtractArchive(a, d, expected) ==
    Step({}, IF expected = {} THEN Never ELSE Exists({d} \cup expected),
         <<Fill({a}, {d} \cup expected)>>, <<Remove({d} \cup expected)>>)
FileChecksum(w) == Step({w}, Never, <<Need({w})>>, NoUndo)
RemoteFileChecksum(f) == Step({f}, Never, <<Need({f})>>, NoUndo)
RemoteDownloadFile(f, checksum) ==
    Step({}, IF checksum THEN Matches({f}) ELSE Exists({f}),
         <<Fill({}, {f})>> \o (IF checksum THEN <<Need({f})>> ELSE <<>>), <<Remove({f})>>)
\* Where the archive is and where it went are passed on under keys.
ExtractArchiver(inKey, outKey, d) ==
    Step({}, Exists({Memory(outKey), d}),
         <<Need({Memory(inKey)}), Fill({}, {d}), Write({Memory(outKey)})>>, <<Remove({d})>>)
RenderTemplate(f) == Rendered(f)
UploadFile(w, f)  == Installed({w}, f)

(* certificates, on the control node *)
GenerateCA(cert, key)    == Step({}, Exists({cert, key}), <<Write({cert, key})>>,
                                 <<Remove({cert, key})>>)
GenerateCAPEM(cert, key) == GenerateCA(cert, key)
GenerateCerts(ca, cert, key)    == Step({}, Exists({cert, key}), <<Copy(ca, {cert, key})>>,
                                        <<Remove({cert, key})>>)
GenerateCertsPEM(ca, cert, key) == GenerateCerts(ca, cert, key)

(* packages, tools and services *)
InstallPackages(x, removeOnRollback) ==
    Step({}, Exists({Setting(x)}), <<Ensure({}, {Setting(x)})>>,
         IF removeOnRollback THEN <<Remove({Setting(x)})>> ELSE NoUndo)
UninstallPackage(x) == Cleared({Setting(x)})
tool(x) == File("/usr/local/bin/" \o x)
InstallToolBinaries(X) ==
    Step({}, Exists({tool(x) : x \in X}),
         <<Copy({Archive(x) : x \in X}, {tool(x) : x \in X})>>, NoUndo)
\* One of the service steps, by its action; a restart is never done already.
ManageServiceStart(x)   == [Starting(x, {Unit(x)}, {}) EXCEPT !.undo = NoUndo]
ManageServiceStop(x)    == [Stopping(x, {Unit(x)}, {}) EXCEPT !.undo = NoUndo]
ManageServiceRestart(x) == Repeated(<<Restart(x, {Unit(x)}, {})>>)
ManageServiceEnable(x)  == [Enabling(x) EXCEPT !.undo = NoUndo]
ManageServiceDisable(x) == [Disabling(x) EXCEPT !.undo = NoUndo]
ManageServiceReload     == Repeated(<<DaemonReload>>)

(* the operating system *)
rule == Setting("firewall rule")
ManageFirewallRule(present) ==
    IF present THEN Step({}, Exists({rule}), <<Write({rule})>>, <<Remove({rule})>>)
    ELSE Step({}, Gone({rule}), <<Remove({rule})>>, <<Write({rule})>>)
ManageFirewallState(running) ==
    IF running THEN Starting("firewalld", {}, {}) ELSE Stopping("firewalld", {}, {})
entry == Setting("/etc/hosts entry")
ManageHosts(present) ==
    IF present THEN Step({}, Matches({entry}), <<Write({entry})>>, <<Remove({entry})>>)
    ELSE Step({}, Gone({entry}), <<Remove({entry})>>, <<Write({entry})>>)
ManageLimits  == Step({}, Matches({Setting("limits")}), <<Write({Setting("limits")})>>, NoUndo)
loaded == Setting("loaded modules")
ManageModules ==
    Step({}, Exists({loaded, File("modules.conf")}),
         <<Write({loaded}), Write({File("modules.conf")})>>, <<Remove({File("modules.conf")})>>)
ManageSELinux == Step({}, Matches({Setting("mode"), File("/etc/selinux/config")}),
                      <<Write({Setting("mode")}), Write({File("/etc/selinux/config")})>>, NoUndo)
\* Both what is in use and /etc/fstab have to agree with what is asked for.
ManageSwap(enabled) ==
    LET both == {Setting("swap"), Setting("swap in /etc/fstab")}
    IN  IF enabled
        THEN Step({}, Exists(both), <<Write({Setting("swap in /etc/fstab")}),
                                      Write({Setting("swap")})>>, NoUndo)
        ELSE Step({}, Gone(both), <<Remove({Setting("swap in /etc/fstab")}),
                                    Remove({Setting("swap")})>>, NoUndo)
ManageSysctl ==
    Step({}, Matches({File("sysctl.conf")}),
         <<Write({File("sysctl.conf")}),
           Effect("install", {}, {File("sysctl.conf")}, {Setting("parameters")})>>,
         <<Remove({File("sysctl.conf")})>>)
SetHostname == Step({}, Matches({Setting("hostname")}), <<Write({Setting("hostname")})>>, NoUndo)

(* images *)
images == Setting("images")
PullImages      == Step({}, Exists({images}), <<Ensure({}, {images})>>, NoUndo)
PushImages      == Repeated(<<Apply({images}, {Object("images")})>>)
TransformImages == Repeated(<<Write({Shared("images")})>>)

(* looking and talking *)
CheckConnectivity == Checked({Setting("ssh port")})
GatherFacts       == Step({}, Exists({Setting("facts")}),
                          <<Write({Memory("facts")})>>, NoUndo)
WaitForPort(p)    == Polled({Setting(p)})
UserInput(assumeYes) ==
    IF assumeYes THEN Step({}, Always, <<>>, NoUndo) ELSE Checked({Setting("yes")})
NoOp         == Step({}, Always, <<>>, NoUndo)
PrintMessage == Repeated(<<>>)
ReportTable  == Repeated(<<>>)

(* binary, command, datashare, pre *)
CopyBinary(from, to) == Step({}, Never, <<Fill({from}, {to})>>, <<Remove({to})>>)
DownloadBinary(f)    == Step({}, Exists({f}), <<Fill({}, {f})>>, <<Remove({f})>>)
ExtractBinary(a, d)  == Repeated(<<Fill({a}, {d})>>)
\* Every binary the configuration asks for; one that is there is kept, as no
\* checksum is known.
DownloadBinaries(X)  == Repeated(<<Ensure({}, {Archive(x) : x \in X})>>)
\* A command with its check and the command that undoes it.
Command(check, does, undoes) == Step({}, check, <<does>>, undoes)
RunCommand(does)     == Repeated(<<does>>)
ShareData(from, to)  == Repeated(<<Fill({from}, {to})>>)
VerifyChecksums(S)   == Checked(S)
Confirm(assumeYes)   == UserInput(assumeYes)

(* runtime/common *)
CopyConfig(key, f) ==
    Step({Shared(key)}, Matches({f}),
         <<Note(f), Copy({Shared(key)}, {f})>>,
         <<Reclaim(Created(f), {f})>>)
PrepareRuntimeDirs(S)  == Repeated(<<Mkdirp(S)>>)
DispatchBinary(from, to) == Step({}, Exists({to}), <<Fill({from}, {to})>>, <<Remove({to})>>)
RenderConfig(key)      == Repeated(<<Write({Shared(key)})>>)
Service(e)             == Repeated(<<e>>)
EnableService(x)       == [Enabling(x) EXCEPT !.undo = NoUndo]
StartService(x)        == [Starting(x, {Unit(x)}, {}) EXCEPT !.undo = NoUndo]
RestartService(x)      == Repeated(<<Restart(x, {Unit(x)}, {})>>)
=============================================================================
