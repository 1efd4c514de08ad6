----------------------------- MODULE StepEffects -----------------------------
(***************************************************************************)
(* The language the step catalogues are written in: what a step reads and  *)
(* changes on a machine, in the vocabulary of the runner (internal/runner) *)
(* and of the step helpers (internal/step/helpers).                        *)
(*                                                                         *)
(* A resource is "absent", "ok" (what the configuration of this run asks   *)
(* for) or "stale": present, but half written or made for an older         *)
(* configuration. A running service is stale when something it was started *)
(* from was.                                                               *)
(***************************************************************************)
EXTENDS Naturals, Sequences, FiniteSets

Value == {"absent", "stale", "ok"}

\* Resources. Work, and a component's archive and its extracted archive, are
\* in the work directory of the control node, Object in the Kubernetes API,
\* every other one on the host the step runs on.
Work(x)      == <<"work", x>>
Archive(x)   == <<"archive", x>>
Extracted(x) == <<"extracted", x>>
File(x)    == <<"file", x>>
Unit(x)    == <<"unit", x>>
Running(x) == <<"running", x>>
Enabled(x) == <<"enabled", x>>
Setting(x) == <<"setting", x>>
Object(x)  == <<"object", x>>
\* What a step leaves in the task cache for later ones of the same run, under
\* a key with or without the name of the host. The names of pipeline, module
\* and task that are also part of the keys are the same for every node.
Memory(x)  == <<"memory", x>>
Shared(x)  == <<"shared", x>>
\* An option a step insists on and its planner does not set, or an entry it
\* looks for in a cache nobody writes it to.
Unset      == <<"option", "unset">>
\* What systemd has loaded of the unit files.
Systemd    == <<"systemd", "units">>

\* What kubectl needs, given --kubeconfig /etc/kubernetes/admin.conf.
kubectlBin == File("/usr/local/bin/kubectl")
adminConf  == File("/etc/kubernetes/admin.conf")
Kubectl    == {kubectlBin, adminConf}

Effect(op, from, uses, to) ==
    [op |-> op, from |-> from, uses |-> uses, to |-> to, drops |-> {}]

\* A file is rendered or copied to a temporary path and moved into place.
Write(S)       == Effect("install", {}, {}, S)
Copy(F, S)     == Effect("install", F, {}, S)
\* A file or directory that grows where it stays.
Fill(F, S)     == Effect("fill", F, {}, S)
\* mkdir -p, and chmod of what is there in any case.
Mkdirp(S)      == Fill({}, S)
\* As Fill, but what is there already is left alone.
Ensure(F, S)   == Effect("ensure", F, {}, S)
\* As Ensure, and an error removes what was begun: downloads and archives.
Fetch(F, S)    == Effect("fetch", F, {}, S)
Remove(S)      == Effect("remove", {}, {}, S)
\* S is removed with the help of F; without it nothing happens.
Discard(F, S)  == Effect("discard", {}, F, S)
\* What an earlier step of the run remembered in m is removed and forgotten.
Reclaim(m, S)  == Discard({m}, S \cup {m})
\* S is overwritten with F if F is there.
Carry(F, S)    == Effect("carry", {}, F, S)
\* What a step remembers for its Rollback, in a field: the content of f, and that
\* f is its own creation.
Saved(f)       == <<"saved", f>>
Save(f)        == Effect("save", {}, {f}, {Saved(f)})
Created(f)     == <<"created", f>>
Note(f)        == Effect("note", {}, {f}, {Created(f)})
\* A file is renamed, if it is there; the step remembers that it did, and Back
\* renames it back.
Moved(t)       == <<"moved", t>>
Move(f, t)     == [Carry({f}, {t, Moved(t)}) EXCEPT !.drops = {f}]
Back(f, t)     == [Carry({t, Moved(t)}, {f}) EXCEPT !.drops = {t, Moved(t)}]
\* StartService does nothing to a service that is active.
Start(x, F, U) == Effect("start", F, U \cup {Systemd}, {Running(x)})
Restart(x, F, U) == Effect("restart", F, U \cup {Systemd}, {Running(x)})
StopService(x) == Effect("remove", {}, {}, {Running(x)})
Enable(x)      == Effect("install", {Unit(x)}, {}, {Enabled(x)})
Disable(x)     == Effect("remove", {}, {}, {Enabled(x)})
DaemonReload   == Effect("install", {}, {}, {Systemd})
\* The call fails unless all of F is there.
Need(F)        == Effect("need", F, {}, {})
\* A change made by handing F to a tool that reads it: kubectl, helm, kubeadm.
Apply(F, S)    == Effect("install", F, {}, S)

-----------------------------------------------------------------------------
(* Prechecks: a step is done when one of the alternatives holds. *)

Alternative(exist, same, gone) ==
    {[exist |-> exist, same |-> same, gone |-> gone]}
Never       == {}
Always      == Alternative({}, {}, {})
Exists(S)   == Alternative(S, {}, {})
Matches(S)  == Alternative({}, S, {})
Gone(S)     == Alternative({}, {}, S)
Both(A, B)  == {[exist |-> a.exist \cup b.exist, same |-> a.same \cup b.same,
                 gone |-> a.gone \cup b.gone] : a \in A, b \in B}

\* A step: what its Precheck fails without, when its Precheck says done, what
\* it fails without when it does not, what its Run does in order, what its
\* Rollback does in order.
Step(expects, done, run, undo) ==
    [expects |-> expects, done |-> done, asks |-> {}, run |-> run,
     undo |-> undo]
Asking(S, step) == [step EXCEPT !.asks = S]

NoUndo == <<>>

\* A download and the extraction of what was downloaded. The checksum GetBinary
\* finds is not stored in the Binary it returns, so VerifyLocalFileChecksum has
\* nothing to compare with and takes any file that exists.
Download(x) == Step({}, Exists({Archive(x)}), <<Fetch({}, {Archive(x)})>>,
                    <<Remove({Archive(x)})>>)
Extract(x)  == Step({Archive(x)}, Exists({Extracted(x)}),
                    <<Fetch({Archive(x)}, {Extracted(x)})>>,
                    <<Remove({Extracted(x)})>>)
\* A rendered file, compared with the one in place, and removed by Rollback.
Rendered(f) == Step({}, Matches({f}), <<Write({f})>>, <<Remove({f})>>)
\* The same for a unit file, which systemd has to reload.
RenderedUnit(f) == Step({}, Matches({f}), <<Write({f}), DaemonReload>>,
                        <<Remove({f}), DaemonReload>>)
\* A file copied from F, compared by hash with it.
Installed(F, f) == Step(F, Matches({f}), <<Copy(F, {f})>>, <<Remove({f})>>)
\* The same, when only the presence of the files is looked at.
InstalledOnce(F, S) == Step({}, Exists(S), <<Copy(F, S)>>, <<Remove(S)>>)
\* A step that only looks, and one that always runs and leaves its work.
Checked(S)     == Step({}, Never, <<Need(S)>>, NoUndo)
Repeated(run)  == Step({}, Never, run, NoUndo)
\* A step that looks once and then waits for the same.
Polled(S)      == Step({}, Exists(S), <<Need(S)>>, NoUndo)
\* Files and directories that are removed for good.
Cleared(S) == Step({}, Gone(S), <<Remove(S)>>, NoUndo)
\* The five service steps, for a service that is started from F and reads U.
\* The restart of a service that is not active is left to its start.
Starting(x, F, U)   == Step({}, Exists({Running(x)}), <<Start(x, F, U)>>,
                            <<StopService(x)>>)
Stopping(x, F, U)   == Step({}, Gone({Running(x)}), <<StopService(x)>>,
                            <<Start(x, F, U)>>)
Restarting(x, F, U) == Step({}, Gone({Running(x)}), <<Restart(x, F, U)>>, NoUndo)
Enabling(x)  == Step({}, Exists({Enabled(x)}), <<Enable(x)>>, <<Disable(x)>>)
Disabling(x) == Step({}, Gone({Enabled(x)}), <<Disable(x)>>, <<Enable(x)>>)

-----------------------------------------------------------------------------
(* What effects do to w, the resources as the step's host sees them. *)

Present(S, w) == \A r \in S : w[r] # "absent"

\* Mutants: one of the files is enough; nothing is ever done.
IsDoneAny(step, w) ==
    \E a \in step.done : /\ a.exist = {} \/ \E r \in a.exist : w[r] # "absent"
                         /\ \A r \in a.same : w[r] = "ok"
                         /\ \A r \in a.gone : w[r] = "absent"
IsDoneNever(step, w) == FALSE
IsDone(step, w) ==
    \E a \in step.done : /\ Present(a.exist, w)
                         /\ \A r \in a.same : w[r] = "ok"
                         /\ \A r \in a.gone : w[r] = "absent"

Can(e, w) == Present(e.from, w)

\* The targets an effect changes.
Touched(e, w) ==
    CASE e.op \in {"ensure", "fetch", "start"} -> {r \in e.to : w[r] = "absent"}
      [] e.op \in {"discard", "carry"} /\ ~Present(e.uses, w) -> {}
      [] OTHER -> e.to

Result(e, w) ==
    IF \/ e.op \in {"remove", "discard"}
       \/ e.op = "save" /\ ~Present(e.uses, w)
       \/ e.op = "note" /\ Present(e.uses, w)
    THEN "absent"
    ELSE IF \A r \in e.from \cup e.uses : w[r] = "ok" THEN "ok" ELSE "stale"

\* A unit file that replaces or removes a loaded one is not seen by systemd
\* before it reloads.
SystemdAfter(T, w) ==
    IF Systemd \in T THEN "ok"
    ELSE IF \E r \in T : r[1] = "unit" /\ w[r] # "absent" THEN "stale"
    ELSE w[Systemd]

SetTo(T, v, w) ==
    [r \in DOMAIN w |-> IF r = Systemd THEN SystemdAfter(T, w)
                        ELSE IF r \in T THEN v ELSE w[r]]

Do(e, w) ==
    LET T == Touched(e, w)
        v == SetTo(T, Result(e, w), w)
    IN  IF T = {} THEN v ELSE SetTo(e.drops, "absent", v)

\* What is left of an effect that is cut short, by an error of its own or by
\* the end of the process.
Partly(e, w, crash) ==
    CASE e.op \in {"carry", "save", "note"} -> {w, Do(e, w)}
      [] e.op \in {"install", "remove", "discard"} ->
             {SetTo(T, Result(e, w), w) : T \in SUBSET Touched(e, w)}
      [] e.op \in {"fill", "ensure"} \/ (e.op = "fetch" /\ crash) ->
             {w, SetTo(Touched(e, w), "stale", w)}
      [] e.op = "fetch" /\ ~crash -> {w}
      [] e.op \in {"start", "restart"} ->
             {w, SetTo(Touched(e, w), "absent", w)}
      [] OTHER -> {w}

\* An effect that cannot be applied is an error, and changes nothing.
Attempt(e, w) == IF Can(e, w) THEN Do(e, w) ELSE w

\* The worlds before, between and after the effects. Run stops at the first error;
\* Rollback goes on, as its callers only log it.
Trail(run, w) ==
    LET at[i \in 0 .. Len(run)] == IF i = 0 THEN w ELSE Attempt(run[i], at[i - 1])
    IN  at
After(run, k, w) == Trail(run, w)[k]

\* The effects before the first that cannot be applied.
Reach(run, w) ==
    CHOOSE k \in 0 .. Len(run) :
        /\ \A i \in 1 .. k : Can(run[i], After(run, i - 1, w))
        /\ k < Len(run) => ~Can(run[k + 1], After(run, k, w))

Starves(run, w) == Reach(run, w) < Len(run)

\* The worlds a Run may leave behind when it does not succeed.
Interrupted(run, w, crash) ==
    UNION {Partly(run[k], After(run, k - 1, w), crash) :
               k \in 1 .. Reach(run, w)}

Undone(undo, w) == After(undo, Len(undo), w)

-----------------------------------------------------------------------------
(* The resources a step reads and changes. *)

Effects(seq) == {seq[k] : k \in DOMAIN seq}
RunReads(s)  == UNION {e.from \cup e.uses : e \in Effects(s.run)}
Reads(s)     == s.expects \cup s.asks \cup RunReads(s)
                \cup UNION {a.exist \cup a.same \cup a.gone : a \in s.done}
Changes(s)   == UNION {e.to \cup e.drops : e \in Effects(s.run)}
Makes(s)     == UNION {e.to : e \in {x \in Effects(s.run) :
                                      x.op \notin {"remove", "discard"}}}
\* What the last effect on it makes, not removes.
Leaves(s)    ==
    {r \in Makes(s) : \E k \in DOMAIN s.run :
        /\ r \in s.run[k].to \ s.run[k].drops
        /\ s.run[k].op \notin {"remove", "discard"}
        /\ \A i \in k + 1 .. Len(s.run) : r \notin s.run[i].to \cup s.run[i].drops}
Undoes(s)    == UNION {e.to \cup e.drops : e \in Effects(s.undo)}
Resources(s) == {Systemd} \cup Reads(s) \cup Changes(s) \cup Undoes(s)
                \cup UNION {e.from \cup e.uses : e \in Effects(s.undo)}

-----------------------------------------------------------------------------
(* What can be said of a step before it runs. A resource is "there" or "gone". *)

Is(x, v)    == IF v = "gone" THEN x = "absent" ELSE x # "absent"
Opposite(v) == IF v = "gone" THEN "there" ELSE "gone"

\* What an effect may turn to v, wherever it is cut short.
MayTurn(e, v) ==
    IF v = "gone"
    THEN (e.drops \cup IF e.op \in {"remove", "discard", "save", "note", "restart"}
                       THEN e.to ELSE {}) \ {Systemd}
    ELSE (IF e.op \in {"remove", "discard"} THEN {} ELSE e.to) \cup {Systemd}

\* What is v after the effect, whatever it was before.
MustTurn(e, v) ==
    IF v = "gone"
    THEN (IF e.op = "remove" THEN e.to ELSE {}) \ {Systemd}
    ELSE IF e.op \in {"install", "fill", "ensure", "fetch", "start", "restart"}
         THEN e.to \ e.drops ELSE {}

\* What a step may leave different from v, be it that it fails and is rolled back.
Upsets(s, v) ==
    UNION {MayTurn(e, Opposite(v)) : e \in Effects(s.run) \cup Effects(s.undo)}

\* What an alternative of a Precheck says to be v.
Shows(a, v) == IF v = "gone" THEN a.gone ELSE a.exist \cup a.same

\* What is v for certain when the step is done, by its Precheck or by its Run.
Ensures(s, v) ==
    {r \in UNION {MustTurn(e, v) : e \in Effects(s.run)} :
        /\ \A a \in s.done : r \in Shows(a, v)
        /\ \E k \in DOMAIN s.run :
               /\ r \in MustTurn(s.run[k], v)
               /\ \A i \in k + 1 .. Len(s.run) : r \notin MayTurn(s.run[i], Opposite(v))}

\* The step misses nothing when N is there: what an effect needs is in N or made by
\* an effect before it, and no effect in between removes it.
FedBy(s, N) ==
    /\ s.expects \subseteq N
    /\ s.asks \subseteq N
    /\ \A k \in DOMAIN s.run : \A r \in s.run[k].from :
           \E i \in 0 .. k - 1 :
               /\ IF i = 0 THEN r \in N ELSE r \in MustTurn(s.run[i], "there")
               /\ \A m \in i + 1 .. k - 1 : r \notin MayTurn(s.run[m], "gone")

\* The step cannot be done while r is gone.
Insists(s, r) ==
    \/ r \in s.expects
    \/ /\ r \in s.asks \cup UNION {e.from : e \in Effects(s.run)}
       /\ \A a \in s.done : r \in Shows(a, "there")
=============================================================================
