------------------------------- MODULE TaskRun -------------------------------
(***************************************************************************)
(* A task of internal/task: the graph its Plan builds, executed by the     *)
(* engine. Every node runs its step on its hosts, in any order the edges   *)
(* allow, and any number of nodes at a time; a Run may fail and be rolled  *)
(* back, which cancels the other hosts of its node; the process may end in *)
(* the middle of any number of them; and the whole task may be run again   *)
(* on what is left.                                                        *)
(*                                                                         *)
(* runStepOnHost itself, with its retries, panics and timeouts, is the     *)
(* subject of NodeRun; here its outcome is chosen.                         *)
(***************************************************************************)
EXTENDS StepEffects, TaskGraphs
LOCAL INSTANCE TLC

CONSTANTS
    Cases,      \* the tasks, by name: see Case
    Faults,     \* what may go wrong: "error", "late", "crash"
    MaxRounds,  \* how often the task is run
    MaxFaults   \* how often something goes wrong by itself

ASSUME FaultAssumption == Faults \subseteq {"error", "late", "crash"}
ASSUME BoundAssumption == MaxRounds \in Nat \ {0} /\ MaxFaults \in Nat

\* A graph; the hosts of every role; what is on the hosts to begin with although
\* the task makes it too; what nobody provides although a step asks for it; and
\* which of the promises below the task does not keep.
Case(graph, layout) ==
    [graph |-> graph, layout |-> layout, has |-> {}, lacks |-> {}, breaks |-> {},
     purge |-> FALSE]
\* A deployment that is taken down again.
Purge(deploy, clean, layout) == [Case(Then(deploy, clean), layout) EXCEPT !.purge = TRUE]
Having(S, case)  == [case EXCEPT !.has = S]
Lacking(S, case) == [case EXCEPT !.lacks = S]
But(P, case)     == [case EXCEPT !.breaks = P]

\* The hosts GetHostsByRole gives the planners, masters and workers being those
\* of the role groups. The planner of "nodes" appends the workers to the masters,
\* so a host that is both is listed twice. No role group gives a host the role
\* "control-plane", and some planners give their nodes no hosts at all.
Layout(masters, workers) ==
    LET pure == SelectSeq(workers, LAMBDA h : \A i \in DOMAIN masters :
                                                  h # masters[i])
        Others(hosts) == IF hosts = <<>> THEN <<>> ELSE Tail(hosts)
        First(hosts)  == IF hosts = <<>> THEN <<>> ELSE <<hosts[1]>>
    IN  [control |-> <<"control">>, controlPlane |-> <<>>, nobody |-> <<>>,
         masters |-> masters, firstMaster |-> First(masters),
         otherMasters |-> Others(masters),
         workers |-> workers, firstWorker |-> First(pure),
         otherWorkers |-> Others(pure),
         nodes |-> masters \o workers, all |-> masters \o pure,
         etcd |-> masters, firstEtcd |-> First(masters), otherEtcd |-> Others(masters),
         balancers |-> masters, registry |-> First(masters)]

\* Where job j, on host h, finds resource r. A node has one step, so what that keeps
\* in a field is the same for all hosts of the node.
LocatedAt(j, h, r) ==
    CASE r[1] \in {"work", "archive", "extracted", "shared"} -> "control"
      [] r[1] = "object" -> "cluster"
      [] r[1] \in {"created", "saved"} -> ToString(j[1])
      [] OTHER -> h
InMemory(r) == r[1] \in {"memory", "shared", "moved", "created", "saved"}
Spot(j, h, r)  == <<LocatedAt(j, h, r), r>>

\* What is to be done for a case. A job is one of the hosts of a node; a resource
\* has its spots at the hosts of the jobs that touch it.
Planned(case) ==
    LET \* The planners that ask for the hosts of role "control-plane" return an empty
        \* fragment without any.
        nodes == {n \in DOMAIN case.graph.nodes : case.graph.nodes[n].on # "controlPlane"}
        StepOf(j) == case.graph.nodes[j[1]].step
        Hosts(n) == case.layout[case.graph.nodes[n].on]
        jobs == UNION {{<<n, i>> : i \in DOMAIN Hosts(n)} : n \in nodes}
        Host(j) == Hosts(j[1])[j[2]]
        Spots(F(_)) == UNION {{Spot(j, Host(j), r) : r \in F(StepOf(j))} : j \in jobs}
        made == Spots(Makes)
        left == Spots(Leaves)
        removed == Spots(LAMBDA s : Changes(s) \ Leaves(s))
        \* What the steps need and no step of the task makes is there already.
        given == {p \in Spots(LAMBDA s : s.expects \cup s.asks \cup RunReads(s)) \ made :
                     ~InMemory(p[2]) /\ p[2] # Unset /\ p[2] \notin case.lacks}
        Fresh(p) == IF p \in given \/ p[2] = Systemd \/ p[2] \in case.has
                    THEN "ok" ELSE "absent"
        Earlier(p) == IF InMemory(p[2]) \/ p[2] = Unset \/ p[2] \in case.lacks
                          \/ p \in given \/ p[2] = Systemd
                      THEN Fresh(p) ELSE "stale"
        Lasts(p) == ~InMemory(p[2]) /\ p[2] # Systemd
    IN  [nodes   |-> nodes,
         jobs    |-> jobs,
         step    |-> [j \in jobs |-> StepOf(j)],
         host    |-> [j \in jobs |-> Host(j)],
         before  |-> [j \in jobs |-> {i \in jobs : <<i[1], j[1]>> \in case.graph.edges}],
         touches |-> [j \in jobs |-> Resources(StepOf(j))],
         fresh   |-> [p \in Spots(Resources) |-> Fresh(p)],
         earlier |-> [p \in Spots(Resources) |-> Earlier(p)],
         \* What the task is there to make.
         goals   |-> {p \in left \ removed : Lasts(p)},
         \* What is to be gone in the end: what the task is there to remove and, when
         \* it takes down what it deployed, all it made outside the work directory.
         waste   |-> {p \in removed \ left : ~InMemory(p[2])} \cup
                     {p \in left : case.purge /\ p[1] # "control" /\ Lasts(p)},
         breaks  |-> case.breaks]

Plans == [t \in DOMAIN Cases |-> Planned(Cases[t])]

\* A node without hosts has no jobs to wait for, so none may stand between two others.
ASSUME CaseAssumption ==
    \A t \in DOMAIN Cases : \E c \in {Cases[t]} : \A e \in c.graph.edges :
        \/ c.layout[c.graph.nodes[e[1]].on] # <<>>
        \/ \A n \in DOMAIN c.graph.nodes : c.layout[c.graph.nodes[n].on] = <<>>

\* Nodes are numbered in order, and so is what Run and Rollback do.
Listed(q) == q \in Seq({q[k] : k \in DOMAIN q})
ASSUME GraphAssumption ==
    \A t \in DOMAIN Cases : \E g \in {Cases[t].graph} :
        /\ Listed(g.nodes)
        /\ \A n \in DOMAIN g.nodes : Listed(g.nodes[n].step.run) /\ Listed(g.nodes[n].step.undo)

VARIABLES
    task,     \* the name of the task
    old,      \* whether an earlier installation was there to begin with
    world,    \* the resources of every place
    status,   \* how far every node is on every one of its hosts
    round,    \* the run of the task this is
    faults,   \* what has gone wrong so far, in order
    down,     \* whether the process of this round has ended before its time
    cut,      \* ghost: a Run was cut short and not rolled back
    starved,  \* ghost: a step found something missing that it needs
    kept      \* ghost: the world the last round left, if all of it succeeded

vars == <<task, old, world, status, round, faults, down, cut, starved, kept>>

\* In what follows plan is Plans[task].

Init ==
    /\ task \in DOMAIN Plans
    /\ old \in BOOLEAN
    /\ \E plan \in {Plans[task]} :
           /\ world = IF old THEN plan.earlier ELSE plan.fresh
           /\ status = [j \in plan.jobs |-> "pending"]
    /\ round = 1
    /\ faults = <<>>
    /\ down = FALSE
    /\ cut = FALSE
    /\ starved = FALSE
    /\ kept = <<>>

-----------------------------------------------------------------------------

\* All jobs of the nodes before that of j are done.
Ready(plan, j) == \A i \in plan.before[j] : status[i] = "done"

\* What the step of job j sees, and what the world is once it sees w.
View(plan, j) == [r \in plan.touches[j] |-> world[Spot(j, plan.host[j], r)]]
Stored(plan, j, w) ==
    [p \in DOMAIN world |->
        IF p[2] \in DOMAIN w /\ p = Spot(j, plan.host[j], p[2]) THEN w[p[2]] ELSE world[p]]

\* A step fails its Precheck without what that needs, or what Run asks for first.
Lost(s, w) == ~Present(s.expects, w) \/ (~IsDone(s, w) /\ ~Present(s.asks, w))

\* Mutants: a step that is done already has a status of its own; what a Precheck
\* fails without is not an error.
PrecheckSkips(plan, j) ==
    /\ status[j] = "pending"
    /\ Ready(plan, j)
    /\ \E w \in {View(plan, j)}, s \in {plan.step[j]} :
           /\ status' = [status EXCEPT ![j] = IF Lost(s, w) THEN "failed"
                                              ELSE IF IsDone(s, w) THEN "skipped"
                                              ELSE "running"]
           /\ starved' = (starved \/ Lost(s, w))
    /\ UNCHANGED <<task, old, world, round, faults, down, cut, kept>>
PrecheckLenient(plan, j) ==
    /\ status[j] = "pending"
    /\ Ready(plan, j)
    /\ \E w \in {View(plan, j)}, s \in {plan.step[j]} :
           status' = [status EXCEPT ![j] = IF Lost(s, w) \/ IsDone(s, w) THEN "done"
                                           ELSE "running"]
    /\ UNCHANGED <<task, old, world, round, faults, down, cut, starved, kept>>
\* runStepOnHost up to Run.
Precheck(plan, j) ==
    /\ status[j] = "pending"
    /\ Ready(plan, j)
    /\ \E w \in {View(plan, j)}, s \in {plan.step[j]} :
           /\ status' = [status EXCEPT ![j] = IF Lost(s, w) THEN "failed"
                                              ELSE IF IsDone(s, w) THEN "done"
                                              ELSE "running"]
           /\ starved' = (starved \/ Lost(s, w))
    /\ UNCHANGED <<task, old, world, round, faults, down, cut, kept>>

Run(plan, j) ==
    /\ status[j] = "running"
    /\ \E w \in {View(plan, j)}, run \in {plan.step[j].run} :
           /\ ~Starves(run, w)
           /\ world' = Stored(plan, j, After(run, Len(run), w))
    /\ status' = [status EXCEPT ![j] = "done"]
    /\ UNCHANGED <<task, old, round, faults, down, cut, starved, kept>>

\* Something the step needs is missing; what it did is rolled back.
RunStarves(plan, j) ==
    /\ status[j] = "running"
    /\ \E w \in {View(plan, j)}, s \in {plan.step[j]} :
           /\ Starves(s.run, w)
           /\ world' = Stored(plan, j, Undone(s.undo, After(s.run, Reach(s.run, w), w)))
    /\ status' = [status EXCEPT ![j] = "failed"]
    /\ starved' = TRUE
    /\ UNCHANGED <<task, old, round, faults, down, cut, kept>>

\* One of the hosts of a node has failed, so the context of all of them is done.
Canceled(plan, j) == \E i \in plan.jobs : i[1] = j[1] /\ status[i] = "failed"

\* Precheck fails because of that.
PrecheckCanceled(plan, j) ==
    /\ status[j] = "pending"
    /\ Ready(plan, j)
    /\ Canceled(plan, j)
    /\ status' = [status EXCEPT ![j] = "failed"]
    /\ UNCHANGED <<task, old, world, round, faults, down, cut, starved, kept>>

Fault(fault) ==
    /\ Len(faults) < MaxFaults
    /\ fault \in Faults
    /\ faults' = Append(faults, fault)

\* A Run ends before its time and leaves something between nothing and all.
CutShort(j) ==
    /\ status[j] = "running"
    /\ status' = [status EXCEPT ![j] = "failed"]
    /\ UNCHANGED <<task, old, round, starved, kept>>

\* Mutants: a Run that failed is reported as done; Rollback is not called.
RunFailsHidden(plan, j) ==
    /\ status[j] = "running"
    /\ Fault("error")
    /\ \E w \in Interrupted(plan.step[j].run, View(plan, j), FALSE) :
           world' = Stored(plan, j, Undone(plan.step[j].undo, w))
    /\ status' = [status EXCEPT ![j] = "done"]
    /\ UNCHANGED <<task, old, round, down, cut, starved, kept>>
RunFailsKept(plan, j) ==
    /\ CutShort(j)
    /\ Fault("error")
    /\ \E w \in Interrupted(plan.step[j].run, View(plan, j), FALSE) :
           world' = Stored(plan, j, w)
    /\ UNCHANGED <<down, cut>>
\* Run fails and is rolled back.
RunFails(plan, j) ==
    /\ CutShort(j)
    /\ Fault("error")
    /\ \E w \in Interrupted(plan.step[j].run, View(plan, j), FALSE) :
           world' = Stored(plan, j, Undone(plan.step[j].undo, w))
    /\ UNCHANGED <<down, cut>>

\* Run fails because its time is over or another host of the node has failed. Its
\* context is done, and so nothing is rolled back.
RunFailsLate(plan, j) ==
    /\ CutShort(j)
    /\ Fault("late") \/ (Canceled(plan, j) /\ UNCHANGED faults)
    /\ \E w \in Interrupted(plan.step[j].run, View(plan, j), FALSE) :
           world' = Stored(plan, j, w)
    /\ cut' = TRUE
    /\ UNCHANGED down

\* The process ends in the middle of a Run, and of all others that are running: from
\* here on they can but be cut short.
Crash(plan, j) ==
    /\ CutShort(j)
    /\ Fault("crash") \/ (down /\ UNCHANGED faults)
    /\ \E w \in Interrupted(plan.step[j].run, View(plan, j), TRUE) :
           world' = Stored(plan, j, w)
    /\ down' = TRUE
    /\ cut' = TRUE

\* A host that is listed twice has one result, of the goroutine that records it last:
\* the node does not fail when that is the one that succeeded.
RecordLast(plan, j) ==
    /\ status[j] = "failed"
    /\ \A i \in plan.jobs : i[1] = j[1] => status[i] \in {"done", "failed"}
    /\ \E i \in plan.jobs : /\ i[1] = j[1] /\ plan.host[i] = plan.host[j]
                            /\ status[i] = "done"
    /\ status' = [status EXCEPT ![j] = "done"]
    /\ UNCHANGED <<task, old, world, round, faults, down, cut, starved, kept>>

\* No step can be taken any more in this round.
Settled(plan) == \A j \in plan.jobs :
                     /\ status[j] # "running"
                     /\ ~(status[j] = "pending" /\ ~down /\ Ready(plan, j))

AllDone == \A j \in DOMAIN status : status[j] = "done"

\* kubexm is started again: the task is planned anew, and nothing is remembered
\* but what tasks before this one leave in the caches.
Rerun(plan) ==
    /\ Settled(plan)
    /\ round < MaxRounds
    /\ world' = [p \in DOMAIN world |->
                    IF InMemory(p[2]) THEN plan.fresh[p] ELSE world[p]]
    /\ status' = [j \in plan.jobs |-> "pending"]
    /\ round' = round + 1
    /\ down' = FALSE
    /\ kept' = IF AllDone THEN world' ELSE <<>>
    /\ UNCHANGED <<task, old, faults, cut, starved>>

Next ==
    \E plan \in {Plans[task]} :
        \/ /\ ~down
           /\ \E j \in plan.jobs : \/ Precheck(plan, j)
                                   \/ PrecheckCanceled(plan, j)
                                   \/ Run(plan, j)
                                   \/ RunStarves(plan, j)
                                   \/ RunFails(plan, j)
                                   \/ RunFailsLate(plan, j)
                                   \/ RecordLast(plan, j)
        \/ \E j \in plan.jobs : Crash(plan, j)
        \/ Rerun(plan)

Spec == Init /\ [][Next]_vars

-----------------------------------------------------------------------------
(* What the edges of a graph order. *)

\* The jobs that are done before job j can start: those of the nodes before its
\* node, those before them, and so on.
Ancestors(plan, j) ==
    LET With(S) == S \cup UNION {plan.before[i] : i \in S}
        up[n \in 0 .. Cardinality(plan.nodes)] ==
            IF n = 0 THEN plan.before[j] ELSE With(up[n - 1])
    IN  up[Cardinality(plan.nodes)]

\* Where job i changes what job j reads or changes. (systemd is asked to reload by
\* many steps; it does not matter how often.)
Clash(plan, i, j) ==
    {Spot(i, plan.host[i], r) : r \in Changes(plan.step[i]) \ {Systemd}}
    \cap {Spot(j, plan.host[j], r) :
              r \in RunReads(plan.step[j]) \cup Changes(plan.step[j])}

\* There is an edge, or a chain of them, between any two jobs that clash.
ClashesOrdered(plan) ==
    \A i, j \in plan.jobs :
        i # j /\ Clash(plan, i, j) # {} =>
            i \in Ancestors(plan, j) \/ j \in Ancestors(plan, i)

-----------------------------------------------------------------------------
(* What a plan promises whatever happens when it is carried out, and how often. *)

At(plan, j, R)      == {Spot(j, plan.host[j], r) : r \in R}
EnsuredBy(plan, j, v) == At(plan, j, Ensures(plan.step[j], v))
UpsetBy(plan, j, v) == At(plan, j, Upsets(plan.step[j], v))

\* Job i makes p be v, and whatever may make it different is over before i starts.
SettledBy(plan, i, p, v) ==
    /\ p \in EnsuredBy(plan, i, v)
    /\ \A k \in plan.jobs :
           p \in UpsetBy(plan, k, v) => k = i \/ k \in Ancestors(plan, i)

\* p is there from the beginning, and nobody takes it away.
Given(plan, p) ==
    /\ plan.fresh[p] # "absent" /\ plan.earlier[p] # "absent"
    /\ \A k \in plan.jobs : p \notin UpsetBy(plan, k, "there")

\* Job i comes before j and makes p, and whatever may remove it is over before i
\* starts, or does not start before j is done.
SuppliedBy(plan, i, j, p) ==
    /\ i \in Ancestors(plan, j)
    /\ p \in EnsuredBy(plan, i, "there")
    /\ \A k \in plan.jobs \ {i, j} :
           p \in UpsetBy(plan, k, "there") =>
               k \in Ancestors(plan, i) \/ j \in Ancestors(plan, k)

\* Every job has what its step needs.
Supplies(plan, j) ==
    {r \in plan.touches[j] : \E p \in {Spot(j, plan.host[j], r)} :
        Given(plan, p) \/ \E i \in plan.jobs : SuppliedBy(plan, i, j, p)}
Feeds(plan) == \A j \in plan.jobs : FedBy(plan.step[j], Supplies(plan, j))

\* Some job makes every goal, or removes all waste, for good.
Builds(plan) == \A p \in plan.goals : \E i \in plan.jobs : SettledBy(plan, i, p, "there")
Clears(plan) == \A p \in plan.waste : \E i \in plan.jobs : SettledBy(plan, i, p, "gone")

\* Edges lead from nodes to nodes added later, and every node has a host.
Forward(plan) == \A j \in plan.jobs : \A i \in plan.before[j] : i[1] < j[1]
Hosted(plan)  == \A n \in plan.nodes : \E j \in plan.jobs : j[1] = n

\* Some job insists on what only comes into being after it is done.
Stuck(plan) ==
    \E j \in plan.jobs : \E r \in plan.touches[j] : \E p \in {Spot(j, plan.host[j], r)} :
        /\ Insists(plan.step[j], r)
        /\ plan.fresh[p] = "absent"
        /\ \A k \in plan.jobs : p \in UpsetBy(plan, k, "gone") => j \in Ancestors(plan, k)

-----------------------------------------------------------------------------

Keeps(plan, promise) == promise \notin plan.breaks
\* A task that is not crash safe promises nothing once a Run was cut short and not
\* rolled back.
Stands(plan, promise) == Keeps(plan, promise) /\ (cut => Keeps(plan, "CrashSafe"))

\* Every variable has its type.
TypeOK ==
    /\ task \in DOMAIN Plans
    /\ old \in BOOLEAN /\ down \in BOOLEAN /\ cut \in BOOLEAN /\ starved \in BOOLEAN
    /\ \A plan \in {Plans[task]} :
           /\ world \in [DOMAIN plan.fresh -> Value]
           /\ kept # <<>> => kept \in [DOMAIN plan.fresh -> Value]
           /\ status \in [plan.jobs -> {"pending", "running", "done", "failed"}]
    /\ round \in 1 .. MaxRounds
    /\ \E k \in 0 .. MaxFaults : faults \in [1 .. k -> Faults]

\* Whatever order the edges of the planned graph leave open, and whatever an
\* earlier round has left behind, no step finds missing what it needs.
NeedsMet == starved => \A plan \in {Plans[task]} : ~Stands(plan, "NeedsMet")

\* Two steps that run at the same time do not change what the other one reads or
\* changes.
RaceFree ==
    \A plan \in {Plans[task]} : Keeps(plan, "RaceFree") =>
        \A i, j \in plan.jobs :
            (i # j /\ status[i] = "running" /\ status[j] = "running") =>
                Clash(plan, i, j) = {}

\* A task that succeeds leaves all it is there to make, even when the steps found
\* some of it from an earlier installation or an interrupted round.
Deployed ==
    AllDone => \A plan \in {Plans[task]} : Stands(plan, "Deployed") =>
                   \A p \in plan.goals : world[p] # "absent"

\* A task that succeeds on hosts without an earlier installation leaves nothing
\* half made, whatever interrupted its earlier rounds.
Current ==
    AllDone /\ ~old => \A plan \in {Plans[task]} : Stands(plan, "Current") =>
                           \A p \in plan.goals : world[p] = "ok"

Lasting(w) == [p \in {q \in DOMAIN w : ~InMemory(q[2])} |-> w[p]]

\* A task that succeeded and is run again changes nothing.
Idempotent ==
    kept # <<>> /\ AllDone /\ Lasting(world) # Lasting(kept) =>
        \A plan \in {Plans[task]} : ~Stands(plan, "Idempotent")

\* A task that cleans up and succeeds leaves nothing behind, neither of what an
\* earlier installation has left nor of what its own deployment made.
Cleaned ==
    AllDone => \A plan \in {Plans[task]} : Stands(plan, "Cleaned") =>
                   \A p \in plan.waste : world[p] = "absent"

\* All steps are done, each of them on some host.
Delivered(plan) == AllDone /\ \A n \in plan.nodes : \E j \in plan.jobs : j[1] = n

\* On fresh hosts and without a fault, every step has been done on some host by the
\* time nothing more can happen.
Delivers ==
    ~old /\ faults = <<>> /\ round = 1 =>
        \A plan \in {Plans[task]} :
            Keeps(plan, "Delivers") /\ Settled(plan) => Delivered(plan)

\* Tasks that are not even deliverable break that promise always: no order of their
\* steps and no number of rounds gets them to the end.
NeverDelivers ==
    ~old => \A plan \in {Plans[task]} :
                ~Keeps(plan, "Deliverable") => ~Delivered(plan)
=============================================================================
