# Verification of kubexm

TLA+ models, TLC configurations and TLAPS proofs for kubexm, a tool that creates
and maintains Kubernetes clusters over SSH. All source paths below are relative
to `src/internal/`.

## 1. The system

A command is worked off in layers:

    cmd -> pipeline -> module -> task -> step -> runner -> connector -> host
              |  plans (merges, links, validates)   ^
              v                                     |
         execution graph ----> engine (DAG executor, workers, checkpoint)

1. A **pipeline** (`pipeline/cluster/*.go`) asks its **modules**
   (`module/**`), in order, for an execution *fragment*; a module asks its
   **tasks** (`task/**`), which choose **steps** (`step/**`) for hosts. Fragments
   (`plan/fragment.go`) are merged and linked into an **execution graph**
   (`plan/graph.go`), which is validated.
2. The **engine** (`engine/executor.go`) walks the graph with worker goroutines.
   A node runs one step on several hosts at once, with precheck, retries, panic
   recovery, rollback and a time-out.
3. Each result goes into a **checkpoint** (`checkpoint/checkpoint.go`), from which
   a later start of the pipeline resumes.
4. Steps reach hosts through the **runner** and **connectors**, which share an SSH
   **connection pool** (`connector/pool.go`).
5. **Runtime** (`runtime/**`) holds the per-command context, state bags and
   **caches** (`cache/`).

### Components, their state, what is hard and what makes them correct

| Component | State | Operations | Hard behaviour | Correct if |
|---|---|---|---|---|
| DAG executor | node statuses, in-degrees, a counter of processed nodes, task and result channels, workers | Execute, worker, dry run, final status | results in any order; skip cascade beside running nodes; termination by counter | dependencies first, each node once, counter right, ends |
| Node execution | per host: attempt, error, result, context; host results | runNode, runStepOnHost | retry, time-out, cancellation, panic, rollback interleaved over hosts | reported status is what happened |
| Checkpoint | file, copy in memory | Load, Save, Delete, restore | crash between any two steps, failed save, plan changed in between | completed work is kept and not repeated; resumed run ends |
| Graph validation | in-degree, queue, count | Validate | cycles, missing dependencies | right verdict |
| Fragments | nodes, entry and exit nodes | merge, link, compute entries and exits | empty fragments, several entries | order is preserved |
| Pipelines | graph, exits of the previous module | Plan, Run, EnsureAssetsAvailable | empty, failing, panicking modules | module order, success is complete |
| Modules | fragment being built | Plan | each module chains its tasks by hand | documented orders |
| Connection pool | idle list, counter per key | Get, Put, scrubber, Shutdown | dialling outside the lock, failure, expiry, limits | counting right, no connection shared or lost |
| Tasks | the graph being planned | Plan | edges set by hand; hosts chosen by role; deploy and clean-up written apart | every step finds what it needs in every order, none meddles with another, clean-up leaves nothing |
| Steps | what they do to hosts; fields and cache entries for later | Precheck, Run, Rollback | a Run cut short, rolled back, or repeated over what is left; one object for all hosts | done means done; a second run repairs the first or changes nothing |
| Runner | none of its own | write, remove, make directories, start and restart services, run commands | calls that fail half-way | part of the steps' effects |
| Cache | scoped maps with TTL | Get, Set, GetOrSet, increment, cleanup | check-then-act on concurrent maps | only what steps leave in it for later ones |
| Runtime | contexts, state bags, host table | ForHost, SetRuntimeConfig, parallel initialisation | shared bags, partial initialisation | only the host lists it gives planners |
| Configuration, command line, assets, ISO builder, templates, logger, utilities | none | parsing, defaults, text, files | - | not modelled: no protocol |

`PROJECT.json` lists the hazards at the lines where they bite, with the properties
that cover them.

## 2. The modules

| Module | Models | Kind |
|---|---|---|
| `Executor` | `Execute`, workers, checkpoint, crash and restart | state machine |
| `DagRun` | what a run of a graph promises | abstract specification |
| `NodeRun` | `runNode`, `runStepOnHost`, `AggregateStatus` | state machine |
| `GraphValidate` | `ExecutionGraph.Validate` | algorithm, one step per removal |
| `Fragments` | `plan/fragment.go` and the linking of `plan/graph.go` | operators |
| `PipelinePlan` | `Plan` and `Run` of a pipeline, `SafeModulePlan`, exit code | state machine over `Fragments` |
| `ModulePlans` | the `Plan` methods of the modules | operators |
| `ClusterPipelines` | the modules of cluster creation and CA renewal | data for `PipelinePlan` |
| `ConnectionPool` | pool, and `Connect`/`Close` of `SSHConnector` | state machine |
| `StepEffects` | the operations of `runner/` and `step/helpers/` that steps are made of | operators: effects, prechecks, what an interrupted effect leaves |
| `OSSteps`, `CommonSteps`, `ContainerdSteps`, `DockerSteps`, `CrioSteps`, `EtcdSteps`, `KubernetesSteps`, `KubeadmSteps`, `PkiEtcdSteps`, `PkiKubeadmSteps`, `PkiKubexmSteps`, `LoadBalancerSteps`, `NetworkSteps`, `AddonSteps`, `RegistrySteps` | `step/**`, one definition per step | catalogues in the language of `StepEffects` |
| `HelmCharts` | the four steps every chart is deployed with | operators for `NetworkSteps` and `AddonSteps` |
| `UnplannedSteps` | the steps no planner uses | table |
| `TaskGraphs` | nodes, edges and linking as planners use them | operators |
| `NodeTasks`, `ClusterTasks`, `CertTasks` | `task/**`, one definition per `Plan` | graphs of steps |
| `TaskRun` | the execution of a task on hosts, with faults and reruns | state machine |
| `ExecutorProofs`, `ExecutorResumeProofs`, `DagRunProofs`, `NodeRunProofs`, `GraphValidateProofs`, `PipelinePlanProofs`, `ConnectionPoolProofs`, `TaskRunProofs` | theorems (section 4) | proofs |
| `MC*` | constants for TLC | instances |

**Composition.** `Executor` treats a node as a box that ends Success, Failed or
Skipped; `NodeRun` is the inside of that box, `nodeStatus` in `NodeRun` being the
outcome `SendResult` chooses in `Executor`. `PipelinePlan` produces the graphs
`Executor` runs; its `RunGraph` stands for one `Execute` and uses only that Execute
returns Success or Failed, or Pending from a dry run. `GraphValidate` shows that
`Validate` decides exactly the condition `Executor.Validate` and
`PipelinePlan.FinishPlan` state. `ModulePlans` and `ClusterPipelines` give
`PipelinePlan` its modules through the constant `Planned`. `TaskRun` opens the nodes
`ModulePlans` treats as one: it runs the graph a task's `Plan` returns by the rule
`Executor` keeps (`DepsSucceeded`), and for a node on a host it uses the outcomes `NodeRun`
allows: done already, applied, failed and rolled back, failed under a dead context and not
rolled back, cut off by the end of the process.

### State and actions against the code

*Executor.* `g`, `nodeStatus`, `inDegree`, `processed` are `Execute`'s local
variables; `tasks` and `results` the channels; `worker[w]` what a worker goroutine
holds; `ckpt` and `file` the checkpoint in memory and on disk. `sent` and `merged`
count dispatches and remember merged outputs. One action is one turn of the main
loop (`ResultSucceeds`, `ResultSkips`: status, merge of outputs, checkpoint save,
cascade or release of dependents, all of it), or one step of a worker. Channels are
sets: the code fills them from Go map iteration, so their order carries no meaning.
`Crash` may happen at any step and leaves only `file`.

*NodeRun.* `hosts` is `node.Hosts`, a list that may name a host twice (a planner that
appends workers to masters does so on a converged host), and there is one goroutine per
entry, with a program counter through `runStepOnHost`. `hostResults` is keyed by the name of
the host, so of two goroutines of one host the result recorded last stands. A step is its
possible returns: Precheck done, not done, error or panic; Run any status with or
without an error, or a panic; Rollback. `effect` is a ghost that says what is left of what
a goroutine did; a Rollback takes away what another goroutine of the same host has done,
too. `MayPanic` is the set of hosts on which the step may panic,
`ReliableRollback` makes Rollback succeed whenever its context is alive. Commands
under a dead context are killed (`connector/ssh.go:150-262`), so Rollback cannot
succeed then.

*GraphValidate.* `CountDegrees`, one `Remove` per turn of the loop, `CompareCount`,
`CheckNodes`. The queue is a set: which ready node is taken first comes from map
iteration. Dependency lists are sets; `AddDependency` keeps them free of duplicates.

*PipelinePlan.* `PlanModule` is one turn of the loop over modules: recover, error,
empty fragment, duplicate node ids, linking and the new `previousModuleExitNodes`.
`UsesLinkFragments` and `UsesAssets` are the configurations whose pipeline links with
`plan.LinkFragments` (all but `create_cluster.go`) and starts with
`EnsureAssetsAvailable` (only `create_cluster.go`). A panic of a module is what the code
makes of it: no fragment and no error. `owned`, `loose` and `outcomes` are ghosts; `outcomes`
keeps what a module did, whatever the pipeline made of it.

*ModulePlans, ClusterPipelines.* Each `Plan` method as a function of its tasks, with
its own way of linking. A task whose node names another task of the same pipeline uses
(`GenerateEtcdPKI` and `DeployEtcdCluster`, and `InstallKubeComponents`, which two modules
plan) plans these nodes, because names decide whether fragments can be merged; every other
task is one node. A list of tasks a module chains in a loop over a uniform helper (operating
system preparation, for example) is represented by one task, because the loop gives them no
other order.

*StepEffects.* A resource (a file, a unit, a running service, a kernel setting, an object
of the Kubernetes API, an entry in the task cache) is `absent`, `ok` or `stale`. `stale` is
work half done: cut off in the middle, or made from something
stale or for an older configuration. A step is a record of five parts, written down from
its source: what `Precheck` fails without (`expects`), when it says done (`done`: files
that must exist, be the same as the rendered ones, or be gone), what `Run` looks for first
(`asks`), the effects of `Run` in order, and those of `Rollback`. The difference between
*exists* and *matches* in a `Precheck` is the one the crash properties live on. An effect
says what it needs (`from`: it fails without; `uses`: the result is stale if that is),
what it changes, and how it is cut short: a file that is rendered to a temporary path and
moved is there or not, one that is filled in place may be half there, a download removes
its own debris on an error and not on a crash, a service that fails to restart is down.
What several steps have in common (a download, an extraction, a rendered file, the five
service operations, a chart) is one operator with the shared code in its map entry.

*Step catalogues.* One definition per step, named after it. A step that loops over
architectures, components or files is its effect on the set of them. Text, permissions,
versions and messages are left out. A step that keeps something in a field for its
`Rollback` (`Saved`, `Created`, `Moved`) keeps one for the whole node, because the code has
one step object per node, whatever the number of hosts.

*TaskRun.* `world` gives every resource its value at the place it has: the host, the
control machine (work directory), the cluster (API objects), the run (cache entries without
a host in the key), the node (fields of a step). A *job* is a node on one of its hosts;
`status` says how far it is. `Precheck`, then `Run`, `RunStarves` (something needed is
missing: an error, rolled back), `RunFails` (rolled back), `RunFailsLate` (its context is
done, so nothing is rolled back). A failed host cancels the others of its node (`Canceled`):
their Prechecks may fail (`PrecheckCanceled`) and their Runs fail late, and none of that
counts as a fault of its own. `Crash` ends the process: from then on (`down`) nothing starts
or ends, and every job that is running is cut short wherever it was. `RecordLast` is the
engine's result by name of host: the failure of a job is hidden by the success of another
one for the same host. `cut` is a ghost that remembers a `Run` cut short and not rolled
back. `Rerun` starts the command again; memory is gone, hosts are as they were left. `Init` takes each task on fresh hosts, which have only what
the task needs and does not make, and on hosts with an older installation, where all it
would make is there and stale. `Layout` gives the host lists of `GetHostsByRole` for a
cluster: a converged host is listed twice by the planners that append workers to masters,
and the role `control-plane` has no members (`config/helpers.go:92-125` gives none), so the
planners that ask for its hosts return an empty fragment and `Planned` drops their nodes.

*ConnectionPool.* One pool key (keys share nothing). A region under the pool's lock is
one step, dialling is outside. Whether a connection is stale or unhealthy is a free
choice each time it is looked at. `Shutdown` happens when no connect is under way: it is
deferred by the command after the goroutines were waited for. `CloseConnection` has no
caller and is left out.

## 3. The runs

| Run | Instance | Checks |
|---|---|---|
| `executor_fresh` | 4 nodes, 2 workers; diamond, half-joined, joined plus isolated, cyclic graph; one start; fair | types, `DepsSucceeded`, `SentOnce`, `OutputsVisible`, `AllProcessedAtClose`, `SuccessIsEarned`, `OutcomeStable`, `Terminates`, `ImplementsDagRun` |
| `executor_resume` | 4 nodes, 3 starts, crash anywhere, saves may fail | `AllProcessedAtClose`, `CheckpointClosed`, `CompletedNotRerun` |
| `node_run` | every list of up to 2 of 2 hosts, a host twice included, one where the step may panic, 1 retry, time-outs, cancellation; fair | types, `SuccessMeansApplied`, `NodeStatusFaithful`, `AppliedIsFinal`, `NodeReturns` |
| `graph_validate` | every graph over 3 ids, missing and cyclic dependencies, every entry and exit declaration | types, `VerdictCorrect`, `QueuedOnce` |
| `plan` | 3 modules, each empty, one node, two in a row, two side by side with either exit declaration, without entry and exit nodes, cyclic, with a node the others may plan too, failing or panicking, under both linking styles; and the modules of `create_cluster.go` for every configuration: kubeadm and kubexm, etcd deployed or not, with and without load balancer, workers and add-ons | types, `ModuleBarrier`, `PlansWhenModulesDo`, `SuccessIsComplete`, `UnnamedEndsCut` |
| `connection_pool` | 4 connectors, 5 connections, 3 per key, 2 idle; symmetric | types, `Accounting`, `Exclusive`, `WithinLimits`, `NoneLost` |
| `executor_resume_hang` | fork of 3 nodes, 2 starts; fair | violates `ResumeTerminates` |
| `panic_success` | 2 hosts, one may panic | violates `PanicIsFailure` |
| `task_order` | 161 tasks (nine plan nothing) on one to four hosts and 13 deployments with their clean-up; fresh and old hosts; two rounds, no fault | types, `NeedsMet`, `RaceFree`, `Cleaned`, `Delivers`, `NeverDelivers` |
| `task_recovery` | the tasks that can succeed, and 199 unplanned steps alone; one fault in any `Run`, with all that it cancels or that is cut off with it; two rounds | `NeedsMet`, `Deployed`, `Current`, `Idempotent` |
| `renew_order` | the modules of `renew_kubernetes_ca.go` | violates `DocumentedOrder` |
| `module_panic` | 3 modules of any shape | violates `PanicBecomesError` |

**Promises and who keeps them.** Each property of `TaskRun` is a promise, and a task that
does not keep one is named in the tables of `MCTaskRun` (`Flaws`, `RollbackFlaws`,
`SpareFlaws`) beside the reason. The three `Converged` cases are there for a host that is
listed twice: they break almost every promise. Taking a name out makes TLC report the violation, so the
tables are what the model found, not what it was told; section 5 gives the source lines.
The tables are not a way out for the other direction either: `NeverDelivers` shows that
the tasks listed as `Doomed` fail in every order and every round, so a repaired planner
would turn up there. `Stands` gives a task that is not crash safe up only once a `Run` was
cut off without a rollback.

`CHECK_DEADLOCK FALSE` is set throughout because the modelled calls return; hangs before
that are the business of `Terminates` and `NodeReturns`.

**Why the bounds are enough.** The executor's hard cases need a node with two
dependencies, a node with two dependents, a node that is skipped while another of its
dependencies runs, and two workers: all in four nodes. A crash matters between two starts;
three starts let a resumed run be interrupted again. In `executor_resume` the graph is one
that has entry nodes left after every crash, since otherwise the run waits for ever, which
is the finding of `executor_resume_hang`. Two entries let one host cancel the other, and a
host roll back and overwrite what its own second entry did; one retry separates first,
repeated and last attempt. Three ids hold a two-cycle with a node outside
it and a missing dependency. Three modules put one between two others that may be empty.
In the pool four connectors exceed both limits (three and two).
A task's graph is taken whole, so orders are not bounded at all; one host is enough for
tasks that treat hosts alike and share nothing, a master and a worker for those that tell
roles apart or leave something on the control machine, two of each for tasks that go from
host to host, where the second one meets what the first has left. A host that is master
and worker is there for the planners that append lists. One fault and two rounds cover
every point at which a `Run` can stop, together with the late failures of the other hosts of
its node or, when the process ends, every combination of points at which all running ones
stop, and what the next run makes of it; a third round
could only repeat the second, whose end either is a success (then `Idempotent` speaks) or a
failure without a new fault, which `NeedsMet` excludes.

**Fairness.** `Executor` and `NodeRun` assume weak fairness of the main goroutine, of each
worker and of each host's goroutine: Go runs every runnable goroutine, and a step's methods
return because every step has a time-out on its context. Nothing is assumed of the
operator (starts), of crashes, or of time-outs happening.

## 4. What is proved

For all values of the constants, under the named assumptions of each module: finite sets of
nodes and connectors; a natural number of retries, starts and connections; graphs over the
given nodes; panicking hosts are hosts. A theorem that needs more of its constants says so in
an `ASSUME`; those hypotheses are named below, and where TLC can evaluate them on the
instances of the runs, the MC module does.

| Module | Theorem | States | Hypothesis |
|---|---|---|---|
| `ExecutorProofs` | `TypeCorrect`, `DependenciesRespected`, `DispatchedOnce` | types, `DepsSucceeded`, `SentOnce` | |
| `ExecutorResumeProofs` | `OutputsReachDependents` | `OutputsVisible` | |
| | `NothingPendingAtClose`, `SuccessEarned`, `FileClosed`, `NoneRerun`, `OutcomesStable` | `AllProcessedAtClose`, `SuccessIsEarned`, `CheckpointClosed`, `CompletedNotRerun`, `OutcomeStable` | `FixedPlan` |
| `DagRunProofs` | `Refinement` | `ImplementsDagRun` | `OneRun` |
| `NodeRunProofs` | `TypeCorrect`, `NodeReportsHosts`, `CompletedRunIsFinal`, `SuccessIsApplied` | types, `NodeStatusFaithful`, `AppliedIsFinal`, `SuccessMeansApplied` | |
| `GraphValidateProofs` | `TypeCorrect`, `ValidateDecides`, `NeverQueuedAgain` | types, `VerdictCorrect`, `QueuedOnce` | |
| `PipelinePlanProofs` | `TypeCorrect` | types | |
| | `ModulesInOrder` | `ModuleBarrier` | `ModulesSound` |
| | `ModulesPlanSound`, `PlannedModulesInOrder` | `ModulesSound` of the ways modules plan; `ModuleBarrier` | the tasks' fragments are sound |
| | `OrderKept` | `DocumentedOrder` | `ModulesSound`, `ModulesOrdered` |
| | `NoEndsNoOrder` | `UnnamedEndsCut` | `ModulesSound` |
| | `PlanBlamesModule` | `PlansWhenModulesDo` | `ModulesSound` |
| | `SuccessPlansEverything` | `SuccessIsComplete` | `ModulesSound` |
| `ConnectionPoolProofs` | `TypeCorrect`, `CounterExact`, `ConnectionsExclusive`, `ConnectionsNeverLost`, `LimitsRespected` | types, `Accounting`, `Exclusive`, `NoneLost`, `WithinLimits` | |
| `TaskRunProofs` | `TypeCorrect` | types | |
| | `FedTasksNeverStarve` | `NeedsMet` | `Feeds` of the task |
| | `SettledStays` | what is settled stays | `SettledBy` of a job and a resource |
| | `BuildersDeploy` | `Deployed` | `Builds` |
| | `ClearersClean` | `Cleaned` | `Clears` |
| | `FedTasksDeliver` | `Delivers` | `Feeds`, `Forward`, `Hosted` |
| | `StuckTasksNeverDeliver` | `NeverDelivers` | `Stuck` or not `Hosted` |
| | `OrderedClashesDoNotRace` | `RaceFree` | `ClashesOrdered` |

### The arguments

*Executor, dispatch.* `DepsSucceeded` is not inductive, since it says nothing of the counter
that decides dispatch. `DispatchInv` adds what `inDegree` counts (`DegreeExact`: the
dependencies not yet finished successfully *in this execution*), that sent nodes have all of
them (`SentReady`), and that a node is in one place (`OnePlace`). The dependents of restored
nodes keep a positive in-degree: the same fact that makes resuming safe makes it hang.
`OutputsVisible` follows once `DoneMerged` is added: what has succeeded in this execution has
its outputs in the state bag.

*Executor, checkpoint and closing.* `ResumeInv` is `DispatchInv` and
- `Fresh`: before the first start there is no file and no status;
- `FileFits`: the file records nodes of the graph only, and for each of them Success of
  everything it depends on (`Fits`);
- `Bookkeeping`: while `Execute` runs, the checkpoint in memory fits the graph; everything
  done in this execution is Success in it; nothing in flight is completed in it; a node's
  status is that of the checkpoint, or Skipped by a cascade, and then it was never sent and
  has a dependency that is over and failed or was skipped (`HeldBack`); and `processed`
  counts at most the nodes that are over.

The last clause is an inequality on purpose. The main loop ends when `processed` reaches the
number of nodes, so it suffices that it is never ahead, and after a restart it is behind for
good wherever the run hangs. The invariant needs `FixedPlan` (one start, or the same graph at
every start): the checkpoint is keyed by pipeline, not by plan, and with a changed plan the
restored count is ahead (section 5, *Changed plan*). That is the hypothesis the code relies
on and does not check.

*Executor refines DagRun.* `DagRun` has no workers, channels, counters or checkpoint. Its
`phase` and `status` are computed from those by `Phase` and `Seen` (a node with a worker or
on the results channel is running, one that is only queued is still Pending). `DagInv` adds to `ResumeInv` that a node in flight has no status yet
(`FlightPending`) and that what is Pending waits for nothing that failed (`Unblocked`): a
cascade skips *all* nodes behind a failed one, which `DagRun` does in one step. `OneRun`
(started at most once) is needed because `DagRun` says nothing of restarts.

*Node execution.* The invariant says what is known of a goroutine at each place of
`runStepOnHost`, and of the result under a name: it is that of some goroutine of the host
that has recorded, so Failed is overwritten by another entry of the same host only. The code
does not make a node fail whenever one of its goroutines did, and `NodeStatusFaithful` does
not say so: after a failure that has cancelled the others Success is reported only when a
host listed twice recorded Success last. For `SuccessIsApplied`, on hosts where the step does
not panic, the status is decided two steps after the effect; `Honest` says what it will be
decided from. A rollback by the host's second entry may come in between, which both effect
properties name (`UndoneByTwin`).

*Validation.* Acyclicity is the absence of a non-empty set of nodes that all wait for a
member of the set. `Untouched`: no such set ever loses a member; conversely what the loop
leaves behind is one. So `count` equals the number of nodes exactly when there is none.

*Planning.* A turn of the loop joins the fragment `f` of a module to the graph (`Joined`): the
nodes of both, and links from the last module's exit nodes to the entry nodes of `f`. A set
completed in the new graph is, cut down to the old one, a set completed there
(`JoinedPrefix`); a node of `f` in it brings an entry node, hence all it is linked after
(`StartNeedsLinks`); and with the exit nodes of a fragment all of it (`ExitsCloseFragment`).
The latter looks at the graph from the end, while acyclicity is stated from the beginning;
`AcyclicLast` turns it around for finite graphs, by a smallest set closed under a choice of
successors. `BarrierInv` has three parts: what is assembled (`Assembled`), the barrier for
the modules so far (`Barrier`), and that the nodes the next module will be linked after close
the last module that has any (`Chained`), which is what empty modules in between could break.
Both of the latter hold only if the graph is acyclic so far; a cyclic fragment is assembled
like any other and refused at the end. `ModulesSound` (dependencies, entry and exit nodes of a
fragment are nodes of it) is what `AddDependency`, `LinkFragments` and
`CalculateEntryAndExitNodes` guarantee. That the modules use them well is
`ModulesPlanSound`: merging, linking, naming ends and a control plane's `AddTask` each keep
a fragment sound, and the two loops over tasks (`Merged`, `Chain`) do so by induction, for
which it must be known that a loop's sequence of values exists at all (`LoopExists`). Hence
`PlannedModulesInOrder` needs nothing of the modules but that they plan in one of the nine
ways of `ModulePlans`; what is left to assume is that tasks return sound fragments.
`MCPipelinePlan` asserts `ModulesSound` of its instances.

Nothing is assumed of node ids, cycles and panics. `LedgerInv` follows the loop by what the
modules have returned (`outcomes`): the graph's nodes are those of the modules so far, no two
of which share one, and it is acyclic exactly if their fragments are. So Plan fails exactly
over an error, a cycle or a common node id (`PlanBlamesModule`, both directions), and what a
successful command lacks can only be a module that panicked (`SuccessPlansEverything`);
that a panic should have been an error is refuted by `module_panic`. `CutInv` is the
counterpart of the barrier: a module without entry nodes, or the first one with nodes behind
a module without exit nodes, gets no links, so all that is planned from there on is closed
under dependencies (`NoEndsNoOrder`).

*Documented order.* `ModuleBarrier` is of no use behind a module that does not name all its
ends, and the control plane of a kubexm cluster is one. That connectivity is still checked
before everything else needs less: the earlier module names all its *last* nodes, and every
module from there to the later one all its *first* nodes and at least one exit node
(`HoldsBack`). The invariant follows the links forward: with a node of a module all that
holds it back is completed (`Behind`), and so it is with the nodes the next module will be
linked after (`Held`); an empty module changes neither. `MCPipelinePlan` asserts the
condition (`OrderedIn`) of the creation of every cluster without a load balancer. The load
balancer's module names no ends, and there `NoEndsNoOrder` says the opposite (section 5);
the order inside the renewal module fails too (`renew_order`).

*Connection pool.* `Accounting` needs the list of idle connections to be free of repetitions
(`Distinct`), held connections to be open, in nobody else's hands and not idle (`Owned`),
and the idle list and the counter to keep their limits, with nothing idle and nobody dialling
once the pool is stopped (`Bounded`); `PoolInv` is these with the types and `NoneLost`. The counting is done with sets: a connector that changes its state
leaves one set and joins another (`Moves`). `FreshIdle`, the list the scrubber keeps, is
written as the list ordered like the old one over the positions kept, whose length and
members the proof can count (`Ranks`).

*Tasks.* The steps and graphs are data, so a theorem about `TaskRun` says which plans keep a
promise, in terms that can be read off the plan without running it:

- of an effect, what it may turn to gone or to there wherever it is cut short (`MayTurn`) and
  what is so afterwards whatever was before (`MustTurn`);
- of a step, what it may upset, its Rollback included (`Upsets`), what is certain once it is
  done, by its `Precheck` as well as by its `Run` (`Ensures`), that it misses nothing if
  given N (`FedBy`), and what it cannot be done without (`Insists`);
- of a plan, that a job settles a resource (`SettledBy`: it ensures it, and whatever may upset
  it is over before), that everything a step needs is given for good or supplied by an earlier
  job and not taken away in between (`Feeds`), and `Builds`, `Clears`, `Stuck`,
  `ClashesOrdered`.

The effects of a `Run` are a list of any length. What they do to a host is proved by
induction over it, stated through the least number for which a claim fails (`LeastNumber`,
`AllUpTo`), since a set can be handed to a lemma and an operator cannot; `TrailDef` shows
first that the recursive definition of `Trail` has a solution. `StepLeads` sums up a step:
however it ends, it has changed at most what it may upset. `NextMoves` turns every action of
a job into one such change of the world. A job that has started has the jobs before it done
(`InOrder`), so the done jobs are closed under "before" and contain all ancestors of a job
that can start (`AncestorsDone`). A job that has failed can still count as done
(`RecordLast`); then a job of the same node and host is done, which ensures and upsets the
same resources at the same places and has the same ancestors (`TwinsAlike`,
`AncestorsTogether`), so what is known of the one is known of the other (`Replaced`).

The inductive invariant `Inv` has, besides types, `InOrder` and that no started job waits for
itself (`Started`): what a done job ensures is
still so unless a job that is over, and is neither the job nor one of its ancestors, may have
upset it (`Guarded`); what is given is there (`Steady`); a fed plan has not starved (`Fed`); a
job fails, and the process ends, only for a fault or because a job starved (`Caused`); a job that insists on what only
comes after it is not done, and the resource is not there (`Doomed`). `Guarded` is more
general than `Deployed` and `Cleaned` need: the exception for jobs that are over is what makes
it inductive without an assumption on the plan, and what `Fed` uses for resources that are
removed again after the job that needs them. None of this depends on the number of hosts,
faults or rounds.

`MCTaskRun` evaluates the hypotheses on the 373 tasks and single steps of the runs (`Survey`,
with `task_recovery`), to see how much of what TLC finds they explain:

| Promise | Kept by | Hypothesis holds of | The others |
|---|---|---|---|
| `RaceFree` | 362 | all | |
| `NeedsMet`, crash safe | 248 | all but 5 | `FedByLuck`: what is needed was there from the beginning, or is made by a step that may be skipped |
| `Deployed`, crash safe, deliverable | 250 (124 with goals) | all but 12 | `BuiltByLuck`: a `Precheck` looks for one of several resources, or the goal was there from the beginning |
| `Delivers` | 350 | `Forward` and `Hosted` all but 1, `Feeds` as well 317 | `CleanOSNodes` has edges to nodes added earlier |
| `Cleaned`, with something to remove | 81 | 39 | `Precheck` looks at some of several resources, or removal by kubectl, helm or kubeadm depends on their being there |
| undeliverable | 21 | all but 3 | `DoomedOtherwise`: they fail for other reasons than one step without what it insists on |

Where the hypothesis holds of a plan, its promise holds for any number of rounds and faults.
On two masters and two workers `Feeds` holds of the same tasks as before; on three and three,
beyond what TLC can run, 21 tasks
that are free of races on small clusters have clashing jobs side by side (`CrowdRaces`): cache
keys without a host name (`keepalived.config`, the rendered HAProxy and nginx
configurations, the paths of certificate and kubeconfig backups), one directory on the
control machine, members of one etcd, one Helm release, the fields of one step object.

### Only model-checked

- Termination and the other properties under fairness (`Terminates`, `NodeReturns`,
  `ResumeTerminates`): liveness and `ENABLED` are out of the prover's reach.
- `Current` and `Idempotent` of `TaskRun`. They tell `ok` from `stale`. Whether an effect
  gives one or the other depends on the values of all it reads, of systemd's in particular,
  which is stale between two effects of almost every step that handles a unit; a statement
  that can be read off the plan and still holds of most tasks was not found. TLC's enumeration
  is complete up to the number of hosts and faults.
- The order *inside* a module (`renew_order` shows where it fails): the graphs of tasks.
- What the hypotheses of the task theorems leave out: the tasks in `FedByLuck`,
  `BuiltByLuck`, `DoomedOtherwise` and half of the clean-ups.
- The executor's checkpoint properties when the plan changes between starts, where they do
  not hold.

## 5. Where code and documents disagree

Shown by a run each (quotes in `PROJECT.json`):

1. `executor_resume_hang`: a node restored from the checkpoint never releases its
   dependents (`engine/executor.go:138-142,202`), so a resumed pipeline waits for ever. A
   restored Failed node is not counted either.
2. `panic_success`: a panic in `Run` is rolled back and reported as Success
   (`engine/executor.go:585`).
3. `renew_order`: `PlanTasks` (`module/module.go:74`) does not chain the tasks of a
   certificate renewal.
4. `module_panic`: `SafeModulePlan` has unnamed results, so what its `recover` assigns
   (`pipeline/safe_plan.go:45-50`) is lost: the caller gets no fragment and no error, skips
   the module as empty and runs the others, while `PIPELINE_STABILITY_REPORT.md:31` has
   panics converted into returned errors.

Part of passing runs:

5. *Load balancer* (`plan`, `UnnamedEndsCut`): `module/loadbalancer/loadbalancer.go:83`
   returns a fragment without entry and exit nodes, so in a cluster with a load balancer it
   and everything after it may run before the connectivity check ("should run before any
   other module in every pipeline"), the preflight checks and the infrastructure.
6. *Node ids planned twice* (`plan`, `PlansWhenModulesDo`): `GenerateEtcdPKI` and
   `DeployEtcdCluster` both plan `GenerateEtcdCA` and `GenerateEtcdCerts` whenever etcd is
   of type kubexm (`task/etcd/generate_etcd_pki.go:61-62`, `install_etcd_cluster.go:78-82`),
   and `module/infrastructure/infrastructure.go:83` returns "already exists"; of kubeadm
   clusters control plane and worker module both plan `InstallKubeComponents`, and the
   pipeline stops at `create_cluster.go:96`. `MCPipelinePlan` asserts that create cluster
   plans exactly the clusters of type kubexm whose etcd kubexm does not deploy.
7. *Exchanged edges* (`task_order`, `NeverDelivers`): `AddDependency` is called with its
   arguments exchanged (`task/loadbalancer/haproxy/install_daemon.go:115-119`; likewise
   `install_static_pod.go`, `install_worker_daemon.go` and the three of `nginx/`). On a fresh
   host the restart, first now, is skipped as done, because the service is not active
   (`step/loadbalancer/haproxy/restart_haproxy.go:54-57`); enabling it, second, fails
   without a unit; the installation is never reached.
8. *A host listed twice* (`node_run`, `NodeStatusFaithful`): results are kept by name
   (`engine/executor.go:459`), so the Success of the second entry of a host takes the place
   of the Failed of the first, and the node is reported Success although its other hosts
   were cancelled.

Reproducible with the same modules by changing constants:

- *Changed plan:* `MCExecutor` with `Graphs <- ChangedGraphs`, `Node <- MCNodes3`,
  `MaxStarts = 2` violates `AllProcessedAtClose`: `engine/executor.go:190-198` counts
  completed nodes the graph lacks, while `checkpoint.go:45-47` describes a field, never
  filled in, that would detect it.
- *Control plane of kubexm clusters:* `kubexm/controlplane.go:101-102` starts a second
  chain, and the module's exits do not wait for PKI and kubeconfigs. `ModuleBarrier` speaks
  of modules whose declared ends are their real ones (`NamesEnds`), and `loose` remembers
  that this one's are not.

Found by the task runs; the names are those of the tables in `MCTaskRun`:

| Table | What the code does |
|---|---|
| `Backward` | item 7; `DeployHAProxyOnWorkers` never installs the package either |
| `Unhosted` | the nodes of the certificate renewal are planned without hosts (`task/pki/kubeadm/generate_k8s_ca_certs.go:76-79`, `generate_k8s_certs.go`); the engine runs nothing for them and reports success |
| `Unfed` | CRI-O is extracted to another directory than `Precheck` looks in; Docker's CNI plugins are never extracted; the registry binary is looked for beside its archive (`step/registry/extract_registry.go:82-84`, `install_registry.go:62-63`); the ingress chart is distributed on the control machine; `CleanEtcd` is not told which member; `upgrade apply` wants the result of a plan step no planner adds (`upgrade_apply.go:43-48`); the control plane is restarted, never started; the etcd renewal asks for cache entries and files nobody makes |
| `Unordered` | no edges between the steps of an add-on's manifest (`task/addon/install_addon.go:96-144`); RBAC is applied beside the configuration of kubectl (`finalize_cluster_setup.go:81-84`) |
| `SharedBackup`, `NoBackup` | the backup's cache key has no host name (`step/pki/kubeadm/backup_pki.go:53,88`, `backup_kubeconfigs.go:49`, `common/cache_keys.go:29-31`): hosts after the first have no backup; etcd's manifest is looked for among certificates |
| `RaceFree` | one step object for all hosts: `disable_swap.go:93`, `add_hosts.go:194`, `add_modules.go:148`, `add_security.go:122`, `add_sysctl.go:151`, `disable_selinux.go:90`, `enable_firewall.go:114`, `install_packages.go:57`; hosts listed twice (`install_containerd.go:51` and thirteen more planners); every host deletes the same Longhorn objects |
| `NeedsMet` | the join token is remembered by `kubeadm init` alone, which a second run skips (`generate_join_master_config.go:67-70`) |
| `Cleaned` | runc is installed below `/usr/local/sbin` and removed from `/usr/sbin` (`step/containerd/install_runc.go:31`, `clean_containerd.go:70`); `DisableFirewall` compares an untrimmed output (`disable_firewall.go:55`) |
| `Idempotent` | Harbor's secret is made anew; a restore after a restore |
| `Converged` | on a host listed twice one entry rolls back what the other has done, and its failure is hidden by the other's success: item 8 |
| `RollbackFlaws` | `Rollback` removes what was there before `Run`, or leaves half of it and `Precheck` looks at presence only |
| `CrashSafe` | `Precheck` asks whether a file, or one of several, exists: `install_cni.go:106` looks at 3 plugins of 17; downloads are taken as they are, since the checksum found by `GetBinary` (`step/helpers/bom/binary/provider.go:48-74`) is not kept |
| `SpareFlaws` | a service that is down after a failed restart is skipped as not active (`restart_containerd.go:57-60`) |

Nine tasks plan nothing, because the role `control-plane` they ask for has no members
(`common/roles_labels.go:6`, `config/helpers.go:92-125`): `task/kubernetes/health.go:39-98`,
`task/reconfigure/reconfigure.go:43-188`, `task/loadbalancer/keepalived.go:342,384`.

`step/interface.go:11` calls a step idempotent and `:38-39` says `Rollback` restores the
state before `Run`; the tables say where that does not hold.

Seen while reading: rollback after a time-out runs under the expired context
(`engine/executor.go:618`) and restores nothing (fault `late` of `TaskRun`); a step that
returns a failed result and no error is neither retried nor rolled back
(`executor.go:628-648`); the first master and the joining ones are taken from two calls of
`GetHostsByRole`, which answers in map order (`bootstrap_first_master.go:51`,
`join_masters.go:44`, `runtime/context.go:293`); two uploads of one file name share a
temporary path (`step/helpers/file.go:44`); `SetupEtcdDirs.Rollback` removes the parent of
the configuration directory (`setup_etcd_dir.go:142`); `Publish` sends to channels of
capacity one under its lock (`runtime/data_bus_v2.go:31-40`); `EnsureAssetsAvailable` plans the download and never runs it
(`offline_mode.go:146`, "Plan and execute download"); a panic in `Rollback` or in a node's
condition is not recovered (`executor.go:573,618`); the etcd renewal tasks require cache
keys that are written only at run time; `rollout_leaf_nodes.go` uses one node name for two
verifications; `CheckpointPath` leaves out the cluster name its comment mentions
(`checkpoint.go:125-129`); `step.Cleanup` and `step.Validate` have no caller; outputs of
several hosts under one key are merged in map order (`executor.go:482-489`);
`pool.Shutdown` leaves held connections open.

## 6. Not modelled

- *Tasks:* joining the masters of a kubexm cluster (about twenty steps side by side on each
  of several hosts: more orders than TLC can go through, and it needs the control plane
  `StartControlPlane` never starts); the nine one-step tasks of `registry/registry.go`;
  deleting an add-on's manifests; the scheduler, `TaskWithRetry` and `AssetManagerTask`,
  which have no caller. `DeployEtcd`, `UninstallHAProxyAsDaemon` and `InstallNetworkPlugin`
  plan the graph of a task that is checked under another name. Five clean-ups and checks
  with many independent steps (`Wide`) are checked for order and not for recovery.
- *Steps:* the packages `*/common` that nothing imports. Errors a step logs and swallows are
  not faults: a fault is an error `Run` returns. Permissions, owners and the temporary files
  of uploads.
- *Runner:* the clients for docker, containerd, qemu, kubectl and helm beyond the effects
  steps have through them: commands and the parsing of their output.
- *Configuration* defaults and validation, the command line, assets, templates, logging: no
  protocol between concurrent parties. The cache and the runtime context beyond what section
  2 says. The values of outputs, messages and timestamps: no property reads them. Two
  kubexm processes on one workspace.

## 7. Plan

Done: executor, node execution, graph validation, fragments, pipelines and the modules of two
of them, connection pool, tasks and steps; proofs for every state machine, as far as section 4
says.

Next, in this order:
1. Proofs: a notion of *current* for plans, to prove `Current` and `Idempotent`; sound
   fragments for the planners of tasks, which `PlannedModulesInOrder` assumes.
2. The file level of the checkpoint with two processes, the check-then-act operations of the
   cache, the state bags of host contexts and the parallel host initialisation.
3. Pipelines for upgrade, deletion, adding and removing nodes; etcd and registry modules.
