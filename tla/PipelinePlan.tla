---------------------------- MODULE PipelinePlan ----------------------------
(***************************************************************************)
(* From the command to the engine: a cmd such as create cluster plans a    *)
(* pipeline (Plan, internal/pipeline/cluster/create_cluster.go and its     *)
(* siblings), which plans its modules one by one under a recover           *)
(* (internal/pipeline/safe_plan.go), merges and links their fragments and  *)
(* validates the graph; then it runs the pipeline (Run), which makes sure  *)
(* of the assets and hands the graph to the engine.                        *)
(*                                                                         *)
(* How a module arrives at its fragment is the subject of ModulePlans;     *)
(* here Planned[c][i] is the set of outcomes module i can have under the   *)
(* cluster configuration c.                                                *)
(***************************************************************************)
EXTENDS Fragments, Integers, Sequences, FiniteSets

CONSTANTS
    Config,           \* cluster configurations
    Planned,          \* Planned[c]: sequence of sets of outcomes, per module
    UsesLinkFragments,\* configurations whose Plan links with plan.LinkFragments
    UsesAssets,       \* those whose Run starts with EnsureAssetsAvailable
    Order             \* pairs <<m, n>>: m is documented to run before n

\* How planning a module can end; a module that returns no error returns a
\* fragment.
Outcome == {o \in [result : {"fragment", "error", "panic"}, frag : Fragment] :
                o.result = "fragment" => o.frag.ok}

ASSUME PlannedAssumption ==
    \A c \in Config : Planned[c] \in Seq(SUBSET Outcome)
ASSUME NodesAssumption == IsFiniteSet(NodeId)

-----------------------------------------------------------------------------
(* What a pipeline may ask of its modules. Fragments built with AddNode,
   AddDependency, MergeFragment and LinkFragments are sound; whether modules use
   each other's node names, give cyclic fragments or name their entry and exit
   nodes is up to them. *)

Sound(f) == DependenciesExist(f) /\ f.entry \subseteq f.nodes /\ f.exit \subseteq f.nodes

\* The fragments module k can return.
Returned(c, k) == {o.frag : o \in {p \in Planned[c][k] : p.result = "fragment"}}

ModulesSound ==
    \A c \in Config : \A k \in 1..Len(Planned[c]) :
        \A f \in Returned(c, k) : f.ok => Sound(f)

\* All first nodes of a fragment are entry nodes, all its last ones exit nodes.
Opens(f)  == EntryNodes(f) \subseteq f.entry
Closes(f) == ExitNodes(f) \subseteq f.exit

\* The modules after l up to k, as far as they have nodes, pass on to the next one
\* that l is to come first.
HoldsBack(c, l, k) ==
    /\ \A f \in Returned(c, l) : Closes(f)
    /\ \A j \in (l + 1)..k : \A f \in Returned(c, j) :
           ~IsEmpty(f) => Opens(f) /\ f.exit # {}

OrderedIn(c) ==
    \A p \in Order : \A l, k \in 1..Len(Planned[c]) :
        \A g \in Returned(c, l), h \in Returned(c, k) :
            p[1] \in g.nodes /\ p[2] \in h.nodes => l < k /\ HoldsBack(c, l, k)

ModulesOrdered == \A c \in Config : OrderedIn(c)

-----------------------------------------------------------------------------
VARIABLES
    config,    \* the cluster configuration
    stage,     \* where the command is
    i,         \* the module planned next
    graph,     \* finalGraph, a fragment
    prevExit,  \* previousModuleExitNodes
    assets,    \* whether the packages are on disk
    result,    \* the status of the result Run returned
    exit,      \* the command's exit: "none", "ok" or "error"
    owned,     \* ghost: the nodes each module planned
    loose,     \* ghost: the modules that do not name all their first and last nodes
    outcomes   \* ghost: how planning each module ended

vars == <<config, stage, i, graph, prevExit, assets, result, exit, owned, loose,
          outcomes>>

Modules == 1..Len(Planned[config])

Unplanned == [result |-> "none", frag |-> NewExecutionFragment]

Init ==
    /\ config \in Config
    /\ stage = "planning"
    /\ i = 1
    /\ graph = NewExecutionFragment
    /\ prevExit = {}
    /\ assets \in BOOLEAN
    /\ result = "none"
    /\ exit = "none"
    /\ owned = [m \in Modules |-> {}]
    /\ loose = {}
    /\ outcomes = [m \in Modules |-> Unplanned]

-----------------------------------------------------------------------------
(* Plan *)

\* Mutant: an error is logged and the module left out.
SafeModulePlanLax(o) == IF o.result = "fragment" THEN o.frag
                                                 ELSE NewExecutionFragment
\* SafeModulePlan: its results are unnamed, so what the deferred function
\* assigns after a panic is lost and the caller gets no fragment and no error.
SafeModulePlan(o) == IF o.result = "panic" THEN NewExecutionFragment
                     ELSE IF o.result = "error" THEN Failure
                     ELSE o.frag

\* Mutants: only one exit node is waited for; the exit nodes are taken after
\* the module has been merged; they are those of the whole graph so far.
LinkModuleOne(g, entry) ==
    IF prevExit = {} THEN g
    ELSE [g EXCEPT !.deps = Linked(@, {CHOOSE n \in prevExit : TRUE}, entry)]
LinkModuleLate(g, entry) ==
    [g EXCEPT !.deps = Linked(@, ExitNodes(g), entry)]
LinkModuleAll(g, entry) ==
    [g EXCEPT !.deps = Linked(@, ExitNodes(graph), entry \cap g.nodes)]
\* The module's entry nodes wait for the exit nodes of the module before.
LinkModule(g, entry) ==
    IF config \in UsesLinkFragments THEN LinkFragments(g, prevExit, entry)
    ELSE [g EXCEPT !.deps = Linked(@, prevExit, entry \cap g.nodes)]

Fails ==
    /\ exit' = "error"
    /\ stage' = "done"

\* The fragment names all of its first nodes as entry and all of its last ones as
\* exit nodes.
NamesEnds(f) == LET g == CalculateEntryAndExitNodes(f)
                IN  f.entry = g.entry /\ f.exit = g.exit

\* One iteration of the loop over the modules.
PlanModule(o) ==
    /\ stage = "planning"
    /\ i \in Modules
    /\ o \in Planned[config][i]
    /\ outcomes' = [outcomes EXCEPT ![i] = o]
    /\ LET f == SafeModulePlan(o)
           g == LinkModule(MergeFragment(graph, f), f.entry)
       IN  \/ /\ f.ok /\ IsEmpty(f)
              /\ i' = i + 1
              /\ UNCHANGED <<stage, graph, prevExit, exit, owned, loose>>
           \/ /\ f.ok /\ ~IsEmpty(f) /\ g.ok
              /\ i' = i + 1
              /\ graph' = g
              /\ prevExit' = f.exit
              /\ owned' = [owned EXCEPT ![i] = f.nodes]
              /\ loose' = IF NamesEnds(f) THEN loose ELSE loose \cup {i}
              /\ UNCHANGED <<stage, exit>>
           \/ /\ ~f.ok \/ (~IsEmpty(f) /\ ~g.ok)
              /\ Fails
              /\ UNCHANGED <<i, graph, prevExit, owned, loose>>
    /\ UNCHANGED <<config, assets, result>>

\* After the loop: entry and exit nodes of the graph, then Validate. The entry
\* nodes of the whole graph have no dependencies, as Validate wants.
FinishPlan ==
    /\ stage = "planning"
    /\ i \notin Modules
    /\ LET g == CalculateEntryAndExitNodes(graph)
       IN  IF DependenciesExist(g) /\ Acyclic(g)
           THEN stage' = "planned" /\ graph' = g /\ UNCHANGED exit
           ELSE Fails /\ UNCHANGED graph
    /\ UNCHANGED <<config, i, prevExit, assets, result, owned, loose,
                   outcomes>>

-----------------------------------------------------------------------------
(* Run *)

\* EnsureAssetsAvailable looks for the packages and, when some are missing,
\* plans the download module (which may fail) but executes nothing.
EnsureAssetsAvailable(o) ==
    /\ stage = "planned"
    /\ config \in UsesAssets
    /\ IF ~assets /\ o = "error" THEN Fails
                                 ELSE stage' = "ready" /\ UNCHANGED exit
    /\ UNCHANGED <<config, i, graph, prevExit, assets, result, owned, loose,
                   outcomes>>

CanRun == stage = IF config \in UsesAssets THEN "ready" ELSE "planned"

\* A graph without nodes is not executed.
NothingToRun == IsEmpty(graph)

RunEmpty ==
    /\ CanRun
    /\ NothingToRun
    /\ result' = "Success"
    /\ exit' = "ok"
    /\ stage' = "done"
    /\ UNCHANGED <<config, i, graph, prevExit, assets, owned, loose,
                   outcomes>>

\* Mutant: the status of the graph becomes the exit of the command.
RunGraphRaw(s) ==
    /\ CanRun
    /\ ~NothingToRun
    /\ result' = s
    /\ exit' = s
    /\ stage' = "executed"
    /\ UNCHANGED <<config, i, graph, prevExit, assets, owned, loose,
                   outcomes>>
\* Execute (module Executor) returns a status, or Pending from a dry run; the
\* command fails on Failed only.
RunGraph(s) ==
    /\ CanRun
    /\ ~NothingToRun
    /\ result' = s
    /\ exit' = IF s = "Failed" THEN "error" ELSE "ok"
    /\ stage' = "executed"
    /\ UNCHANGED <<config, i, graph, prevExit, assets, owned, loose,
                   outcomes>>

Next ==
    \/ stage = "planning" /\ i \in Modules
          /\ \E o \in Planned[config][i] : PlanModule(o)
    \/ FinishPlan
    \/ \E o \in {"ok", "error"} : EnsureAssetsAvailable(o)
    \/ RunEmpty
    \/ \E s \in {"Success", "Failed", "Pending"} : RunGraph(s)

Spec == Init /\ [][Next]_vars

-----------------------------------------------------------------------------
(* Properties *)

\* Type invariant of a command's run.
TypeOK ==
    /\ config \in Config
    /\ stage \in {"planning", "planned", "ready", "executed", "done"}
    /\ i \in 1..(Len(Planned[config]) + 1)
    /\ graph \in Fragment
    /\ prevExit \subseteq NodeId
    /\ assets \in BOOLEAN
    /\ result \in {"none", "Success", "Failed", "Pending"}
    /\ exit \in {"none", "ok", "error"}
    /\ owned \in [Modules -> SUBSET NodeId]
    /\ loose \subseteq Modules
    /\ outcomes \in [Modules -> Outcome \cup {Unplanned}]

Accepted == stage \in {"planned", "ready", "executed"}

\* m is completed whenever n has started.
Before(m, n) ==
    \A D \in SUBSET graph.nodes : Prefix(graph, D) /\ graph.deps[n] \subseteq D => m \in D

\* Whatever the executor does with the graph, no node of a module starts until
\* every node of every module before it in the pipeline is completed ("Link
\* current module's entry nodes to previous module's exit nodes"), as long as the
\* modules from the one to the other name all their entry and exit nodes.
ModuleBarrier ==
    Accepted => \A D \in SUBSET graph.nodes : Prefix(graph, D) =>
        \A l, k \in Modules :
            l < k /\ (l .. k) \cap loose = {} /\ D \cap owned[k] # {} => owned[l] \subseteq D

\* Module k, or the module with nodes before it, names no nodes to link.
Cut(k) ==
    /\ owned[k] # {}
    /\ \/ outcomes[k].frag.entry = {}
       \/ \E j \in 1..(k - 1) : /\ owned[j] # {} /\ outcomes[j].frag.exit = {}
                                /\ \A m \in (j + 1)..(k - 1) : owned[m] = {}

From(k) == UNION {owned[m] : m \in k..Len(Planned[config])}

\* Modules that forget to compute their ends (DeployLoadBalancerTask) cut the
\* graph in two: the executor may complete everything planned from there on
\* before it starts anything planned earlier.
UnnamedEndsCut ==
    Accepted => \A k \in Modules : Cut(k) => Prefix(graph, From(k))

HasReturned == {k \in Modules : outcomes[k].result = "fragment"}

\* What can keep modules from becoming one graph: an error, a cycle in one of
\* their fragments or a node id two of them use.
Obstacle ==
    \/ \E k \in Modules : outcomes[k].result = "error"
    \/ \E k \in HasReturned : ~Acyclic(outcomes[k].frag)
    \/ \E k, l \in HasReturned :
           k # l /\ outcomes[k].frag.nodes \cap outcomes[l].frag.nodes # {}

\* Plan gives up exactly for a reason the modules gave it: linking makes no graph
\* invalid, and no clash of node ids ("duplicate NodeID") and no cycle of a
\* module gets through to the engine.
PlansWhenModulesDo ==
    /\ stage = "done" /\ exit = "error" /\ (config \in UsesAssets => assets) => Obstacle
    /\ Accepted => ~Obstacle

\* The command reports success only if no module failed and the engine was given
\* all the nodes they planned; only a module that panicked can be missing.
SuccessIsComplete ==
    exit = "ok" =>
        /\ \A k \in Modules : outcomes[k].result \in {"fragment", "panic"}
        /\ graph.nodes = UNION {outcomes[k].frag.nodes : k \in HasReturned}

\* "Panic is caught and converted into a returned error"
\* (PIPELINE_STABILITY_REPORT.md): no success without a module that panicked.
PanicBecomesError ==
    exit = "ok" => \A k \in Modules : outcomes[k].result # "panic"

\* The order the documentation gives for nodes holds in every execution.
DocumentedOrder ==
    Accepted => \A p \in Order :
        p[1] \in graph.nodes /\ p[2] \in graph.nodes => Before(p[1], p[2])
=============================================================================
