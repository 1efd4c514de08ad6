------------------------- MODULE PipelinePlanProofs -------------------------
(* Proofs about PipelinePlan: what a pipeline's Plan makes of the fragments of
   its modules, for any number of modules, nodes and configurations. *)
EXTENDS PipelinePlan, ModulePlans, FiniteSetTheorems, WellFoundedInduction, TLAPS

-----------------------------------------------------------------------------
(* Graphs. *)

\* A graph is acyclic when every nonempty set of its nodes has a first node.
LEMMA AcyclicFirst ==
    ASSUME NEW f
    PROVE  Acyclic(f) <=> \A S \in SUBSET f.nodes :
                              S # {} => \E n \in S : f.deps[n] \cap S = {}
BY DEF Acyclic

\* The same from the other end, which Validate does not look at: in a finite
\* acyclic graph every nonempty set of nodes has a last node.
LEMMA AcyclicLast ==
    ASSUME NEW f, Acyclic(f), IsFiniteSet(f.nodes),
           NEW S \in SUBSET f.nodes, S # {}
    PROVE  \E n \in S : \A m \in S : n \notin f.deps[m]
<1> SUFFICES ASSUME \A n \in S : \E m \in S : n \in f.deps[m]
             PROVE  FALSE
    OBVIOUS
<1> DEFINE next == [n \in S |-> CHOOSE m \in S : n \in f.deps[m]]
           Image(T) == {next[n] : n \in T}
           C == {T \in SUBSET S : T # {} /\ Image(T) \subseteq T}
<1>1. \A n \in S : next[n] \in S /\ n \in f.deps[next[n]]
    OBVIOUS
<1>2. S \in C
    BY <1>1
<1>3. IsFiniteSet(S) /\ FiniteSubsetsOf(S) = SUBSET S
    BY FS_Subset, FS_FiniteSubsetsOfFinite
<1>4. PICK T \in C : \A U \in C : <<U, T>> \notin StrictSubsetOrdering(S)
    <2> HIDE DEF C
    <2>1. C # {}
        BY <1>2
    <2>2. C \subseteq FiniteSubsetsOf(S)
        BY <1>3 DEF C
    <2>3. IsWellFoundedOn(StrictSubsetOrdering(S), FiniteSubsetsOf(S))
        BY FS_StrictSubsetOrderingWellFounded
    <2> QED
        BY <2>1, <2>2, <2>3, WFMin
<1>5. Image(T) \in C
    <2>1. T \subseteq S /\ T # {} /\ Image(T) \subseteq T
        OBVIOUS
    <2>2. Image(T) # {}
        <3>1. PICK n \in T : TRUE
            BY <2>1
        <3> HIDE DEF next
        <3>2. next[n] \in Image(T)
            OBVIOUS
        <3> QED
            BY <3>2
    <2>3. Image(Image(T)) \subseteq Image(T)
        BY <2>1
    <2> QED
        BY <2>1, <2>2, <2>3
<1>6. Image(T) = T
    <2>1. <<Image(T), T>> \in (SUBSET S) \X (SUBSET S)
        BY <1>5
    <2>2. <<Image(T), T>> \notin StrictSubsetOrdering(S)
        BY <1>4, <1>5
    <2>3. Image(T) \subseteq T
        OBVIOUS
    <2> HIDE DEF Image
    <2> QED
        BY <2>1, <2>2, <2>3 DEF StrictSubsetOrdering
<1>7. \A m \in T : \E n \in T : n \in f.deps[m]
    BY <1>1, <1>6
<1> QED
    BY <1>7, AcyclicFirst

\* g is the graph h with fragment f merged into it, the entry nodes of f linked
\* after the nodes from.
Joined(h, f, from, g) ==
    /\ h.nodes \cap f.nodes = {}
    /\ g.nodes = h.nodes \cup f.nodes
    /\ \A n \in h.nodes : g.deps[n] = h.deps[n]
    /\ \A n \in f.nodes : g.deps[n] = f.deps[n] \cup (IF n \in f.entry THEN from ELSE {})
    /\ from \subseteq h.nodes
    /\ DependenciesExist(h)
    /\ Sound(f)

\* Linking adds no dangling dependency.
LEMMA JoinedDeps ==
    ASSUME NEW h, NEW f, NEW from, NEW g, Joined(h, f, from, g)
    PROVE  DependenciesExist(g)
BY DEF Joined, Sound, DependenciesExist

\* What of a joined graph is done is a possible state of the graph before.
LEMMA JoinedPrefix ==
    ASSUME NEW h, NEW f, NEW from, NEW g, Joined(h, f, from, g),
           NEW D, Prefix(g, D)
    PROVE  Prefix(h, D \cap h.nodes)
BY DEF Joined, Sound, DependenciesExist, Prefix

\* Linking makes no cycle.
LEMMA JoinedAcyclic ==
    ASSUME NEW h, NEW f, NEW from, NEW g, Joined(h, f, from, g)
    PROVE  Acyclic(g) <=> Acyclic(h) /\ Acyclic(f)
<1>1. ASSUME Acyclic(g)
      PROVE  Acyclic(h)
    <2>1. \A S \in SUBSET h.nodes : S # {} => \E n \in S : g.deps[n] \cap S = {}
        BY <1>1, AcyclicFirst DEF Joined
    <2> QED
        BY <2>1, AcyclicFirst DEF Joined
<1>2. ASSUME Acyclic(g)
      PROVE  Acyclic(f)
    <2>1. \A S \in SUBSET f.nodes : S # {} => \E n \in S : g.deps[n] \cap S = {}
        BY <1>2, AcyclicFirst DEF Joined
    <2> QED
        BY <2>1, AcyclicFirst DEF Joined
<1>3. ASSUME Acyclic(h), Acyclic(f)
      PROVE  Acyclic(g)
    <2> SUFFICES ASSUME NEW S \in SUBSET g.nodes, S # {}
                 PROVE  \E n \in S : g.deps[n] \cap S = {}
        BY AcyclicFirst
    <2>1. CASE S \cap h.nodes # {}
        <3>1. PICK n \in S \cap h.nodes : h.deps[n] \cap (S \cap h.nodes) = {}
            BY <1>3, <2>1, AcyclicFirst
        <3>2. h.deps[n] \subseteq h.nodes /\ g.deps[n] = h.deps[n]
            BY DEF Joined, DependenciesExist
        <3> QED
            BY <3>1, <3>2
    <2>2. CASE S \cap h.nodes = {}
        <3>1. S \subseteq f.nodes
            BY <2>2 DEF Joined
        <3>2. PICK n \in S : f.deps[n] \cap S = {}
            BY <1>3, <3>1, AcyclicFirst
        <3>3. g.deps[n] \cap S \subseteq f.deps[n] \cap S
            BY <2>2, <3>1 DEF Joined
        <3> QED
            BY <3>2, <3>3
    <2> QED
        BY <2>1, <2>2
<1> QED
    BY <1>1, <1>2, <1>3

\* A fragment that names its ends opens and closes.
LEMMA EndsNamed ==
    ASSUME NEW f \in Fragment, NamesEnds(f)
    PROVE  Opens(f) /\ Closes(f)
<1>1. /\ f.entry = CalculateEntryAndExitNodes(f).entry
      /\ f.exit = CalculateEntryAndExitNodes(f).exit
    BY DEF NamesEnds
<1> QED
    BY <1>1 DEF CalculateEntryAndExitNodes, Opens, Closes

\* A fragment that names all its first nodes does not start before the nodes it
\* is linked after.
LEMMA StartNeedsLinks ==
    ASSUME NEW h, NEW f \in Fragment, NEW from, NEW g, Joined(h, f, from, g),
           Acyclic(f), Opens(f),
           NEW D, Prefix(g, D), D \cap f.nodes # {}
    PROVE  from \subseteq D
<1>1. PICK n \in D \cap f.nodes : f.deps[n] \cap (D \cap f.nodes) = {}
    BY AcyclicFirst
<1>2. f.deps[n] \subseteq D
    BY DEF Joined, Prefix
<1>3. n \in EntryNodes(f)
    BY <1>1, <1>2 DEF EntryNodes
<1>4. n \in f.entry
    BY <1>3 DEF Opens
<1> QED
    BY <1>4 DEF Joined, Prefix

\* When all its last nodes are done, so is the whole of a fragment.
LEMMA ExitsCloseFragment ==
    ASSUME NEW h, NEW f \in Fragment, NEW from, NEW g, Joined(h, f, from, g),
           Acyclic(f), IsFiniteSet(f.nodes), Closes(f),
           NEW D, Prefix(g, D), f.exit \subseteq D
    PROVE  f.nodes \subseteq D
<1> SUFFICES ASSUME f.nodes \ D # {}
             PROVE  FALSE
    OBVIOUS
<1>1. PICK n \in f.nodes \ D : \A m \in f.nodes \ D : n \notin f.deps[m]
    BY AcyclicLast
<1>2. \A m \in f.nodes \cap D : n \notin f.deps[m]
    BY <1>1 DEF Joined, Prefix
<1>3. n \in ExitNodes(f)
    BY <1>1, <1>2 DEF ExitNodes
<1> QED
    BY <1>1, <1>3 DEF Closes

-----------------------------------------------------------------------------
(* One turn of the loop over the modules. *)

\* What the loop has assembled: the graph is made of the nodes of the modules
\* planned so far, and the next module is linked after nodes of it.
Assembled ==
    /\ graph.ok
    /\ DependenciesExist(graph)
    /\ prevExit \subseteq graph.nodes
    /\ graph.nodes = UNION {owned[k] : k \in Modules}
    /\ \A k \in Modules : k >= i => owned[k] = {}

\* Only a module that returned a fragment contributes nodes: SafeModulePlan gives
\* nothing after a panic and no graph after an error.
LEMMA SafePlanReturns ==
    ASSUME TypeOK, i \in Modules,
           NEW o \in Planned[config][i], SafeModulePlan(o).ok, ~IsEmpty(SafeModulePlan(o))
    PROVE  /\ o.result = "fragment"
           /\ SafeModulePlan(o) = o.frag
           /\ o.frag \in Fragment
           /\ o.frag \in Returned(config, i)
<1>1. o \in Outcome
    BY PlannedAssumption DEF TypeOK, Modules
<1>2. o.result # "panic" /\ o.result # "error"
    BY DEF SafeModulePlan, IsEmpty, NewExecutionFragment, Failure
<1> QED
    BY <1>1, <1>2 DEF SafeModulePlan, Outcome, Returned

\* Merging gives a graph with the nodes of both.
LEMMA MergedFields ==
    ASSUME NEW h \in Fragment, NEW f \in Fragment, h.ok, f.ok, h.nodes \cap f.nodes = {},
           NEW m, m = MergeFragment(h, f)
    PROVE  /\ m \in Fragment
           /\ m.ok
           /\ m.nodes = h.nodes \cup f.nodes
           /\ \A n \in NodeId : m.deps[n] = IF n \in f.nodes THEN f.deps[n] ELSE h.deps[n]
BY DEF MergeFragment, Fragment

WithLinks(m, from, to) == [m EXCEPT !.deps = Linked(m.deps, from, to)]

\* What linking changes of a fragment.
LEMMA LinkedFields ==
    ASSUME NEW m \in Fragment, NEW from \in SUBSET NodeId, NEW to
    PROVE  /\ WithLinks(m, from, to) \in Fragment
           /\ WithLinks(m, from, to).ok = m.ok
           /\ WithLinks(m, from, to).nodes = m.nodes
           /\ \A n \in NodeId : WithLinks(m, from, to).deps[n] =
                  m.deps[n] \cup (IF n \in to THEN from ELSE {})
<1> DEFINE d == Linked(m.deps, from, to)
           g == [m EXCEPT !.deps = d]
<1>1. d \in [NodeId -> SUBSET NodeId]
    BY DEF Linked, Fragment
<1>2. \A n \in NodeId : d[n] = m.deps[n] \cup (IF n \in to THEN from ELSE {})
    BY DEF Linked
<1>3. WithLinks(m, from, to) = g
    BY DEF WithLinks
<1> HIDE DEF d
<1>4. g \in Fragment
    BY <1>1 DEF Fragment
<1>5. g.ok = m.ok /\ g.nodes = m.nodes /\ g.deps = d
    BY DEF Fragment
<1> QED
    BY <1>2, <1>3, <1>4, <1>5

\* Merging f and linking its entry nodes joins it to the graph, whether linking
\* has anything to do or not.
LEMMA MergeLinkJoins ==
    ASSUME NEW h \in Fragment, NEW f \in Fragment, h.ok, f.ok, h.nodes \cap f.nodes = {},
           DependenciesExist(h), Sound(f), NEW from \in SUBSET h.nodes,
           NEW m, m = MergeFragment(h, f), NEW g,
           \/ g = m /\ (from = {} \/ f.entry = {})
           \/ g = WithLinks(m, from, f.entry)
    PROVE  g \in Fragment /\ g.ok /\ Joined(h, f, from, g)
<1>1. /\ m \in Fragment
      /\ m.ok
      /\ m.nodes = h.nodes \cup f.nodes
      /\ \A n \in NodeId : m.deps[n] = IF n \in f.nodes THEN f.deps[n] ELSE h.deps[n]
    BY MergedFields
<1>2. from \in SUBSET NodeId /\ f.nodes \subseteq NodeId /\ h.nodes \subseteq NodeId
    BY DEF Fragment
<1>3. /\ g \in Fragment
      /\ g.ok
      /\ g.nodes = m.nodes
      /\ \A n \in NodeId : g.deps[n] =
             m.deps[n] \cup (IF n \in f.entry THEN from ELSE {})
    <2>1. CASE g = m /\ (from = {} \/ f.entry = {})
        BY <1>1, <2>1
    <2>2. CASE g = WithLinks(m, from, f.entry)
        <3>1. m \in Fragment
            BY <1>1
        <3>2. /\ g \in Fragment
              /\ g.ok = m.ok
              /\ g.nodes = m.nodes
              /\ \A n \in NodeId : g.deps[n] =
                     m.deps[n] \cup (IF n \in f.entry THEN from ELSE {})
            BY <1>2, <2>2, <3>1, LinkedFields
        <3> QED
            BY <1>1, <3>2
    <2> QED
        BY <2>1, <2>2
<1>4. f.entry \subseteq f.nodes
    BY DEF Sound
<1>5. /\ \A n \in h.nodes : g.deps[n] = h.deps[n]
      /\ \A n \in f.nodes : g.deps[n] = f.deps[n] \cup (IF n \in f.entry THEN from ELSE {})
    <2>1. ASSUME NEW n \in h.nodes
          PROVE  g.deps[n] = h.deps[n]
        <3>1. n \in NodeId /\ n \notin f.nodes /\ n \notin f.entry
            BY <1>2, <1>4
        <3>2. m.deps[n] = h.deps[n]
            BY <1>1, <3>1
        <3>3. g.deps[n] = m.deps[n] \cup (IF n \in f.entry THEN from ELSE {})
            BY <1>3, <3>1
        <3> QED
            BY <3>1, <3>2, <3>3
    <2>2. ASSUME NEW n \in f.nodes
          PROVE  g.deps[n] = f.deps[n] \cup (IF n \in f.entry THEN from ELSE {})
        <3>1. n \in NodeId
            BY <1>2
        <3>2. m.deps[n] = f.deps[n]
            BY <1>1, <3>1
        <3> QED
            BY <1>3, <3>1, <3>2
    <2> QED
        BY <2>1, <2>2
<1> QED
    BY <1>1, <1>3, <1>5 DEF Joined

\* Linking a module, in either of the two ways the pipelines do it, joins its
\* fragment to the graph, and fails only over a node both have.
LEMMA ModuleLinked ==
    ASSUME TypeOK, Assembled, NEW f \in Fragment, f.ok, Sound(f),
           NEW g, g = LinkModule(MergeFragment(graph, f), f.entry)
    PROVE  /\ g \in Fragment
           /\ g.ok => Joined(graph, f, prevExit, g)
           /\ graph.nodes \cap f.nodes = {} => g.ok
<1>1. PICK m : m = MergeFragment(graph, f)
    OBVIOUS
<1>2. graph \in Fragment /\ graph.ok /\ DependenciesExist(graph)
    BY DEF TypeOK, Assembled
<1>3. prevExit \in SUBSET graph.nodes /\ prevExit \in SUBSET NodeId
    BY DEF TypeOK, Assembled
<1>4. CASE graph.nodes \cap f.nodes # {}
    <2>1. m = Failure
        BY <1>1, <1>4 DEF MergeFragment
    <2>2. m \in Fragment /\ ~m.ok
        BY <2>1 DEF Failure, NewExecutionFragment, Fragment
    <2>3. CASE config \in UsesLinkFragments
        BY <1>1, <1>4, <2>1, <2>2, <2>3 DEF LinkModule, LinkFragments
    <2>4. CASE config \notin UsesLinkFragments
        <3> DEFINE d == Linked(m.deps, prevExit, f.entry \cap m.nodes)
        <3>1. g = [m EXCEPT !.deps = d]
            BY <1>1, <2>4 DEF LinkModule
        <3>2. d \in [NodeId -> SUBSET NodeId]
            BY <1>3, <2>2 DEF Linked, Fragment
        <3> HIDE DEF d
        <3> QED
            BY <1>4, <2>2, <3>1, <3>2 DEF Fragment
    <2> QED
        BY <2>3, <2>4
<1>5. CASE graph.nodes \cap f.nodes = {}
    <2>1. m.ok /\ m.nodes = graph.nodes \cup f.nodes
        BY <1>1, <1>2, <1>5, MergedFields
    <2>2. f.entry \subseteq f.nodes
        BY DEF Sound
    <2>3. \/ g = m /\ (prevExit = {} \/ f.entry = {})
          \/ g = WithLinks(m, prevExit, f.entry)
        <3>1. CASE config \in UsesLinkFragments
            <4>1. prevExit \cup f.entry \subseteq m.nodes /\ prevExit \cap f.entry = {}
                BY <1>3, <1>5, <2>1, <2>2
            <4> QED
                BY <1>1, <2>1, <3>1, <4>1 DEF LinkModule, LinkFragments, WithLinks
        <3>2. CASE config \notin UsesLinkFragments
            <4>1. f.entry \cap m.nodes = f.entry
                BY <2>1, <2>2
            <4> QED
                BY <1>1, <3>2, <4>1 DEF LinkModule, WithLinks
        <3> QED
            BY <3>1, <3>2
    <2> QED
        BY <1>1, <1>2, <1>3, <1>5, <2>3, MergeLinkJoins
<1> QED
    BY <1>4, <1>5

-----------------------------------------------------------------------------
(* Types. *)

\* Merging and linking give fragments, whatever the module returned.
LEMMA LinkModuleType ==
    ASSUME TypeOK, NEW f \in Fragment
    PROVE  LinkModule(MergeFragment(graph, f), f.entry) \in Fragment
<1>1. Failure \in Fragment
    BY DEF Failure, NewExecutionFragment, Fragment
<1>2. PICK m \in Fragment : m = MergeFragment(graph, f)
    <2>1. graph \in Fragment
        BY DEF TypeOK
    <2>2. CASE ~graph.ok \/ ~f.ok \/ graph.nodes \cap f.nodes # {}
        BY <1>1, <2>2 DEF MergeFragment
    <2>3. CASE graph.ok /\ f.ok /\ graph.nodes \cap f.nodes = {}
        BY <2>1, <2>3, MergedFields
    <2> QED
        BY <2>2, <2>3
<1>3. \A to : [m EXCEPT !.deps = Linked(m.deps, prevExit, to)] \in Fragment
    <2> SUFFICES ASSUME NEW to
                 PROVE  [m EXCEPT !.deps = Linked(m.deps, prevExit, to)] \in Fragment
        OBVIOUS
    <2> DEFINE d == Linked(m.deps, prevExit, to)
    <2>1. d \in [NodeId -> SUBSET NodeId]
        BY DEF Linked, Fragment, TypeOK
    <2> HIDE DEF d
    <2>2. [m EXCEPT !.deps = d] \in Fragment
        BY <2>1 DEF Fragment
    <2> QED
        BY <2>2 DEF d
<1>4. LinkModule(m, f.entry) \in Fragment
    BY <1>1, <1>3 DEF LinkModule, LinkFragments
<1> QED
    BY <1>2, <1>4

\* Every step keeps the types.
LEMMA TypeNext ==
    ASSUME TypeOK, [Next]_vars
    PROVE  TypeOK'
<1>0. /\ Len(Planned[config]) \in Nat
      /\ \A k \in Modules : Planned[config][k] \subseteq Outcome
    BY PlannedAssumption DEF TypeOK, Modules
<1>1. ASSUME i \in Modules, NEW o \in Planned[config][i], PlanModule(o)
      PROVE  TypeOK'
    <2>1. o.result \in {"fragment", "error", "panic"} /\ SafeModulePlan(o) \in Fragment
        BY <1>0, <1>1 DEF Outcome, SafeModulePlan, NewExecutionFragment, Failure, Fragment
    <2>2. LinkModule(MergeFragment(graph, SafeModulePlan(o)), SafeModulePlan(o).entry)
              \in Fragment
        BY <2>1, LinkModuleType
    <2>3. config' = config /\ Modules' = Modules
        BY <1>1 DEF PlanModule, Modules
    <2>4. graph' \in Fragment /\ prevExit' \subseteq NodeId /\ owned' \in [Modules -> SUBSET NodeId]
        BY <1>1, <2>1, <2>2 DEF PlanModule, TypeOK, Fragment
    <2>5. i' \in 1..(Len(Planned[config]) + 1)
        BY <1>0, <1>1 DEF PlanModule, TypeOK, Modules
    <2>9. loose' \subseteq Modules
        BY <1>1 DEF PlanModule, TypeOK
    <2>6. outcomes' \in [Modules -> Outcome \cup {Unplanned}]
        BY <1>0, <1>1 DEF PlanModule, TypeOK
    <2>7. /\ stage' \in {"planning", "done"}
          /\ exit' \in {"none", "ok", "error"}
        BY <1>1 DEF PlanModule, TypeOK, Fails
    <2>8. assets' = assets /\ result' = result
        BY <1>1 DEF PlanModule
    <2> QED
        BY <2>3, <2>4, <2>5, <2>6, <2>7, <2>8, <2>9 DEF TypeOK
<1>2. CASE FinishPlan
    <2>1. CalculateEntryAndExitNodes(graph) \in Fragment
        BY DEF TypeOK, CalculateEntryAndExitNodes, EntryNodes, ExitNodes, Fragment
    <2>2. graph' \in Fragment
        BY <1>2, <2>1 DEF FinishPlan, TypeOK
    <2> QED
        BY <1>2, <2>2 DEF FinishPlan, Fails, TypeOK, Modules
<1>3. ASSUME NEW o, EnsureAssetsAvailable(o)
      PROVE  TypeOK'
    BY <1>3 DEF EnsureAssetsAvailable, Fails, TypeOK, Modules
<1>4. CASE RunEmpty
    BY <1>4 DEF RunEmpty, TypeOK, Modules
<1>5. ASSUME NEW s \in {"Success", "Failed", "Pending"}, RunGraph(s)
      PROVE  TypeOK'
    BY <1>5 DEF RunGraph, TypeOK, Modules
<1>6. CASE UNCHANGED vars
    BY <1>6 DEF vars, TypeOK, Modules
<1> QED
    BY <1>1, <1>2, <1>3, <1>4, <1>5, <1>6 DEF Next

\* A command starts with values of the right types.
LEMMA TypeInit == Init => TypeOK
<1> SUFFICES ASSUME Init
             PROVE  TypeOK
    OBVIOUS
<1>1. Len(Planned[config]) \in Nat
    BY PlannedAssumption DEF Init
<1>2. graph \in Fragment
    BY DEF Init, NewExecutionFragment, Fragment
<1> QED
    BY <1>1, <1>2 DEF Init, TypeOK, Modules

\* Whatever fragments the modules return, a command's state is of its type: Plan
\* builds a graph over the nodes it knows and counts the modules up to the last.
THEOREM TypeCorrect == Spec => []TypeOK
<1>1. TypeOK /\ [Next]_vars => TypeOK'
    BY TypeNext
<1> QED
    BY <1>1, TypeInit, PTL DEF Spec

-----------------------------------------------------------------------------
(* The barrier between modules. *)

\* Whatever is completed: with a node of a module all modules before it are.
Barrier ==
    \A D \in SUBSET graph.nodes : Prefix(graph, D) =>
        \A l, k \in Modules :
            l < k /\ (l .. k) \cap loose = {} /\ D \cap owned[k] # {} => owned[l] \subseteq D

\* The nodes the next module is linked after close the last module that has any.
Chained ==
    \/ \A k \in Modules : owned[k] = {}
    \/ \E p \in Modules :
           /\ owned[p] # {}
           /\ \A k \in Modules : k > p => owned[k] = {}
           /\ p \notin loose => \A D \in SUBSET graph.nodes :
                                 Prefix(graph, D) /\ prevExit \subseteq D => owned[p] \subseteq D

\* A cyclic graph is assembled like any other and refused by Validate in the end.
BarrierInv ==
    /\ TypeOK
    /\ Assembled
    /\ Acyclic(graph) => Barrier /\ Chained
    /\ Accepted => Acyclic(graph)

\* A turn of the loop leaves the graph alone or joins the module's fragment to it.
LEMMA PlanModuleCases ==
    ASSUME ModulesSound, TypeOK, Assembled,
           i \in Modules, NEW o \in Planned[config][i], PlanModule(o)
    PROVE  \/ UNCHANGED <<graph, prevExit, owned, loose>> /\ i' \in {i, i + 1}
           \/ \E f \in Fragment :
                  /\ f \in Returned(config, i) /\ Sound(f) /\ f.nodes # {}
                  /\ Joined(graph, f, prevExit, graph') /\ graph'.ok
                  /\ i' = i + 1
                  /\ prevExit' = f.exit
                  /\ owned' = [owned EXCEPT ![i] = f.nodes]
                  /\ loose \subseteq loose'
                  /\ i \notin loose' => NamesEnds(f)
<1> DEFINE f == SafeModulePlan(o)
           g == LinkModule(MergeFragment(graph, f), f.entry)
<1>1. CASE UNCHANGED <<graph, prevExit, owned, loose>> /\ i' \in {i, i + 1}
    BY <1>1
<1>2. CASE /\ f.ok /\ ~IsEmpty(f) /\ g.ok
           /\ i' = i + 1
           /\ graph' = g
           /\ prevExit' = f.exit
           /\ owned' = [owned EXCEPT ![i] = f.nodes]
           /\ loose' = IF NamesEnds(f) THEN loose ELSE loose \cup {i}
    <2>1. f \in Fragment /\ f \in Returned(config, i)
        BY <1>2, SafePlanReturns
    <2>2. Sound(f)
        BY <1>2, <2>1 DEF ModulesSound, TypeOK, Modules
    <2>3. f.nodes # {}
        BY <1>2 DEF IsEmpty
    <2>4. i \notin loose' => NamesEnds(f)
        BY <1>2
    <2>5. f.ok /\ graph' = g /\ g.ok
        BY <1>2
    <2>6. loose \subseteq loose' /\ i' = i + 1 /\ prevExit' = f.exit
              /\ owned' = [owned EXCEPT ![i] = f.nodes]
        BY <1>2
    <2> HIDE DEF f
    <2>7. Joined(graph, f, prevExit, graph') /\ graph'.ok
        <3>1. PICK h : h = g
            OBVIOUS
        <3>2. h.ok => Joined(graph, f, prevExit, h)
            BY <2>1, <2>2, <2>5, <3>1, ModuleLinked
        <3> QED
            BY <2>5, <3>1, <3>2
    <2> QED
        BY <2>1, <2>2, <2>3, <2>4, <2>6, <2>7
<1> QED
    BY <1>1, <1>2 DEF PlanModule

\* FinishPlan changes the entry and exit nodes of the graph only.
LEMMA FinishKeeps ==
    ASSUME TypeOK, FinishPlan
    PROVE  /\ graph'.nodes = graph.nodes
           /\ graph'.deps = graph.deps
           /\ graph'.ok <=> graph.ok
<1>1. PICK e, x : CalculateEntryAndExitNodes(graph) = [graph EXCEPT !.entry = e, !.exit = x]
    BY DEF CalculateEntryAndExitNodes
<1>2. graph' = graph \/ graph' = [graph EXCEPT !.entry = e, !.exit = x]
    BY <1>1 DEF FinishPlan
<1> QED
    BY <1>2 DEF TypeOK, Fragment

\* The graph stays assembled from what the modules planned.
LEMMA AssembledNext ==
    ASSUME ModulesSound, TypeOK, TypeOK', Assembled, [Next]_vars
    PROVE  Assembled'
<1>1. ASSUME i \in Modules, NEW o \in Planned[config][i], PlanModule(o)
      PROVE  Assembled'
    <2>1. Modules' = Modules /\ Modules \subseteq Int /\ i \in Int
        BY <1>1 DEF PlanModule, Modules, TypeOK
    <2>2. CASE UNCHANGED <<graph, prevExit, owned, loose>> /\ i' \in {i, i + 1}
        BY <2>1, <2>2 DEF Assembled, DependenciesExist
    <2>3. ASSUME NEW f \in Fragment, Sound(f), Joined(graph, f, prevExit, graph'), graph'.ok,
                 i' = i + 1, prevExit' = f.exit, owned' = [owned EXCEPT ![i] = f.nodes]
          PROVE  Assembled'
        <3>1. DependenciesExist(graph')
            BY <2>3, JoinedDeps
        <3>2. graph'.nodes = graph.nodes \cup f.nodes /\ prevExit' \subseteq graph'.nodes
            BY <2>3 DEF Joined, Sound
        <3>3. owned[i] = {}
            BY <1>1, <2>1 DEF Assembled
        <3>4. \A k \in Modules : owned'[k] = IF k = i THEN f.nodes ELSE owned[k]
            BY <2>3 DEF TypeOK
        <3>5. graph'.nodes = UNION {owned'[k] : k \in Modules}
            BY <1>1, <3>2, <3>3, <3>4 DEF Assembled
        <3>6. \A k \in Modules : k >= i' => owned'[k] = {}
            BY <2>1, <2>3, <3>4 DEF Assembled
        <3> QED
            BY <2>1, <2>3, <3>1, <3>2, <3>5, <3>6 DEF Assembled, DependenciesExist
    <2> QED
        BY <1>1, <2>2, <2>3, PlanModuleCases
<1>2. CASE FinishPlan
    <2> QED
        BY <1>2, FinishKeeps DEF FinishPlan, Assembled, DependenciesExist, Modules
<1>3. ASSUME NEW o, EnsureAssetsAvailable(o)
      PROVE  Assembled'
    BY <1>3 DEF EnsureAssetsAvailable, Assembled, DependenciesExist, Modules
<1>4. CASE RunEmpty
    BY <1>4 DEF RunEmpty, Assembled, DependenciesExist, Modules
<1>5. ASSUME NEW s, RunGraph(s)
      PROVE  Assembled'
    BY <1>5 DEF RunGraph, Assembled, DependenciesExist, Modules
<1>6. CASE UNCHANGED vars
    BY <1>6 DEF vars, Assembled, DependenciesExist, Modules
<1> QED
    BY <1>1, <1>2, <1>3, <1>4, <1>5, <1>6 DEF Next

\* A turn of the loop keeps the barrier: a node of the new module in D brings one
\* of its entry nodes, that one the nodes it is linked after, and those the whole
\* of the last module that has nodes, which is behind the barrier already.
LEMMA JoinKeepsBarrier ==
    ASSUME TypeOK, TypeOK', Assembled, i \in Modules, Modules' = Modules,
           NEW f \in Fragment, f.nodes # {},
           Joined(graph, f, prevExit, graph'),
           i' = i + 1, prevExit' = f.exit, owned' = [owned EXCEPT ![i] = f.nodes],
           loose \subseteq loose', i \notin loose' => NamesEnds(f),
           Acyclic(graph'), Barrier, Chained
    PROVE  Barrier' /\ Chained'
<1>1. /\ Modules \subseteq Int /\ i \in Int
      /\ \A k \in Modules : owned'[k] = IF k = i THEN f.nodes ELSE owned[k]
    BY DEF TypeOK, Modules
<1>2. \A k \in Modules : k > i => owned[k] = {} /\ owned'[k] = {}
    <2>1. \A k \in Modules : k > i => k >= i /\ k # i
        BY <1>1
    <2> QED
        BY <1>1, <2>1 DEF Assembled
<1>3. Acyclic(f) /\ IsFiniteSet(f.nodes)
    BY JoinedAcyclic, NodesAssumption, FS_Subset DEF Fragment
<1>4. \A k \in Modules : owned[k] \subseteq graph.nodes
    BY DEF Assembled
<1>5. owned[i] = {}
    BY <1>1 DEF Assembled
<1>6. ASSUME NEW D \in SUBSET graph'.nodes, Prefix(graph', D), NEW l \in Modules, NEW k \in Modules,
             l < k, (l .. k) \cap loose' = {}, D \cap owned'[k] # {}
      PROVE  owned'[l] \subseteq D
    <2> DEFINE E == D \cap graph.nodes
    <2>1. Prefix(graph, E) /\ E \in SUBSET graph.nodes
        BY <1>6, JoinedPrefix
    <2>2. (l .. k) \cap loose = {} /\ k <= i /\ l # i
        <3>1. (l .. k) \cap loose = {}
            BY <1>6
        <3>2. ~(k > i)
            BY <1>2, <1>6
        <3>3. l \in Int /\ k \in Int /\ i \in Int /\ l < k
            BY <1>1, <1>6
        <3>4. k <= i /\ l # i
            BY ONLY <3>2, <3>3
        <3> QED
            BY <3>1, <3>4
    <2>3. owned'[l] = owned[l] /\ owned[l] \subseteq graph.nodes
        BY <1>1, <1>4, <2>2
    <2>4. CASE k # i
        <3>1. E \cap owned[k] # {}
            BY <1>1, <1>4, <1>6, <2>4
        <3> QED
            BY <1>6, <2>1, <2>2, <2>3, <3>1 DEF Barrier
    <2>5. CASE k = i
        <3>1. NamesEnds(f) /\ D \cap f.nodes # {}
            BY <1>1, <1>6, <2>5
        <3>2. prevExit \subseteq D
            BY <1>3, <1>6, <3>1, EndsNamed, StartNeedsLinks
        <3>3. prevExit \subseteq E
            BY <3>2 DEF Assembled
        <3>4. CASE \A m \in Modules : owned[m] = {}
            BY <2>3, <3>4
        <3>5. ASSUME NEW p \in Modules, owned[p] # {},
                     \A m \in Modules : m > p => owned[m] = {},
                     p \notin loose => \A C \in SUBSET graph.nodes :
                         Prefix(graph, C) /\ prevExit \subseteq C => owned[p] \subseteq C
              PROVE  owned[l] \subseteq E
            <4>1. CASE l > p
                BY <3>5, <4>1
            <4>2. CASE l <= p
                <5>1. p < i
                    BY <1>1, <1>2, <1>5, <3>5
                <5>2. p \notin loose /\ (l .. p) \cap loose = {}
                    BY <1>1, <1>6, <2>2, <2>5, <4>2, <5>1
                <5>3. owned[p] \subseteq E
                    BY <2>1, <3>3, <3>5, <5>2
                <5>4. CASE l = p
                    BY <5>3, <5>4
                <5>5. CASE l < p
                    <6>1. E \cap owned[p] # {}
                        BY <3>5, <5>3
                    <6> QED
                        BY <2>1, <5>2, <5>5, <6>1 DEF Barrier
                <5> QED
                    BY <1>1, <4>2, <5>4, <5>5
            <4> QED
                BY <1>1, <4>1, <4>2
        <3> QED
            BY <2>3, <3>4, <3>5 DEF Chained
    <2> QED
        BY <2>4, <2>5
<1>7. Barrier'
    BY <1>6 DEF Barrier
<1>8. ASSUME i \notin loose', NEW D \in SUBSET graph'.nodes, Prefix(graph', D), prevExit' \subseteq D
      PROVE  owned'[i] \subseteq D
    <2>1. f.exit \subseteq D /\ NamesEnds(f)
        BY <1>8
    <2>2. f.nodes \subseteq D
        BY <1>3, <1>8, <2>1, EndsNamed, ExitsCloseFragment
    <2> QED
        BY <1>1, <2>2
<1>9. Chained'
    <2>1. owned'[i] # {}
        BY <1>1
    <2> QED
        BY <1>2, <1>8, <2>1 DEF Chained
<1> QED
    BY <1>7, <1>9

\* Every step keeps the invariant.
LEMMA BarrierNext ==
    ASSUME ModulesSound, BarrierInv, [Next]_vars
    PROVE  BarrierInv'
<1>0. TypeOK /\ TypeOK' /\ Assembled /\ Assembled'
    BY TypeNext, AssembledNext DEF BarrierInv
<1>1. ASSUME i \in Modules, NEW o \in Planned[config][i], PlanModule(o)
      PROVE  BarrierInv'
    <2>1. Modules' = Modules /\ ~Accepted'
        BY <1>1 DEF PlanModule, Modules, Accepted, Fails
    <2>2. CASE UNCHANGED <<graph, prevExit, owned, loose>> /\ i' \in {i, i + 1}
        BY <1>0, <2>1, <2>2 DEF BarrierInv, Acyclic, Barrier, Chained, Prefix
    <2>3. ASSUME NEW f \in Fragment, Joined(graph, f, prevExit, graph'), f.nodes # {},
                 i' = i + 1, prevExit' = f.exit, owned' = [owned EXCEPT ![i] = f.nodes],
                 loose \subseteq loose', i \notin loose' => NamesEnds(f),
                 Acyclic(graph')
          PROVE  Barrier' /\ Chained'
        <3>1. Acyclic(graph)
            BY <2>3, JoinedAcyclic
        <3>2. Barrier /\ Chained
            BY <3>1 DEF BarrierInv
        <3> QED
            BY <1>0, <1>1, <2>1, <2>3, <3>2, JoinKeepsBarrier
    <2>4. Acyclic(graph)' => Acyclic(graph')
        BY DEF Acyclic
    <2> QED
        BY <1>0, <1>1, <2>1, <2>2, <2>3, <2>4, PlanModuleCases DEF BarrierInv
<1>2. CASE FinishPlan
    <2>1. graph'.nodes = graph.nodes /\ graph'.deps = graph.deps
        BY <1>0, <1>2, FinishKeeps
    <2>2. Modules' = Modules /\ prevExit' = prevExit /\ owned' = owned /\ loose' = loose
        BY <1>2 DEF FinishPlan, Modules
    <2>3. (Acyclic(graph)' <=> Acyclic(graph)) /\ (Barrier' <=> Barrier) /\ (Chained' <=> Chained)
        BY <2>1, <2>2 DEF Acyclic, Barrier, Chained, Prefix
    <2>4. Accepted' => Acyclic(graph)'
        BY <1>2, <2>1 DEF FinishPlan, Accepted, Fails, Acyclic
    <2> QED
        BY <1>0, <2>3, <2>4 DEF BarrierInv
<1>3. ASSUME UNCHANGED <<config, graph, prevExit, owned, loose>>, Accepted' => Accepted
      PROVE  BarrierInv'
    BY <1>0, <1>3 DEF BarrierInv, Acyclic, Barrier, Chained, Prefix, Modules
<1>4. ASSUME NEW o, EnsureAssetsAvailable(o)
      PROVE  BarrierInv'
    BY <1>3, <1>4 DEF EnsureAssetsAvailable, Accepted, Fails
<1>5. CASE RunEmpty
    BY <1>3, <1>5 DEF RunEmpty, Accepted
<1>6. ASSUME NEW s, RunGraph(s)
      PROVE  BarrierInv'
    BY <1>3, <1>6 DEF RunGraph, Accepted, CanRun
<1>7. CASE UNCHANGED vars
    BY <1>3, <1>7 DEF vars, Accepted
<1> QED
    BY <1>1, <1>2, <1>4, <1>5, <1>6, <1>7 DEF Next

\* Between modules that name all their entry and exit nodes the links Plan adds
\* are a barrier, for any number of modules, of nodes and of empty modules in
\* between, and whichever of the two ways of linking the pipeline uses.
THEOREM ModulesInOrder ==
    ASSUME ModulesSound
    PROVE  Spec => []ModuleBarrier
<1>1. Init => BarrierInv
    <2> SUFFICES ASSUME Init
                 PROVE  BarrierInv
        OBVIOUS
    <2>1. TypeOK
        BY TypeInit
    <2>2. graph.nodes = {} /\ graph.ok /\ \A k \in Modules : owned[k] = {}
        BY DEF Init, NewExecutionFragment
    <2>3. Assembled
        BY <2>2 DEF Init, Assembled, DependenciesExist
    <2>4. Barrier /\ Chained /\ ~Accepted
        BY <2>2 DEF Init, Barrier, Chained, Accepted
    <2> QED
        BY <2>1, <2>3, <2>4 DEF BarrierInv
<1>2. BarrierInv /\ [Next]_vars => BarrierInv'
    BY BarrierNext
<1>3. BarrierInv => ModuleBarrier
    BY DEF BarrierInv, Barrier, ModuleBarrier
<1> QED
    BY <1>1, <1>2, <1>3, PTL DEF Spec

-----------------------------------------------------------------------------
(* The documented order of nodes. *)

\* The nodes of the graph are those of fragments the modules can return.
Attributed ==
    \A k \in Modules : owned[k] # {} => \E h \in Returned(config, k) : owned[k] = h.nodes

\* With a node of a module every module is completed that holds it back.
Behind ==
    \A D \in SUBSET graph.nodes : Prefix(graph, D) =>
        \A l, k \in Modules :
            l < k /\ HoldsBack(config, l, k) /\ D \cap owned[k] # {} => owned[l] \subseteq D

\* So it is with the nodes the next module is linked after.
Held ==
    \A D \in SUBSET graph.nodes : Prefix(graph, D) /\ prevExit \subseteq D =>
        \A l \in Modules : l < i /\ HoldsBack(config, l, i - 1) => owned[l] \subseteq D

OrderInv ==
    /\ TypeOK
    /\ Assembled
    /\ Attributed
    /\ Acyclic(graph) => Behind /\ Held
    /\ Accepted => Acyclic(graph)

\* What is held back up to a module is held back up to the one before it.
LEMMA HoldsBackEarlier ==
    ASSUME NEW c, NEW l \in Int, NEW k \in Int, HoldsBack(c, l, k)
    PROVE  HoldsBack(c, l, k - 1)
BY DEF HoldsBack

\* A turn of the loop that joins a fragment: a node of it in D brings an entry node,
\* that one the nodes it is linked after, and those what they held back. Its exit
\* nodes bring all of it when it closes, and one of its nodes when it has any.
LEMMA JoinHoldsBack ==
    ASSUME TypeOK, TypeOK', Assembled, i \in Modules, Modules' = Modules, config' = config,
           NEW f \in Fragment, f \in Returned(config, i), f.nodes # {}, Sound(f),
           Joined(graph, f, prevExit, graph'),
           i' = i + 1, prevExit' = f.exit, owned' = [owned EXCEPT ![i] = f.nodes],
           Acyclic(graph'), Behind, Held
    PROVE  Behind' /\ Held'
<1>1. /\ Modules \subseteq Int /\ i \in Int
      /\ \A k \in Modules : owned'[k] = IF k = i THEN f.nodes ELSE owned[k]
    BY DEF TypeOK, Modules
<1>2. \A k \in Modules : k > i => owned'[k] = {}
    BY <1>1 DEF Assembled
<1>3. Acyclic(f) /\ IsFiniteSet(f.nodes)
    BY JoinedAcyclic, NodesAssumption, FS_Subset DEF Fragment
<1>4. \A k \in Modules : owned[k] \subseteq graph.nodes
    BY DEF Assembled
<1>5. ASSUME NEW l \in Modules, l < i, HoldsBack(config, l, i)
      PROVE  HoldsBack(config, l, i - 1) /\ Opens(f) /\ f.exit # {}
    <2>1. i \in (l + 1) .. i
        BY <1>1, <1>5
    <2>2. Opens(f) /\ f.exit # {}
        BY <1>5, <2>1 DEF HoldsBack, IsEmpty
    <2> QED
        BY <1>1, <1>5, <2>2, HoldsBackEarlier
<1>6. ASSUME NEW D \in SUBSET graph'.nodes, Prefix(graph', D), D \cap f.nodes # {},
             NEW l \in Modules, l < i, HoldsBack(config, l, i)
      PROVE  owned[l] \subseteq D
    <2>1. PICK E \in SUBSET graph.nodes : E = D \cap graph.nodes
        OBVIOUS
    <2>2. Prefix(graph, E)
        BY <1>6, <2>1, JoinedPrefix
    <2>3. prevExit \subseteq D
        BY <1>3, <1>5, <1>6, StartNeedsLinks
    <2>4. prevExit \subseteq E
        BY <2>1, <2>3 DEF Assembled
    <2>5. owned[l] \subseteq E
        BY <1>5, <1>6, <2>2, <2>4 DEF Held
    <2> QED
        BY <2>1, <2>5
<1>7. Behind'
    <2> SUFFICES ASSUME NEW D \in SUBSET graph'.nodes, Prefix(graph', D),
                        NEW l \in Modules, NEW k \in Modules,
                        l < k, HoldsBack(config, l, k), D \cap owned'[k] # {}
                 PROVE  owned'[l] \subseteq D
        BY DEF Behind, HoldsBack, Returned, Prefix
    <2>1. k <= i /\ l # i
        <3>1. ~(k > i)
            BY <1>2
        <3>2. l \in Int /\ k \in Int /\ i \in Int
            BY <1>1
        <3> QED
            BY <3>1, <3>2
    <2>2. owned'[l] = owned[l]
        BY <1>1, <2>1
    <2>3. CASE k = i
        BY <1>1, <1>6, <2>2, <2>3
    <2>4. CASE k # i
        <3>1. PICK E \in SUBSET graph.nodes : E = D \cap graph.nodes
            OBVIOUS
        <3>2. Prefix(graph, E)
            BY <3>1, JoinedPrefix
        <3>3. E \cap owned[k] # {}
            BY <1>1, <1>4, <2>4, <3>1
        <3>4. owned[l] \subseteq E
            BY <3>2, <3>3 DEF Behind
        <3> QED
            BY <2>2, <3>1, <3>4
    <2> QED
        BY <2>3, <2>4
<1>8. Held'
    <2>1. i' - 1 = i
        BY <1>1
    <2> SUFFICES ASSUME NEW D \in SUBSET graph'.nodes, Prefix(graph', D), f.exit \subseteq D,
                        NEW l \in Modules, l < i + 1, HoldsBack(config, l, i)
                 PROVE  owned'[l] \subseteq D
        BY <2>1 DEF Held, HoldsBack, Returned, Prefix
    <2>2. CASE l = i
        <3>1. Closes(f)
            BY <2>2 DEF HoldsBack
        <3>2. f.nodes \subseteq D
            BY <1>3, <3>1, ExitsCloseFragment
        <3> QED
            BY <1>1, <2>2, <3>2
    <2>3. CASE l # i
        <3>1. l < i
            BY <1>1, <2>3
        <3>2. D \cap f.nodes # {}
            BY <1>5, <3>1 DEF Sound
        <3> QED
            BY <1>1, <1>6, <2>3, <3>1, <3>2
    <2> QED
        BY <2>2, <2>3
<1> QED
    BY <1>7, <1>8

\* Every step keeps the invariant.
LEMMA OrderNext ==
    ASSUME ModulesSound, OrderInv, [Next]_vars
    PROVE  OrderInv'
<1>0. TypeOK /\ TypeOK' /\ Assembled /\ Assembled' /\ Attributed
    BY TypeNext, AssembledNext DEF OrderInv
<1>1. ASSUME i \in Modules, NEW o \in Planned[config][i], PlanModule(o)
      PROVE  OrderInv'
    <2>1. Modules' = Modules /\ ~Accepted' /\ config' = config
        BY <1>1 DEF PlanModule, Modules, Accepted, Fails
    <2>2. i \in Int /\ Modules \subseteq Int
        BY <1>0 DEF TypeOK, Modules
    <2>3. CASE UNCHANGED <<graph, prevExit, owned, loose>> /\ i' \in {i, i + 1}
        <3>1. (Acyclic(graph)' <=> Acyclic(graph)) /\ (Behind' <=> Behind)
            BY <2>1, <2>3 DEF Acyclic, Behind, HoldsBack, Returned, Prefix
        <3>2. Held => Held'
            <4> SUFFICES ASSUME Held, NEW D \in SUBSET graph.nodes, Prefix(graph, D),
                                prevExit \subseteq D, NEW l \in Modules, l < i',
                                HoldsBack(config, l, i' - 1)
                         PROVE  owned[l] \subseteq D
                BY <2>1, <2>3 DEF Held, HoldsBack, Returned, Prefix
            <4>1. CASE l = i
                BY <1>0, <2>2, <4>1 DEF Assembled
            <4>2. CASE l # i
                <5>1. l < i
                    BY <2>2, <2>3, <4>2
                <5>2. HoldsBack(config, l, i - 1)
                    <6>1. CASE i' = i
                        BY <6>1
                    <6>2. CASE i' = i + 1
                        <7>1. i' - 1 = i
                            BY <2>2, <6>2
                        <7> QED
                            BY <2>2, <7>1, HoldsBackEarlier
                    <6> QED
                        BY <2>3, <6>1, <6>2
                <5> QED
                    BY <5>1, <5>2 DEF Held
            <4> QED
                BY <4>1, <4>2
        <3>3. Attributed'
            BY <1>0, <2>1, <2>3 DEF Attributed, Returned
        <3> QED
            BY <1>0, <2>1, <3>1, <3>2, <3>3 DEF OrderInv
    <2>4. ASSUME NEW f \in Fragment, f \in Returned(config, i), Sound(f), f.nodes # {},
                 Joined(graph, f, prevExit, graph'),
                 i' = i + 1, prevExit' = f.exit, owned' = [owned EXCEPT ![i] = f.nodes]
          PROVE  OrderInv'
        <3>1. ASSUME Acyclic(graph')
              PROVE  Behind' /\ Held'
            <4>1. Acyclic(graph)
                BY <2>4, <3>1, JoinedAcyclic
            <4>2. Behind /\ Held
                BY <4>1 DEF OrderInv
            <4> QED
                BY <1>0, <1>1, <2>1, <2>4, <3>1, <4>2, JoinHoldsBack
        <3>2. Acyclic(graph)' => Acyclic(graph')
            BY DEF Acyclic
        <3>3. \A k \in Modules : owned'[k] = IF k = i THEN f.nodes ELSE owned[k]
            BY <1>0, <2>4 DEF TypeOK
        <3>4. Attributed'
            BY <1>0, <2>1, <2>4, <3>3 DEF Attributed, Returned
        <3> QED
            BY <1>0, <2>1, <3>1, <3>2, <3>4 DEF OrderInv
    <2> QED
        BY <1>0, <1>1, <2>3, <2>4, PlanModuleCases
<1>2. CASE FinishPlan
    <2>1. graph'.nodes = graph.nodes /\ graph'.deps = graph.deps
        BY <1>0, <1>2, FinishKeeps
    <2>2. Modules' = Modules /\ UNCHANGED <<config, i, prevExit, owned>>
        BY <1>2 DEF FinishPlan, Modules
    <2>3. /\ Acyclic(graph)' <=> Acyclic(graph)
          /\ Behind' <=> Behind
          /\ Held' <=> Held
          /\ Attributed' <=> Attributed
        BY <2>1, <2>2 DEF Acyclic, Behind, Held, Attributed, HoldsBack, Returned, Prefix
    <2>4. Accepted' => Acyclic(graph)'
        BY <1>2, <2>1 DEF FinishPlan, Accepted, Fails, Acyclic
    <2> QED
        BY <1>0, <2>3, <2>4 DEF OrderInv
<1>3. ASSUME UNCHANGED <<config, i, graph, prevExit, owned>>, Accepted' => Accepted
      PROVE  OrderInv'
    <2>1. /\ Acyclic(graph)' <=> Acyclic(graph)
          /\ Behind' <=> Behind
          /\ Held' <=> Held
          /\ Attributed' <=> Attributed
        BY <1>3 DEF Acyclic, Behind, Held, Attributed, HoldsBack, Returned, Prefix, Modules
    <2> QED
        BY <1>0, <1>3, <2>1 DEF OrderInv
<1>4. ASSUME NEW o, EnsureAssetsAvailable(o)
      PROVE  OrderInv'
    BY <1>3, <1>4 DEF EnsureAssetsAvailable, Accepted, Fails
<1>5. CASE RunEmpty
    BY <1>3, <1>5 DEF RunEmpty, Accepted
<1>6. ASSUME NEW s, RunGraph(s)
      PROVE  OrderInv'
    BY <1>3, <1>6 DEF RunGraph, Accepted, CanRun
<1>7. CASE UNCHANGED vars
    BY <1>3, <1>7 DEF vars, Accepted
<1> QED
    BY <1>1, <1>2, <1>4, <1>5, <1>6, <1>7 DEF Next

\* A documented order between nodes of different modules holds in every execution
\* of the graph, if the earlier module names all its exit nodes and every module
\* after it up to the later one all its entry nodes and at least one exit node. So
\* connectivity is checked before anything else even in pipelines with a module
\* that forgets some of its last nodes (the kubexm control plane), and may not be
\* with one that names none (the load balancer).
THEOREM OrderKept ==
    ASSUME ModulesSound, ModulesOrdered
    PROVE  Spec => []DocumentedOrder
<1>1. Init => OrderInv
    <2> SUFFICES ASSUME Init
                 PROVE  OrderInv
        OBVIOUS
    <2>1. graph.nodes = {} /\ graph.ok /\ \A k \in Modules : owned[k] = {}
        BY DEF Init, NewExecutionFragment
    <2>2. Assembled
        BY <2>1 DEF Init, Assembled, DependenciesExist
    <2>3. Behind /\ Held /\ Attributed /\ ~Accepted
        BY <2>1 DEF Init, Behind, Held, Attributed, Accepted
    <2> QED
        BY <2>2, <2>3, TypeInit DEF OrderInv
<1>2. OrderInv /\ [Next]_vars => OrderInv'
    BY OrderNext
<1>3. OrderInv => DocumentedOrder
    <2> SUFFICES ASSUME OrderInv, Accepted, NEW p \in Order,
                        p[1] \in graph.nodes, p[2] \in graph.nodes,
                        NEW D \in SUBSET graph.nodes, Prefix(graph, D),
                        graph.deps[p[2]] \subseteq D
                 PROVE  p[1] \in D
        BY DEF DocumentedOrder, Before
    <2>1. config \in Config /\ Modules = 1..Len(Planned[config]) /\ Behind
        BY DEF OrderInv, TypeOK, Modules
    <2>2. PICK l \in Modules : p[1] \in owned[l]
        BY DEF OrderInv, Assembled
    <2>3. PICK k \in Modules : p[2] \in owned[k]
        BY DEF OrderInv, Assembled
    <2>4. PICK g \in Returned(config, l) : owned[l] = g.nodes
        BY <2>2 DEF OrderInv, Attributed
    <2>5. PICK h \in Returned(config, k) : owned[k] = h.nodes
        BY <2>3 DEF OrderInv, Attributed
    <2>6. l < k /\ HoldsBack(config, l, k)
        BY <2>1, <2>2, <2>3, <2>4, <2>5 DEF ModulesOrdered, OrderedIn
    <2>7. p[1] # p[2]
        <3>1. l \in Int /\ ~(l < l)
            BY <2>1
        <3> QED
            BY <2>1, <2>2, <2>4, <3>1 DEF ModulesOrdered, OrderedIn
    <2>8. PICK E \in SUBSET graph.nodes : E = D \cup {p[2]}
        OBVIOUS
    <2>9. Prefix(graph, E) /\ E \cap owned[k] # {}
        BY <2>3, <2>8 DEF Prefix
    <2>10. owned[l] \subseteq E
        BY <2>1, <2>6, <2>9 DEF Behind
    <2> QED
        BY <2>2, <2>7, <2>8, <2>10
<1> QED
    BY <1>1, <1>2, <1>3, PTL DEF Spec

-----------------------------------------------------------------------------
(* Giving up and reporting success. The ledger: the graph is made of exactly the
   fragments the modules before the next one returned; they have no nodes in
   common, and the graph has a cycle only if one of them has. *)

Ledger ==
    \A k \in Modules :
        /\ k < i => outcomes[k].result \in {"fragment", "panic"}
        /\ owned[k] = IF k < i /\ k \in HasReturned THEN outcomes[k].frag.nodes ELSE {}

Apart ==
    \A k, l \in HasReturned :
        k # l /\ k < i /\ l < i => outcomes[k].frag.nodes \cap outcomes[l].frag.nodes = {}

CyclesKnown ==
    Acyclic(graph) <=> \A k \in HasReturned : k < i => Acyclic(outcomes[k].frag)

LedgerInv ==
    /\ TypeOK
    /\ Assembled
    /\ Ledger
    /\ Apart
    /\ CyclesKnown
    /\ stage = "planning" => exit = "none"
    /\ Accepted => i \notin Modules /\ Acyclic(graph)
    /\ exit = "ok" => i \notin Modules
    /\ stage = "done" /\ exit = "error" /\ (config \in UsesAssets => assets) => Obstacle

\* What a turn of the loop does to the ledger.
LEMMA LedgerCases ==
    ASSUME ModulesSound, TypeOK, Assembled,
           i \in Modules, NEW o \in Planned[config][i], PlanModule(o)
    PROVE  \/ /\ o.result \in {"fragment", "panic"}
              /\ o.result = "fragment" => o.frag.nodes = {}
              /\ i' = i + 1 /\ UNCHANGED <<stage, exit, graph, prevExit, owned>>
           \/ /\ o.result = "fragment" /\ o.frag \in Fragment
              /\ o.frag.nodes # {} /\ Sound(o.frag)
              /\ Joined(graph, o.frag, prevExit, graph')
              /\ i' = i + 1 /\ UNCHANGED <<stage, exit>>
              /\ prevExit' = o.frag.exit
              /\ owned' = [owned EXCEPT ![i] = o.frag.nodes]
           \/ /\ \/ o.result = "error"
                 \/ o.result = "fragment" /\ graph.nodes \cap o.frag.nodes # {}
              /\ Fails /\ UNCHANGED <<i, graph, prevExit, owned>>
<1> DEFINE f == SafeModulePlan(o)
           g == LinkModule(MergeFragment(graph, f), f.entry)
<1>1. o \in Outcome /\ config \in Config
    BY PlannedAssumption DEF TypeOK, Modules
<1>2. /\ o.result \in {"fragment", "error", "panic"} /\ o.frag \in Fragment
      /\ o.result = "fragment" => o.frag.ok /\ f = o.frag
      /\ o.result = "error" => ~f.ok
      /\ o.result = "panic" => f.ok /\ f.nodes = {}
    BY <1>1 DEF Outcome, SafeModulePlan, Failure, NewExecutionFragment
<1>3. CASE f.ok /\ IsEmpty(f) /\ i' = i + 1 /\ UNCHANGED <<stage, exit, graph, prevExit, owned>>
    BY <1>2, <1>3 DEF IsEmpty
<1>4. CASE /\ f.ok /\ ~IsEmpty(f) /\ g.ok
           /\ i' = i + 1
           /\ graph' = g
           /\ prevExit' = f.exit
           /\ owned' = [owned EXCEPT ![i] = f.nodes]
           /\ UNCHANGED <<stage, exit>>
    <2>1. o.result = "fragment" /\ f = o.frag /\ f.nodes # {}
        BY <1>2, <1>4 DEF IsEmpty
    <2>2. f \in Fragment /\ f.ok /\ f \in Returned(config, i)
        BY <1>2, <2>1 DEF Returned
    <2>3. Sound(f)
        BY <1>1, <2>2 DEF ModulesSound, Modules
    <2>4. PICK h : h = g
        OBVIOUS
    <2>5. h.ok /\ graph' = h /\ i' = i + 1 /\ prevExit' = f.exit
              /\ owned' = [owned EXCEPT ![i] = f.nodes] /\ UNCHANGED <<stage, exit>>
        BY <1>4, <2>4
    <2> HIDE DEF f
    <2>6. Joined(graph, f, prevExit, h)
        BY <2>2, <2>3, <2>4, <2>5, ModuleLinked
    <2> QED
        BY <1>2, <2>1, <2>3, <2>5, <2>6
<1>5. CASE /\ ~f.ok \/ (~IsEmpty(f) /\ ~g.ok)
           /\ Fails
           /\ UNCHANGED <<i, graph, prevExit, owned>>
    <2>1. CASE ~f.ok
        BY <1>2, <1>5, <2>1
    <2>2. CASE f.ok /\ ~IsEmpty(f) /\ ~g.ok
        <3>1. o.result = "fragment" /\ f = o.frag
            BY <1>2, <2>2 DEF IsEmpty
        <3>2. f \in Fragment /\ f.ok /\ f \in Returned(config, i)
            BY <1>2, <3>1 DEF Returned
        <3>3. Sound(f)
            BY <1>1, <3>2 DEF ModulesSound, Modules
        <3>4. PICK h : h = g
            OBVIOUS
        <3>5. ~h.ok
            BY <2>2, <3>4
        <3> HIDE DEF f
        <3>6. graph.nodes \cap f.nodes # {}
            BY <3>2, <3>3, <3>4, <3>5, ModuleLinked
        <3> QED
            BY <1>5, <3>1, <3>6
    <2> QED
        BY <1>5, <2>1, <2>2
<1> QED
    BY <1>3, <1>4, <1>5 DEF PlanModule

\* A turn of the loop keeps the ledger.
LEMMA LedgerPlanModule ==
    ASSUME ModulesSound, LedgerInv, TypeOK', Assembled',
           i \in Modules, NEW o \in Planned[config][i], PlanModule(o)
    PROVE  LedgerInv'
<1>0. TypeOK /\ Assembled /\ Ledger /\ Apart /\ CyclesKnown
    BY DEF LedgerInv
<1>1. /\ config' = config /\ Modules' = Modules /\ stage = "planning" /\ exit = "none"
      /\ Modules \subseteq Int /\ i \in Int
    BY DEF PlanModule, Modules, LedgerInv, TypeOK
<1>2. \A k \in Modules : outcomes'[k] = IF k = i THEN o ELSE outcomes[k]
    BY DEF PlanModule, LedgerInv, TypeOK
<1>3. /\ \A k \in Modules : k # i => (k \in HasReturned' <=> k \in HasReturned)
      /\ i \in HasReturned' <=> o.result = "fragment"
      /\ HasReturned' \subseteq Modules
    BY <1>1, <1>2 DEF HasReturned
<1>4. owned[i] = {}
    BY <1>0, <1>1 DEF Assembled
<1>5. ASSUME o.result \in {"fragment", "panic"}, o.result = "fragment" => o.frag.nodes = {},
             i' = i + 1, UNCHANGED <<stage, exit, graph, prevExit, owned>>
      PROVE  LedgerInv'
    <2>1. Ledger'
        <3> SUFFICES ASSUME NEW k \in Modules
                     PROVE  /\ k < i' => outcomes'[k].result \in {"fragment", "panic"}
                            /\ owned'[k] = IF k < i' /\ k \in HasReturned'
                                           THEN outcomes'[k].frag.nodes ELSE {}
            BY <1>1 DEF Ledger
        <3>1. CASE k = i
            BY <1>2, <1>3, <1>4, <1>5, <3>1
        <3>2. CASE k # i
            <4>1. k < i' <=> k < i
                BY <1>1, <1>5, <3>2
            <4> QED
                BY <1>0, <1>2, <1>3, <1>5, <3>2, <4>1 DEF Ledger
        <3> QED
            BY <3>1, <3>2
    <2>2. Apart'
        BY <1>0, <1>1, <1>2, <1>3, <1>5 DEF Apart
    <2>3. o.result = "fragment" => Acyclic(o.frag)
        BY <1>5 DEF Acyclic
    <2>4. CyclesKnown'
        <3>1. Acyclic(graph)' <=> Acyclic(graph)
            BY <1>5 DEF Acyclic
        <3>2. \A k \in HasReturned' : Acyclic(outcomes[k].frag)' <=> Acyclic(outcomes'[k].frag)
            BY DEF Acyclic
        <3>3. (\A k \in HasReturned' : k < i' => Acyclic(outcomes'[k].frag)) <=>
              (\A k \in HasReturned : k < i => Acyclic(outcomes[k].frag))
            <4>1. \A k \in Modules : k < i' <=> k < i \/ k = i
                BY <1>1, <1>5
            <4>2. HasReturned \subseteq Modules
                BY DEF HasReturned
            <4>3. ~(i < i)
                BY <1>1
            <4> QED
                BY <1>2, <1>3, <2>3, <4>1, <4>2, <4>3
        <3> QED
            BY <1>0, <3>1, <3>2, <3>3 DEF CyclesKnown
    <2> QED
        BY <1>1, <1>5, <2>1, <2>2, <2>4 DEF LedgerInv, Accepted
<1>6. ASSUME o.result = "fragment", o.frag.nodes # {}, Joined(graph, o.frag, prevExit, graph'),
             i' = i + 1, UNCHANGED <<stage, exit>>,
             owned' = [owned EXCEPT ![i] = o.frag.nodes]
      PROVE  LedgerInv'
    <2>1. \A k \in Modules : owned'[k] = IF k = i THEN o.frag.nodes ELSE owned[k]
        BY <1>0, <1>6 DEF TypeOK
    <2>2. \A k \in Modules : k < i' <=> k < i \/ k = i
        <3>1. \A k \in Int : k < i + 1 <=> k < i \/ k = i
            BY <1>1
        <3> QED
            BY <1>1, <1>6, <3>1
    <2>3. HasReturned \subseteq Modules /\ ~(i < i)
        BY <1>1 DEF HasReturned
    <2>4. Ledger'
        <3> SUFFICES ASSUME NEW k \in Modules
                     PROVE  /\ k < i' => outcomes'[k].result \in {"fragment", "panic"}
                            /\ owned'[k] = IF k < i' /\ k \in HasReturned'
                                           THEN outcomes'[k].frag.nodes ELSE {}
            BY <1>1 DEF Ledger
        <3>1. CASE k = i
            BY <1>2, <1>3, <1>6, <2>1, <2>2, <3>1
        <3>2. CASE k # i
            BY <1>0, <1>2, <1>3, <2>1, <2>2, <3>2 DEF Ledger
        <3> QED
            BY <3>1, <3>2
    <2>5. \A k \in HasReturned : k < i => outcomes[k].frag.nodes \cap o.frag.nodes = {}
        <3>1. graph.nodes \cap o.frag.nodes = {}
            BY <1>6 DEF Joined
        <3>2. \A k \in HasReturned : k < i => outcomes[k].frag.nodes = owned[k]
            BY <1>0, <2>3 DEF Ledger
        <3>3. \A k \in HasReturned : owned[k] \subseteq graph.nodes
            BY <1>0, <2>3 DEF Assembled
        <3> QED
            BY <3>1, <3>2, <3>3
    <2>6. Apart'
        <3> SUFFICES ASSUME NEW k \in HasReturned', NEW l \in HasReturned', k # l, k < i', l < i'
                     PROVE  outcomes'[k].frag.nodes \cap outcomes'[l].frag.nodes = {}
            BY DEF Apart
        <3>1. k \in Modules /\ l \in Modules
            BY <1>3
        <3>2. CASE k = i
            BY <1>2, <1>3, <2>2, <2>5, <3>1, <3>2
        <3>3. CASE l = i
            BY <1>2, <1>3, <2>2, <2>5, <3>1, <3>3
        <3>4. CASE k # i /\ l # i
            BY <1>0, <1>2, <1>3, <2>2, <3>1, <3>4 DEF Apart
        <3> QED
            BY <3>2, <3>3, <3>4
    <2>7. CyclesKnown'
        <3>1. Acyclic(graph') <=> Acyclic(graph) /\ Acyclic(o.frag)
            BY <1>6, JoinedAcyclic
        <3>2. /\ Acyclic(graph)' <=> Acyclic(graph')
              /\ \A k \in HasReturned' : Acyclic(outcomes[k].frag)' <=> Acyclic(outcomes'[k].frag)
            BY DEF Acyclic
        <3>3. (\A k \in HasReturned' : k < i' => Acyclic(outcomes'[k].frag)) <=>
              Acyclic(o.frag) /\ \A k \in HasReturned : k < i => Acyclic(outcomes[k].frag)
            BY <1>2, <1>3, <1>6, <2>2, <2>3
        <3> QED
            BY <1>0, <3>1, <3>2, <3>3 DEF CyclesKnown
    <2> QED
        BY <1>1, <1>6, <2>4, <2>6, <2>7 DEF LedgerInv, Accepted
<1>7. ASSUME \/ o.result = "error"
             \/ o.result = "fragment" /\ graph.nodes \cap o.frag.nodes # {},
             Fails, UNCHANGED <<i, graph, prevExit, owned>>
      PROVE  LedgerInv'
    <2>1. HasReturned \subseteq Modules /\ ~(i < i)
        BY <1>1 DEF HasReturned
    <2>2. Ledger' /\ Apart'
        BY <1>0, <1>1, <1>2, <1>3, <1>4, <1>7, <2>1 DEF Ledger, Apart
    <2>3. CyclesKnown'
        <3>1. Acyclic(graph)' <=> Acyclic(graph)
            BY <1>7 DEF Acyclic
        <3>2. \A k \in HasReturned' : Acyclic(outcomes[k].frag)' <=> Acyclic(outcomes'[k].frag)
            BY DEF Acyclic
        <3>3. (\A k \in HasReturned' : k < i' => Acyclic(outcomes'[k].frag)) <=>
              (\A k \in HasReturned : k < i => Acyclic(outcomes[k].frag))
            BY <1>2, <1>3, <1>7, <2>1
        <3> QED
            BY <1>0, <3>1, <3>2, <3>3 DEF CyclesKnown
    <2>4. Obstacle'
        <3>1. CASE o.result = "error"
            BY <1>1, <1>2, <3>1 DEF Obstacle
        <3>2. CASE o.result = "fragment" /\ graph.nodes \cap o.frag.nodes # {}
            <4>1. PICK n \in graph.nodes \cap o.frag.nodes : TRUE
                BY <3>2
            <4>2. PICK l \in Modules : n \in owned[l]
                BY <1>0, <4>1 DEF Assembled
            <4>3. l # i /\ l \in HasReturned /\ n \in outcomes[l].frag.nodes
                BY <1>0, <1>4, <4>2 DEF Ledger
            <4>4. l \in HasReturned' /\ i \in HasReturned' /\ outcomes'[l] = outcomes[l]
                      /\ outcomes'[i] = o
                BY <1>2, <1>3, <3>2, <4>2, <4>3
            <4>5. outcomes'[l].frag.nodes \cap outcomes'[i].frag.nodes # {}
                BY <4>1, <4>3, <4>4
            <4> QED
                BY <4>3, <4>4, <4>5 DEF Obstacle
        <3> QED
            BY <1>7, <3>1, <3>2
    <2>5. stage' = "done" /\ exit' = "error" /\ ~Accepted'
        BY <1>7 DEF Fails, Accepted
    <2> QED
        BY <2>2, <2>3, <2>4, <2>5 DEF LedgerInv
<1> QED
    BY <1>0, <1>5, <1>6, <1>7, LedgerCases

\* Every step keeps the ledger.
LEMMA LedgerNext ==
    ASSUME ModulesSound, LedgerInv, [Next]_vars
    PROVE  LedgerInv'
<1>0. TypeOK /\ TypeOK' /\ Assembled /\ Assembled'
    BY TypeNext, AssembledNext DEF LedgerInv
<1>1. ASSUME i \in Modules, NEW o \in Planned[config][i], PlanModule(o)
      PROVE  LedgerInv'
    BY <1>0, <1>1, LedgerPlanModule
<1>2. ASSUME UNCHANGED <<config, i, owned, outcomes>>,
             graph'.nodes = graph.nodes, graph'.deps = graph.deps
      PROVE  /\ Modules' = Modules /\ Ledger' /\ Apart' /\ CyclesKnown'
             /\ Acyclic(graph)' <=> Acyclic(graph)
             /\ Obstacle' <=> Obstacle
    <2>1. Modules' = Modules /\ HasReturned' = HasReturned
        BY <1>2 DEF Modules, HasReturned
    <2>2. Acyclic(graph)' <=> Acyclic(graph)
        BY <1>2 DEF Acyclic
    <2>3. \A k \in HasReturned : Acyclic(outcomes[k].frag)' <=> Acyclic(outcomes[k].frag)
        BY <1>2 DEF Acyclic
    <2>4. Ledger' /\ Apart'
        BY <1>2, <2>1 DEF LedgerInv, Ledger, Apart
    <2>5. CyclesKnown'
        BY <1>2, <2>1, <2>2, <2>3 DEF LedgerInv, CyclesKnown
    <2>6. Obstacle' <=> Obstacle
        BY <1>2, <2>1, <2>3 DEF Obstacle
    <2> QED
        BY <2>1, <2>2, <2>4, <2>5, <2>6
<1>3. CASE FinishPlan
    <2>1. graph'.nodes = graph.nodes /\ graph'.deps = graph.deps
        BY <1>0, <1>3, FinishKeeps
    <2>2. UNCHANGED <<config, i, owned, outcomes, assets>> /\ stage = "planning" /\ i \notin Modules
        BY <1>3 DEF FinishPlan
    <2>3. DependenciesExist(CalculateEntryAndExitNodes(graph))
              /\ (Acyclic(CalculateEntryAndExitNodes(graph)) <=> Acyclic(graph))
        <3>1. PICK g : g = CalculateEntryAndExitNodes(graph)
            OBVIOUS
        <3>2. g.nodes = graph.nodes /\ g.deps = graph.deps
            BY <1>0, <3>1 DEF TypeOK, Fragment, CalculateEntryAndExitNodes
        <3>3. DependenciesExist(g) /\ (Acyclic(g) <=> Acyclic(graph))
            BY <1>0, <3>2 DEF Assembled, DependenciesExist, Acyclic
        <3> QED
            BY <3>1, <3>3
    <2>4. exit = "none"
        BY <2>2 DEF LedgerInv
    <2>5. CASE Acyclic(graph)
        <3>1. stage' = "planned" /\ exit' = exit
            BY <1>3, <2>3, <2>5 DEF FinishPlan
        <3> QED
            BY <1>0, <1>2, <2>1, <2>2, <2>4, <2>5, <3>1 DEF LedgerInv, Accepted
    <2>6. CASE ~Acyclic(graph)
        <3>1. stage' = "done" /\ exit' = "error"
            BY <1>3, <2>3, <2>6 DEF FinishPlan, Fails
        <3>2. Obstacle
            BY <2>6 DEF LedgerInv, CyclesKnown, Obstacle
        <3> QED
            BY <1>0, <1>2, <2>1, <2>2, <3>1, <3>2 DEF LedgerInv, Accepted
    <2> QED
        BY <2>5, <2>6
<1>4. ASSUME NEW o, EnsureAssetsAvailable(o)
      PROVE  LedgerInv'
    <2>1. UNCHANGED <<config, i, owned, outcomes, assets, graph>> /\ stage = "planned"
              /\ config \in UsesAssets
        BY <1>4 DEF EnsureAssetsAvailable
    <2>2. \/ ~assets /\ stage' = "done" /\ exit' = "error"
          \/ stage' = "ready" /\ exit' = exit
        BY <1>4 DEF EnsureAssetsAvailable, Fails
    <2> QED
        BY <1>0, <1>2, <2>1, <2>2 DEF LedgerInv, Accepted
<1>5. CASE RunEmpty
    <2>1. UNCHANGED <<config, i, owned, outcomes, assets, graph>> /\ Accepted
              /\ stage' = "done" /\ exit' = "ok"
        BY <1>5 DEF RunEmpty, CanRun, Accepted
    <2> QED
        BY <1>0, <1>2, <2>1 DEF LedgerInv, Accepted
<1>6. ASSUME NEW s, RunGraph(s)
      PROVE  LedgerInv'
    <2>1. UNCHANGED <<config, i, owned, outcomes, assets, graph>> /\ Accepted
              /\ stage' = "executed"
        BY <1>6 DEF RunGraph, CanRun, Accepted
    <2> QED
        BY <1>0, <1>2, <2>1 DEF LedgerInv, Accepted
<1>7. CASE UNCHANGED vars
    <2>1. UNCHANGED <<config, i, owned, outcomes, assets, graph, stage, exit>>
        BY <1>7 DEF vars
    <2> QED
        BY <1>0, <1>2, <2>1 DEF LedgerInv, Accepted
<1> QED
    BY <1>1, <1>3, <1>4, <1>5, <1>6, <1>7 DEF Next

\* A command starts with an empty ledger, so it always has one.
LEMMA LedgerKept == ASSUME ModulesSound PROVE Spec => []LedgerInv
<1>1. Init => LedgerInv
    <2> SUFFICES ASSUME Init
                 PROVE  LedgerInv
        OBVIOUS
    <2>1. graph.nodes = {} /\ graph.ok /\ \A k \in Modules : owned[k] = {}
        BY DEF Init, NewExecutionFragment
    <2>2. Assembled
        BY <2>1 DEF Init, Assembled, DependenciesExist
    <2>3. HasReturned = {} /\ \A k \in Modules : ~(k < i)
        BY PlannedAssumption DEF Init, HasReturned, Unplanned, Modules
    <2>4. Ledger /\ Apart /\ CyclesKnown
        BY <2>1, <2>3 DEF Ledger, Apart, CyclesKnown, Acyclic
    <2> QED
        BY <2>2, <2>4, TypeInit DEF Init, LedgerInv, Accepted
<1>2. LedgerInv /\ [Next]_vars => LedgerInv'
    BY LedgerNext
<1> QED
    BY <1>1, <1>2, PTL DEF Spec

\* Plan fails exactly when a module returned an error, a fragment with a cycle, or
\* a node another module planned as well (or for missing assets), whatever the
\* modules do: the links it adds never make a graph invalid, and none of these
\* gets through to the engine.
THEOREM PlanBlamesModule ==
    ASSUME ModulesSound
    PROVE  Spec => []PlansWhenModulesDo
<1>1. LedgerInv => PlansWhenModulesDo
    <2> SUFFICES ASSUME LedgerInv, Accepted, Obstacle
                 PROVE  FALSE
        BY DEF LedgerInv, PlansWhenModulesDo
    <2>1. \A k \in Modules : k < i
        <3>1. Len(Planned[config]) \in Nat
            BY PlannedAssumption DEF LedgerInv, TypeOK
        <3> QED
            BY <3>1 DEF LedgerInv, TypeOK, Modules
    <2>2. HasReturned \subseteq Modules
        BY DEF HasReturned
    <2>3. \A k \in Modules : outcomes[k].result # "error"
        BY <2>1 DEF LedgerInv, Ledger
    <2>4. \A k \in HasReturned : Acyclic(outcomes[k].frag)
        BY <2>1, <2>2 DEF LedgerInv, CyclesKnown
    <2>5. \A k, l \in HasReturned :
              k # l => outcomes[k].frag.nodes \cap outcomes[l].frag.nodes = {}
        BY <2>1, <2>2 DEF LedgerInv, Apart
    <2> QED
        BY <2>3, <2>4, <2>5 DEF Obstacle
<1> QED
    BY <1>1, LedgerKept, PTL

\* A command that reports success handed the engine all the nodes of all modules
\* that returned; none of them failed, and what is missing is the modules that
\* panicked, of which SafeModulePlan says nothing.
THEOREM SuccessPlansEverything ==
    ASSUME ModulesSound
    PROVE  Spec => []SuccessIsComplete
<1>1. LedgerInv => SuccessIsComplete
    <2> SUFFICES ASSUME LedgerInv, exit = "ok"
                 PROVE  /\ \A k \in Modules : outcomes[k].result \in {"fragment", "panic"}
                        /\ graph.nodes = UNION {outcomes[k].frag.nodes : k \in HasReturned}
        BY DEF SuccessIsComplete
    <2>1. \A k \in Modules : k < i
        <3>1. Len(Planned[config]) \in Nat
            BY PlannedAssumption DEF LedgerInv, TypeOK
        <3> QED
            BY <3>1 DEF LedgerInv, TypeOK, Modules
    <2>2. /\ \A k \in Modules : outcomes[k].result \in {"fragment", "panic"}
          /\ \A k \in Modules : owned[k] = IF k \in HasReturned
                                            THEN outcomes[k].frag.nodes ELSE {}
        BY <2>1 DEF LedgerInv, Ledger
    <2>3. HasReturned \subseteq Modules
        BY DEF HasReturned
    <2>4. graph.nodes = UNION {owned[k] : k \in Modules}
        BY DEF LedgerInv, Assembled
    <2>5. UNION {owned[k] : k \in Modules} = UNION {outcomes[k].frag.nodes : k \in HasReturned}
        BY <2>2, <2>3
    <2> QED
        BY <2>2, <2>4, <2>5
<1> QED
    BY <1>1, LedgerKept, PTL

-----------------------------------------------------------------------------
(* Modules without ends. *)

\* The next module is linked after the exit nodes of the last one with nodes.
LastExit ==
    \A j \in Modules :
        owned[j] # {} /\ (\A m \in Modules : m > j => owned[m] = {}) =>
            prevExit = outcomes[j].frag.exit

CutOff == \A k \in Modules : Cut(k) => Prefix(graph, From(k)) /\ prevExit \subseteq From(k)

CutInv == TypeOK /\ Assembled /\ (stage = "planning" => LastExit) /\ CutOff

\* What modules from k on planned.
LEMMA FromModules ==
    ASSUME TypeOK, NEW k \in Modules
    PROVE  \A n : n \in From(k) <=> \E m \in Modules : m >= k /\ n \in owned[m]
<1>1. Len(Planned[config]) \in Nat
    BY PlannedAssumption DEF TypeOK
<1>2. \A m : m \in k..Len(Planned[config]) <=> m \in Modules /\ m >= k
    BY <1>1 DEF Modules
<1> QED
    BY <1>2 DEF From

\* A turn of the loop keeps later modules free of the ones before a cut: their
\* links lead to exit nodes of modules after it.
LEMMA JoinCutOff ==
    ASSUME CutInv, stage = "planning", TypeOK', Assembled', i \in Modules,
           Modules' = Modules, config' = config,
           NEW o, NEW f, f = o.frag, f.nodes # {}, Sound(f),
           Joined(graph, f, prevExit, graph'), prevExit' = f.exit,
           owned' = [owned EXCEPT ![i] = f.nodes], outcomes' = [outcomes EXCEPT ![i] = o]
    PROVE  LastExit' /\ CutOff'
<1>0. TypeOK /\ Assembled /\ LastExit /\ CutOff
    BY DEF CutInv
<1>1. /\ Modules \subseteq Int /\ i \in Int
      /\ \A k \in Modules : owned'[k] = IF k = i THEN f.nodes ELSE owned[k]
      /\ \A k \in Modules : outcomes'[k] = IF k = i THEN o ELSE outcomes[k]
    BY <1>0 DEF TypeOK, Modules
<1>2. \A k \in Modules : k >= i => owned[k] = {}
    BY <1>0 DEF Assembled
<1>3. LastExit'
    <2> SUFFICES ASSUME NEW j \in Modules, owned'[j] # {},
                        \A m \in Modules : m > j => owned'[m] = {}
                 PROVE  prevExit' = outcomes'[j].frag.exit
        BY DEF LastExit
    <2>1. ~(i > j)
        BY <1>1
    <2>2. ~(j > i)
        <3>1. j \in Int /\ i \in Int
            BY <1>1
        <3>2. j > i => j >= i /\ j # i
            BY ONLY <3>1
        <3> QED
            BY <1>1, <1>2, <3>2
    <2>3. j = i
        BY <1>1, <2>1, <2>2
    <2> QED
        BY <1>1, <2>3
<1>4. ASSUME NEW k \in Modules, Cut(k)'
      PROVE  (Prefix(graph, From(k)) /\ prevExit \subseteq From(k))'
    <2>1. k <= i
        <3>1. k \in Int /\ i \in Int
            BY <1>1
        <3>2. k > i => k >= i /\ k # i
            BY ONLY <3>1
        <3>3. owned'[k] # {}
            BY <1>4 DEF Cut
        <3>4. ~(k > i)
            BY <1>1, <1>2, <3>2, <3>3
        <3> QED
            BY ONLY <3>1, <3>4
    <2>2. \A n : n \in From(k)' <=> \E m \in Modules : m >= k /\ n \in owned'[m]
        <3>1. Len(Planned[config]) \in Nat
            BY <1>0, PlannedAssumption DEF TypeOK
        <3>2. \A m : m \in k..Len(Planned[config]) <=> m \in Modules /\ m >= k
            BY <3>1 DEF Modules
        <3>3. From(k)' = UNION {owned'[m] : m \in k..Len(Planned[config])}
            BY DEF From
        <3> QED
            BY <3>2, <3>3
    <2>3. \A n : n \in From(k) <=> \E m \in Modules : m >= k /\ n \in owned[m]
        BY <1>0, FromModules
    <2>4. f.nodes \subseteq From(k)' /\ From(k) \subseteq From(k)'
              /\ From(k)' \subseteq From(k) \cup f.nodes
        BY <1>1, <1>2, <2>1, <2>2, <2>3
    <2>5. prevExit' \subseteq From(k)'
        BY <2>4 DEF Sound
    <2>6. From(k) \subseteq graph.nodes
        BY <1>0, <2>3 DEF Assembled
    <2>7. \A n \in f.nodes : graph'.deps[n] \subseteq From(k)'
        <3>1. CASE prevExit = {} \/ f.entry = {}
            BY <2>4, <3>1 DEF Joined, Sound, DependenciesExist
        <3>2. CASE prevExit \subseteq From(k)
            BY <2>4, <3>2 DEF Joined, Sound, DependenciesExist
        <3>3. CASE k = i
            <4>1. CASE outcomes'[k].frag.entry = {}
                BY <1>1, <3>1, <3>3, <4>1
            <4>2. ASSUME NEW j \in 1..(k - 1), owned'[j] # {}, outcomes'[j].frag.exit = {},
                         \A m \in (j + 1)..(k - 1) : owned'[m] = {}
                  PROVE  prevExit = {}
                <5>1. j \in Modules /\ j # i /\ j \in Int
                    BY <1>1, <3>3 DEF Modules
                <5>2. \A m \in Modules : m > j => m >= i \/ m \in (j + 1)..(k - 1)
                    BY <1>1, <3>3, <5>1
                <5>3. \A m \in Modules : m > j => owned[m] = {}
                    <6>1. \A m \in Modules : m \in (j + 1)..(k - 1) => m # i
                        BY <1>1, <3>3, <5>1
                    <6> QED
                        BY <1>1, <1>2, <4>2, <5>2, <6>1
                <5>4. owned[j] # {} /\ outcomes[j].frag.exit = {}
                    BY <1>1, <4>2, <5>1
                <5> QED
                    BY <1>0, <5>1, <5>3, <5>4 DEF LastExit
            <4> QED
                BY <1>4, <3>1, <4>1, <4>2 DEF Cut
        <3>4. CASE k # i
            <4>1. k < i
                BY <1>1, <2>1, <3>4
            <4>2. \A j \in 1..(k - 1) : j \in Modules /\ j # i
                BY <1>1, <4>1 DEF Modules
            <4>3. \A j \in 1..(k - 1) : \A m \in (j + 1)..(k - 1) : m \in Modules /\ m # i
                BY <1>1, <4>1 DEF Modules
            <4>4. Cut(k)
                BY <1>1, <1>4, <3>4, <4>2, <4>3 DEF Cut
            <4> QED
                BY <1>0, <3>2, <4>4 DEF CutOff
        <3> QED
            BY <3>3, <3>4
    <2>8. \A n \in From(k)' \ f.nodes : graph'.deps[n] \subseteq From(k)'
        <3> SUFFICES ASSUME NEW n \in From(k), n \notin f.nodes
                     PROVE  graph'.deps[n] \subseteq From(k)
            BY <2>4
        <3>1. graph'.deps[n] = graph.deps[n]
            BY <2>6 DEF Joined
        <3>2. k # i
            BY <1>1, <1>2, <2>3
        <3>3. k < i
            BY <1>1, <2>1, <3>2
        <3>4. \A j \in 1..(k - 1) : j \in Modules /\ j # i
            BY <1>1, <3>3 DEF Modules
        <3>5. \A j \in 1..(k - 1) : \A m \in (j + 1)..(k - 1) : m \in Modules /\ m # i
            BY <1>1, <3>3 DEF Modules
        <3>6. Cut(k)
            BY <1>1, <1>4, <3>2, <3>4, <3>5 DEF Cut
        <3> QED
            BY <1>0, <3>1, <3>6 DEF CutOff, Prefix
    <2>9. From(k)' \subseteq graph'.nodes
        BY <2>4, <2>6 DEF Joined
    <2> QED
        BY <2>5, <2>7, <2>8, <2>9 DEF Prefix
<1>5. CutOff'
    BY <1>4 DEF CutOff
<1> QED
    BY <1>3, <1>5

\* Every step keeps the invariant.
LEMMA CutNext ==
    ASSUME ModulesSound, CutInv, [Next]_vars
    PROVE  CutInv'
<1>0. TypeOK /\ TypeOK' /\ Assembled /\ Assembled'
    BY TypeNext, AssembledNext DEF CutInv
<1>1. ASSUME UNCHANGED <<config, owned, prevExit>>, graph'.nodes = graph.nodes,
             graph'.deps = graph.deps,
             \A k \in Modules : owned[k] # {} => outcomes'[k] = outcomes[k],
             stage' = "planning" => stage = "planning"
      PROVE  CutInv'
    <2>1. Modules' = Modules /\ \A k : From(k)' = From(k)
        BY <1>1 DEF Modules, From
    <2>2. \A k \in Modules : Cut(k)' => Cut(k)
        <3>1. \A k \in Modules : \A j \in 1..(k - 1) : j \in Modules
            BY <1>0 DEF Modules, TypeOK
        <3> QED
            BY <1>1, <3>1 DEF Cut
    <2>3. CutOff'
        BY <1>1, <2>1, <2>2 DEF CutInv, CutOff, Prefix
    <2>4. stage = "planning" => LastExit'
        BY <1>1, <2>1 DEF CutInv, LastExit
    <2> QED
        BY <1>0, <1>1, <2>3, <2>4 DEF CutInv
<1>2. ASSUME i \in Modules, NEW o \in Planned[config][i], PlanModule(o)
      PROVE  CutInv'
    <2>1. config' = config /\ Modules' = Modules /\ stage = "planning"
              /\ outcomes' = [outcomes EXCEPT ![i] = o]
        BY <1>2 DEF PlanModule, Modules
    <2>2. i \in Int /\ owned[i] = {}
        BY <1>0, <1>2 DEF Assembled, TypeOK
    <2>3. \A k \in Modules : owned[k] # {} => outcomes'[k] = outcomes[k]
        BY <1>0, <2>1, <2>2 DEF TypeOK
    <2>4. CASE UNCHANGED <<graph, prevExit, owned>>
        BY <1>1, <2>1, <2>3, <2>4
    <2>5. ASSUME o.frag.nodes # {}, Sound(o.frag), Joined(graph, o.frag, prevExit, graph'),
                 prevExit' = o.frag.exit, owned' = [owned EXCEPT ![i] = o.frag.nodes]
          PROVE  CutInv'
        <3>1. LastExit' /\ CutOff'
            BY <1>0, <1>2, <2>1, <2>5, JoinCutOff
        <3> QED
            BY <1>0, <3>1 DEF CutInv
    <2> QED
        BY <1>0, <1>2, <2>4, <2>5, LedgerCases
<1>3. CASE FinishPlan
    <2>1. graph'.nodes = graph.nodes /\ graph'.deps = graph.deps
        BY <1>0, <1>3, FinishKeeps
    <2> QED
        BY <1>1, <1>3, <2>1 DEF FinishPlan
<1>4. ASSUME NEW o, EnsureAssetsAvailable(o)
      PROVE  CutInv'
    BY <1>1, <1>4 DEF EnsureAssetsAvailable, Fails
<1>5. CASE RunEmpty
    BY <1>1, <1>5 DEF RunEmpty
<1>6. ASSUME NEW s, RunGraph(s)
      PROVE  CutInv'
    BY <1>1, <1>6 DEF RunGraph
<1>7. CASE UNCHANGED vars
    BY <1>1, <1>7 DEF vars
<1> QED
    BY <1>2, <1>3, <1>4, <1>5, <1>6, <1>7 DEF Next

\* A module that names no entry nodes, or comes after one that names no exit nodes,
\* is not ordered after anything: the executor may complete it and all modules
\* after it before it starts any module before it. Planning a load balancer so
\* frees the control plane, the network and the workers of every wait for the
\* connectivity check, the preflight checks and etcd.
THEOREM NoEndsNoOrder ==
    ASSUME ModulesSound
    PROVE  Spec => []UnnamedEndsCut
<1>1. Init => CutInv
    <2> SUFFICES ASSUME Init
                 PROVE  CutInv
        OBVIOUS
    <2>1. graph.nodes = {} /\ graph.ok /\ \A k \in Modules : owned[k] = {}
        BY DEF Init, NewExecutionFragment
    <2>2. Assembled
        BY <2>1 DEF Init, Assembled, DependenciesExist
    <2> QED
        BY <2>1, <2>2, TypeInit DEF CutInv, LastExit, CutOff, Cut
<1>2. CutInv /\ [Next]_vars => CutInv'
    BY CutNext
<1>3. CutInv => UnnamedEndsCut
    BY DEF CutInv, CutOff, UnnamedEndsCut
<1> QED
    BY <1>1, <1>2, <1>3, PTL DEF Spec

-----------------------------------------------------------------------------
(* The modules. That their fragments are sound follows from how they are put
   together, the loops by induction in the form of the least counterexample. *)

\* The fragments nothing is wrong with, unless an error comes with them.
SoundFragment == {f \in Fragment : f.ok => Sound(f)}

\* The tasks whose Plan returns such a fragment.
SoundTask == {t \in Task : t.frag \in SoundFragment}

\* What the modules make of them.
ModuleFragment ==
    UNION {{PlanTasks(ts)                       : ts \in Seq(SoundTask)},
           {PreflightModule(ts)                 : ts \in Seq(SoundTask)},
           {AddonsModule(ts)                    : ts \in Seq(SoundTask)},
           {LoadBalancerModule(b, ts)           : b \in BOOLEAN, ts \in Seq(SoundTask)},
           {InfrastructureModule(ts, p, e, r)   : ts \in Seq(SoundTask),
                                                  p, e, r \in SoundTask},
           {KubeadmControlPlaneModule(b, n, j)  : b, n, j \in SoundTask},
           {KubexmControlPlaneModule(p, k, c, s, a, j) :
                                                  p, k, c, s, a, j \in SoundTask},
           {KubeadmWorkerModule(b, j)           : b, j \in SoundTask},
           {SingleTaskModule(t)                 : t \in SoundTask}}

\* A set that has zero, and k when it has k - 1, has all numbers up to N.
LEMMA AllUpTo ==
    ASSUME NEW N \in Nat, NEW S, 0 \in S, \A k \in 1..N : k - 1 \in S => k \in S
    PROVE  0..N \subseteq S
<1> SUFFICES ASSUME (0..N) \ S # {}
             PROVE  FALSE
    OBVIOUS
<1> DEFINE M == (0..N) \ S
           R == OpToRel(<, Nat)
<1>1. PICK n \in M : \A m \in M : ~(m < n)
    <2>1. IsWellFoundedOn(R, Nat)
        BY NatLessThanWellFounded
    <2>2. \A m, k \in Nat : <<m, k>> \in R <=> m < k
        BY DEF OpToRel
    <2>3. M \subseteq Nat /\ M # {}
        OBVIOUS
    <2> HIDE DEF M, R
    <2>4. PICK n \in M : \A m \in M : <<m, n>> \notin R
        BY <2>1, <2>3, WFMin
    <2> QED
        BY <2>2, <2>3, <2>4
<1>2. n # 0 /\ n \in 1..N /\ n - 1 < n /\ n - 1 \in 0..N
    OBVIOUS
<1>3. n - 1 \in S
    BY <1>1, <1>2
<1> QED
    BY <1>2, <1>3

\* The values a loop goes through, from x by one step after the other.
Loops(N, X, x, step) ==
    {f \in [0..N -> X] : f[0] = x /\ \A k \in 1..N : f[k] = step[k][f[k - 1]]}

\* There are such values.
LEMMA LoopExists ==
    ASSUME NEW N \in Nat, NEW X, NEW x \in X, NEW step \in [1..N -> [X -> X]]
    PROVE  Loops(N, X, x, step) # {}
<1> DEFINE Goes(f, n) == /\ f \in [0..n -> X]
                         /\ f[0] = x
                         /\ \A k \in 1..n : f[k] = step[k][f[k - 1]]
           S == {n \in 0..N : \E f : Goes(f, n)}
<1>1. 0 \in S
    <2>1. Goes([k \in 0..0 |-> x], 0)
        OBVIOUS
    <2> HIDE DEF Goes
    <2> QED
        BY <2>1
<1>2. ASSUME NEW n \in 1..N, n - 1 \in S
      PROVE  n \in S
    <2>1. PICK f : Goes(f, n - 1)
        BY <1>2
    <2> DEFINE y == step[n][f[n - 1]]
               g == [k \in 0..n |-> IF k = n THEN y ELSE f[k]]
    <2>2. n - 1 \in 0..(n - 1) /\ f[n - 1] \in X
        BY <2>1
    <2>3. y \in X
        BY <2>2
    <2>4. g[0] = x /\ g[n] = y /\ g[n - 1] = f[n - 1]
        BY <2>1, <2>2
    <2>5. \A k \in 1..(n - 1) : k \in 0..n /\ k - 1 \in 0..n /\ k # n /\ k - 1 # n
        OBVIOUS
    <2>6. \A k \in 1..(n - 1) : g[k] = f[k] /\ g[k - 1] = f[k - 1]
        BY <2>5
    <2>7. \A k \in 1..n : k # n => k \in 1..(n - 1)
        OBVIOUS
    <2>8. g \in [0..n -> X]
        BY <2>1, <2>3
    <2>9. \A k \in 1..n : g[k] = step[k][g[k - 1]]
        <3> HIDE DEF g
        <3> QED
            BY <2>1, <2>4, <2>6, <2>7
    <2> HIDE DEF y, g
    <2>10. Goes(g, n)
        BY <2>4, <2>8, <2>9
    <2> HIDE DEF Goes
    <2> QED
        BY <2>10
<1>3. N \in S
    <2>1. N \in 0..N
        OBVIOUS
    <2> HIDE DEF S
    <2> QED
        BY <1>1, <1>2, <2>1, AllUpTo
<1> QED
    BY <1>3 DEF Loops

\* An empty fragment and the result of an error are sound fragments.
LEMMA EmptyIsSound == NewExecutionFragment \in SoundFragment /\ Failure \in SoundFragment
<1>1. NewExecutionFragment \in Fragment /\ Failure \in Fragment /\ ~Failure.ok
    BY DEF NewExecutionFragment, Failure, Fragment
<1>2. Sound(NewExecutionFragment)
    BY DEF NewExecutionFragment, Sound, DependenciesExist
<1> QED
    BY <1>1, <1>2 DEF SoundFragment

\* MergeFragment makes a sound fragment of two, with the nodes of both.
LEMMA MergeSound ==
    ASSUME NEW h \in SoundFragment, NEW f \in SoundFragment
    PROVE  /\ MergeFragment(h, f) \in SoundFragment
           /\ MergeFragment(h, f).ok =>
                  /\ h.ok /\ f.ok
                  /\ MergeFragment(h, f).nodes = h.nodes \cup f.nodes
<1>1. CASE ~h.ok \/ ~f.ok \/ h.nodes \cap f.nodes # {}
    <2>1. MergeFragment(h, f) = Failure
        BY <1>1 DEF MergeFragment
    <2>2. ~Failure.ok
        BY DEF Failure, NewExecutionFragment
    <2> QED
        BY <2>1, <2>2, EmptyIsSound
<1>2. CASE h.ok /\ f.ok /\ h.nodes \cap f.nodes = {}
    <2>1. PICK m : m = MergeFragment(h, f)
        OBVIOUS
    <2>2. h \in Fragment /\ f \in Fragment /\ Sound(h) /\ Sound(f)
        BY <1>2 DEF SoundFragment
    <2>3. /\ m \in Fragment
          /\ m.ok
          /\ m.nodes = h.nodes \cup f.nodes
          /\ \A n \in NodeId : m.deps[n] = IF n \in f.nodes THEN f.deps[n] ELSE h.deps[n]
        BY <1>2, <2>1, <2>2, MergedFields
    <2>4. m.entry = h.entry /\ m.exit = h.exit
        BY <1>2, <2>1, <2>2 DEF MergeFragment, Fragment
    <2>5. h.nodes \subseteq NodeId /\ f.nodes \subseteq NodeId
        BY <2>2 DEF Fragment
    <2>6. Sound(m)
        BY <2>2, <2>3, <2>4, <2>5 DEF Sound, DependenciesExist
    <2> QED
        BY <1>2, <2>1, <2>3, <2>6 DEF SoundFragment
<1> QED
    BY <1>1, <1>2

\* LinkFragments refuses what would not be a sound fragment, and keeps the nodes.
LEMMA LinkSound ==
    ASSUME NEW f \in SoundFragment, NEW from \in SUBSET NodeId, NEW to \in SUBSET NodeId
    PROVE  /\ LinkFragments(f, from, to) \in SoundFragment
           /\ LinkFragments(f, from, to).ok =>
                  f.ok /\ LinkFragments(f, from, to).nodes = f.nodes
<1>1. ~Failure.ok
    BY DEF Failure, NewExecutionFragment
<1>2. CASE LinkFragments(f, from, to) = Failure
    BY <1>1, <1>2, EmptyIsSound
<1>3. CASE f.ok /\ LinkFragments(f, from, to) = f
    BY <1>3
<1>4. CASE /\ f.ok /\ from \cup to \subseteq f.nodes
           /\ LinkFragments(f, from, to) = [f EXCEPT !.deps = Linked(f.deps, from, to)]
    <2>1. PICK g : g = WithLinks(f, from, to)
        OBVIOUS
    <2>2. f \in Fragment /\ Sound(f) /\ f.nodes \subseteq NodeId
        BY <1>4 DEF SoundFragment, Fragment
    <2>3. /\ g \in Fragment /\ g.ok = f.ok /\ g.nodes = f.nodes
          /\ \A n \in NodeId : g.deps[n] = f.deps[n] \cup (IF n \in to THEN from ELSE {})
        BY <2>1, <2>2, LinkedFields
    <2>4. g.entry = f.entry /\ g.exit = f.exit
        BY <2>1, <2>2 DEF WithLinks, Fragment
    <2>5. Sound(g)
        BY <1>4, <2>2, <2>3, <2>4 DEF Sound, DependenciesExist
    <2>6. g = LinkFragments(f, from, to)
        BY <1>4, <2>1 DEF WithLinks
    <2> QED
        BY <1>4, <2>3, <2>5, <2>6 DEF SoundFragment
<1> QED
    BY <1>2, <1>3, <1>4 DEF LinkFragments

\* Naming nodes of a sound fragment as its ends keeps it sound.
LEMMA EndsSound ==
    ASSUME NEW f \in SoundFragment, NEW e \in SUBSET NodeId, NEW x \in SUBSET NodeId,
           f.ok => e \subseteq f.nodes /\ x \subseteq f.nodes
    PROVE  /\ [f EXCEPT !.entry = e, !.exit = x] \in SoundFragment
           /\ [f EXCEPT !.entry = e, !.exit = x].ok = f.ok
           /\ [f EXCEPT !.entry = e, !.exit = x].nodes = f.nodes
           /\ [f EXCEPT !.entry = e, !.exit = x].exit = x
<1>1. PICK g : g = [f EXCEPT !.entry = e, !.exit = x]
    OBVIOUS
<1>2. /\ g \in Fragment /\ g.ok = f.ok /\ g.nodes = f.nodes /\ g.deps = f.deps
      /\ g.entry = e /\ g.exit = x
    BY <1>1 DEF SoundFragment, Fragment
<1>3. f.ok => Sound(g)
    BY <1>2 DEF SoundFragment, Sound, DependenciesExist
<1> QED
    BY <1>1, <1>2, <1>3 DEF SoundFragment

\* CalculateEntryAndExitNodes gives a sound fragment.
LEMMA CalculateSound ==
    ASSUME NEW f \in SoundFragment
    PROVE  CalculateEntryAndExitNodes(f) \in SoundFragment
<1>1. f.nodes \subseteq NodeId
    BY DEF SoundFragment, Fragment
<1>2. EntryNodes(f) \subseteq f.nodes /\ ExitNodes(f) \subseteq f.nodes
    BY DEF EntryNodes, ExitNodes
<1> QED
    BY <1>1, <1>2, EndsSound DEF CalculateEntryAndExitNodes
\* Merging the fragments of a list one by one gives a sound fragment with the nodes
\* of all of them, or an error.
LEMMA MergedSound ==
    ASSUME NEW fs \in Seq(SoundFragment)
    PROVE  /\ Merged(fs) \in SoundFragment
           /\ Merged(fs).ok =>
                  \A k \in 1..Len(fs) : fs[k].ok /\ fs[k].nodes \subseteq Merged(fs).nodes
<1> DEFINE N == Len(fs)
           X == SoundFragment
           Rec(at) == at = [k \in 0..N |-> IF k = 0 THEN NewExecutionFragment
                                                   ELSE MergeFragment(at[k - 1], fs[k])]
           step == [k \in 1..N |-> [f \in X |-> MergeFragment(f, fs[k])]]
<1>1. N \in Nat /\ \A k \in 1..N : fs[k] \in X
    OBVIOUS
<1>2. \E at : Rec(at)
    <2>1. step \in [1..N -> [X -> X]]
        BY <1>1, MergeSound
    <2>2. NewExecutionFragment \in X
        BY EmptyIsSound
    <2>3. Loops(N, X, NewExecutionFragment, step) # {}
        <3>1. N \in Nat
            BY <1>1
        <3> HIDE DEF step, X, N
        <3> QED
            BY <2>1, <2>2, <3>1, LoopExists
    <2>4. PICK f \in [0..N -> X] :
              f[0] = NewExecutionFragment /\ \A k \in 1..N : f[k] = step[k][f[k - 1]]
        BY <2>3 DEF Loops
    <2>5. \A k \in 1..N : k - 1 \in 0..N /\ f[k - 1] \in X
        BY <1>1, <2>4
    <2>6. \A k \in 1..N : f[k] = MergeFragment(f[k - 1], fs[k])
        BY <2>4, <2>5
    <2>7. \A k \in 0..N : k = 0 \/ k \in 1..N
        BY <1>1
    <2>8. f = [k \in 0..N |-> f[k]]
        BY <2>4
    <2>9. Rec(f)
        <3> HIDE DEF N, X
        <3> QED
            BY <2>4, <2>6, <2>7, <2>8
    <2> QED
        BY <2>9
<1>3. PICK at : Rec(at) /\ Merged(fs) = at[N]
    <2>1. Merged(fs) = (CHOOSE at : Rec(at))[N]
        BY DEF Merged
    <2> HIDE DEF Rec
    <2> QED
        BY <1>2, <2>1
<1>4. /\ at[0] = NewExecutionFragment
      /\ \A k \in 1..N : at[k] = MergeFragment(at[k - 1], fs[k])
    BY <1>1, <1>3
<1> DEFINE Good(k) == /\ at[k] \in X
                      /\ at[k].ok =>
                             \A l \in 1..k : fs[l].ok /\ fs[l].nodes \subseteq at[k].nodes
           S == {k \in 0..N : Good(k)}
<1>5. 0 \in S
    BY <1>1, <1>4, EmptyIsSound
<1>6. ASSUME NEW k \in 1..N, k - 1 \in S
      PROVE  k \in S
    <2>1. at[k - 1] \in X /\ fs[k] \in X /\ at[k] = MergeFragment(at[k - 1], fs[k])
        BY <1>1, <1>4, <1>6
    <2>2. /\ at[k] \in X
          /\ at[k].ok => /\ at[k - 1].ok /\ fs[k].ok
                         /\ at[k].nodes = at[k - 1].nodes \cup fs[k].nodes
        BY <2>1, MergeSound
    <2>3. \A l \in 1..k : l = k \/ l \in 1..(k - 1)
        OBVIOUS
    <2>4. at[k - 1].ok =>
              \A l \in 1..(k - 1) : fs[l].ok /\ fs[l].nodes \subseteq at[k - 1].nodes
        BY <1>6
    <2>5. Good(k)
        BY <2>2, <2>3, <2>4
    <2> HIDE DEF Good
    <2> QED
        BY <1>1, <2>5
<1>7. N \in S
    <2>1. N \in 0..N
        BY <1>1
    <2> HIDE DEF S, N
    <2> QED
        BY <1>1, <1>5, <1>6, <2>1, AllUpTo
<1>8. Good(N)
    BY <1>7
<1> QED
    BY <1>3, <1>8

\* What the loop of a chain has: a sound fragment and nodes of it to link after.
ChainState ==
    {a \in [frag : SoundFragment, exit : SUBSET NodeId] : a.frag.ok => a.exit \subseteq a.frag.nodes}

\* A turn of that loop.
LEMMA ChainTaskSound ==
    ASSUME NEW a \in ChainState, NEW f \in SoundFragment
    PROVE  ChainTask(a, f) \in ChainState
<1>1. CASE f.ok /\ IsEmpty(f)
    BY <1>1 DEF ChainTask
<1>2. CASE ~(f.ok /\ IsEmpty(f))
    <2>1. PICK m : m = MergeFragment(a.frag, f)
        OBVIOUS
    <2>2. PICK g : g = LinkFragments(m, a.exit, f.entry)
        OBVIOUS
    <2>3. /\ a.frag \in SoundFragment /\ a.exit \in SUBSET NodeId
          /\ f.entry \in SUBSET NodeId /\ f.exit \in SUBSET NodeId
        BY DEF ChainState, SoundFragment, Fragment
    <2>4. m \in SoundFragment /\ (m.ok => f.ok /\ m.nodes = a.frag.nodes \cup f.nodes)
        BY <2>1, <2>3, MergeSound
    <2>5. g \in SoundFragment /\ (g.ok => m.ok /\ g.nodes = m.nodes)
        BY <2>2, <2>3, <2>4, LinkSound
    <2>6. ChainTask(a, f) = [frag |-> g, exit |-> f.exit]
        BY <1>2, <2>1, <2>2 DEF ChainTask
    <2>7. f.ok => f.exit \subseteq f.nodes
        BY DEF SoundFragment, Sound
    <2> QED
        BY <2>3, <2>4, <2>5, <2>6, <2>7 DEF ChainState
<1> QED
    BY <1>1, <1>2

\* Chaining the fragments of a list.
LEMMA ChainSound ==
    ASSUME NEW fs \in Seq(SoundFragment)
    PROVE  Chain(fs) \in ChainState
<1> DEFINE N == Len(fs)
           X == ChainState
           x == [frag |-> NewExecutionFragment, exit |-> {}]
           Rec(at) == at = [k \in 0..N |-> IF k = 0 THEN x ELSE ChainTask(at[k - 1], fs[k])]
           step == [k \in 1..N |-> [a \in X |-> ChainTask(a, fs[k])]]
<1>1. N \in Nat /\ \A k \in 1..N : fs[k] \in SoundFragment
    OBVIOUS
<1>2. x \in X
    BY EmptyIsSound DEF ChainState
<1>3. Chain(fs) = (CHOOSE at : Rec(at))[N]
    BY DEF Chain
<1> HIDE DEF x
<1>4. \E at : Rec(at)
    <2>1. step \in [1..N -> [X -> X]]
        BY <1>1, ChainTaskSound
    <2>2. Loops(N, X, x, step) # {}
        <3>1. N \in Nat
            BY <1>1
        <3> HIDE DEF step, X, N
        <3> QED
            BY <1>2, <2>1, <3>1, LoopExists
    <2>3. PICK f \in [0..N -> X] : f[0] = x /\ \A k \in 1..N : f[k] = step[k][f[k - 1]]
        BY <2>2 DEF Loops
    <2>4. \A k \in 1..N : k - 1 \in 0..N /\ f[k - 1] \in X
        BY <1>1, <2>3
    <2>5. \A k \in 1..N : f[k] = ChainTask(f[k - 1], fs[k])
        BY <2>3, <2>4
    <2>6. \A k \in 0..N : k = 0 \/ k \in 1..N
        BY <1>1
    <2>7. f = [k \in 0..N |-> f[k]]
        BY <2>3
    <2>8. Rec(f)
        <3> HIDE DEF N, X
        <3> QED
            BY <2>3, <2>5, <2>6, <2>7
    <2> QED
        BY <2>8
<1>5. PICK at : Rec(at) /\ Chain(fs) = at[N]
    <2> HIDE DEF Rec
    <2> QED
        BY <1>3, <1>4
<1>6. at[0] = x /\ \A k \in 1..N : at[k] = ChainTask(at[k - 1], fs[k])
    BY <1>1, <1>5
<1> DEFINE S == {k \in 0..N : at[k] \in X}
<1>7. 0 \in S
    BY <1>1, <1>2, <1>6
<1>8. ASSUME NEW k \in 1..N, k - 1 \in S
      PROVE  k \in S
    BY <1>1, <1>6, <1>8, ChainTaskSound
<1>9. N \in S
    <2>1. N \in 0..N
        BY <1>1
    <2> HIDE DEF S, N
    <2> QED
        BY <1>1, <1>7, <1>8, <2>1, AllUpTo
<1> QED
    BY <1>5, <1>9

\* The fragments of sound tasks are sound, whether the tasks are required or not.
LEMMA TaskFragmentsSound ==
    /\ \A t \in SoundTask : planTask(t) \in SoundFragment
    /\ \A ts \in Seq(SoundTask) : /\ TaskFragments(ts) \in Seq(SoundFragment)
                                  /\ Len(TaskFragments(ts)) = Len(ts)
                                  /\ [k \in DOMAIN ts |-> ts[k].frag] \in Seq(SoundFragment)
<1>1. \A t \in SoundTask : planTask(t) \in SoundFragment /\ t.frag \in SoundFragment
    BY EmptyIsSound DEF SoundTask, planTask
<1>2. ASSUME NEW ts \in Seq(SoundTask)
      PROVE  /\ TaskFragments(ts) \in Seq(SoundFragment)
             /\ Len(TaskFragments(ts)) = Len(ts)
             /\ [k \in DOMAIN ts |-> ts[k].frag] \in Seq(SoundFragment)
    <2>1. DOMAIN ts = 1..Len(ts) /\ Len(ts) \in Nat /\ \A k \in 1..Len(ts) : ts[k] \in SoundTask
        OBVIOUS
    <2>2. /\ TaskFragments(ts) = [k \in 1..Len(ts) |-> planTask(ts[k])]
          /\ [k \in DOMAIN ts |-> ts[k].frag] = [k \in 1..Len(ts) |-> ts[k].frag]
        BY <2>1 DEF TaskFragments
    <2> QED
        BY <1>1, <2>1, <2>2
<1> QED
    BY <1>1, <1>2

\* A task added to a control plane or worker module.
LEMMA AddTaskSound ==
    ASSUME NEW a \in SoundFragment, NEW t \in SoundTask, NEW b \in BOOLEAN, NEW l \in BOOLEAN
    PROVE  AddTask(a, t, b, l) \in SoundFragment
<1>1. CASE ~t.required
    BY <1>1 DEF AddTask
<1>2. CASE t.required
    <2>1. PICK f : f = MergeFragment(a, t.frag)
        OBVIOUS
    <2>2. PICK g : g = IF l THEN LinkFragments(f, a.exit, t.frag.entry) ELSE f
        OBVIOUS
    <2>3. PICK e : e = IF b THEN a.entry \cup t.frag.entry ELSE a.entry
        OBVIOUS
    <2>4. t.frag \in SoundFragment
        BY DEF SoundTask
    <2>5. /\ a.exit \in SUBSET NodeId /\ a.entry \in SUBSET NodeId
          /\ t.frag.exit \in SUBSET NodeId /\ t.frag.entry \in SUBSET NodeId
        BY <2>4 DEF SoundFragment, Fragment
    <2>6. /\ f \in SoundFragment
          /\ f.ok => a.ok /\ t.frag.ok /\ f.nodes = a.nodes \cup t.frag.nodes
        BY <2>1, <2>4, MergeSound
    <2>7. g \in SoundFragment /\ (g.ok => f.ok /\ g.nodes = f.nodes)
        BY <2>2, <2>5, <2>6, LinkSound
    <2>8. /\ a.ok => a.entry \subseteq a.nodes
          /\ t.frag.ok => t.frag.entry \subseteq t.frag.nodes /\ t.frag.exit \subseteq t.frag.nodes
        BY <2>4 DEF SoundFragment, Sound
    <2>9. e \in SUBSET NodeId /\ (g.ok => e \subseteq g.nodes /\ t.frag.exit \subseteq g.nodes)
        BY <2>3, <2>5, <2>6, <2>7, <2>8
    <2>10. AddTask(a, t, b, l) = [g EXCEPT !.entry = e, !.exit = t.frag.exit]
        BY <1>2, <2>1, <2>2, <2>3 DEF AddTask
    <2>11. [g EXCEPT !.entry = e, !.exit = t.frag.exit] \in SoundFragment
        BY ONLY <2>5, <2>7, <2>9, EndsSound, Zenon
    <2> QED
        BY <2>10, <2>11
<1> QED
    BY <1>1, <1>2
\* InfrastructureModule.Plan links the fragments of four parts.
LEMMA InfrastructureSound ==
    ASSUME NEW ts \in Seq(SoundTask), NEW p \in SoundTask, NEW e \in SoundTask,
           NEW r \in SoundTask
    PROVE  InfrastructureModule(ts, p, e, r) \in SoundFragment
<1>1. PICK os : os = Chain(TaskFragments(ts))
    OBVIOUS
<1>2. PICK pki : pki = planTask(p)
    OBVIOUS
<1>3. PICK etcd : etcd = planTask(e)
    OBVIOUS
<1>4. PICK cri : cri = planTask(r)
    OBVIOUS
<1>5. /\ os.frag \in SoundFragment /\ os.exit \in SUBSET NodeId
      /\ pki \in SoundFragment /\ etcd \in SoundFragment /\ cri \in SoundFragment
    BY <1>1, <1>2, <1>3, <1>4, TaskFragmentsSound, ChainSound DEF ChainState
<1>6. \A f \in SoundFragment : f.entry \in SUBSET NodeId /\ f.exit \in SUBSET NodeId
    BY DEF SoundFragment, Fragment
<1>7. PICK f1 \in SoundFragment :
          f1 = LinkFragments(MergeFragment(os.frag, pki), os.exit, pki.entry)
    BY <1>5, <1>6, MergeSound, LinkSound
<1>8. PICK f2 \in SoundFragment :
          f2 = LinkFragments(MergeFragment(f1, etcd), pki.exit, etcd.entry)
    BY <1>5, <1>6, MergeSound, LinkSound
<1>9. PICK f3 \in SoundFragment :
          f3 = LinkFragments(MergeFragment(f2, cri), os.exit, cri.entry)
    BY <1>5, <1>6, MergeSound, LinkSound
<1>10. InfrastructureModule(ts, p, e, r) = CalculateEntryAndExitNodes(f3)
    BY <1>1, <1>2, <1>3, <1>4, <1>7, <1>8, <1>9 DEF InfrastructureModule
<1> QED
    BY <1>10, CalculateSound

\* LoadBalancerModule.Plan returns what it chained, or nothing.
LEMMA LoadBalancerSound ==
    ASSUME NEW b \in BOOLEAN, NEW ts \in Seq(SoundTask)
    PROVE  LoadBalancerModule(b, ts) \in SoundFragment
<1>1. PICK c : c = Chain([k \in DOMAIN ts |-> ts[k].frag])
    OBVIOUS
<1>2. c.frag \in SoundFragment
    BY <1>1, TaskFragmentsSound, ChainSound DEF ChainState
<1> QED
    BY <1>1, <1>2, EmptyIsSound DEF LoadBalancerModule

\* AddonsModule.Plan names the ends of all its tasks as its own.
LEMMA AddonsSound ==
    ASSUME NEW ts \in Seq(SoundTask)
    PROVE  AddonsModule(ts) \in SoundFragment
<1>1. PICK fs : fs = TaskFragments(ts)
    OBVIOUS
<1>2. fs \in Seq(SoundFragment)
    BY <1>1, TaskFragmentsSound
<1>3. PICK f : f = Merged(fs)
    OBVIOUS
<1>4. f \in SoundFragment /\ (f.ok => \A k \in 1..Len(fs) : fs[k].nodes \subseteq f.nodes)
    BY <1>2, <1>3, MergedSound
<1>5. CASE ~f.ok
    BY <1>1, <1>3, <1>4, <1>5 DEF AddonsModule
<1>6. CASE f.ok
    <2>1. PICK e : e = UNION {fs[k].entry : k \in DOMAIN fs}
        OBVIOUS
    <2>2. PICK x : x = UNION {fs[k].exit : k \in DOMAIN fs}
        OBVIOUS
    <2>3. DOMAIN fs = 1..Len(fs) /\ \A k \in DOMAIN fs : fs[k] \in SoundFragment
        BY <1>2
    <2>4. \A k \in DOMAIN fs : fs[k].entry \subseteq NodeId /\ fs[k].exit \subseteq NodeId
        BY <2>3 DEF SoundFragment, Fragment
    <2>5. e \in SUBSET NodeId /\ x \in SUBSET NodeId
        BY <2>1, <2>2, <2>4
    <2>6. \A k \in DOMAIN fs : fs[k].entry \subseteq f.nodes /\ fs[k].exit \subseteq f.nodes
        <3> SUFFICES ASSUME NEW k \in DOMAIN fs
                     PROVE  fs[k].entry \subseteq f.nodes /\ fs[k].exit \subseteq f.nodes
            OBVIOUS
        <3>1. fs[k].nodes \subseteq f.nodes
            BY <1>4, <1>6, <2>3
        <3>2. fs[k].ok
            BY <1>2, <1>3, <1>6, <2>3, MergedSound
        <3> QED
            BY <2>3, <3>1, <3>2 DEF SoundFragment, Sound
    <2>7. e \subseteq f.nodes /\ x \subseteq f.nodes
        BY <2>1, <2>2, <2>6
    <2>8. [f EXCEPT !.entry = e, !.exit = x] \in SoundFragment
        BY ONLY <1>4, <2>5, <2>7, EndsSound, Zenon
    <2>9. AddonsModule(ts) = [f EXCEPT !.entry = e, !.exit = x]
        BY <1>1, <1>3, <1>6, <2>1, <2>2 DEF AddonsModule
    <2> QED
        BY <2>8, <2>9
<1> QED
    BY <1>5, <1>6

\* Every way a module puts the fragments of its tasks together gives a sound
\* fragment or an error: dependencies, entry and exit nodes are nodes of it. So does
\* the load balancer's, which names no ends, and so do the control planes', which
\* set them by hand.
THEOREM ModulesPlanSound ==
    ASSUME NEW f \in ModuleFragment
    PROVE  f \in Fragment /\ (f.ok => Sound(f))
<1> SUFFICES f \in SoundFragment
    BY DEF SoundFragment
<1>1. ASSUME NEW ts \in Seq(SoundTask)
      PROVE  PlanTasks(ts) \in SoundFragment /\ PreflightModule(ts) \in SoundFragment
    <2>1. TaskFragments(ts) \in Seq(SoundFragment)
        BY <1>1, TaskFragmentsSound
    <2>2. Merged(TaskFragments(ts)) \in SoundFragment
        BY <2>1, MergedSound
    <2>3. Chain(TaskFragments(ts)).frag \in SoundFragment
        BY <2>1, ChainSound DEF ChainState
    <2> QED
        BY <2>2, <2>3, CalculateSound DEF PlanTasks, PreflightModule
<1>2. ASSUME NEW b \in SoundTask, NEW n \in SoundTask, NEW j \in SoundTask
      PROVE  KubeadmControlPlaneModule(b, n, j) \in SoundFragment
    <2>1. PICK a : a = [b EXCEPT !.required = TRUE]
        OBVIOUS
    <2>2. a \in SoundTask
        BY <2>1 DEF SoundTask, Task
    <2>3. PICK f1 \in SoundFragment : f1 = AddTask(NewExecutionFragment, a, TRUE, FALSE)
        BY <2>2, EmptyIsSound, AddTaskSound
    <2>4. PICK f2 \in SoundFragment : f2 = AddTask(f1, n, FALSE, TRUE)
        BY AddTaskSound
    <2>5. AddTask(f2, j, FALSE, TRUE) \in SoundFragment
        BY AddTaskSound
    <2> QED
        BY <2>1, <2>3, <2>4, <2>5 DEF KubeadmControlPlaneModule
<1>3. ASSUME NEW p \in SoundTask, NEW k \in SoundTask, NEW c \in SoundTask,
             NEW s \in SoundTask, NEW a \in SoundTask, NEW j \in SoundTask
      PROVE  KubexmControlPlaneModule(p, k, c, s, a, j) \in SoundFragment
    <2>1. PICK f1 \in SoundFragment : f1 = AddTask(NewExecutionFragment, p, TRUE, FALSE)
        BY EmptyIsSound, AddTaskSound
    <2>2. PICK f2 \in SoundFragment : f2 = AddTask(f1, k, FALSE, TRUE)
        BY AddTaskSound
    <2>3. PICK f3 \in SoundFragment : f3 = AddTask(f2, c, TRUE, FALSE)
        BY AddTaskSound
    <2>4. PICK f4 \in SoundFragment : f4 = AddTask(f3, s, FALSE, TRUE)
        BY AddTaskSound
    <2>5. PICK f5 \in SoundFragment : f5 = AddTask(f4, a, FALSE, TRUE)
        BY AddTaskSound
    <2>6. AddTask(f5, j, FALSE, TRUE) \in SoundFragment
        BY AddTaskSound
    <2> QED
        BY <2>1, <2>2, <2>3, <2>4, <2>5, <2>6 DEF KubexmControlPlaneModule
<1>4. ASSUME NEW b \in SoundTask, NEW j \in SoundTask
      PROVE  /\ KubeadmWorkerModule(b, j) \in SoundFragment
             /\ SingleTaskModule(b) \in SoundFragment
    <2>1. AddTask(NewExecutionFragment, b, TRUE, FALSE) \in SoundFragment
        BY EmptyIsSound, AddTaskSound
    <2> QED
        BY <2>1, AddTaskSound DEF KubeadmWorkerModule, SingleTaskModule
<1> QED
    BY <1>1, <1>2, <1>3, <1>4, InfrastructureSound, LoadBalancerSound, AddonsSound
       DEF ModuleFragment

\* The barrier between modules therefore rests on the tasks alone: it stands for any
\* list of modules that plan in one of these ways and whose tasks return sound
\* fragments.
THEOREM PlannedModulesInOrder ==
    ASSUME \A c \in Config : \A k \in 1..Len(Planned[c]) :
               Returned(c, k) \subseteq ModuleFragment
    PROVE  Spec => []ModuleBarrier
<1>1. ModulesSound
    BY ModulesPlanSound DEF ModulesSound
<1> QED
    BY <1>1, ModulesInOrder
=============================================================================
