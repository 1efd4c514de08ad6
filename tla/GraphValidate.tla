---------------------------- MODULE GraphValidate ----------------------------
(***************************************************************************)
(* ExecutionGraph.Validate (internal/plan/graph.go), the check every       *)
(* pipeline makes of its graph before it is run and the executor makes     *)
(* again before it starts: dependencies exist, Kahn's algorithm removes    *)
(* every node, and the declared entry and exit nodes make sense.           *)
(*                                                                         *)
(* The promise is Valid: a definition with no algorithm in it. Executor    *)
(* and PipelinePlan use that definition, and the properties here are what  *)
(* entitles them to.                                                       *)
(***************************************************************************)
EXTENDS Integers, FiniteSets

CONSTANT NodeId   \* node identifiers, known to the graph or not

ASSUME NodeIdAssumption == IsFiniteSet(NodeId)

VARIABLES
    nodes, deps, entry, exit,  \* the graph; Validate never changes it
    pc,        \* "count", "kahn", "nodes" or "returned"
    inDegree,  \* dependencies not yet removed, per node
    queue,     \* nodes to remove; which comes first is up to map iteration
    count,     \* nodes removed
    removed,   \* ghost: which ones
    verdict    \* "none", then "ok" or what the error is about

graph == <<nodes, deps, entry, exit>>
vars == <<nodes, deps, entry, exit, pc, inDegree, queue, count, removed, verdict>>

\* Any graph, good or bad. A node identifier that is not a node has no
\* dependencies of its own.
Init ==
    /\ nodes \in SUBSET NodeId
    /\ deps \in [NodeId -> SUBSET NodeId]
    /\ \A n \in NodeId \ nodes : deps[n] = {}
    /\ entry \in SUBSET NodeId
    /\ exit \in SUBSET NodeId
    /\ pc = "count"
    /\ inDegree = [n \in NodeId |-> 0]
    /\ queue = {}
    /\ count = 0
    /\ removed = {}
    /\ verdict = "none"

Missing == {n \in nodes : ~(deps[n] \subseteq nodes)}

Return(v) ==
    /\ pc' = "returned"
    /\ verdict' = v

\* The first two loops: in-degrees, unless a dependency does not exist; then
\* the queue of the nodes that wait for nothing.
CountDegrees ==
    /\ pc = "count"
    /\ \/ /\ Missing # {}
          /\ Return("missing")
          /\ UNCHANGED <<inDegree, queue>>
       \/ /\ Missing = {}
          /\ inDegree' = [n \in NodeId |-> Cardinality(deps[n])]
          /\ queue' = {n \in nodes : deps[n] = {}}
          /\ pc' = "kahn"
          /\ UNCHANGED verdict
    /\ UNCHANGED <<nodes, deps, entry, exit, count, removed>>

\* Mutants: a node is queued with one dependency to go; the node that reached
\* zero is looked for before the decrement.
FreedEarly(u) == {v \in nodes : u \in deps[v] /\ inDegree[v] <= 2}
FreedStale(u) == {v \in nodes : u \in deps[v] /\ inDegree[v] = 0}
\* The dependents of u whose in-degree the removal of u brings to zero.
Freed(u) == {v \in nodes : u \in deps[v] /\ inDegree[v] - 1 = 0}

\* Mutant: every node is one dependency nearer.
DecrementedAll(u) == [v \in NodeId |-> inDegree[v] - 1]
Decremented(u) == [v \in NodeId |-> IF u \in deps[v] THEN inDegree[v] - 1
                                                     ELSE inDegree[v]]

\* One round of the main loop.
Remove(u) ==
    /\ pc = "kahn"
    /\ u \in queue
    /\ inDegree' = Decremented(u)
    /\ queue' = (queue \ {u}) \cup Freed(u)
    /\ count' = count + 1
    /\ removed' = removed \cup {u}
    /\ UNCHANGED <<nodes, deps, entry, exit, pc, verdict>>

\* The loop has ended: were all nodes removed?
CompareCount ==
    /\ pc = "kahn"
    /\ queue = {}
    /\ IF count # Cardinality(nodes)
       THEN Return("cyclic")
       ELSE pc' = "nodes" /\ UNCHANGED verdict
    /\ UNCHANGED <<nodes, deps, entry, exit, inDegree, queue, count, removed>>

EntryNodesWrong == {n \in entry : n \notin nodes \/ deps[n] # {}}

\* The declared entry nodes are nodes without dependencies, the exit nodes are
\* nodes.
CheckNodes ==
    /\ pc = "nodes"
    /\ Return(IF EntryNodesWrong # {} THEN "entry"
              ELSE IF ~(exit \subseteq nodes) THEN "exit"
              ELSE "ok")
    /\ UNCHANGED <<nodes, deps, entry, exit, inDegree, queue, count, removed>>

Next ==
    \/ CountDegrees
    \/ \E u \in NodeId : Remove(u)
    \/ CompareCount
    \/ CheckNodes

Spec == Init /\ [][Next]_vars

-----------------------------------------------------------------------------
(* Properties *)

\* Type invariant of a call of Validate.
TypeOK ==
    /\ nodes \in SUBSET NodeId
    /\ deps \in [NodeId -> SUBSET NodeId]
    /\ entry \in SUBSET NodeId
    /\ exit \in SUBSET NodeId
    /\ pc \in {"count", "kahn", "nodes", "returned"}
    /\ inDegree \in [NodeId -> Nat]
    /\ queue \in SUBSET nodes
    /\ count \in Nat
    /\ removed \in SUBSET nodes
    /\ verdict \in {"none", "ok", "missing", "cyclic", "entry", "exit"}

DependenciesExist == \A n \in nodes : deps[n] \subseteq nodes

\* Every member of S waits for a member of S: no order starts with any of them.
SelfWaiting(S) == S # {} /\ \A n \in S : deps[n] \cap S # {}

Acyclic == \A S \in SUBSET nodes : ~SelfWaiting(S)

Valid ==
    /\ DependenciesExist
    /\ Acyclic
    /\ \A n \in entry : n \in nodes /\ deps[n] = {}
    /\ exit \subseteq nodes

\* Validate returns no error exactly for the graphs that can be executed to
\* the end, and an error about a cycle only when there is one.
VerdictCorrect ==
    pc = "returned" => /\ verdict = "ok" <=> Valid
                       /\ verdict = "cyclic" <=> DependenciesExist /\ ~Acyclic

\* The loop never queues a node again: count would no longer count nodes.
QueuedOnce ==
    pc = "kahn" => \A u \in queue : Freed(u) \cap (queue \cup removed) = {}
=============================================================================
