------------------------------ MODULE Fragments ------------------------------
(***************************************************************************)
(* Execution fragments (internal/plan/fragment.go) and the graph a         *)
(* pipeline assembles from them (internal/plan/graph.go): merging,         *)
(* linking, entry and exit nodes.                                          *)
(*                                                                         *)
(* A fragment is a value here. An operation that returns an error yields   *)
(* Failure: every caller returns the error at once and drops the fragment. *)
(* Lists of node identifiers without duplicates are sets.                  *)
(***************************************************************************)
CONSTANT NodeId

Fragment == [ok    : BOOLEAN,
             nodes : SUBSET NodeId,
             deps  : [NodeId -> SUBSET NodeId],
             entry : SUBSET NodeId,
             exit  : SUBSET NodeId]

NewExecutionFragment == [ok    |-> TRUE,
                         nodes |-> {},
                         deps  |-> [n \in NodeId |-> {}],
                         entry |-> {},
                         exit  |-> {}]

Failure == [NewExecutionFragment EXCEPT !.ok = FALSE]

IsEmpty(f) == f.nodes = {}

\* Entry and exit nodes are left as they are. A node known to both is an error.
MergeFragment(f, other) ==
    IF ~f.ok \/ ~other.ok \/ f.nodes \cap other.nodes # {} THEN Failure
    ELSE [f EXCEPT
            !.nodes = @ \cup other.nodes,
            !.deps  = [n \in NodeId |-> IF n \in other.nodes THEN other.deps[n]
                                                             ELSE f.deps[n]]]

\* Every node of to gets every node of from as a dependency.
Linked(deps, from, to) ==
    [n \in NodeId |-> IF n \in to THEN deps[n] \cup from ELSE deps[n]]

\* LinkFragments: nothing to do when one of the two lists is empty; unknown
\* nodes and (AddDependency) a node depending on itself are errors.
LinkFragments(f, from, to) ==
    IF ~f.ok THEN Failure
    ELSE IF from = {} \/ to = {} THEN f
    ELSE IF ~(from \cup to \subseteq f.nodes) \/ from \cap to # {} THEN Failure
    ELSE [f EXCEPT !.deps = Linked(f.deps, from, to)]

\* Nodes no node of the fragment comes before, and nodes none comes after.
EntryNodes(f) == {n \in f.nodes : f.deps[n] \cap f.nodes = {}}
ExitNodes(f)  == {n \in f.nodes : \A m \in f.nodes : n \notin f.deps[m]}

CalculateEntryAndExitNodes(f) ==
    [f EXCEPT !.entry = EntryNodes(f), !.exit = ExitNodes(f)]

-----------------------------------------------------------------------------
\* What Validate accepts: every dependency is a node and no nonempty set of
\* nodes has all its members waiting on it (module GraphValidate shows the
\* algorithm to decide exactly this).
DependenciesExist(f) == \A n \in f.nodes : f.deps[n] \subseteq f.nodes

Acyclic(f) ==
    {S \in SUBSET f.nodes : S # {} /\ \A n \in S : f.deps[n] \cap S # {}} = {}

\* A set of nodes the executor can have completed at some moment.
Prefix(f, D) == D \subseteq f.nodes /\ \A n \in D : f.deps[n] \subseteq D
=============================================================================
