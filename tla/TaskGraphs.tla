----------------------------- MODULE TaskGraphs -----------------------------
(***************************************************************************)
(* The graphs the Plan functions of internal/task build out of steps. A    *)
(* node is a step and the hosts it is planned for, named as the planner    *)
(* asks for them; nodes are numbered in the order they are added.          *)
(***************************************************************************)
EXTENDS Naturals, Sequences

Node(step, on) == [step |-> step, on |-> on]

\* AddDependency(from, to): to runs after from.
Graph(nodes, edges) == [nodes |-> nodes, edges |-> edges]

Together(nodes) == Graph(nodes, {})
Chain(nodes)    == Graph(nodes, {<<i, i + 1>> : i \in 1 .. Len(nodes) - 1})
Single(step, on) == Together(<<Node(step, on)>>)

EntryNodes(g) == {n \in DOMAIN g.nodes : \A e \in g.edges : e[2] # n}
ExitNodes(g)  == {n \in DOMAIN g.nodes : \A e \in g.edges : e[1] # n}

\* MergeFragment and LinkFragments: h after all of g.
Then(g, h) ==
    LET k == Len(g.nodes)
    IN  Graph(g.nodes \o h.nodes,
              g.edges \cup {<<e[1] + k, e[2] + k>> : e \in h.edges}
              \cup {<<m, n + k>> : m \in ExitNodes(g), n \in EntryNodes(h)})

\* A graph per host, the second host after the first.
Rolling(G(_), first, others) == Then(G(first), G(others))
=============================================================================
