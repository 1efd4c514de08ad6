----------------------------- MODULE MCExecutor -----------------------------
(* Small instances of Executor for TLC. *)
EXTENDS Executor, TLC

CONSTANTS a, b, c, d, w1, w2

MCNodes   == {a, b, c, d}
MCNodes3  == {a, b, c}
MCWorkers == {w1, w2}

\* A graph over MCNodes from a set of <<dependency, dependent>> pairs.
GraphOf(N, ns, edges) ==
    [nodes |-> ns, deps |-> [n \in N |-> {m \in N : <<m, n>> \in edges}]]

Diamond == GraphOf(MCNodes, MCNodes, {<<a, b>>, <<a, c>>, <<b, d>>, <<c, d>>})
Mixed   == GraphOf(MCNodes, MCNodes, {<<a, c>>, <<b, c>>, <<b, d>>})
Twin    == GraphOf(MCNodes, MCNodes, {<<a, c>>, <<b, c>>})
Cyclic  == GraphOf(MCNodes, MCNodes, {<<a, b>>, <<b, c>>, <<c, b>>})

\* One graph of each shape that matters to a fresh run.
FreshGraphs == {Diamond, Mixed, Twin, Cyclic}

\* Resumed runs, planned the same way every time: nodes that wait for none, and
\* one that waits for another.
Branch == {GraphOf(MCNodes, MCNodes, {<<b, d>>})}

Fork == {GraphOf(MCNodes3, MCNodes3, {<<a, b>>, <<a, c>>})}

\* The plan differs between two runs of the pipeline.
ChangedGraphs == {GraphOf(MCNodes3, {a, b}, {}), GraphOf(MCNodes3, {b, c}, {<<b, c>>})}
=============================================================================
