-------------------------- MODULE MCConnectionPool --------------------------
(* A small pool. *)
EXTENDS ConnectionPool, TLC

CONSTANTS c1, c2, c3, c4, x1, x2, x3, x4, x5

MCConnectors == {c1, c2, c3, c4}
MCConns      == {x1, x2, x3, x4, x5}

\* Connectors do the same things, and so do connections.
Symmetry == Permutations(MCConnectors) \cup Permutations(MCConns)
=============================================================================
