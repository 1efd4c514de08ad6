------------------------------ MODULE MCNodeRun ------------------------------
(* Small instances of NodeRun for TLC. *)
EXTENDS NodeRun

CONSTANTS h1, h2

MCHosts == {h1, h2}

\* The step may panic on one of the hosts.
Panicky == {h2}
=============================================================================
