-------------------------- MODULE MCGraphValidate --------------------------
(* Every graph over three node identifiers. *)
EXTENDS GraphValidate
=============================================================================
