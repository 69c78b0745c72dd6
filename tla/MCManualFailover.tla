-------------------------- MODULE MCManualFailover --------------------------
(***************************************************************************)
(* TLC instance of ManualFailover: a master and two replicas.              *)
(***************************************************************************)
EXTENDS ManualFailover
=============================================================================
