------------------------------- MODULE MCPsync -------------------------------
(***************************************************************************)
(* TLC instance of Psync: a master and two replicas. No symmetry, as the   *)
(* run checks liveness.                                                    *)
(***************************************************************************)
EXTENDS Psync
=============================================================================
