------------------------ MODULE MCClusterFailHistory ------------------------
(***************************************************************************)
(* TLC instance of ClusterFailHistory: two serving masters and a replica   *)
(* watch Target. No symmetry, as the run checks liveness.                  *)
(***************************************************************************)
EXTENDS ClusterFailHistory
=============================================================================
