-------------------------- MODULE MCClusterElection --------------------------
(***************************************************************************)
(* TLC instance of ClusterElection: model values for the nodes. Replicas   *)
(* are interchangeable, and so are the masters other than Old.             *)
(***************************************************************************)
EXTENDS ClusterElection, TLC

Symmetry == Permutations(Replicas) \cup Permutations(Masters \ {Old})
=============================================================================
