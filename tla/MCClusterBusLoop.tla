-------------------------- MODULE MCClusterBusLoop --------------------------
(***************************************************************************)
(* TLC instance of ClusterBusLoop; the peers are interchangeable.          *)
(***************************************************************************)
EXTENDS ClusterBusLoop, TLC

Symmetry == Permutations(Peers)
=============================================================================
