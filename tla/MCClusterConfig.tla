--------------------------- MODULE MCClusterConfig ---------------------------
(***************************************************************************)
(* TLC instances of ClusterConfig.                                         *)
(***************************************************************************)
EXTENDS ClusterConfig

\* One shard: node 1 serves the slots, 2 and 3 are its replicas.
OneShard(takeovers, epoch) ==
  [slaveof |-> [x \in Nodes |-> IF x = 1 THEN None ELSE 1],
   owner |-> [s \in Slots |-> 1],
   epoch |-> [x \in Nodes |-> IF x = 1 THEN 1 ELSE 0],
   budget |-> [takeovers |-> takeovers, epoch |-> epoch]]

\* Two shards of a new cluster, in which nobody has a configEpoch yet: node 1
\* serves slot 0 and has replica 2, node 3 serves the rest.
NewCluster(takeovers, epoch) ==
  [slaveof |-> [x \in Nodes |-> IF x = 2 THEN 1 ELSE None],
   owner |-> [s \in Slots |-> IF s = 0 THEN 1 ELSE 3],
   epoch |-> [x \in Nodes |-> 0],
   budget |-> [takeovers |-> takeovers, epoch |-> epoch]]

\* One replica takes over.
OneTakeover == {OneShard(1, 4)}

\* Up to two replicas take over, both with the configEpoch 2; and a new cluster,
\* in which all configEpochs collide, with a takeover on the way.
AllBeginnings == {OneShard(2, 2), NewCluster(1, 6)}
=============================================================================
