---------------------------- MODULE DurableVoter ----------------------------
(***************************************************************************)
(* What a cluster node promises the other nodes about its epochs: a vote   *)
(* or a configEpoch is on disk before any packet carries it, votes are     *)
(* given in ever greater epochs, and neither is ever taken back. Module    *)
(* ClusterBusLoop shows how far the event loop of a node keeps the promise.*)
(***************************************************************************)
EXTENDS Naturals

CONSTANTS Peers, MaxEpoch

VARIABLES
  ballots,   \* votes <<peer, epoch>> the node will answer for after a crash
  config,    \* configEpoch the node will come back with after a crash
  wire       \* packets <<peer, type, epoch>> that left the node

Promise == <<ballots, config, wire>>

Init == ballots = {} /\ config = 0 /\ wire = {}

\* Votes are recorded in ever greater epochs, several at a time if need be.
Persist ==
  /\ \E new \in SUBSET (Peers \X (1..MaxEpoch)) :
       /\ \A v \in new : /\ \A b \in ballots : b[2] < v[2]
                         /\ \A w \in new : v[2] = w[2] => v = w
       /\ ballots' = ballots \cup new
  /\ config' \in config..MaxEpoch
  /\ UNCHANGED wire

\* Packets leave for one peer: votes on record, configEpochs already on disk.
Send ==
  /\ \E peer \in Peers :
       \E packets \in SUBSET ({peer} \X ({"AUTH_ACK"} \X (1..MaxEpoch)
                                       \cup {"PONG"} \X (0..MaxEpoch))) :
         /\ \A p \in packets : p[2][1] = "AUTH_ACK" => <<peer, p[2][2]>> \in ballots
         /\ \A p \in packets : p[2][1] = "PONG" => p[2][2] <= config
         /\ wire' = wire \cup packets
  /\ UNCHANGED <<ballots, config>>

Next == Persist \/ Send

Spec == Init /\ [][Next]_Promise
=============================================================================
