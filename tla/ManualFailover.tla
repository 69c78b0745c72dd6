--------------------------- MODULE ManualFailover ---------------------------
(***************************************************************************)
(* CLUSTER FAILOVER at a replica: the replica asks its master to pause the *)
(* writes of its clients (MFSTART), waits for a header flagged PAUSED with *)
(* the offset the master has stopped at, catches up, is elected and takes  *)
(* over. Both sides abort after CLUSTER_MF_TIMEOUT, each by its own clock. *)
(*                                                                         *)
(* The votes of the other masters are those of ClusterElection; here a     *)
(* majority may be granted or not, at any time after it was asked for. The *)
(* master does not fail, and the module ends with the first takeover and   *)
(* what the other nodes make of it.                                        *)
(***************************************************************************)
EXTENDS Integers, FiniteSets

CONSTANTS
  Master, Replicas,
  MfTimeout,     \* CLUSTER_MF_TIMEOUT, in ticks
  MaxOffset,     \* bound on the replication stream
  MaxAttempts,   \* bound on CLUSTER FAILOVER commands
  MaxPings,      \* bound on the headers in flight
  Patient,       \* the next attempt starts when nothing is left of the last one
  Timely         \* a tick is longer than a packet takes, crons run on time

Nodes == {Master} \cup Replicas
None == "none"
PauseMult == 2

ASSUME MasterAssumption == Master \notin Replicas /\ None \notin Nodes
ASSUME TimeoutAssumption == MfTimeout \in Nat \ {0}
ASSUME BoundAssumption == {MaxOffset, MaxAttempts, MaxPings} \subseteq Nat
ASSUME FlagAssumption == {Patient, Timely} \subseteq BOOLEAN

VARIABLES
  offset,        \* offset[n]: what n has of the replication stream
  acked,         \* offset of the last write a client was answered
  mf_end,        \* mf_end[n]: 0 or 1 + the ticks until the attempt of n is over
  mf_slave,      \* the replica the master has paused its clients for
  mf_offset,     \* mf_master_offset[r], -1 as long as it is not known
  mf_can_start,  \* replicas that may start their election
  pause,         \* 0 or 1 + the ticks until the pause of the master's clients ends
  auth,          \* auth[r]: state of the election of r
  graceful,      \* replicas whose attempt was made without FORCE or TAKEOVER
  winner,        \* the replica that has taken over, None before
  follows,       \* nodes that have learned of it
  net,           \* packets
  attempts

vars == <<offset, acked, mf_end, mf_slave, mf_offset, mf_can_start, pause, auth, graceful,
          winner, follows, net, attempts>>
mfVars == <<mf_end, mf_slave, mf_offset, mf_can_start, pause>>
streamVars == <<offset, acked>>
roleVars == <<auth, graceful, winner, follows, attempts>>

MfStart(r) == [type |-> "mfstart", from |-> r, to |-> Master, offset |-> 0]
Paused(r) == [type |-> "paused", from |-> Master, to |-> r, offset |-> offset[Master]]
Pong(r, n) == [type |-> "pong", from |-> r, to |-> n, offset |-> 0]

Init ==
  /\ offset = [n \in Nodes |-> 0] /\ acked = 0
  /\ mf_end = [n \in Nodes |-> 0] /\ mf_slave = None
  /\ mf_offset = [r \in Replicas |-> -1] /\ mf_can_start = {}
  /\ pause = 0
  /\ auth = [r \in Replicas |-> "none"] /\ graceful = {}
  /\ winner = None /\ follows = {} /\ net = {} /\ attempts = 0

InAttempt(n) == mf_end[n] # 0
Expired(n) == mf_end[n] = 1
\* isPausedActions: the end of the pause lies ahead.
IsPaused == pause > 1
IsSlave(r) == winner # r
IsMaster == Master \notin follows
-----------------------------------------------------------------------------
(* The stream.                                                             *)

\* A write is executed and answered unless clients are paused, in which case
\* it is postponed, or the slot has moved.
ClientWrite ==
  /\ IsMaster /\ ~IsPaused /\ offset[Master] < MaxOffset
  /\ offset' = [offset EXCEPT ![Master] = @ + 1]
  /\ acked' = offset[Master] + 1
  /\ UNCHANGED <<mfVars, roleVars, net>>

\* Mutant: the stream is pinged during the pause too.
PingsStreamAlways == TRUE

\* replicationCron does not ping the replicas while clients are paused for a
\* manual failover: the offset would move.
PingsStream == ~(InAttempt(Master) /\ IsPaused)

ReplicationPing ==
  /\ IsMaster /\ PingsStream /\ offset[Master] < MaxOffset
  /\ offset' = [offset EXCEPT ![Master] = @ + 1]
  /\ UNCHANGED <<acked, mfVars, roleVars, net>>

Replicate(r) ==
  /\ IsSlave(r) /\ offset[r] < offset[Master]
  /\ offset' = [offset EXCEPT ![r] = @ + 1]
  /\ UNCHANGED <<acked, mfVars, roleVars, net>>
-----------------------------------------------------------------------------
(* The state of an attempt.                                                *)

\* Mutant: the clients stay paused until their own deadline.
ResetMasterPaused == mf_slave' = None /\ UNCHANGED pause

\* resetManualFailover at the master and at a replica.
ResetMaster ==
  /\ mf_slave' = None
  /\ pause' = IF mf_slave # None THEN 0 ELSE pause

ResetReplica(r) ==
  /\ mf_can_start' = mf_can_start \ {r}
  /\ mf_offset' = [mf_offset EXCEPT ![r] = -1]

\* resetManualFailover and its mf_end = 0.
Reset(n) ==
  /\ mf_end' = [mf_end EXCEPT ![n] = 0]
  /\ IF n = Master
     THEN ResetMaster /\ UNCHANGED <<mf_offset, mf_can_start>>
     ELSE ResetReplica(n) /\ UNCHANGED <<mf_slave, pause>>

\* Nothing is left of an earlier attempt: the master is not in one and no
\* header with its flag is under way.
Quiet == ~InAttempt(Master) /\ \A p \in net : p.type # "paused"

MayTry(r) == winner = None /\ attempts < MaxAttempts

\* CLUSTER FAILOVER: a new attempt, also in the middle of an old one.
ClusterFailover(r) ==
  /\ MayTry(r) /\ (Patient => Quiet)
  /\ ResetReplica(r)
  /\ mf_end' = [mf_end EXCEPT ![r] = MfTimeout + 1]
  /\ net' = net \cup {MfStart(r)}
  /\ graceful' = graceful \cup {r} /\ attempts' = attempts + 1
  /\ UNCHANGED <<streamVars, mf_slave, pause, auth, winner, follows>>

\* CLUSTER FAILOVER FORCE: the master is not asked.
ClusterFailoverForce(r) ==
  /\ MayTry(r)
  /\ mf_end' = [mf_end EXCEPT ![r] = MfTimeout + 1]
  /\ mf_offset' = [mf_offset EXCEPT ![r] = -1]
  /\ mf_can_start' = mf_can_start \cup {r}
  /\ graceful' = graceful \ {r} /\ attempts' = attempts + 1
  /\ UNCHANGED <<streamVars, mf_slave, pause, auth, winner, follows, net>>

\* clusterFailoverReplaceYourMaster: the replica is the master of the slots,
\* tells everybody and clears its attempt.
ReplaceYourMaster(r) ==
  /\ winner' = r /\ follows' = {r}
  /\ net' = net \cup { Pong(r, n) : n \in Nodes \ {r} }
  /\ Reset(r)

\* CLUSTER FAILOVER TAKEOVER: not even the other masters are asked.
ClusterFailoverTakeover(r) ==
  /\ MayTry(r)
  /\ ReplaceYourMaster(r)
  /\ graceful' = graceful \ {r} /\ attempts' = attempts + 1
  /\ UNCHANGED <<streamVars, auth>>
-----------------------------------------------------------------------------
(* Packets.                                                                *)

\* Mutant: the length of a pause is added to what is left of the last one.
PauseEndAdded == pause + PauseMult * MfTimeout + 1

\* pauseActions, called when no pause of a failover is left: the end of the pause.
PauseEnd == PauseMult * MfTimeout + 1

\* MFSTART: the master starts anew for this replica, pauses and answers with
\* a header that says so.
ReceiveMfStart(r) ==
  /\ MfStart(r) \in net
  /\ IF IsMaster
     THEN /\ mf_end' = [mf_end EXCEPT ![Master] = MfTimeout + 1]
          /\ mf_slave' = r
          /\ pause' = PauseEnd
          /\ net' = (net \ {MfStart(r)}) \cup {Paused(r)}
     ELSE net' = net \ {MfStart(r)} /\ UNCHANGED <<mf_end, mf_slave, pause>>
  /\ UNCHANGED <<streamVars, mf_offset, mf_can_start, roleVars>>

\* Every header of the master carries the flag while mf_end is set, whoever
\* it is for; mf_slave is pinged from every cron.
SendPing(r) ==
  /\ IsMaster /\ InAttempt(Master)
  /\ Cardinality(net) < MaxPings
  /\ net' = net \cup {Paused(r)}
  /\ UNCHANGED <<streamVars, mfVars, roleVars>>

\* A header with the flag: the first offset of the attempt is kept.
ReceivePaused(r) ==
  /\ \E p \in net :
       /\ p.type = "paused" /\ p.to = r
       /\ net' = net \ {p}
       /\ mf_offset' = IF InAttempt(r) /\ r \notin follows /\ mf_offset[r] = -1
                       THEN [mf_offset EXCEPT ![r] = p.offset] ELSE mf_offset
  /\ UNCHANGED <<streamVars, mf_end, mf_slave, mf_can_start, pause, roleVars>>

\* The header of the new master: clusterSetMaster clears the attempt.
ReceivePong(n) ==
  /\ \E p \in net :
       /\ p.type = "pong" /\ p.to = n
       /\ net' = net \ {p}
  /\ follows' = follows \cup {n}
  /\ Reset(n)
  /\ UNCHANGED <<streamVars, auth, graceful, winner, attempts>>

\* A link breaks with a packet on it.
LosePacket ==
  /\ \E p \in net : (Timely => p.type # "pong") /\ net' = net \ {p}
  /\ UNCHANGED <<streamVars, mfVars, roleVars>>
-----------------------------------------------------------------------------
(* The replica goes forward.                                               *)

\* Mutant: the attempt starts as soon as the offset of the master is known.
CaughtUpUnchecked(r) == mf_offset[r] # -1

\* clusterHandleManualFailover: the stream is processed up to the offset at which
\* the master has paused.
CaughtUp(r) == mf_offset[r] # -1 /\ mf_offset[r] = offset[r]

HandleManualFailover(r) ==
  /\ InAttempt(r) /\ IsSlave(r) /\ r \notin mf_can_start /\ CaughtUp(r)
  /\ mf_can_start' = mf_can_start \cup {r}
  /\ UNCHANGED <<streamVars, mf_end, mf_slave, mf_offset, pause, roleVars, net>>

\* clusterHandleSlaveFailover as far as this failover allows: the votes are asked
\* for (again, when auth_retry_time has passed), ...
MayFailOver(r) == InAttempt(r) /\ r \in mf_can_start /\ r \notin follows

AskVotes(r) ==
  /\ MayFailOver(r)
  /\ auth' = [auth EXCEPT ![r] = "asked"]
  /\ UNCHANGED <<streamVars, mfVars, graceful, winner, follows, net, attempts>>

\* ... come in, perhaps after the attempt is over and although another replica has
\* votes it has not used yet (of an older epoch: the masters refuse a second vote
\* about one master for twice the node timeout only), ...
VotesArrive(r) ==
  /\ auth[r] = "asked"
  /\ auth' = [auth EXCEPT ![r] = "won"]
  /\ UNCHANGED <<streamVars, mfVars, graceful, winner, follows, net, attempts>>

\* ... and the replica takes over, with the votes of an earlier attempt if they
\* are not too old.
TakeOver(r) ==
  /\ MayFailOver(r) /\ winner = None /\ auth[r] = "won"
  /\ Timely => ~Expired(r)
  /\ ReplaceYourMaster(r)
  /\ UNCHANGED <<streamVars, auth, graceful, attempts>>

\* Mutant: only replicas look at the clock.
TimesOutReplica(n) == n # Master /\ Expired(n)

\* manualFailoverCheckTimeout.
TimesOut(n) == Expired(n)

CheckTimeout(n) ==
  /\ TimesOut(n)
  /\ Reset(n)
  /\ UNCHANGED <<streamVars, roleVars, net>>

Counting == pause > 0 \/ \E n \in Nodes : mf_end[n] > 1

Tick ==
  /\ Counting
  /\ Timely => net = {} /\ \A n \in Nodes : ~TimesOut(n)
  /\ mf_end' = [n \in Nodes |-> IF mf_end[n] > 1 THEN mf_end[n] - 1 ELSE mf_end[n]]
  /\ pause' = IF pause > 0 THEN pause - 1 ELSE 0
  /\ UNCHANGED <<streamVars, mf_slave, mf_offset, mf_can_start, roleVars, net>>

ReplicaStep(r) ==
  \/ Replicate(r) \/ ClusterFailover(r) \/ ClusterFailoverForce(r) \/ ClusterFailoverTakeover(r)
  \/ ReceiveMfStart(r) \/ SendPing(r) \/ ReceivePaused(r)
  \/ HandleManualFailover(r) \/ AskVotes(r) \/ VotesArrive(r) \/ TakeOver(r)

Next ==
  \/ ClientWrite \/ ReplicationPing \/ LosePacket \/ Tick
  \/ \E r \in Replicas : ReplicaStep(r)
  \/ \E n \in Nodes : ReceivePong(n) \/ CheckTimeout(n)

Spec == Init /\ [][Next]_vars

(***************************************************************************)
(* Time goes on as long as a deadline lies ahead, every cron looks at the  *)
(* clock, and packets arrive or are lost.                                  *)
(***************************************************************************)
Fairness ==
  /\ []<><<Tick>>_vars \/ []<>~Counting
  /\ \A n \in Nodes : WF_vars(CheckTimeout(n)) /\ WF_vars(ReceivePong(n))
  /\ \A r \in Replicas : WF_vars(ReceiveMfStart(r)) /\ WF_vars(ReceivePaused(r))
FairSpec == Spec /\ Fairness
-----------------------------------------------------------------------------
(***************************************************************************)
(* Type correctness of the state of the attempts and the packets.          *)
(***************************************************************************)
TypeOK ==
  /\ offset \in [Nodes -> 0..MaxOffset] /\ acked \in 0..MaxOffset
  /\ mf_end \in [Nodes -> 0..(MfTimeout + 1)]
  /\ mf_slave \in Replicas \cup {None}
  /\ mf_offset \in [Replicas -> -1..MaxOffset]
  /\ mf_can_start \subseteq Replicas
  /\ pause \in 0..(PauseMult * MfTimeout + 1)
  /\ auth \in [Replicas -> {"none", "asked", "won"}]
  /\ graceful \subseteq Replicas /\ winner \in Replicas \cup {None} /\ follows \subseteq Nodes
  /\ net \subseteq [type : {"mfstart", "paused", "pong"}, from : Nodes, to : Nodes,
                    offset : 0..MaxOffset]
  /\ attempts \in 0..MaxAttempts

(***************************************************************************)
(* "The goal of the manual failover is to perform a fast failover without  *)
(* data loss": a replica that has taken over without FORCE has every write *)
(* a client was ever answered (clusterHandleManualFailover).               *)
(***************************************************************************)
NoDataLoss == winner # None /\ winner \in graceful => acked <= offset[winner]

(***************************************************************************)
(* A replica that waits for the offset of its master never runs past it,   *)
(* so the test for equality can still succeed (replicationCron).           *)
(***************************************************************************)
NeverPast ==
  \A r \in Replicas :
    winner = None /\ r \in graceful /\ InAttempt(r) /\ ~Expired(r) /\ mf_offset[r] # -1
      => offset[r] <= mf_offset[r]

(***************************************************************************)
(* Clients are paused for an attempt only: whatever ends it, a timeout, a  *)
(* takeover or another replica's attempt, nobody stays paused without one  *)
(* (resetManualFailover).                                                  *)
(***************************************************************************)
PausedForAttempt == IsPaused => InAttempt(Master) /\ mf_slave # None

(***************************************************************************)
(* No attempt goes on for ever, at the master or at a replica, whatever is *)
(* lost (manualFailoverCheckTimeout).                                      *)
(***************************************************************************)
AttemptsEnd == \A n \in Nodes : InAttempt(n) ~> ~InAttempt(n)
=============================================================================
