--------------------------- MODULE ClusterElection ---------------------------
(***************************************************************************)
(* The failover election of Redis Cluster (cluster.c): the replicas of one *)
(* master ask the slot-serving masters for a vote, the masters vote at     *)
(* most once per epoch, and a replica that collects a majority takes the   *)
(* slots of its old master over with the epoch of the election as          *)
(* configEpoch.                                                            *)
(*                                                                         *)
(* One shard is followed: Old is its master, Replicas are the replicas of  *)
(* Old, and Masters are all masters that serve slots (Old among them).     *)
(* Epochs are counted from the epoch 0 at which the shard is configured.   *)
(* A handler runs to completion together with the clusterBeforeSleep that  *)
(* follows it, and its packets leave after that; module ClusterBusLoop     *)
(* opens this atomicity up.                                                *)
(*                                                                         *)
(* Inputs of an action that other components own are read as free choices: *)
(* the FAIL flag of Old (failure detector), a manual failover in progress, *)
(* the voted_time throttle, the age of the data and every delay.           *)
(***************************************************************************)
EXTENDS Naturals, FiniteSets

CONSTANTS
  Masters,       \* masters serving at least one slot: the electorate
  Replicas,      \* replicas of Old: the candidates
  Old,           \* the master that is failed over
  MaxEpoch,      \* bound on the epochs the elections may reach
  MaxCrashes,    \* bound on the crashes of all nodes together
  ForceFlags,    \* values of FORCEACK the requests may carry, in BOOLEAN
  BoundedDelay   \* TRUE: the packets of an attempt are processed or lost
                 \* before its replica sets the next attempt up

ASSUME MastersAssumption == IsFiniteSet(Masters) /\ Old \in Masters
ASSUME ReplicasAssumption == Masters \cap Replicas = {}
ASSUME BoundAssumption == MaxEpoch \in Nat /\ MaxCrashes \in Nat
ASSUME FlagAssumption == ForceFlags \subseteq BOOLEAN /\ BoundedDelay \in BOOLEAN

VARIABLES
  currentEpoch,   \* currentEpoch[n]: server.cluster->currentEpoch of n
  savedEpoch,     \* currentEpoch of n at the last save its actions asked for
  lastVoteEpoch,  \* lastVoteEpoch[m], in memory and in nodes.conf
  slotEpoch,      \* configEpoch of the owner of the shard's slots, as n knows
  window,         \* where n stands relative to failover_auth_time
  authSent,       \* failover_auth_sent
  authEpoch,      \* failover_auth_epoch
  authCount,      \* failover_auth_count
  net,            \* AUTH_REQUEST and AUTH_ACK packets in flight or lost
  topEpoch,       \* highest currentEpoch any packet header has carried
  crashes,        \* crashes so far
  votes,          \* history: every vote <<master, replica, epoch>> granted
  won             \* history: every <<replica, epoch>> that took the slots over

vars == <<currentEpoch, savedEpoch, lastVoteEpoch, slotEpoch, window, authSent,
          authEpoch, authCount, net, topEpoch, crashes, votes, won>>

Nodes == Masters \cup Replicas
Epochs == 0..MaxEpoch

\* Mutant: half the electorate is taken for a majority.
needed_quorum_half == Cardinality(Masters) \div 2

\* server.cluster->size counts masters with slots. A takeover inside the shard
\* moves all its slots at once, so every node always counts Cardinality(Masters).
needed_quorum == (Cardinality(Masters) \div 2) + 1

AuthRequest(r, m, e, f) ==
  [type |-> "AUTH_REQUEST", src |-> r, dst |-> m, epoch |-> e, force |-> f]

AuthAck(m, r, e) ==
  [type |-> "AUTH_ACK", src |-> m, dst |-> r, epoch |-> e]

Requests == { AuthRequest(r, m, e, f) :
                r \in Replicas, m \in Masters, e \in Epochs, f \in BOOLEAN }
Acks == { AuthAck(m, r, e) : m \in Masters, r \in Replicas, e \in Epochs }

Larger(a, b) == IF a < b THEN b ELSE a

\* Packets of an election of r still under way.
Outstanding(r) ==
  { q \in net : \/ q.type = "AUTH_REQUEST" /\ q.src = r
                \/ q.type = "AUTH_ACK" /\ q.dst = r }

\* n still has the shard bound to Old: a replica in this state is a slave of
\* Old, Old in this state is a master.
BoundToOld(n) == slotEpoch[n] = 0

-----------------------------------------------------------------------------
Init ==
  /\ currentEpoch = [n \in Nodes |-> 0]
  /\ savedEpoch = [n \in Nodes |-> 0]
  /\ lastVoteEpoch = [m \in Masters |-> 0]
  /\ slotEpoch = [n \in Nodes |-> 0]
  /\ window = [r \in Replicas |-> "none"]
  /\ authSent = [r \in Replicas |-> FALSE]
  /\ authEpoch = [r \in Replicas |-> 0]
  /\ authCount = [r \in Replicas |-> 0]
  /\ net = {}
  /\ topEpoch = 0
  /\ crashes = 0
  /\ votes = {}
  /\ won = {}

\* Mutant: the votes of the last attempt are not cleared.
ScheduleKeepingCount(r) ==
  /\ BoundToOld(r)
  /\ window[r] = "none"
  /\ window' = [window EXCEPT ![r] = "open"]
  /\ authSent' = [authSent EXCEPT ![r] = FALSE]
  /\ net' = IF BoundedDelay THEN net \ Outstanding(r) ELSE net
  /\ UNCHANGED <<currentEpoch, savedEpoch, lastVoteEpoch, slotEpoch, authEpoch,
                 authCount, topEpoch, crashes, votes, won>>

(***************************************************************************)
(* clusterHandleSlaveFailover, first half: auth_retry_time has elapsed     *)
(* since failover_auth_time, so a new attempt is set up. The count of      *)
(* votes is cleared here; failover_auth_epoch keeps its old value until    *)
(* the votes are asked for. The delay up to failover_auth_time (none in a  *)
(* manual failover) is the time the model lets pass before RequestAuth.    *)
(***************************************************************************)
ScheduleElection(r) ==
  /\ BoundToOld(r)
  /\ window[r] = "none"
  /\ window' = [window EXCEPT ![r] = "open"]
  /\ authCount' = [authCount EXCEPT ![r] = 0]
  /\ authSent' = [authSent EXCEPT ![r] = FALSE]
  /\ net' = IF BoundedDelay THEN net \ Outstanding(r) ELSE net
  /\ UNCHANGED <<currentEpoch, savedEpoch, lastVoteEpoch, slotEpoch, authEpoch,
                 topEpoch, crashes, votes, won>>

\* auth_age passes auth_timeout, later auth_retry_time.
TimePasses(r) ==
  /\ window[r] # "none"
  /\ window' = [window EXCEPT ![r] = IF @ = "open" THEN "expired" ELSE "none"]
  /\ UNCHANGED <<currentEpoch, savedEpoch, lastVoteEpoch, slotEpoch, authSent,
                 authEpoch, authCount, net, topEpoch, crashes, votes, won>>

\* A better replica showed up before the votes were asked for: the rank of r
\* grows and failover_auth_time moves into the future again.
RankDelay(r) ==
  /\ BoundToOld(r)
  /\ ~authSent[r]
  /\ window[r] = "expired"
  /\ window' = [window EXCEPT ![r] = "open"]
  /\ UNCHANGED <<currentEpoch, savedEpoch, lastVoteEpoch, slotEpoch, authSent,
                 authEpoch, authCount, net, topEpoch, crashes, votes, won>>

(***************************************************************************)
(* clusterHandleSlaveFailover asks for the votes, with FORCEACK set in a   *)
(* manual failover. It asks for a save of the new currentEpoch, but when   *)
(* it runs inside clusterBeforeSleep that call no longer sees the flag and *)
(* the packets leave first: savedEpoch stays, and CrashRestart reads any   *)
(* epoch from there up.                                                    *)
(***************************************************************************)
RequestAuth(r) ==
  /\ BoundToOld(r)
  /\ window[r] = "open"
  /\ ~authSent[r]
  /\ currentEpoch[r] < MaxEpoch
  /\ LET e == currentEpoch[r] + 1 IN
       /\ currentEpoch' = [currentEpoch EXCEPT ![r] = e]
       /\ authEpoch' = [authEpoch EXCEPT ![r] = e]
       /\ topEpoch' = Larger(topEpoch, e)
       /\ \E force \in ForceFlags :
            net' = net \cup { AuthRequest(r, m, e, force) : m \in Masters }
  /\ authSent' = [authSent EXCEPT ![r] = TRUE]
  /\ UNCHANGED <<savedEpoch, lastVoteEpoch, slotEpoch, window, authCount, crashes,
                 votes, won>>

\* Mutant: a vote given earlier in this epoch is not looked at.
MayVoteAgain(m, q) ==
  /\ BoundToOld(m)
  /\ q.epoch >= currentEpoch[m]
  /\ m = Old => q.force

\* Mutant: the epoch after the present one, whatever the header said.
VoteEpochNext(m, q) == currentEpoch[m] + 1

\* currentEpoch once clusterProcessPacket has seen the header: the epoch a vote
\* is given in.
VoteEpoch(m, q) == Larger(currentEpoch[m], q.epoch)

\* What clusterSendFailoverAuthIfNeeded asks of a request before voting for it:
\* a current request, no vote given yet in this epoch, the master of the
\* candidate in FAIL state (never so in its own eyes) or a forced failover, and
\* no newer owner known for the claimed slots.
MayVote(m, q) ==
  /\ BoundToOld(m)
  /\ q.epoch >= currentEpoch[m]
  /\ lastVoteEpoch[m] # VoteEpoch(m, q)
  /\ m = Old => q.force

(***************************************************************************)
(* clusterProcessPacket of an AUTH_REQUEST: the header raises currentEpoch, *)
(* then the vote is granted, recorded, saved and sent, or refused.         *)
(***************************************************************************)
GrantVote(m, q) ==
  LET e == VoteEpoch(m, q) IN
  /\ MayVote(m, q)
  /\ currentEpoch' = [currentEpoch EXCEPT ![m] = e]
  /\ lastVoteEpoch' = [lastVoteEpoch EXCEPT ![m] = e]
  /\ savedEpoch' = [savedEpoch EXCEPT ![m] = e]
  /\ net' = (net \ {q}) \cup { AuthAck(m, q.src, e) }
  /\ votes' = votes \cup { <<m, q.src, e>> }
  /\ UNCHANGED <<slotEpoch, window, authSent, authEpoch, authCount, topEpoch, crashes,
                 won>>

\* A refusal. The refusals of the free inputs (Old not in FAIL state, a vote
\* about the same master within twice the node timeout) are requests that stay
\* in net: their one effect, the raised currentEpoch, is LearnEpoch's.
RefuseVote(m, q) ==
  /\ ~MayVote(m, q)
  /\ currentEpoch' = [currentEpoch EXCEPT ![m] = VoteEpoch(m, q)]
  /\ net' = net \ {q}
  /\ UNCHANGED <<savedEpoch, lastVoteEpoch, slotEpoch, window, authSent, authEpoch,
                 authCount, topEpoch, crashes, votes, won>>

ProcessAuthRequest(m) ==
  \E q \in net :
    /\ q.type = "AUTH_REQUEST" /\ q.dst = m
    /\ GrantVote(m, q) \/ RefuseVote(m, q)

\* clusterProcessPacket counts a vote if the sender serves slots in the eyes of
\* r and its epoch is not older than the election of r.
CountsVote(r, a) ==
  /\ a.src = Old => BoundToOld(r)
  /\ a.epoch >= authEpoch[r]

\* clusterProcessPacket of an AUTH_ACK.
ProcessAuthAck(r) ==
  \E a \in net :
    /\ a.type = "AUTH_ACK" /\ a.dst = r
    /\ currentEpoch' = [currentEpoch EXCEPT ![r] = Larger(@, a.epoch)]
    /\ authCount' = [authCount EXCEPT ![r] = IF CountsVote(r, a) THEN @ + 1 ELSE @]
    /\ net' = net \ {a}
    /\ UNCHANGED <<savedEpoch, lastVoteEpoch, slotEpoch, window, authSent, authEpoch,
                   topEpoch, crashes, votes, won>>

(***************************************************************************)
(* clusterHandleSlaveFailover finds the quorum: r takes the epoch of the   *)
(* election as its configEpoch, and clusterFailoverReplaceYourMaster makes *)
(* it a master, moves the slots and saves the configuration.               *)
(***************************************************************************)
ReplaceYourMaster(r) ==
  /\ BoundToOld(r)
  /\ window[r] = "open"
  /\ authSent[r]
  /\ authCount[r] >= needed_quorum
  /\ slotEpoch' = [slotEpoch EXCEPT ![r] = authEpoch[r]]
  /\ savedEpoch' = [savedEpoch EXCEPT ![r] = currentEpoch[r]]
  /\ won' = won \cup { <<r, authEpoch[r]>> }
  /\ UNCHANGED <<currentEpoch, lastVoteEpoch, window, authSent, authEpoch, authCount,
                 net, topEpoch, crashes, votes>>

(***************************************************************************)
(* n hears, by a PING, PONG or UPDATE packet of any node that knows it,    *)
(* that a winner owns the shard's slots under a greater configEpoch: it    *)
(* rebinds them (clusterUpdateSlotsConfigWith, or the role switch of Old). *)
(* Old turns into a replica of the winner; a replica does too, or stays    *)
(* behind a master without slots (see ClusterConfig), and is no candidate  *)
(* any more in both cases. The header carries a currentEpoch that is at    *)
(* least that configEpoch.                                                 *)
(***************************************************************************)
LearnConfig(n) ==
  \E w \in won :
    /\ w[1] # n /\ slotEpoch[n] < w[2]
    /\ slotEpoch' = [slotEpoch EXCEPT ![n] = w[2]]
    /\ currentEpoch' = [currentEpoch EXCEPT ![n] = Larger(@, w[2])]
    /\ savedEpoch' = [savedEpoch EXCEPT ![n] = Larger(currentEpoch[n], w[2])]
    /\ UNCHANGED <<lastVoteEpoch, window, authSent, authEpoch, authCount, net,
                   topEpoch, crashes, votes, won>>

\* The header of any other packet raises currentEpoch; nothing asks for a save.
LearnEpoch(n) ==
  /\ \E e \in Epochs :
       /\ currentEpoch[n] < e /\ e <= topEpoch
       /\ currentEpoch' = [currentEpoch EXCEPT ![n] = e]
  /\ UNCHANGED <<savedEpoch, lastVoteEpoch, slotEpoch, window, authSent, authEpoch,
                 authCount, net, topEpoch, crashes, votes, won>>

\* Mutant: the file may be older than the last save that was asked for.
EpochsOnDiskUnsynced(n) == 0..currentEpoch[n]

\* The currentEpoch nodes.conf may hold: the file may have been saved, for any
\* reason, later than savedEpoch tells.
EpochsOnDisk(n) == savedEpoch[n]..currentEpoch[n]

(***************************************************************************)
(* n crashes and comes back from nodes.conf (clusterLoadConfig, which also *)
(* raises currentEpoch to the configEpochs it reads). The state of an      *)
(* election is not saved (clusterInit), and the packets on their way to n  *)
(* die with its connections.                                               *)
(***************************************************************************)
CrashRestart(n) ==
  /\ crashes < MaxCrashes
  /\ crashes' = crashes + 1
  /\ \E e \in EpochsOnDisk(n) :
       currentEpoch' = [currentEpoch EXCEPT ![n] = Larger(e, slotEpoch[n])]
  /\ net' = { q \in net : q.dst # n }
  /\ window' = [r \in Replicas |-> IF r = n THEN "none" ELSE window[r]]
  /\ authSent' = [r \in Replicas |-> IF r = n THEN FALSE ELSE authSent[r]]
  /\ authEpoch' = [r \in Replicas |-> IF r = n THEN 0 ELSE authEpoch[r]]
  /\ authCount' = [r \in Replicas |-> IF r = n THEN 0 ELSE authCount[r]]
  /\ UNCHANGED <<savedEpoch, lastVoteEpoch, slotEpoch, topEpoch, votes, won>>

Next ==
  \/ \E r \in Replicas : \/ ScheduleElection(r)
                         \/ TimePasses(r)
                         \/ RankDelay(r)
                         \/ RequestAuth(r)
                         \/ ProcessAuthAck(r)
                         \/ ReplaceYourMaster(r)
  \/ \E m \in Masters : ProcessAuthRequest(m)
  \/ \E n \in Nodes : \/ LearnConfig(n)
                      \/ LearnEpoch(n)
                      \/ CrashRestart(n)

Spec == Init /\ [][Next]_vars
-----------------------------------------------------------------------------
(***************************************************************************)
(* Type correctness of the cluster state, the packets and the histories.   *)
(***************************************************************************)
TypeOK ==
  /\ currentEpoch \in [Nodes -> Epochs]
  /\ savedEpoch \in [Nodes -> Epochs]
  /\ lastVoteEpoch \in [Masters -> Epochs]
  /\ slotEpoch \in [Nodes -> Epochs]
  /\ window \in [Replicas -> {"none", "open", "expired"}]
  /\ authSent \in [Replicas -> BOOLEAN]
  /\ authEpoch \in [Replicas -> Epochs]
  /\ authCount \in [Replicas -> Nat]
  /\ net \subseteq Requests \cup Acks
  /\ topEpoch \in Epochs
  /\ crashes \in 0..MaxCrashes
  /\ votes \subseteq Masters \X Replicas \X Epochs
  /\ won \subseteq Replicas \X Epochs

(***************************************************************************)
(* A master never votes for two replicas in one epoch, however its crashes *)
(* and restarts, the epochs it forgets and late requests interleave        *)
(* (clusterSendFailoverAuthIfNeeded: "I already voted for this epoch?").   *)
(***************************************************************************)
AtMostOneVotePerEpoch ==
  \A v, w \in votes : v[1] = w[1] /\ v[3] = w[3] => v[2] = w[2]

(***************************************************************************)
(* A master votes in ever greater epochs, even though a restart may bring  *)
(* it back with a smaller currentEpoch than it had (a packet header raises *)
(* currentEpoch without a save; a vote is saved by clusterBeforeSleep).    *)
(***************************************************************************)
VotesAscend ==
  [][\A v \in votes' \ votes : \A w \in votes : w[1] = v[1] => w[3] < v[3]]_vars

(***************************************************************************)
(* Two replicas never take the slots over with the same configEpoch: "It   *)
(* is not possible that different slaves get the same config epoch during  *)
(* a failover election" (clusterHandleConfigEpochCollision).               *)
(***************************************************************************)
OneWinnerPerEpoch ==
  \A v, w \in won : v[2] = w[2] => v[1] = w[1]

(***************************************************************************)
(* Whoever takes the slots over was really given the votes of a majority   *)
(* in that epoch: failover_auth_count, a bare counter that is cleared,     *)
(* raised and compared at three different moments, never stands for votes  *)
(* of another election or for one vote twice (clusterHandleSlaveFailover:  *)
(* "Check if we reached the quorum").                                      *)
(***************************************************************************)
ElectedByMajority ==
  \A w \in won :
    Cardinality({ m \in Masters : <<m, w[1], w[2]>> \in votes }) >= needed_quorum
=============================================================================
