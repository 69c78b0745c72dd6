-------------------------------- MODULE Psync --------------------------------
(***************************************************************************)
(* Replication: replication IDs, offsets, the backlog, partial and full    *)
(* resynchronization, changes of role (REPLICAOF), coordinated failover    *)
(* (FAILOVER), and restarts from an RDB file.                              *)
(*                                                                         *)
(* The dataset of a node is the sequence of writes that made it, and an    *)
(* offset counts writes instead of bytes. What a master still holds in the *)
(* output buffers of its replicas is read from its dataset.                *)
(***************************************************************************)
EXTENDS Integers, Sequences, FiniteSets, FiniteSetsExt

CONSTANTS
  Nodes,
  First,            \* the master at the start
  BacklogSize,      \* repl_backlog_size
  MaxWrites,        \* bound on the writes of clients
  MaxEvents,        \* bound on role changes, broken links, failed loads and restarts
  MaxSaves,         \* bound on BGSAVEs
  TargetRestarts,   \* the target of a FAILOVER may restart
  DisklessLoad      \* repl-diskless-load: a payload is loaded from the socket

None == "none"
NoTransfer == <<>>

ASSUME FirstAssumption == First \in Nodes /\ None \notin Nodes
ASSUME SizeAssumption == BacklogSize \in Nat \ {0}
ASSUME BoundAssumption ==
  /\ {MaxWrites, MaxEvents, MaxSaves} \subseteq Nat
  /\ TargetRestarts \in BOOLEAN /\ DisklessLoad \in BOOLEAN

VARIABLES
  master,     \* masterhost, None at a master
  link,       \* repl_state: "down", "transfer" (RDB under way) or "up"
  replid,     \* replid[n]
  replid2,    \* replid2[n] with second_replid_offset, [id |-> 0, upto |-> -1] if cleared
  offset,     \* master_repl_offset
  data,       \* data[n]: the writes n has applied
  start,      \* first offset of the backlog, 0 if there is none
  cached,     \* cached_master: ID and offset to ask for, NoCache if there is none
  transfer,   \* what the RDB under way to n holds
  disk,       \* the RDB file of n
  failover,   \* failover_state of n with its target and the FORCE flag
  nextId, writes, events, saves

vars == <<master, link, replid, replid2, offset, data, start, cached, transfer, disk,
          failover, nextId, writes, events, saves>>
bounds == <<writes, events, saves>>
idVars == <<replid, replid2, nextId>>
storeVars == <<offset, data, start>>

NoCache == [id |-> 0, off |-> -1]
NoId2 == [id |-> 0, upto |-> -1]
NoFailover == [state |-> "none", target |-> None, force |-> FALSE]
NoInfo == [data |-> <<>>, id |-> 0, off |-> -1]

\* First has replicas that are all in sync with it.
Init ==
  /\ master = [n \in Nodes |-> IF n = First THEN None ELSE First]
  /\ link = [n \in Nodes |-> IF n = First THEN "down" ELSE "up"]
  /\ replid = [n \in Nodes |-> 1] /\ replid2 = [n \in Nodes |-> NoId2]
  /\ offset = [n \in Nodes |-> 0] /\ data = [n \in Nodes |-> <<>>]
  /\ start = [n \in Nodes |-> 1]
  /\ cached = [n \in Nodes |-> NoCache]
  /\ transfer = [n \in Nodes |-> NoTransfer]
  /\ disk = [n \in Nodes |-> NoInfo]
  /\ failover = [n \in Nodes |-> NoFailover]
  /\ nextId = 2 /\ writes = 0 /\ events = 0 /\ saves = 0

Event == events < MaxEvents /\ events' = events + 1
IsMaster(n) == master[n] = None
Slaves(n) == { r \in Nodes : master[r] = n /\ link[r] # "down" }
NoBacklog(n) == start[n] = 0

\* Mutant: one entry too many is taken to be in the backlog.
TrimmedLate(n, o) == IF NoBacklog(n) THEN 0 ELSE o - BacklogSize

\* The backlog after its node has moved to offset o.
Trimmed(n, o) == IF NoBacklog(n) THEN 0 ELSE Max({start[n], o - BacklogSize + 1})

\* What n feeds at offset o.
StreamAt(n, o) == data[n][Len(data[n]) - offset[n] + o]

\* The links of the nodes S break; a replica that was in sync caches its master.
CacheOf(r) == [id |-> replid[r], off |-> offset[r]]
LinkWithout(S) == [r \in Nodes |-> IF r \in S THEN "down" ELSE link[r]]
CachedWithout(S) == [r \in Nodes |-> IF r \in S /\ link[r] = "up" THEN CacheOf(r) ELSE cached[r]]
TransferWithout(S) == [r \in Nodes |-> IF r \in S THEN NoTransfer ELSE transfer[r]]
-----------------------------------------------------------------------------
(* The stream.                                                             *)

\* A write at a master whose clients are not paused. Without a backlog the offset
\* moves only if there is an AOF.
Write(n) ==
  /\ IsMaster(n) /\ failover[n] = NoFailover /\ writes < MaxWrites
  /\ writes' = writes + 1
  /\ data' = [data EXCEPT ![n] = Append(@, writes + 1)]
  /\ \E step \in IF NoBacklog(n) THEN {0, 1} ELSE {1} :
       /\ offset' = [offset EXCEPT ![n] = @ + step]
       /\ start' = [start EXCEPT ![n] = Trimmed(n, offset[n] + step)]
  /\ UNCHANGED <<master, link, idVars, cached, transfer, disk, failover, events, saves>>

\* replicationFeedStreamFromMasterStream: a replica applies what it receives and
\* puts it into its own backlog.
Receive(r) ==
  /\ link[r] = "up" /\ offset[r] < offset[master[r]]
  /\ data' = [data EXCEPT ![r] = Append(@, StreamAt(master[r], offset[r] + 1))]
  /\ offset' = [offset EXCEPT ![r] = @ + 1]
  /\ start' = [start EXCEPT ![r] = Trimmed(r, offset[r] + 1)]
  /\ UNCHANGED <<master, link, idVars, cached, transfer, disk, failover, bounds>>

LinkDown(r) ==
  /\ link[r] # "down" /\ Event
  /\ link' = LinkWithout({r}) /\ cached' = CachedWithout({r}) /\ transfer' = TransferWithout({r})
  /\ UNCHANGED <<master, idVars, storeVars, disk, failover, writes, saves>>

\* replicationCron frees the backlog of a master nobody has asked for a while.
FreeBacklog(n) ==
  /\ IsMaster(n) /\ ~NoBacklog(n) /\ Slaves(n) = {} /\ Event
  /\ start' = [start EXCEPT ![n] = 0]
  /\ replid' = [replid EXCEPT ![n] = nextId] /\ nextId' = nextId + 1
  /\ replid2' = [replid2 EXCEPT ![n] = NoId2]
  /\ UNCHANGED <<master, link, offset, data, cached, transfer, disk, failover, writes, saves>>
-----------------------------------------------------------------------------
(* PSYNC.                                                                  *)

\* Mutant: the second ID is good for any offset.
KnownHistoryAnyOffset(m, c) == c.id = replid[m] \/ c.id = replid2[m].id

\* The history the replica asks for is that of this master, or was up to an offset.
KnownHistory(m, c) ==
  c.id = replid[m] \/ (c.id = replid2[m].id /\ c.off + 1 <= replid2[m].upto)

\* masterTryPartialResynchronization.
CanContinue(m, c) ==
  /\ c # NoCache /\ KnownHistory(m, c)
  /\ ~NoBacklog(m) /\ start[m] <= c.off + 1 /\ c.off + 1 <= offset[m] + 1

\* syncCommand does not refuse: no failover, and a replica is connected itself.
Accepts(m) == failover[m] = NoFailover /\ (IsMaster(m) \/ link[m] = "up")


\* connectWithMaster and syncWithMaster are due.
Asks(r) == ~IsMaster(r) /\ link[r] = "down" /\ failover[r].state \in {"none", "asked"}

\* +CONTINUE: with another ID the old one becomes the second ID, and the replicas
\* of the replica are disconnected so that they learn of it.
Continue(r) ==
  LET m == master[r]
      changed == replid[m] # cached[r].id
      S == IF changed THEN Slaves(r) ELSE {} IN
  /\ Asks(r) /\ Accepts(m) /\ CanContinue(m, cached[r])
  /\ replid' = [replid EXCEPT ![r] = replid[m]]
  /\ replid2' = IF changed
       THEN [replid2 EXCEPT ![r] = [id |-> cached[r].id, upto |-> offset[r] + 1]] ELSE replid2
  /\ link' = [LinkWithout(S) EXCEPT ![r] = "up"]
  /\ cached' = [CachedWithout(S) EXCEPT ![r] = NoCache]
  /\ transfer' = TransferWithout(S)
  /\ start' = IF NoBacklog(r) THEN [start EXCEPT ![r] = offset[r] + 1] ELSE start
  /\ failover' = [failover EXCEPT ![r] = NoFailover]
  /\ UNCHANGED <<master, nextId, offset, data, disk, bounds>>

\* +FULLRESYNC: the RDB file is sent; a master without a backlog starts a new history.
FullResync(r) ==
  LET m == master[r]
      fresh == Slaves(m) = {} /\ NoBacklog(m)
      id == IF fresh THEN nextId ELSE replid[m] IN
  /\ Asks(r) /\ Accepts(m) /\ ~CanContinue(m, cached[r])
  /\ replid' = [replid EXCEPT ![m] = id]
  /\ replid2' = IF fresh THEN [replid2 EXCEPT ![m] = NoId2] ELSE replid2
  /\ nextId' = IF fresh THEN nextId + 1 ELSE nextId
  /\ start' = IF fresh THEN [start EXCEPT ![m] = offset[m] + 1] ELSE start
  /\ transfer' = [transfer EXCEPT ![r] = [data |-> data[m], id |-> id, off |-> offset[m]]]
  /\ link' = [link EXCEPT ![r] = "transfer"]
  /\ failover' = [failover EXCEPT ![r] = NoFailover]
  /\ UNCHANGED <<master, offset, data, cached, disk, bounds>>

\* The RDB files when r has received a payload: it is renamed over the RDB file of r,
\* unless it is loaded from the socket.
FileReceived(r) == IF DisklessLoad THEN disk ELSE [disk EXCEPT ![r] = transfer[r]]

\* readSyncBulkPayload, with replicationAttachToNewMaster: the dataset and the history
\* are the master's now.
Load(r) ==
  /\ link[r] = "transfer"
  /\ disk' = FileReceived(r)
  /\ data' = [data EXCEPT ![r] = transfer[r].data]
  /\ offset' = [offset EXCEPT ![r] = transfer[r].off]
  /\ start' = [start EXCEPT ![r] = transfer[r].off + 1]
  /\ replid' = [replid EXCEPT ![r] = transfer[r].id]
  /\ replid2' = [replid2 EXCEPT ![r] = NoId2]
  /\ link' = [LinkWithout(Slaves(r)) EXCEPT ![r] = "up"]
  /\ cached' = [CachedWithout(Slaves(r)) EXCEPT ![r] = NoCache]
  /\ transfer' = TransferWithout(Slaves(r) \cup {r})
  /\ UNCHANGED <<master, nextId, failover, bounds>>

\* The cached masters after a failed load.
CacheDiscarded(r) == [CachedWithout(Slaves(r)) EXCEPT ![r] = NoCache]

\* The payload cannot be loaded: the replica is empty, its history is not.
LoadFails(r) ==
  /\ link[r] = "transfer" /\ Event
  /\ disk' = FileReceived(r)
  /\ data' = [data EXCEPT ![r] = <<>>]
  /\ start' = [start EXCEPT ![r] = 0]
  /\ link' = LinkWithout(Slaves(r) \cup {r})
  /\ cached' = CacheDiscarded(r)
  /\ transfer' = TransferWithout(Slaves(r) \cup {r})
  /\ UNCHANGED <<master, idVars, offset, failover, writes, saves>>
-----------------------------------------------------------------------------
(* Roles.                                                                  *)

\* shiftReplicationId: the old ID is good for all that was received under it.
SecondId(n) == [id |-> replid[n], upto |-> offset[n] + 1]

\* replicationUnsetMaster.
Unset(n) ==
  /\ master' = [master EXCEPT ![n] = None]
  /\ replid2' = [replid2 EXCEPT ![n] = SecondId(n)]
  /\ replid' = [replid EXCEPT ![n] = nextId] /\ nextId' = nextId + 1
  /\ link' = LinkWithout(Slaves(n) \cup {n})
  /\ cached' = [CachedWithout(Slaves(n)) EXCEPT ![n] = NoCache]
  /\ transfer' = TransferWithout(Slaves(n) \cup {n})

\* replicationSetMaster: a former master asks with its own ID and offset. Its
\* replicas stay connected.
Attach(n, m) ==
  /\ master' = [master EXCEPT ![n] = m]
  /\ link' = LinkWithout({n})
  /\ cached' = IF IsMaster(n) THEN [cached EXCEPT ![n] = CacheOf(n)] ELSE CachedWithout({n})
  /\ transfer' = TransferWithout({n})

IsTarget(n) == \E x \in Nodes : failover[x].target = n

\* REPLICAOF NO ONE and REPLICAOF; nobody reconfigures the target of a failover.
ReplicaOfNoOne(n) ==
  /\ ~IsMaster(n) /\ failover[n] = NoFailover /\ ~IsTarget(n) /\ Event
  /\ Unset(n)
  /\ UNCHANGED <<storeVars, disk, failover, writes, saves>>
ReplicaOf(n, m) ==
  /\ m \notin {n, master[n]} /\ failover[n] = NoFailover /\ ~IsTarget(n) /\ Event
  /\ Attach(n, m)
  /\ UNCHANGED <<idVars, storeVars, disk, failover, writes, saves>>
-----------------------------------------------------------------------------
(* FAILOVER.                                                               *)

\* failoverCommand: writes are paused, the target is to catch up.
StartFailover(n, t, force) ==
  /\ IsMaster(n) /\ failover[n] = NoFailover /\ Event
  /\ t \in Slaves(n) /\ link[t] = "up"
  /\ failover' = [failover EXCEPT ![n] = [state |-> "wait", target |-> t, force |-> force]]
  /\ UNCHANGED <<master, link, idVars, storeVars, cached, transfer, disk, writes, saves>>

\* Mutant: the target counts as caught up when it is connected.
TargetSyncedUnchecked(n) == link[failover[n].target] = "up"

\* The target is connected and has acknowledged everything.
TargetSynced(n) ==
  LET t == failover[n].target IN
  t \in Slaves(n) /\ link[t] = "up" /\ offset[t] = offset[n]

\* updateFailoverStatus: the target has acknowledged everything, or its time is up
\* and FORCE was given; the master becomes its replica.
UpdateFailover(n) ==
  /\ failover[n].state = "wait"
  /\ TargetSynced(n) \/ failover[n].force
  /\ failover' = [failover EXCEPT ![n].state = "progress"]
  /\ Attach(n, failover[n].target)
  /\ UNCHANGED <<idVars, storeVars, disk, bounds>>

\* PSYNC ... FAILOVER: a replica with the same ID becomes a master; what the old
\* master is answered is Continue or FullResync.
RequestFailover(n) ==
  LET t == failover[n].target IN
  /\ failover[n].state = "progress"
  /\ ~IsMaster(t) /\ replid[t] = cached[n].id
  /\ Unset(t)
  /\ failover' = [failover EXCEPT ![n].state = "asked"]
  /\ UNCHANGED <<storeVars, disk, bounds>>

\* abortFailover: on FAILOVER ABORT or a timeout, and when the target refuses, which it
\* also does when its answer was lost and a master is asked for the second time. When
\* the target is a master by then, there are two.
AbortFailover(n) ==
  /\ \/ /\ failover[n].state = "wait"
        /\ UNCHANGED <<master, link, idVars, cached, transfer>>
     \/ /\ failover[n].state \in {"progress", "asked"}
        /\ Unset(n)
  /\ failover' = [failover EXCEPT ![n] = NoFailover]
  /\ UNCHANGED <<storeVars, disk, bounds>>
-----------------------------------------------------------------------------
(* Restarts.                                                               *)

\* rdbPopulateSaveInfo: the history is saved by a master with a backlog and by a
\* replica that is connected or has a cached master.
SavesHistory(n) ==
  IF IsMaster(n) THEN ~NoBacklog(n) ELSE link[n] = "up" \/ cached[n] # NoCache

\* BGSAVE.
Save(n) ==
  /\ saves < MaxSaves /\ saves' = saves + 1
  /\ disk' = [disk EXCEPT ![n] =
       IF SavesHistory(n) THEN [data |-> data[n], id |-> replid[n], off |-> offset[n]]
       ELSE [data |-> data[n], id |-> 0, off |-> -1]]
  /\ UNCHANGED <<master, link, idVars, storeVars, cached, transfer, failover, writes, events>>

\* loadDataFromDisk: a replica takes the saved ID, a master takes it as second ID.
RestartedIds(n) ==
  LET saved == disk[n].id # 0 IN
  [id |-> IF saved /\ ~IsMaster(n) THEN disk[n].id ELSE nextId,
   id2 |-> IF saved /\ IsMaster(n) THEN [id |-> disk[n].id, upto |-> disk[n].off + 1] ELSE NoId2]

\* A crash, and a start in the same role from the RDB file. Keys that expire while
\* a master loads go into its new backlog.
Restart(n) ==
  LET saved == disk[n].id # 0
      S == Slaves(n) \cup {n} IN
  /\ Event /\ (IsTarget(n) => TargetRestarts)
  /\ failover' = [failover EXCEPT ![n] = NoFailover]
  /\ \E expired \in IF saved /\ IsMaster(n) /\ writes < MaxWrites THEN {0, 1} ELSE {0} :
       /\ writes' = writes + expired
       /\ data' = [data EXCEPT ![n] = IF expired = 1 THEN Append(disk[n].data, writes + 1)
                                      ELSE disk[n].data]
       /\ offset' = [offset EXCEPT ![n] = IF saved THEN disk[n].off + expired ELSE 0]
  /\ start' = [start EXCEPT ![n] = IF saved /\ IsMaster(n) THEN disk[n].off + 1 ELSE 0]
  /\ replid' = [replid EXCEPT ![n] = RestartedIds(n).id]
  /\ replid2' = [replid2 EXCEPT ![n] = RestartedIds(n).id2]
  /\ nextId' = nextId + 1
  /\ link' = LinkWithout(S)
  /\ cached' = [CachedWithout(S) EXCEPT ![n] =
       IF saved /\ ~IsMaster(n) THEN [id |-> disk[n].id, off |-> disk[n].off] ELSE NoCache]
  /\ transfer' = TransferWithout(S)
  /\ UNCHANGED <<master, disk, saves>>

Next ==
  \E n \in Nodes :
    \/ Write(n) \/ Receive(n) \/ LinkDown(n) \/ FreeBacklog(n)
    \/ Continue(n) \/ FullResync(n) \/ Load(n) \/ LoadFails(n)
    \/ ReplicaOfNoOne(n) \/ UpdateFailover(n) \/ RequestFailover(n) \/ AbortFailover(n)
    \/ Save(n) \/ Restart(n)
    \/ \E m \in Nodes : ReplicaOf(n, m) \/ \E force \in BOOLEAN : StartFailover(n, m, force)

Spec == Init /\ [][Next]_vars

(***************************************************************************)
(* A disconnected replica tries again from every replicationCron, what was *)
(* sent arrives, and a failover goes on, is refused or is given up; nobody *)
(* need give up one whose target will answer (Unanswered).                 *)
(***************************************************************************)
Unanswered(n) == failover[n].state = "asked" => ~Accepts(failover[n].target)
Fairness ==
  \A n \in Nodes :
    /\ WF_vars(Receive(n)) /\ WF_vars(Load(n))
    /\ WF_vars(Continue(n) \/ FullResync(n))
    /\ WF_vars(UpdateFailover(n) \/ RequestFailover(n) \/ (Unanswered(n) /\ AbortFailover(n)))
FairSpec == Spec /\ Fairness
-----------------------------------------------------------------------------
(***************************************************************************)
(* Type correctness; a replica in sync has a backlog.                      *)
(***************************************************************************)
TypeOK ==
  /\ master \in [Nodes -> Nodes \cup {None}]
  /\ link \in [Nodes -> {"down", "transfer", "up"}]
  /\ \A n \in Nodes :
       /\ offset[n] \in 0..MaxWrites /\ Len(data[n]) <= MaxWrites
       /\ start[n] \in 0..(offset[n] + 1)
       /\ link[n] = "transfer" <=> transfer[n] # NoTransfer
       /\ link[n] = "up" => cached[n] = NoCache /\ ~NoBacklog(n)

(***************************************************************************)
(* A replica that is in sync holds exactly what its master held at the     *)
(* replica's offset, whichever role changes, restarts and resynchronizations*)
(* came before: a partial resynchronization is never accepted between two  *)
(* histories that differ (masterTryPartialResynchronization).              *)
(***************************************************************************)
SameHistory ==
  \A r \in Nodes :
    link[r] = "up" =>
      LET m == master[r]
          behind == offset[m] - offset[r] IN
      /\ behind >= 0
      /\ data[r] = SubSeq(data[m], 1, Len(data[m]) - behind)

(***************************************************************************)
(* A failover without FORCE loses no write: the target has the dataset of  *)
(* the old master when it is promoted (updateFailoverStatus).              *)
(***************************************************************************)
FailoverKeepsData ==
  [][\A n \in Nodes :
       failover[n].state = "progress" /\ ~failover[n].force /\ failover'[n].state = "asked"
         => data[failover[n].target] = data[n]]_vars

=============================================================================
