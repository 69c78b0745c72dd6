---------------------------- MODULE ClusterConfig ----------------------------
(***************************************************************************)
(* How the nodes of a Redis Cluster keep their tables of roles, slot       *)
(* owners and configEpochs in agreement (cluster.c). Every node publishes  *)
(* its own view in the header of its packets; a receiver updates epochs,   *)
(* roles and slots from it, answers a stale claim with an UPDATE packet    *)
(* and resolves a collision of configEpochs. The changes that have to      *)
(* spread are takeovers inside a shard (CLUSTER FAILOVER TAKEOVER), which  *)
(* take a configEpoch without asking anybody, and the equal configEpochs   *)
(* the nodes of a new cluster start with. cluster-allow-replica-migration  *)
(* is on, its default.                                                     *)
(*                                                                         *)
(* Nodes are numbers: the order of their names decides collisions. A node  *)
(* is a replica iff its slaveof is known, the SLAVE flag is not kept       *)
(* apart. Nodes stay in their shard: resharding is not part of this model. *)
(***************************************************************************)
EXTENDS Naturals, FiniteSets, FiniteSetsExt

CONSTANTS
  Nodes,       \* node ids, in the order of their names
  Slots,       \* slot numbers
  Beginnings,  \* the clusters to start from; see BeginningsAssumption
  MaxPackets   \* bound on the packets in flight

None == 0

ASSUME NodesAssumption == Nodes \subseteq Nat \ {None} /\ IsFiniteSet(Nodes)
ASSUME BoundAssumption == Slots \subseteq Nat /\ MaxPackets \in Nat
(***************************************************************************)
(* A beginning: the slaveof and the configEpoch of every node, the owner   *)
(* of every slot, and the bounds: takeovers still to come, largest epoch.  *)
(***************************************************************************)
ASSUME BeginningsAssumption ==
  \A b \in Beginnings :
    /\ b.slaveof \in [Nodes -> Nodes \cup {None}]
    /\ b.owner \in [Slots -> Nodes]
    /\ \A s \in Slots : b.slaveof[b.owner[s]] = None
    /\ b.budget \in [takeovers : Nat, epoch : Nat]
    /\ b.epoch \in [Nodes -> 0..b.budget.epoch]

VARIABLES
  table,     \* table[n]: server.cluster of n
  net,       \* packets in flight
  budget,    \* takeovers still to come, bound on the epochs
  aborted    \* nodes a serverAssert of clusterSetMaster has stopped

vars == <<table, net, budget, aborted>>

Epochs == 0..budget.epoch

(***************************************************************************)
(* A table: currentEpoch, and for every known node its configEpoch and its *)
(* slaveof; the owner of every slot; owner_not_claiming_slot.              *)
(***************************************************************************)
Tables == [current : Epochs, epoch : [Nodes -> Epochs],
           slaveof : [Nodes -> Nodes \cup {None}],
           owner : [Slots -> Nodes], quiet : SUBSET Slots]

Larger(a, b) == IF a < b THEN b ELSE a
IsMaster(t, x) == t.slaveof[x] = None
SlotsOf(t, x) == { s \in Slots : t.owner[s] = x }
MasterIn(t, x) == IF IsMaster(t, x) THEN x ELSE t.slaveof[x]

\* clusterBuildMessageHdr: a replica publishes the slots and the configEpoch of
\* its master.
Header(t, from, to, type, via) ==
  [type |-> type, via |-> via, src |-> from, dst |-> to, current |-> t.current,
   config |-> t.epoch[MasterIn(t, from)], slaveof |-> t.slaveof[from],
   slots |-> SlotsOf(t, MasterIn(t, from))]

\* clusterSendUpdate about node x.
Update(t, from, to, x) ==
  [type |-> "UPDATE", via |-> "own", src |-> from, dst |-> to, current |-> t.current,
   config |-> t.epoch[MasterIn(t, from)], about |-> x,
   aboutConfig |-> t.epoch[x], slots |-> SlotsOf(t, x) \ t.quiet]

(***************************************************************************)
(* Two nodes are joined by two TCP connections. A node sends on the one it *)
(* opened (via "own"); only the PONG that answers a PING goes back on the  *)
(* connection the PING came by (via "back"), and may overtake the others   *)
(* or be overtaken. A connection carries one packet at a time here; what   *)
(* does not fit is lost, as when the link is freed with its queue.         *)
(***************************************************************************)
Busy(kept, p) == \E q \in kept : q.src = p.src /\ q.dst = p.dst /\ q.via = p.via
Send(packets, kept) ==
  \E out \in SUBSET { p \in packets : ~Busy(kept, p) } :
    /\ net' = kept \cup out
    /\ Cardinality(net') <= MaxPackets
-----------------------------------------------------------------------------
Init ==
  /\ \E b \in Beginnings :
       /\ table = [n \in Nodes |->
            [current |-> Max({ b.epoch[x] : x \in Nodes }), epoch |-> b.epoch,
             slaveof |-> b.slaveof, owner |-> b.owner, quiet |-> {}]]
       /\ budget = b.budget
  /\ net = {}
  /\ aborted = {}

\* clusterCron pings x.
SendPing(n, x) ==
  /\ Cardinality(net) < MaxPackets
  /\ LET p == Header(table[n], n, x, "PING", "own") IN ~Busy(net, p) /\ net' = net \cup {p}
  /\ UNCHANGED <<table, budget, aborted>>

\* A link is freed with what was queued on it.
LosePacket ==
  /\ \E p \in net : net' = net \ {p}
  /\ UNCHANGED <<table, budget, aborted>>

\* clusterProcessPacket: what every header teaches about the epochs.
HeaderEpochs(t, p) ==
  [t EXCEPT !.current = Larger(@, p.current),
            !.epoch[p.src] = Larger(@, p.config)]

\* Mutant: the slots are taken from one node and not given to the other.
MoveSlotsLost(t, from, to) ==
  [t EXCEPT !.owner = [s \in Slots |-> IF t.owner[s] = from THEN None ELSE t.owner[s]]]

\* The slots of `from` move to `to`.
MoveSlots(t, from, to) ==
  [t EXCEPT !.owner = [s \in Slots |-> IF t.owner[s] = from THEN to ELSE t.owner[s]],
            !.quiet = { s \in t.quiet : t.owner[s] # from }]

\* Mutant: a replica that changed its master is not looked at again.
RoleSwitchOnce(t, p) ==
  IF p.slaveof = None THEN [t EXCEPT !.slaveof[p.src] = None]
  ELSE IF ~IsMaster(t, p.src) THEN t
  ELSE [MoveSlots(t, p.src, p.slaveof) EXCEPT
          !.slaveof[p.slaveof] = None, !.epoch[p.slaveof] = p.config, !.slaveof[p.src] = p.slaveof]

\* "Check for role switch". A master that turns into a replica hands its slots
\* and the epoch it publishes to its master, unless its packet is out of date.
RoleSwitch(t, p) ==
  IF p.slaveof = None THEN [t EXCEPT !.slaveof[p.src] = None]
  ELSE LET moved == [MoveSlots(t, p.src, p.slaveof) EXCEPT
                       !.slaveof[p.slaveof] = None, !.epoch[p.slaveof] = p.config]
           kept == ~IsMaster(t, p.src) \/ t.epoch[p.src] > p.config IN
       [(IF kept THEN t ELSE moved) EXCEPT !.slaveof[p.src] = p.slaveof]

\* isSlotUnclaimed; every slot has an owner here.
Unclaimed(t, s) == s \in t.quiet

\* The slots n takes from their present owner for x, which claims them.
Rebinds(t, x, config, slots) ==
  { s \in slots : t.owner[s] # x /\ (Unclaimed(t, s) \/ t.epoch[t.owner[s]] < config) }

\* clusterUpdateSlotsConfigWith, up to the reconfiguration of n itself.
BindSlots(t, x, config, slots) ==
  LET taken == Rebinds(t, x, config, slots) IN
  [t EXCEPT !.owner = [s \in Slots |-> IF s \in taken THEN x ELSE t.owner[s]],
            !.quiet = (@ \ (taken \cup { s \in slots : t.owner[s] = x }))
                        \cup (SlotsOf(t, x) \ slots)]

\* Mutant: no check that the master of the master of n is not n.
FollowNextSelf(t, n, x, config, slots) ==
  LET u == BindSlots(t, x, config, slots)
      cur == MasterIn(t, n)
      mine == { s \in Rebinds(t, x, config, slots) : t.owner[s] = cur } IN
  CASE mine # {} /\ SlotsOf(u, cur) = {} -> x
    [] ~(mine # {} /\ SlotsOf(u, cur) = {}) /\ ~IsMaster(u, n) -> u.slaveof[u.slaveof[n]]
    [] OTHER -> None

\* The node n has to follow after that, or None: the new owner if its master
\* (or n itself) lost its last slot, or the master of its master.
FollowNext(t, n, x, config, slots) ==
  LET u == BindSlots(t, x, config, slots)
      cur == MasterIn(t, n)
      mine == { s \in Rebinds(t, x, config, slots) : t.owner[s] = cur } IN
  CASE mine # {} /\ SlotsOf(u, cur) = {} -> x
    [] ~(mine # {} /\ SlotsOf(u, cur) = {}) /\ ~IsMaster(u, n)
         /\ u.slaveof[u.slaveof[n]] \notin {None, n} -> u.slaveof[u.slaveof[n]]
    [] OTHER -> None

UpdateSlots(t, n, x, config, slots) ==
  LET u == BindSlots(t, x, config, slots)
      next == FollowNext(t, n, x, config, slots) IN
  IF x = n THEN t
  ELSE IF next = None THEN u ELSE [u EXCEPT !.slaveof[n] = next]

\* The assertions of clusterSetMaster: n does not follow itself and has no slot.
AssertsHold(t, n, x, config, slots) ==
  LET next == FollowNext(t, n, x, config, slots) IN
  x # n /\ next # None => next # n /\ SlotsOf(BindSlots(t, x, config, slots), n) = {}

\* Mutant: the node takes its currentEpoch without moving it on.
CollisionSame(t, n, p) ==
  IF /\ IsMaster(t, n) /\ IsMaster(t, p.src)
     /\ p.config = t.epoch[n] /\ t.epoch[p.src] = t.epoch[n]
     /\ p.src > n
  THEN [t EXCEPT !.epoch[n] = t.current]
  ELSE t

\* clusterHandleConfigEpochCollision: the node with the smaller name moves on.
Collision(t, n, p) ==
  IF /\ IsMaster(t, n) /\ IsMaster(t, p.src)
     /\ p.config = t.epoch[n] /\ t.epoch[p.src] = t.epoch[n]
     /\ p.src > n
  THEN [t EXCEPT !.current = @ + 1, !.epoch[n] = t.current + 1]
  ELSE t

\* The first claimed slot that, as n knows, somebody serves under a greater
\* configEpoch: its owner is what the sender is told about.
OutdatedClaims(t, p) ==
  { s \in p.slots : /\ t.owner[s] # p.src /\ ~Unclaimed(t, s)
                    /\ t.epoch[t.owner[s]] > p.config }

(***************************************************************************)
(* clusterProcessPacket of a PING or PONG of x, from the header epochs to  *)
(* the collision. The PONG that answers a PING is built before the roles   *)
(* and slots of the header are looked at.                                  *)
(***************************************************************************)
ProcessPing(n, x) ==
  \E p \in net :
    /\ p.type \in {"PING", "PONG"} /\ p.src = x /\ p.dst = n
    /\ LET h == HeaderEpochs(table[n], p)
           t == RoleSwitch(h, p)
           dirty == SlotsOf(t, MasterIn(t, x)) # p.slots
           updates == IsMaster(t, x) /\ dirty
           u == IF updates THEN UpdateSlots(t, n, x, p.config, p.slots) ELSE t
           late == OutdatedClaims(u, p)
           v == Collision(u, n, p) IN
       /\ v.current <= budget.epoch
       /\ table' = [table EXCEPT ![n] = v]
       /\ Send((IF p.type = "PING" THEN { Header(h, n, x, "PONG", "back") } ELSE {})
                 \cup (IF dirty /\ late # {} THEN { Update(u, n, x, u.owner[Min(late)]) } ELSE {}),
               net \ {p})
       /\ aborted' = IF updates /\ ~AssertsHold(t, n, x, p.config, p.slots)
                     THEN aborted \cup {n} ELSE aborted
    /\ UNCHANGED budget

\* clusterProcessPacket of an UPDATE: taken over if it brings a greater epoch.
ProcessUpdate(n, x) ==
  \E p \in net :
    /\ p.type = "UPDATE" /\ p.src = x /\ p.dst = n
    /\ LET t == HeaderEpochs(table[n], p)
           news == t.epoch[p.about] < p.aboutConfig
           u == [t EXCEPT !.slaveof[p.about] = None, !.epoch[p.about] = p.aboutConfig] IN
       /\ table' = [table EXCEPT ![n] =
            IF news THEN UpdateSlots(u, n, p.about, p.aboutConfig, p.slots) ELSE t]
       /\ aborted' = IF news /\ ~AssertsHold(u, n, p.about, p.aboutConfig, p.slots)
                     THEN aborted \cup {n} ELSE aborted
    /\ net' = net \ {p}
    /\ UNCHANGED budget

\* clusterBumpConfigEpochWithoutConsensus.
Bump(t, n) ==
  IF t.epoch[n] = 0 \/ t.epoch[n] # Max({ t.epoch[x] : x \in Nodes } \cup {t.current})
  THEN [t EXCEPT !.current = @ + 1, !.epoch[n] = t.current + 1]
  ELSE t

\* CLUSTER FAILOVER TAKEOVER at replica n: clusterFailoverReplaceYourMaster
\* makes it a master with the slots of its master and tells everybody.
Takeover(n) ==
  /\ budget.takeovers > 0
  /\ budget' = [budget EXCEPT !.takeovers = @ - 1]
  /\ ~IsMaster(table[n], n)
  /\ LET t == Bump(table[n], n)
         u == [MoveSlots(t, t.slaveof[n], n) EXCEPT !.slaveof[n] = None] IN
     /\ u.current <= budget.epoch
     /\ table' = [table EXCEPT ![n] = u]
     /\ Send({ Header(u, n, x, "PONG", "own") : x \in Nodes \ {n} }, net)
  /\ UNCHANGED aborted

Next ==
  \/ LosePacket
  \/ \E n \in Nodes : Takeover(n)
  \/ \E n, x \in Nodes : /\ n # x
                         /\ \/ SendPing(n, x)
                            \/ ProcessPing(n, x)
                            \/ ProcessUpdate(n, x)

Spec == Init /\ [][Next]_vars

(***************************************************************************)
(* Packets are lost, but any two nodes go on hearing from each other:      *)
(* clusterCron pings every node within node_timeout / 2 and opens a freed  *)
(* link again. Nothing is assumed about UPDATE packets. FairSpec adds that *)
(* pings never stop altogether.                                            *)
(***************************************************************************)
Hears(n, x) == (\E p \in net \ net' : p.src = x /\ p.dst = n) /\ ProcessPing(n, x)
Hearing == \A n, x \in Nodes : n # x => []<><<Hears(n, x)>>_vars
HearingSpec == Spec /\ Hearing
FairSpec == HearingSpec /\ WF_vars(\E n, x \in Nodes : n # x /\ SendPing(n, x))
-----------------------------------------------------------------------------
(***************************************************************************)
(* Type correctness of the tables and of what counts steps: every slot     *)
(* keeps an owner.                                                         *)
(***************************************************************************)
TypeOK ==
  /\ table \in [Nodes -> Tables]
  /\ budget \in [takeovers : Nat, epoch : Nat]
  /\ aborted \subseteq Nodes
  /\ Cardinality(net) <= MaxPackets
  /\ \A p \in net : {p.src, p.dst} \subseteq Nodes /\ p.slots \subseteq Slots

(***************************************************************************)
(* The assertions of clusterSetMaster never fail: however packets are      *)
(* interleaved with takeovers, no node is told to follow itself or to      *)
(* become a replica while it still has slots.                              *)
(***************************************************************************)
NoAbort == aborted = {}

(***************************************************************************)
(* One takeover in a cluster whose masters have different configEpochs (of *)
(* the two that may come, one does not): all tables end up the same. Every *)
(* node names the same owner for every slot and the same master for every  *)
(* replica, whatever was lost or delayed on the way (clusterProcessPacket, *)
(* clusterUpdateSlotsConfigWith).                                          *)
(***************************************************************************)
Masters == { n \in Nodes : IsMaster(table[n], n) }
EpochsDiffer == \A n, x \in Masters : n # x => table[n].epoch[n] # table[x].epoch[x]
SameTables == \A n, x \in Nodes : /\ table[n].owner = table[x].owner
                                  /\ table[n].slaveof = table[x].slaveof
AtMostOneTakeover == budget.takeovers = 2 /\ [](budget.takeovers > 0)
Converges == EpochsDiffer /\ AtMostOneTakeover => <>[]SameTables

(***************************************************************************)
(* After a takeover every replica ends up behind a node that has slots:    *)
(* clusterUpdateSlotsConfigWith says that a replica whose master is left   *)
(* without slots needs to replicate to the new slots owner.                *)
(***************************************************************************)
ReplicasFollowOwners ==
  <>[](\A n \in Nodes : IsMaster(table[n], n) \/ SlotsOf(table[n], table[n].slaveof[n]) # {})

(***************************************************************************)
(* The masters end up with different configEpochs, from a new cluster in   *)
(* which all are 0 and with epochs taken without consensus in between      *)
(* (clusterHandleConfigEpochCollision).                                    *)
(***************************************************************************)
EpochsSettle == <>[]EpochsDiffer

(***************************************************************************)
(* The configEpoch of a node somebody takes for a master never goes back   *)
(* in his table: where a role switch sets the epoch of the new master, the *)
(* comment says that this master was a replica in the view of the          *)
(* receiver.                                                               *)
(***************************************************************************)
EpochsGrow ==
  [][\A n, x \in Nodes :
       IsMaster(table[n], x) => table'[n].epoch[x] >= table[n].epoch[x]]_vars

(***************************************************************************)
(* A packet of a master that says it is a replica now, with a configEpoch  *)
(* behind the one the receiver knows, is ignored, as the log line          *)
(* "Ignore stale message" of the role switch says: its sender stays a      *)
(* master.                                                                 *)
(***************************************************************************)
Stale(p) ==
  /\ p.type \in {"PING", "PONG"} /\ p.slaveof # None
  /\ IsMaster(table[p.dst], p.src)
  /\ table[p.dst].epoch[p.src] > p.config
StaleIgnored ==
  [][\A p \in net \ net' : Stale(p) => IsMaster(table'[p.dst], p.src)]_vars
=============================================================================
