---------------------------- MODULE SlotMigration ----------------------------
(***************************************************************************)
(* Resharding of one hash slot: redis-cli opens the slot at both ends with *)
(* SETSLOT IMPORTING and MIGRATING, moves the keys with MIGRATE and closes *)
(* the slot with SETSLOT NODE, while clients go on sending commands to any *)
(* node and are served, redirected (ASK, MOVED) or told to try again.      *)
(*                                                                         *)
(* Source and Target are masters, Other is a third master whose table may  *)
(* be behind. MIGRATE blocks the source: nothing else runs there until the *)
(* replies of the target are read or the wait times out, and the target    *)
(* executes the RESTOREs one by one between the commands of its clients.   *)
(***************************************************************************)
EXTENDS Naturals, Sequences, FiniteSets, SequencesExt

CONSTANTS
  Source, Target, Other,  \* the nodes
  Clients, Keys,          \* connections and the keys of the slot
  MaxWrites,              \* bound on the writes of clients
  MaxRuns,                \* bound on the attempts to move the slot
  Modes                   \* what may happen together, see mode

Nodes == {Source, Target, Other}
Missing == 0
None == "none"
Values == 1..MaxWrites

ASSUME NodesAssumption ==
  /\ Source # Target /\ Source # Other /\ Target # Other
  /\ None \notin Nodes
ASSUME KeysAssumption == IsFiniteSet(Keys)
ASSUME BoundAssumption == MaxWrites \in Nat /\ MaxRuns \in Nat \ {0}
ASSUME ModesAssumption ==
  Modes \subseteq [deletes : BOOLEAN, writes : 0..MaxWrites, faults : Nat, packets : Nat,
                   late : SUBSET BOOLEAN, lastSlot : BOOLEAN, clusterReplace : BOOLEAN]

VARIABLES
  mode,       \* do clients delete keys; bounds on their writes, on broken or timed out
              \* MIGRATEs and on bus packets in flight; may a RESTORE be late, for those
              \* without and with REPLACE; is this the last slot of Source; is
              \* --cluster-replace given
  owner,      \* owner[n]: server.cluster->slots[slot] at n, None if unassigned
  disowned,   \* nodes with the bit of owner_not_claiming_slot set
  epoch,      \* epoch[n][x]: configEpoch of x as n knows it
  replica,    \* Source has become a replica of Target
  migrating,  \* migrating_slots_to[slot] of Source is Target
  importing,  \* importing_slots_from[slot] of Target is Source
  data,       \* data[n][k]: value of k at n, or Missing
  request,    \* request[c]: the command c has sent, NoRequest if none
  reply,      \* reply[c]: what the answered command of c saw or wrote, until the next one
  admin,      \* where clusterManagerMoveSlot is, and the keys it has listed
  call,       \* the MIGRATE that blocks Source, NoCall if none
  stray,      \* RESTOREs of abandoned connections that may still be executed
  net,        \* cluster bus packets
  writes, faults, runs

vars == <<mode, owner, disowned, epoch, replica, migrating, importing, data, request,
          reply, admin, call, stray, net, writes, faults, runs>>
slotVars == <<owner, disowned, epoch, replica, migrating, importing>>
clientVars == <<request, reply, writes>>
adminVars == <<admin, runs>>
migrateVars == <<call, stray, faults>>

NoRequest == [op |-> "none", keys |-> {}, at |-> Other, asking |-> FALSE]
Requests == [op : {"none", "read", "write", "delete"}, keys : SUBSET Keys, at : Nodes,
             asking : BOOLEAN]
NoCall == [keys |-> <<>>, todo |-> <<>>, replies |-> <<>>, replace |-> FALSE, retry |-> FALSE]
Restore(k, v, replace) == [key |-> k, value |-> v, replace |-> replace]

\* A packet of src: its header, or for an UPDATE what it says about another node.
Packet(src, dst, about, e, claims, slave) ==
  [src |-> src, dst |-> dst, about |-> about, epoch |-> e, claims |-> claims, slave |-> slave]

Init ==
  /\ mode \in Modes
  /\ owner = [n \in Nodes |-> Source]
  /\ disowned = {}
  /\ epoch = [n \in Nodes |-> [x \in Nodes |->
       IF x = Source THEN 2 ELSE IF x = Target THEN 1 ELSE 3]]
  /\ replica = FALSE /\ migrating = FALSE /\ importing = FALSE
  /\ data = [n \in Nodes |-> [k \in Keys |-> Missing]]
  /\ request = [c \in Clients |-> NoRequest]
  /\ reply = [c \in Clients |-> <<>>]
  /\ admin = [step |-> "importing", keys |-> {}]
  /\ call = NoCall /\ stray = {} /\ net = {}
  /\ writes = 0 /\ faults = 0 /\ runs = 1

Blocked == call # NoCall
KeysAt(n) == { k \in Keys : data[n][k] # Missing }
Runs(n) == n = Source => ~Blocked
-----------------------------------------------------------------------------
(* Clients and getNodeByQuery.                                             *)

\* The slot is served here, elsewhere, or by nobody.
BaseCase(n) == IF owner[n] = n THEN "serve" ELSE IF owner[n] = None THEN "down" ELSE "moved"

\* Mutant: a key that is gone from a migrating slot is looked up all the same.
RouteNoAsk(n, K, asking) ==
  LET missing == K \ KeysAt(n) IN
  IF n = Target /\ importing /\ asking
  THEN [to |-> Target, kind |-> IF Cardinality(K) > 1 /\ missing # {} THEN "tryagain" ELSE "serve"]
  ELSE [to |-> owner[n], kind |-> BaseCase(n)]

\* Mutant: the ASKING flag is not looked at.
RouteIgnoresAsking(n, K, asking) ==
  LET missing == K \ KeysAt(n) IN
  IF n = Source /\ owner[n] = n /\ migrating /\ missing # {}
  THEN [to |-> Target, kind |-> IF missing # K THEN "tryagain" ELSE "ask"]
  ELSE [to |-> owner[n], kind |-> BaseCase(n)]

\* getNodeByQuery: who serves a command about keys K at n.
Route(n, K, asking) ==
  LET missing == K \ KeysAt(n) IN
  IF n = Source /\ owner[n] = n /\ migrating /\ missing # {}
  THEN [to |-> Target, kind |-> IF missing # K THEN "tryagain" ELSE "ask"]
  ELSE IF n = Target /\ importing /\ asking
  THEN [to |-> Target, kind |-> IF Cardinality(K) > 1 /\ missing # {} THEN "tryagain" ELSE "serve"]
  ELSE [to |-> owner[n], kind |-> BaseCase(n)]

\* A client sends a command to any node.
SendCommand(c) ==
  /\ request[c] = NoRequest
  /\ \E n \in Nodes, op \in {"read", "write", "delete"}, K \in SUBSET Keys :
       /\ K # {} /\ (op # "read" => Cardinality(K) = 1)
       /\ op = "write" => writes < mode.writes
       /\ op = "delete" => mode.deletes
       /\ request' = [request EXCEPT ![c] = [op |-> op, keys |-> K, at |-> n, asking |-> FALSE]]
  /\ reply' = [reply EXCEPT ![c] = <<>>]
  /\ UNCHANGED <<mode, slotVars, data, adminVars, migrateVars, net, writes>>

\* processCommand: the node executes the command, or the client follows the
\* redirection, or gives up on TRYAGAIN or CLUSTERDOWN.
Execute(c) ==
  LET r == request[c]
      n == r.at
      route == Route(n, r.keys, r.asking) IN
  /\ r # NoRequest /\ Runs(n)
  /\ \/ /\ route.kind \in {"moved", "ask"}
        /\ request' = [request EXCEPT ![c].at = route.to, ![c].asking = (route.kind = "ask")]
        /\ UNCHANGED <<data, reply, writes>>
     \/ /\ route.kind \in {"tryagain", "down"}
        /\ request' = [request EXCEPT ![c] = NoRequest]
        /\ UNCHANGED <<data, reply, writes>>
     \/ /\ route.kind = "serve" /\ r.op = "read"
        /\ request' = [request EXCEPT ![c] = NoRequest]
        /\ reply' = [reply EXCEPT ![c] = [k \in r.keys |-> data[n][k]]]
        /\ UNCHANGED <<data, writes>>
     \/ /\ route.kind = "serve" /\ r.op # "read"
        /\ r.op = "write" => writes < mode.writes
        /\ LET v == IF r.op = "write" THEN writes + 1 ELSE Missing IN
           /\ data' = [data EXCEPT ![n] = [k \in Keys |-> IF k \in r.keys THEN v ELSE @[k]]]
           /\ reply' = [reply EXCEPT ![c] = [k \in r.keys |-> v]]
        /\ writes' = IF r.op = "write" THEN writes + 1 ELSE writes
        /\ request' = [request EXCEPT ![c] = NoRequest]
  /\ UNCHANGED <<mode, slotVars, adminVars, migrateVars, net>>
-----------------------------------------------------------------------------
(* MIGRATE at Source and RESTORE-ASKING at Target.                         *)

\* Mutant: the first key of the batch is not sent.
RestoresTail(s, replace) ==
  [i \in 1..(Len(s) - 1) |-> Restore(s[i + 1], data[Source][s[i + 1]], replace)]

\* The RESTOREs for a sequence of keys.
Restores(s, replace) == [i \in 1..Len(s) |-> Restore(s[i], data[Source][s[i]], replace)]

\* migrateCommand: the keys that exist are sent, the source waits.
Migrate(K, replace) ==
  LET s == SetToSeq(K \cap KeysAt(Source)) IN
  call' = [keys |-> s, replace |-> replace, retry |-> TRUE, replies |-> <<>>,
           todo |-> Restores(s, replace)]

\* restoreCommand: BUSYKEY if the key is there and REPLACE was not given.
RestoreKey(r) ==
  IF data[Target][r.key] # Missing /\ ~r.replace THEN data[Target]
  ELSE [data[Target] EXCEPT ![r.key] = r.value]
RestoreReply(r) ==
  IF data[Target][r.key] # Missing /\ ~r.replace THEN "busy" ELSE "ok"

\* The target executes the next RESTORE of the connection.
TargetRestore ==
  /\ Blocked /\ call.todo # <<>>
  /\ LET r == Head(call.todo) IN
     /\ data' = [data EXCEPT ![Target] = RestoreKey(r)]
     /\ call' = [call EXCEPT !.todo = Tail(@), !.replies = Append(@, RestoreReply(r))]
  /\ UNCHANGED <<mode, slotVars, clientVars, adminVars, stray, net, faults>>

\* A RESTORE of a connection the source has given up is executed after all.
StrayRestore ==
  /\ \E r \in stray :
       /\ data' = [data EXCEPT ![Target] = RestoreKey(r)]
       /\ stray' = stray \ {r}
  /\ UNCHANGED <<mode, slotVars, clientVars, adminVars, call, net, faults>>

\* Keys of the call whose RESTORE was acknowledged among the first m replies.
Acknowledged(m) == { call.keys[i] : i \in { j \in 1..m : call.replies[j] = "ok" } }

\* The acknowledged keys are removed at the source.
ForgetKeys(m) ==
  [k \in Keys |-> IF k \in Acknowledged(m) THEN Missing ELSE data[Source][k]]

\* What redis-cli does with the reply of MIGRATE: go on, look into BUSYKEY (once
\* for the keys it has listed), or stop.
AfterMigrate(busy, error) ==
  admin' = [admin EXCEPT !.step =
    IF ~busy /\ ~error THEN "keys"
    ELSE IF busy /\ ~call.replace THEN "busy"
    ELSE "stopped"]

\* All replies are in.
MigrateDone ==
  /\ Blocked /\ call.todo = <<>>
  /\ data' = [data EXCEPT ![Source] = ForgetKeys(Len(call.replies))]
  /\ AfterMigrate("busy" \in Range(call.replies), FALSE)
  /\ call' = NoCall
  /\ UNCHANGED <<mode, slotVars, clientVars, stray, net, faults, runs>>

\* A timeout or a broken connection after m replies have been read. Broken before
\* the first reply, the call is made once more on a new connection; otherwise
\* it ends, and redis-cli stops unless an earlier reply was BUSYKEY.
MigrateFails ==
  /\ Blocked /\ faults < mode.faults
  /\ faults' = faults + 1
  /\ stray' = IF call.replace \in mode.late THEN stray \cup Range(call.todo) ELSE stray
  /\ \E m \in 0..Len(call.replies), timeout \in BOOLEAN :
       IF m = 0 /\ call.retry /\ ~timeout
       THEN /\ call' = [call EXCEPT !.retry = FALSE, !.replies = <<>>,
                 !.todo = Restores(call.keys, call.replace)]
            /\ UNCHANGED <<data, admin>>
       ELSE /\ call' = NoCall
            /\ data' = [data EXCEPT ![Source] = ForgetKeys(m)]
            /\ AfterMigrate("busy" \in { call.replies[i] : i \in 1..m }, TRUE)
  /\ UNCHANGED <<mode, slotVars, clientVars, net, runs>>
-----------------------------------------------------------------------------
(* clusterManagerMoveSlot.                                                 *)

At(s) == admin.step = s
Goto(s) == admin' = [admin EXCEPT !.step = s]

\* SETSLOT IMPORTING at the target; refused if the target owns the slot.
SetImporting ==
  /\ At("importing")
  /\ IF owner[Target] = Target
     THEN Goto("stopped") /\ UNCHANGED importing
     ELSE importing' = TRUE /\ Goto("migrating")
  /\ UNCHANGED <<mode, owner, disowned, epoch, replica, migrating, data, clientVars,
                 migrateVars, net, runs>>

\* SETSLOT MIGRATING at the source; refused if it does not own the slot.
SetMigrating ==
  /\ At("migrating") /\ ~Blocked
  /\ IF owner[Source] # Source
     THEN Goto("stopped") /\ UNCHANGED migrating
     ELSE migrating' = TRUE /\ Goto("keys")
  /\ UNCHANGED <<mode, owner, disowned, epoch, replica, importing, data, clientVars,
                 migrateVars, net, runs>>

\* GETKEYSINSLOT: some keys, or none are left.
ListKeys ==
  /\ At("keys") /\ ~Blocked
  /\ IF KeysAt(Source) = {}
     THEN Goto("target")
     ELSE \E K \in SUBSET KeysAt(Source) :
            K # {} /\ admin' = [step |-> "migrate", keys |-> K]
  /\ UNCHANGED <<mode, slotVars, data, clientVars, migrateVars, net, runs>>

\* MIGRATE of the listed keys; NOKEY if none of them is left.
MigrateKeys ==
  /\ At("migrate") /\ ~Blocked
  /\ IF admin.keys \cap KeysAt(Source) = {}
     THEN Goto("keys") /\ UNCHANGED call
     ELSE Migrate(admin.keys, FALSE) /\ Goto("wait")
  /\ UNCHANGED <<mode, slotVars, data, clientVars, stray, faults, net, runs>>

\* BUSYKEY: the values are compared, and equal ones (or any, with
\* --cluster-replace) are migrated with REPLACE.
Different == { k \in admin.keys : /\ data[Source][k] # Missing /\ data[Target][k] # Missing
                                  /\ data[Source][k] # data[Target][k] }
CompareKeys ==
  /\ At("busy") /\ ~Blocked
  /\ Goto(IF ~mode.clusterReplace /\ Different # {} THEN "stopped" ELSE "replace")
  /\ UNCHANGED <<mode, slotVars, data, clientVars, migrateVars, net, runs>>
ReplaceKeys ==
  /\ At("replace") /\ ~Blocked
  /\ IF admin.keys \cap KeysAt(Source) = {}
     THEN Goto("keys") /\ UNCHANGED call
     ELSE Migrate(admin.keys, TRUE) /\ Goto("wait")
  /\ UNCHANGED <<mode, slotVars, data, clientVars, stray, faults, net, runs>>

\* clusterDelSlot and clusterAddSlot at n.
Bind(n, x) ==
  /\ owner' = [owner EXCEPT ![n] = x]
  /\ disowned' = disowned \ {n}

\* Mutant: the target keeps its configEpoch.
BumpedNot(n) == epoch[n][n]

\* clusterBumpConfigEpochWithoutConsensus.
Bumped(n) ==
  LET max == Max({ epoch[n][x] : x \in Nodes }) IN
  IF epoch[n][n] = max THEN max ELSE max + 1

\* SETSLOT NODE at the target: the slot changes hands, the target takes a new
\* configEpoch and tells everybody.
CloseAtTarget ==
  /\ At("target")
  /\ Bind(Target, Target)
  /\ epoch' = IF importing THEN [epoch EXCEPT ![Target][Target] = Bumped(Target)] ELSE epoch
  /\ net' = IF importing
            THEN net \cup { Packet(Target, n, Target, Bumped(Target), TRUE, FALSE) :
                              n \in Nodes \ {Target} }
            ELSE net
  /\ importing' = FALSE
  /\ Goto("source")
  /\ UNCHANGED <<mode, replica, migrating, data, clientVars, migrateVars, runs>>

\* The source becomes a replica: its slots are closed and its keys are
\* replaced by those of the target.
Demote ==
  /\ replica' = TRUE /\ migrating' = FALSE
  /\ data' = [data EXCEPT ![Source] = [k \in Keys |-> Missing]]

\* SETSLOT NODE at the source; refused while it owns the slot and has keys in
\* it, and by a replica, which redis-cli takes for success.
CloseAtSource ==
  /\ At("source") /\ ~Blocked
  /\ \/ /\ replica
        /\ Goto("other") /\ UNCHANGED <<owner, disowned, replica, migrating, data>>
     \/ /\ ~replica /\ owner[Source] = Source /\ KeysAt(Source) # {}
        /\ Goto("stopped") /\ UNCHANGED <<owner, disowned, replica, migrating, data>>
     \/ /\ ~replica /\ ~(owner[Source] = Source /\ KeysAt(Source) # {})
        /\ Bind(Source, Target)
        /\ Goto("other")
        /\ IF owner[Source] = Source /\ mode.lastSlot
           THEN Demote
           ELSE /\ migrating' = (migrating /\ KeysAt(Source) # {})
                /\ UNCHANGED <<replica, data>>
  /\ UNCHANGED <<mode, epoch, importing, clientVars, migrateVars, net, runs>>

\* SETSLOT NODE at the other node.
CloseAtOther ==
  /\ At("other")
  /\ Bind(Other, Target)
  /\ Goto("done")
  /\ UNCHANGED <<mode, epoch, replica, migrating, importing, data, clientVars, migrateVars,
                 net, runs>>

\* The administrator starts the move again.
Rerun ==
  /\ At("stopped") /\ runs < MaxRuns
  /\ runs' = runs + 1
  /\ Goto("importing")
  /\ UNCHANGED <<mode, slotVars, data, clientVars, migrateVars, net>>
-----------------------------------------------------------------------------
(* The cluster bus.                                                        *)

\* A node pings another one: its header claims the slot if it owns it, and says
\* whether it is a replica now. A replica publishes the epoch and the slots of its
\* master, of which only the epoch has an effect; Other has nothing to say.
SendPing(n, x) ==
  /\ n # Other /\ Runs(n) /\ Cardinality(net) < mode.packets
  /\ LET slave == n = Source /\ replica
         p == Packet(n, x, n, epoch[n][IF slave THEN Target ELSE n], owner[n] = n, slave) IN
     p \notin net /\ net' = net \cup {p}
  /\ UNCHANGED <<mode, slotVars, data, clientVars, adminVars, migrateVars>>

LosePacket ==
  /\ \E p \in net : net' = net \ {p}
  /\ UNCHANGED <<mode, slotVars, data, clientVars, adminVars, migrateVars>>

\* isSlotUnclaimed.
Unclaimed(n) == owner[n] = None \/ n \in disowned

\* clusterUpdateSlotsConfigWith: the slot is bound to a claim with a greater
\* configEpoch, or if nobody claims it, unless it is being imported.
Rebinds(n, p) ==
  /\ p.claims /\ owner[n] # p.about
  /\ ~(n = Target /\ importing)
  /\ ~Unclaimed(n) => epoch[n][owner[n]] < p.epoch

\* What follows for the source: without its last slot it becomes a replica,
\* otherwise it deletes the keys of the slot it has lost.
LoseSlot ==
  IF mode.lastSlot THEN Demote
  ELSE /\ data' = [data EXCEPT ![Source] = [k \in Keys |-> Missing]]
       /\ UNCHANGED <<replica, migrating>>

\* The slot in the table of n after a header or an UPDATE: a former master that
\* is a replica in another shard now loses the slot, a claim may rebind it, an
\* owner that does not claim it is marked. A header that says what the table says
\* already changes nothing, not even the mark.
UpdateTable(n, p) ==
  \/ /\ p.slave
     /\ owner' = [owner EXCEPT ![n] = IF @ = p.src THEN None ELSE @]
     /\ disowned' = IF owner[n] = p.src THEN disowned \ {n} ELSE disowned
     /\ UNCHANGED <<replica, migrating, data>>
  \/ /\ ~p.slave /\ Rebinds(n, p)
     /\ Bind(n, p.about)
     /\ IF n = Source /\ owner[n] = Source THEN LoseSlot ELSE UNCHANGED <<replica, migrating, data>>
  \/ /\ ~p.slave /\ ~Rebinds(n, p)
     /\ disowned' = IF owner[n] # p.about \/ (p.claims /\ p.about = p.src) THEN disowned
                    ELSE IF p.claims THEN disowned \ {n} ELSE disowned \cup {n}
     /\ UNCHANGED <<owner, replica, migrating, data>>

\* clusterProcessPacket: the epoch of the header, the table, and the UPDATE that
\* answers an outdated claim. An UPDATE whose epoch is not news is ignored.
ProcessPacket(n, x) ==
  /\ Runs(n)
  /\ \E p \in net :
       LET update == p.about # x
           outdated == ~update /\ p.claims /\ owner'[n] \notin {x, None} /\ n \notin disowned'
                       /\ epoch'[n][owner'[n]] > p.epoch IN
       /\ p.dst = n /\ p.src = x
       /\ IF update /\ epoch[n][p.about] >= p.epoch
          THEN net' = net \ {p} /\ UNCHANGED <<slotVars, data>>
          ELSE /\ epoch' = [epoch EXCEPT ![n][p.about] = Max({@, p.epoch})]
               /\ UpdateTable(n, p)
               /\ net' = (net \ {p}) \cup
                    IF outdated
                    THEN { Packet(n, x, owner'[n], epoch'[n][owner'[n]], TRUE, FALSE) } ELSE {}
               /\ UNCHANGED importing
  /\ UNCHANGED <<mode, clientVars, adminVars, migrateVars>>

Next ==
  \/ \E c \in Clients : SendCommand(c) \/ Execute(c)
  \/ TargetRestore \/ StrayRestore \/ MigrateDone \/ MigrateFails
  \/ SetImporting \/ SetMigrating \/ ListKeys \/ MigrateKeys \/ CompareKeys \/ ReplaceKeys
  \/ CloseAtTarget \/ CloseAtSource \/ CloseAtOther \/ Rerun
  \/ LosePacket
  \/ \E n, x \in Nodes : n # x /\ (SendPing(n, x) \/ ProcessPacket(n, x))

Spec == Init /\ [][Next]_vars

(***************************************************************************)
(* Nodes execute the commands of their clients and the RESTOREs they have  *)
(* received, a MIGRATE ends, redis-cli goes on, and everybody keeps        *)
(* hearing from Source and Target (clusterCron pings every node again and  *)
(* again).                                                                 *)
(***************************************************************************)
Administer ==
  \/ SetImporting \/ SetMigrating \/ ListKeys \/ MigrateKeys \/ CompareKeys \/ ReplaceKeys
  \/ CloseAtTarget \/ CloseAtSource \/ CloseAtOther
Fairness ==
  /\ \A c \in Clients : WF_vars(Execute(c))
  /\ WF_vars(TargetRestore) /\ WF_vars(MigrateDone)
  /\ WF_vars(Administer)
  /\ \A x \in {Source, Target}, n \in Nodes : n # x => []<><<ProcessPacket(n, x)>>_vars
FairSpec == Spec /\ Fairness
-----------------------------------------------------------------------------
(***************************************************************************)
(* Type correctness of the tables, the keys and what is in flight.         *)
(***************************************************************************)
TypeOK ==
  /\ owner \in [Nodes -> Nodes \cup {None}] /\ disowned \subseteq Nodes
  /\ epoch \in [Nodes -> [Nodes -> 1..4]]
  /\ {replica, migrating, importing} \subseteq BOOLEAN
  /\ data \in [Nodes -> [Keys -> Values \cup {Missing}]]
  /\ request \in [Clients -> Requests]
  /\ Len(call.todo) + Len(call.replies) = Len(call.keys)
  /\ writes \in 0..mode.writes /\ faults \in 0..mode.faults /\ runs \in 1..MaxRuns

(***************************************************************************)
(* The clients cannot tell that the slot is being moved: every command     *)
(* that is served, at whichever node and with or without ASKING, sees and  *)
(* changes one copy of its keys (getNodeByQuery, migrateCommand). The copy *)
(* that counts is the one of the source as long as it has the key.         *)
(***************************************************************************)
Home == [k \in Keys |-> IF data[Source][k] # Missing THEN data[Source][k] ELSE data[Target][k]]
Abstract == INSTANCE KeyStore WITH store <- Home
ImplementsKeyStore == Abstract!Spec

(***************************************************************************)
(* No command is redirected for ever: "the slot is left without an owner   *)
(* which results in redirect loops" is what the order of the SETSLOTs in   *)
(* clusterManagerMoveSlot is there to avoid.                               *)
(***************************************************************************)
Answered == \A c \in Clients : request[c] # NoRequest ~> request[c] = NoRequest

(***************************************************************************)
(* A move that redis-cli reports as done is final: in the end every node   *)
(* has the target as the owner of the slot, whatever stale claims of the   *)
(* source are still under way (clusterUpdateSlotsConfigWith).              *)
(***************************************************************************)
HandedOver == At("done") ~> [](\A n \in Nodes : owner[n] = Target)
=============================================================================
