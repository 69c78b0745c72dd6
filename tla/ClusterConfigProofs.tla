------------------------ MODULE ClusterConfigProofs ------------------------
(***************************************************************************)
(* Theorems about ClusterConfig, for any nodes, slots, beginnings, budgets *)
(* and bound on the packets under way.                                     *)
(*                                                                         *)
(* NoAbort says that the assertions of clusterSetMaster hold whenever a    *)
(* packet makes a node change its master: the new master is not the node   *)
(* itself, and the node serves no slots. The second one needs an invariant *)
(* of every table, that a node which takes itself for a replica has no     *)
(* slots in it. A packet can only give slots to the node it speaks of or   *)
(* to its master, and that one it first marks as a master.                 *)
(***************************************************************************)
EXTENDS ClusterConfig, FiniteSetTheorems, WellFoundedInduction, TLAPS

\* The types of a table and of a packet, for epochs up to e.
Upto(e) == 0..e
MaybeNodes == Nodes \cup {None}
TablesOf(e) == [current : Upto(e), epoch : [Nodes -> Upto(e)], slaveof : [Nodes -> MaybeNodes],
                owner : [Slots -> Nodes], quiet : SUBSET Slots]
IsPacket(p, e) ==
  /\ p.src \in Nodes /\ p.dst \in Nodes /\ p.slots \subseteq Slots
  /\ p.current \in Upto(e) /\ p.config \in Upto(e)
  /\ p.type \in {"PING", "PONG"} => p.slaveof \in MaybeNodes
  /\ p.type = "UPDATE" => p.about \in Nodes /\ p.aboutConfig \in Upto(e)
\* Who has slots in his table t takes himself for a master.
Served(t, n) == t.slaveof[n] = None \/ SlotsOf(t, n) = {}

\* The inductive invariant.
Types ==
  /\ budget \in [takeovers : Nat, epoch : Nat]
  /\ table \in [Nodes -> TablesOf(budget.epoch)]
  /\ aborted = {}
  /\ \A p \in net : IsPacket(p, budget.epoch)
Few == IsFiniteSet(net) /\ Cardinality(net) <= MaxPackets
ReplicasServeNothing == \A n \in Nodes : Served(table[n], n)
IInv == Types /\ Few /\ ReplicasServeNothing

\* The fields of a table.
LEMMA TableFields ==
  ASSUME NEW e, NEW t \in TablesOf(e)
  PROVE  /\ t.current \in Upto(e) /\ t.epoch \in [Nodes -> Upto(e)]
         /\ t.slaveof \in [Nodes -> MaybeNodes] /\ t.owner \in [Slots -> Nodes]
         /\ t.quiet \in SUBSET Slots
BY DEF TablesOf

\* The larger of two epochs is one of them.
LEMMA LargerUpto ==
  ASSUME NEW e \in Nat, NEW a \in Upto(e), NEW b \in Upto(e)
  PROVE  Larger(a, b) \in Upto(e)
BY DEF Larger, Upto

\* The epochs of a header change neither roles nor owners.
LEMMA HeaderEpochsTable ==
  ASSUME NEW e \in Nat, NEW t \in TablesOf(e), NEW p, IsPacket(p, e)
  PROVE  LET h == HeaderEpochs(t, p) IN
         h \in TablesOf(e) /\ h.slaveof = t.slaveof /\ h.owner = t.owner
<1> DEFINE h == HeaderEpochs(t, p)
           c == Larger(t.current, p.current)
           d == Larger(t.epoch[p.src], p.config)
<1>1. p.src \in Nodes /\ p.current \in Upto(e) /\ p.config \in Upto(e)
  BY DEF IsPacket
<1>2. c \in Upto(e) /\ d \in Upto(e)
  BY <1>1, TableFields, LargerUpto
<1>3. h = [t EXCEPT !.current = c, !.epoch[p.src] = d]
  BY DEF HeaderEpochs
<1> HIDE DEF h, c, d
<1>4. h \in TablesOf(e)
  BY <1>1, <1>2, <1>3 DEF TablesOf
<1>5. h.slaveof = t.slaveof /\ h.owner = t.owner
  BY <1>3 DEF TablesOf
<1> QED
  BY <1>4, <1>5 DEF h

\* Slots moved to a node are nobody else's gain.
LEMMA MoveSlotsTable ==
  ASSUME NEW e, NEW t \in TablesOf(e), NEW from, NEW to \in Nodes
  PROVE  LET m == MoveSlots(t, from, to) IN
         /\ m \in TablesOf(e) /\ m.slaveof = t.slaveof /\ m.epoch = t.epoch
         /\ m.current = t.current
         /\ \A n \in Nodes : n # to => SlotsOf(m, n) \subseteq SlotsOf(t, n)
<1> DEFINE m == MoveSlots(t, from, to)
           o == [s \in Slots |-> IF t.owner[s] = from THEN to ELSE t.owner[s]]
           q == { s \in t.quiet : t.owner[s] # from }
<1>1. t.owner \in [Slots -> Nodes] /\ t.quiet \in SUBSET Slots
  BY TableFields
<1>2. o \in [Slots -> Nodes] /\ q \in SUBSET Slots
  BY <1>1
<1>3. m = [t EXCEPT !.owner = o, !.quiet = q]
  BY DEF MoveSlots
<1>4. \A n \in Nodes : n # to => \A s \in Slots : o[s] = n => t.owner[s] = n
  OBVIOUS
<1> HIDE DEF m, o, q
<1>5. m \in TablesOf(e)
  BY <1>2, <1>3 DEF TablesOf
<1>6. m.slaveof = t.slaveof /\ m.epoch = t.epoch /\ m.current = t.current /\ m.owner = o
  BY <1>3 DEF TablesOf
<1>7. \A n \in Nodes : n # to => SlotsOf(m, n) \subseteq SlotsOf(t, n)
  BY <1>4, <1>6 DEF SlotsOf
<1> QED
  BY <1>5, <1>6, <1>7 DEF m

\* A node that hears of another one's role keeps its slots only as a master: the one that gets
\* the slots of the demoted sender is marked as a master first.
LEMMA RoleSwitchTable ==
  ASSUME NEW e, NEW t \in TablesOf(e), NEW p, IsPacket(p, e), p.type \in {"PING", "PONG"},
         NEW n \in Nodes, n # p.src, Served(t, n)
  PROVE  RoleSwitch(t, p) \in TablesOf(e) /\ Served(RoleSwitch(t, p), n)
<1> DEFINE r == RoleSwitch(t, p)
<1>1. p.src \in Nodes /\ p.slaveof \in MaybeNodes /\ p.config \in Upto(e)
  BY DEF IsPacket
<1>2. CASE p.slaveof = None
  <2>1. r = [t EXCEPT !.slaveof[p.src] = None]
    BY <1>2 DEF RoleSwitch
  <2> HIDE DEF r
  <2>2. r \in TablesOf(e)
    BY <1>1, <2>1 DEF TablesOf, MaybeNodes
  <2>3. r.slaveof[n] = t.slaveof[n] /\ r.owner = t.owner
    BY <1>1, <2>1 DEF TablesOf
  <2> QED
    BY <2>2, <2>3 DEF Served, SlotsOf, r
<1>3. CASE p.slaveof # None
  <2> DEFINE m == MoveSlots(t, p.src, p.slaveof)
             moved == [m EXCEPT !.slaveof[p.slaveof] = None, !.epoch[p.slaveof] = p.config]
             kept == ~IsMaster(t, p.src) \/ t.epoch[p.src] > p.config
             b == IF kept THEN t ELSE moved
  <2>1. r = [b EXCEPT !.slaveof[p.src] = p.slaveof]
    BY <1>3 DEF RoleSwitch
  <2>2. p.slaveof \in Nodes
    BY <1>1, <1>3 DEF MaybeNodes
  <2>3. m \in TablesOf(e) /\ m.slaveof = t.slaveof
        /\ \A x \in Nodes : x # p.slaveof => SlotsOf(m, x) \subseteq SlotsOf(t, x)
    BY <2>2, MoveSlotsTable
  <2> HIDE DEF m
  <2>4. moved \in TablesOf(e)
    BY <1>1, <2>2, <2>3 DEF TablesOf, MaybeNodes
  <2>5. moved.owner = m.owner /\ moved.slaveof = [m.slaveof EXCEPT ![p.slaveof] = None]
    BY <2>3 DEF TablesOf
  <2> HIDE DEF moved
  <2>6. Served(moved, n)
    <3>1. CASE n = p.slaveof
      BY <3>1, <2>3, <2>5, TableFields DEF Served
    <3>2. CASE n # p.slaveof
      <4>1. moved.slaveof[n] = t.slaveof[n]
        BY <3>2, <2>3, <2>5, TableFields
      <4>2. SlotsOf(moved, n) \subseteq SlotsOf(t, n)
        BY <3>2, <2>3, <2>5 DEF SlotsOf
      <4> QED
        BY <4>1, <4>2 DEF Served
    <3> QED
      BY <3>1, <3>2
  <2>7. b \in TablesOf(e) /\ Served(b, n)
    BY <2>4, <2>6
  <2> HIDE DEF b, r
  <2>8. r \in TablesOf(e)
    BY <1>1, <2>1, <2>7 DEF TablesOf
  <2>9. r.slaveof[n] = b.slaveof[n] /\ r.owner = b.owner
    BY <1>1, <2>1, <2>7 DEF TablesOf
  <2> QED
    BY <2>7, <2>8, <2>9 DEF Served, SlotsOf, r
<1> QED
  BY <1>2, <1>3

\* The slots a packet claims are the gain of the claimed owner only.
LEMMA BindSlotsTable ==
  ASSUME NEW e, NEW t \in TablesOf(e), NEW x \in Nodes, NEW config, NEW slots \in SUBSET Slots
  PROVE  LET u == BindSlots(t, x, config, slots) IN
         /\ u \in TablesOf(e) /\ u.slaveof = t.slaveof
         /\ \A n \in Nodes : n # x => SlotsOf(u, n) \subseteq SlotsOf(t, n)
<1> DEFINE u == BindSlots(t, x, config, slots)
           taken == Rebinds(t, x, config, slots)
           o == [s \in Slots |-> IF s \in taken THEN x ELSE t.owner[s]]
           q == (t.quiet \ (taken \cup { s \in slots : t.owner[s] = x }))
                  \cup (SlotsOf(t, x) \ slots)
<1>1. t.owner \in [Slots -> Nodes] /\ t.quiet \in SUBSET Slots
  BY TableFields
<1>2. u = [t EXCEPT !.owner = o, !.quiet = q]
  BY DEF BindSlots
<1>3. o \in [Slots -> Nodes]
  BY <1>1
<1>4. q \in SUBSET Slots
  BY <1>1 DEF SlotsOf
<1>5. \A n \in Nodes : n # x => \A s \in Slots : o[s] = n => t.owner[s] = n
  OBVIOUS
<1> HIDE DEF u, o, q
<1>6. u \in TablesOf(e)
  BY <1>2, <1>3, <1>4 DEF TablesOf
<1>7. u.slaveof = t.slaveof /\ u.owner = o
  BY <1>2 DEF TablesOf
<1>8. \A n \in Nodes : n # x => SlotsOf(u, n) \subseteq SlotsOf(t, n)
  BY <1>5, <1>7 DEF SlotsOf
<1> QED
  BY <1>6, <1>7, <1>8 DEF u

\* Who gets a new master in clusterUpdateSlotsConfigWith gets another node, and has no slots.
LEMMA FollowNextFacts ==
  ASSUME NEW e, NEW t \in TablesOf(e), NEW n \in Nodes, NEW x \in Nodes, NEW config,
         NEW slots \in SUBSET Slots, Served(t, n), x # n
  PROVE  LET next == FollowNext(t, n, x, config, slots)
             u == BindSlots(t, x, config, slots) IN
         next \in MaybeNodes /\ (next # None => next # n /\ SlotsOf(u, n) = {})
<1> DEFINE next == FollowNext(t, n, x, config, slots)
           u == BindSlots(t, x, config, slots)
           cur == MasterIn(t, n)
           mine == { s \in Rebinds(t, x, config, slots) : t.owner[s] = cur }
           lost == mine # {} /\ SlotsOf(u, cur) = {}
           above == u.slaveof[u.slaveof[n]]
<1>1. u \in TablesOf(e) /\ u.slaveof = t.slaveof /\ SlotsOf(u, n) \subseteq SlotsOf(t, n)
  BY BindSlotsTable
<1>2. next = CASE lost -> x
               [] ~lost /\ ~IsMaster(u, n) /\ above \notin {None, n} -> above
               [] OTHER -> None
  BY DEF FollowNext
<1> HIDE DEF u, mine, next
<1>3. ~IsMaster(t, n) => SlotsOf(u, n) = {}
  BY <1>1 DEF Served, IsMaster
<1>4. CASE lost
  <2>1. next = x
    BY <1>2, <1>4
  <2>2. SlotsOf(u, n) = {}
    BY <1>3, <1>4 DEF MasterIn
  <2> QED
    BY <2>1, <2>2 DEF MaybeNodes, next, u
<1>5. CASE ~lost /\ ~IsMaster(u, n) /\ above \notin {None, n}
  <2>1. next = above
    BY <1>2, <1>5
  <2>2. u.slaveof[n] \in Nodes
    BY <1>1, <1>5, TableFields DEF IsMaster, MaybeNodes
  <2>3. above \in MaybeNodes
    BY <1>1, <2>2, TableFields
  <2>4. SlotsOf(u, n) = {}
    BY <1>1, <1>3, <1>5 DEF IsMaster
  <2> QED
    BY <1>5, <2>1, <2>3, <2>4 DEF next, u
<1>6. CASE ~lost /\ ~(~IsMaster(u, n) /\ above \notin {None, n})
  <2>1. next = None
    BY <1>2, <1>6
  <2> QED
    BY <2>1 DEF MaybeNodes, next
<1> QED
  BY <1>4, <1>5, <1>6

\* clusterUpdateSlotsConfigWith keeps the invariant and trips no assertion.
LEMMA UpdateSlotsTable ==
  ASSUME NEW e, NEW t \in TablesOf(e), NEW n \in Nodes, NEW x \in Nodes, NEW config,
         NEW slots \in SUBSET Slots, Served(t, n)
  PROVE  /\ UpdateSlots(t, n, x, config, slots) \in TablesOf(e)
         /\ Served(UpdateSlots(t, n, x, config, slots), n)
         /\ AssertsHold(t, n, x, config, slots)
<1> DEFINE next == FollowNext(t, n, x, config, slots)
           u == BindSlots(t, x, config, slots)
           v == UpdateSlots(t, n, x, config, slots)
<1>1. CASE x = n
  BY <1>1 DEF UpdateSlots, AssertsHold
<1>2. CASE x # n
  <2>1. next \in MaybeNodes /\ (next # None => next # n /\ SlotsOf(u, n) = {})
    BY <1>2, FollowNextFacts
  <2>2. u \in TablesOf(e) /\ u.slaveof = t.slaveof /\ SlotsOf(u, n) \subseteq SlotsOf(t, n)
    BY <1>2, BindSlotsTable
  <2>3. v = IF next = None THEN u ELSE [u EXCEPT !.slaveof[n] = next]
    BY <1>2 DEF UpdateSlots
  <2>4. AssertsHold(t, n, x, config, slots)
    BY <2>1 DEF AssertsHold
  <2> HIDE DEF next, u, v
  <2>5. CASE next = None
    BY <2>2, <2>3, <2>4, <2>5 DEF Served, v
  <2>6. CASE next # None
    <3>1. v \in TablesOf(e)
      BY <2>1, <2>2, <2>3, <2>6 DEF TablesOf
    <3>2. v.owner = u.owner
      BY <2>2, <2>3, <2>6 DEF TablesOf
    <3>3. SlotsOf(v, n) = {}
      BY <2>1, <2>6, <3>2 DEF SlotsOf
    <3> QED
      BY <2>4, <3>1, <3>3 DEF Served, v
  <2> QED
    BY <2>5, <2>6
<1> QED
  BY <1>1, <1>2

\* The two forms of a raised epoch, in a collision and in a takeover.
LEMMA MovedCurrent ==
  ASSUME NEW e, NEW t \in TablesOf(e), NEW n
  PROVE  [t EXCEPT !.current = @ + 1, !.epoch[n] = t.current + 1].current = t.current + 1
<1> DEFINE c == t.current + 1
<1> HIDE DEF c
<1>1. [t EXCEPT !.current = c, !.epoch[n] = c].current = c
  BY DEF TablesOf
<1> QED
  BY <1>1 DEF c

LEMMA Moved ==
  ASSUME NEW e \in Nat, NEW t \in TablesOf(e), NEW n \in Nodes, t.current + 1 <= e
  PROVE  LET v == [t EXCEPT !.current = @ + 1, !.epoch[n] = t.current + 1] IN
         v \in TablesOf(e) /\ v.slaveof = t.slaveof /\ v.owner = t.owner
<1> DEFINE c == t.current + 1
           v == [t EXCEPT !.current = c, !.epoch[n] = c]
<1>1. c \in Upto(e)
  BY TableFields DEF Upto
<1> HIDE DEF c
<1>2. v \in TablesOf(e) /\ v.slaveof = t.slaveof /\ v.owner = t.owner
  BY <1>1 DEF TablesOf
<1> QED
  BY <1>2 DEF c

\* A collision changes epochs only.
LEMMA CollisionTable ==
  ASSUME NEW e \in Nat, NEW t \in TablesOf(e), NEW n \in Nodes, NEW p, Served(t, n),
         Collision(t, n, p).current <= e
  PROVE  Collision(t, n, p) \in TablesOf(e) /\ Served(Collision(t, n, p), n)
<1> DEFINE v == [t EXCEPT !.current = @ + 1, !.epoch[n] = t.current + 1]
<1>1. CASE Collision(t, n, p) = t
  BY <1>1
<1>2. CASE Collision(t, n, p) = v
  <2>1. v.current = t.current + 1
    BY MovedCurrent
  <2>2. t.current + 1 <= e
    <3> HIDE DEF v
    <3> QED
      BY <1>2, <2>1
  <2>3. v \in TablesOf(e) /\ v.slaveof = t.slaveof /\ v.owner = t.owner
    BY <2>2, Moved
  <2> HIDE DEF v
  <2> QED
    BY <1>2, <2>3 DEF Served, SlotsOf
<1> QED
  BY <1>1, <1>2 DEF Collision

\* The epoch of a takeover, within the budget and before it is compared with it.
LEMMA BumpTable ==
  ASSUME NEW e \in Nat, NEW t \in TablesOf(e), NEW n \in Nodes, Bump(t, n).current <= e
  PROVE  Bump(t, n) \in TablesOf(e) /\ Bump(t, n).slaveof = t.slaveof
<1> DEFINE v == [t EXCEPT !.current = @ + 1, !.epoch[n] = t.current + 1]
<1>1. CASE Bump(t, n) = t
  BY <1>1
<1>2. CASE Bump(t, n) = v
  <2>1. v.current = t.current + 1
    BY MovedCurrent
  <2>2. t.current + 1 <= e
    <3> HIDE DEF v
    <3> QED
      BY <1>2, <2>1
  <2>3. v \in TablesOf(e) /\ v.slaveof = t.slaveof
    BY <2>2, Moved
  <2> HIDE DEF v
  <2> QED
    BY <1>2, <2>3
<1> QED
  BY <1>1, <1>2 DEF Bump

LEMMA BumpWide ==
  ASSUME NEW e \in Nat, NEW t \in TablesOf(e), NEW n \in Nodes
  PROVE  Bump(t, n) \in TablesOf(e + 1)
<1> DEFINE v == [t EXCEPT !.current = @ + 1, !.epoch[n] = t.current + 1]
<1>1. Upto(e) \subseteq Upto(e + 1) /\ e + 1 \in Nat
  BY DEF Upto
<1>2. t \in TablesOf(e + 1)
  BY <1>1 DEF TablesOf
<1>3. t.current \in Upto(e) /\ v.current = t.current + 1
  BY TableFields, MovedCurrent
<1>4. Bump(t, n) = t \/ Bump(t, n) = v
  BY DEF Bump
<1> HIDE DEF v
<1>5. Bump(t, n).current <= e + 1
  BY <1>3, <1>4 DEF Upto
<1> QED
  BY <1>1, <1>2, <1>5, BumpTable

\* The table after a takeover: the node is a master.
LEMMA TakeoverTable ==
  ASSUME NEW e \in Nat, NEW b \in TablesOf(e), NEW n \in Nodes
  PROVE  LET t == Bump(b, n)
             u == [MoveSlots(t, t.slaveof[n], n) EXCEPT !.slaveof[n] = None] IN
         u.current <= e => u \in TablesOf(e) /\ u.slaveof[n] = None
<1> DEFINE t == Bump(b, n)
           m == MoveSlots(t, t.slaveof[n], n)
           u == [m EXCEPT !.slaveof[n] = None]
<1>1. t \in TablesOf(e + 1)
  BY BumpWide
<1> HIDE DEF t
<1>2. m \in TablesOf(e + 1) /\ m.current = t.current
  BY <1>1, MoveSlotsTable
<1> SUFFICES ASSUME u.current <= e PROVE u \in TablesOf(e) /\ u.slaveof[n] = None
  BY DEF t
<1>3. u.current = t.current
  BY <1>2 DEF TablesOf
<1>4. t.current <= e
  <2> HIDE DEF u
  <2> QED
    BY <1>3
<1>5. t \in TablesOf(e)
  BY <1>4, BumpTable DEF t
<1>6. m \in TablesOf(e)
  BY <1>5, MoveSlotsTable
<1> HIDE DEF m
<1>7. u \in TablesOf(e) /\ u.slaveof[n] = None
  BY <1>6 DEF TablesOf, MaybeNodes
<1> QED
  BY <1>7

\* Packets built from a table are packets.
LEMMA MasterInNode ==
  ASSUME NEW e, NEW t \in TablesOf(e), NEW x \in Nodes
  PROVE  MasterIn(t, x) \in Nodes
BY TableFields DEF MasterIn, IsMaster, MaybeNodes

LEMMA HeaderPacket ==
  ASSUME NEW e, NEW t \in TablesOf(e), NEW from \in Nodes, NEW to \in Nodes,
         NEW type \in {"PING", "PONG"}, NEW via
  PROVE  IsPacket(Header(t, from, to, type, via), e)
<1> DEFINE m == MasterIn(t, from)
           p == Header(t, from, to, type, via)
<1>1. m \in Nodes
  BY MasterInNode
<1>2. t.epoch[m] \in Upto(e) /\ t.slaveof[from] \in MaybeNodes /\ t.current \in Upto(e)
      /\ SlotsOf(t, m) \subseteq Slots
  BY <1>1, TableFields DEF SlotsOf
<1>3. /\ p.src = from /\ p.dst = to /\ p.type = type /\ p.current = t.current
      /\ p.config = t.epoch[m] /\ p.slaveof = t.slaveof[from] /\ p.slots = SlotsOf(t, m)
  BY DEF Header
<1> HIDE DEF p
<1> QED
  BY <1>2, <1>3 DEF IsPacket, p

LEMMA UpdatePacket ==
  ASSUME NEW e, NEW t \in TablesOf(e), NEW from \in Nodes, NEW to \in Nodes, NEW x \in Nodes
  PROVE  IsPacket(Update(t, from, to, x), e)
<1> DEFINE m == MasterIn(t, from)
           p == Update(t, from, to, x)
<1>1. m \in Nodes
  BY MasterInNode
<1>2. t.epoch[m] \in Upto(e) /\ t.epoch[x] \in Upto(e) /\ t.current \in Upto(e)
      /\ SlotsOf(t, x) \ t.quiet \subseteq Slots
  BY <1>1, TableFields DEF SlotsOf
<1>3. /\ p.src = from /\ p.dst = to /\ p.type = "UPDATE" /\ p.current = t.current
      /\ p.config = t.epoch[m] /\ p.about = x /\ p.aboutConfig = t.epoch[x]
      /\ p.slots = SlotsOf(t, x) \ t.quiet
  BY DEF Update
<1> HIDE DEF p
<1> QED
  BY <1>2, <1>3 DEF IsPacket, p

\* A set of numbers has a least one, and a bounded set a greatest one.
LEMMA LeastNat ==
  ASSUME NEW S \in SUBSET Nat, S # {}
  PROVE  \E x \in S : \A y \in S : x <= y
<1> DEFINE R == OpToRel(<, Nat)
<1>1. IsWellFoundedOn(R, Nat)
  BY NatLessThanWellFounded, Zenon
<1>2. \A x, y \in Nat : y < x => <<y, x>> \in R
  BY Zenon DEF OpToRel
<1> HIDE DEF R
<1>3. PICK x \in S : \A y \in S : ~(<<y, x>> \in R)
  BY <1>1, WFMin
<1>4. \A y \in S : ~(y < x)
  BY <1>2, <1>3
<1> QED
  BY <1>4

LEMMA MinIn ==
  ASSUME NEW S \in SUBSET Nat, S # {}
  PROVE  Min(S) \in S
BY LeastNat DEF Min

LEMMA MaxIn ==
  ASSUME NEW e \in Nat, NEW S \in SUBSET Upto(e), S # {}
  PROVE  Max(S) \in S
<1> DEFINE T == { e - y : y \in S }
<1>0. \A y \in S : y \in Nat /\ y <= e
  BY DEF Upto
<1>1. T \in SUBSET Nat /\ T # {}
  <2>1. \A y \in S : e - y \in Nat
    BY <1>0
  <2> QED
    BY <2>1
<1>2. PICK z \in T : \A w \in T : z <= w
  BY <1>1, LeastNat
<1>3. PICK x \in S : z = e - x
  BY <1>2
<1>4. \A y \in S : x >= y
  <2> TAKE y \in S
  <2>1. e - x <= e - y
    BY <1>2, <1>3
  <2>2. x \in Nat /\ y \in Nat
    BY <1>0
  <2> QED
    BY <2>1, <2>2
<1> QED
  BY <1>4 DEF Max

\* What is under way after a send that may lose some of its packets.
LEMMA SendFacts ==
  ASSUME NEW packets, NEW kept, Send(packets, kept), IsFiniteSet(packets), IsFiniteSet(kept),
         NEW e, \A p \in packets \cup kept : IsPacket(p, e)
  PROVE  Few' /\ \A p \in net' : IsPacket(p, e)
<1>1. PICK out \in SUBSET packets : net' = kept \cup out /\ Cardinality(net') <= MaxPackets
  BY DEF Send
<1>2. IsFiniteSet(out)
  BY FS_Subset
<1>3. IsFiniteSet(net')
  BY <1>1, <1>2, FS_Union
<1>4. Few'
  BY <1>1, <1>3 DEF Few
<1>5. \A p \in net' : IsPacket(p, e)
  BY <1>1
<1> QED
  BY <1>4, <1>5

\* The beginnings.
LEMMA InitInv == Init => IInv
<1> SUFFICES ASSUME Init PROVE IInv
  OBVIOUS
<1>1. PICK b \in Beginnings :
        /\ table = [n \in Nodes |->
             [current |-> Max({ b.epoch[x] : x \in Nodes }), epoch |-> b.epoch,
              slaveof |-> b.slaveof, owner |-> b.owner, quiet |-> {}]]
        /\ budget = b.budget
  BY DEF Init
<1> DEFINE e == budget.epoch
           c == Max({ b.epoch[x] : x \in Nodes })
<1>2. /\ b.slaveof \in [Nodes -> MaybeNodes] /\ b.owner \in [Slots -> Nodes]
      /\ \A s \in Slots : b.slaveof[b.owner[s]] = None
      /\ budget \in [takeovers : Nat, epoch : Nat]
      /\ b.epoch \in [Nodes -> Upto(e)]
  BY <1>1, BeginningsAssumption DEF Upto, MaybeNodes
<1>3. e \in Nat
  BY <1>2
<1> HIDE DEF e
<1>4. ASSUME NEW n \in Nodes PROVE c \in Upto(e)
  <2> DEFINE S == { b.epoch[x] : x \in Nodes }
  <2>1. S \in SUBSET Upto(e) /\ S # {}
    BY <1>2
  <2> HIDE DEF S
  <2>2. Max(S) \in S
    BY <1>3, <2>1, MaxIn
  <2> QED
    BY <2>1, <2>2 DEF S
<1> HIDE DEF c
<1>5. \A n \in Nodes : table[n] = [current |-> c, epoch |-> b.epoch, slaveof |-> b.slaveof,
                                   owner |-> b.owner, quiet |-> {}]
  BY <1>1 DEF c
<1>6. \A n \in Nodes : table[n] \in TablesOf(e)
  BY <1>2, <1>4, <1>5 DEF TablesOf
<1>7. table \in [Nodes -> TablesOf(e)]
  BY <1>1, <1>6
<1>8. ReplicasServeNothing
  <2> SUFFICES ASSUME NEW n \in Nodes PROVE Served(table[n], n)
    BY DEF ReplicasServeNothing
  <2>1. table[n].slaveof = b.slaveof /\ table[n].owner = b.owner
    BY <1>5
  <2> QED
    BY <1>2, <2>1 DEF Served, SlotsOf
<1>9. Few
  BY FS_EmptySet, BoundAssumption DEF Init, Few
<1>10. aborted = {} /\ \A p \in net : IsPacket(p, budget.epoch)
  BY DEF Init
<1> QED
  BY <1>2, <1>7, <1>8, <1>9, <1>10 DEF IInv, Types, e

\* The invariant in the form the steps cite.
LEMMA InvFacts ==
  ASSUME IInv
  PROVE  /\ budget \in [takeovers : Nat, epoch : Nat] /\ budget.epoch \in Nat
         /\ table \in [Nodes -> TablesOf(budget.epoch)] /\ aborted = {}
         /\ \A n \in Nodes : table[n] \in TablesOf(budget.epoch) /\ Served(table[n], n)
         /\ \A p \in net : IsPacket(p, budget.epoch)
         /\ IsFiniteSet(net) /\ Cardinality(net) <= MaxPackets
<1>1. budget \in [takeovers : Nat, epoch : Nat] /\ table \in [Nodes -> TablesOf(budget.epoch)]
  BY DEF IInv, Types
<1>2. budget.epoch \in Nat
  BY <1>1
<1> QED
  BY <1>1, <1>2 DEF IInv, Types, Few, ReplicasServeNothing

\* The invariant after a step that changed one table.
LEMMA OneTable ==
  ASSUME IInv, NEW n \in Nodes, NEW v \in TablesOf(budget.epoch), Served(v, n),
         table' = [table EXCEPT ![n] = v], budget'.epoch = budget.epoch,
         budget' \in [takeovers : Nat, epoch : Nat], aborted' = {}, Few',
         \A p \in net' : IsPacket(p, budget.epoch)
  PROVE  IInv'
<1>1. table \in [Nodes -> TablesOf(budget.epoch)]
  BY InvFacts
<1>2. table' \in [Nodes -> TablesOf(budget.epoch)]
  BY <1>1
<1>3. \A x \in Nodes : Served(table'[x], x)
  BY <1>1, InvFacts
<1>4. Types'
  BY <1>2 DEF Types
<1>5. ReplicasServeNothing'
  BY <1>3 DEF ReplicasServeNothing
<1> QED
  BY <1>4, <1>5 DEF IInv

\* Every action keeps the invariant.
LEMMA SendPingStep ==
  ASSUME IInv, NEW n \in Nodes, NEW x \in Nodes, SendPing(n, x)
  PROVE  IInv'
<1> DEFINE p == Header(table[n], n, x, "PING", "own")
<1>1. net' = net \cup {p} /\ Cardinality(net) < MaxPackets
      /\ UNCHANGED <<table, budget, aborted>>
  BY DEF SendPing
<1>2. IsPacket(p, budget.epoch)
  BY InvFacts, HeaderPacket
<1> HIDE DEF p
<1>3. IsFiniteSet(net) /\ Cardinality(net) \in Nat
  BY InvFacts, FS_CardinalityType
<1>4. IsFiniteSet(net') /\ Cardinality(net') <= Cardinality(net) + 1
  BY <1>1, <1>3, FS_AddElement
<1>5. Cardinality(net') <= MaxPackets
  <2>1. Cardinality(net') \in Nat
    BY <1>4, FS_CardinalityType
  <2> QED
    BY <1>1, <1>3, <1>4, <2>1, BoundAssumption
<1>6. \A q \in net' : IsPacket(q, budget.epoch)
  BY <1>1, <1>2, InvFacts
<1>7. Types' /\ Few' /\ ReplicasServeNothing'
  BY <1>1, <1>4, <1>5, <1>6 DEF IInv, Types, Few, ReplicasServeNothing
<1> QED
  BY <1>7 DEF IInv

\* What is under way after a packet was taken off the net.
LEMMA NetWithout ==
  ASSUME IInv, NEW p \in net
  PROVE  /\ IsFiniteSet(net \ {p}) /\ Cardinality(net \ {p}) <= MaxPackets
         /\ \A q \in net \ {p} : IsPacket(q, budget.epoch)
<1>1. IsFiniteSet(net) /\ Cardinality(net) \in Nat /\ Cardinality(net) <= MaxPackets
  BY InvFacts, FS_CardinalityType
<1>2. IsFiniteSet(net \ {p}) /\ Cardinality(net \ {p}) = Cardinality(net) - 1
  BY <1>1, FS_RemoveElement
<1>3. Cardinality(net \ {p}) <= MaxPackets
  BY <1>1, <1>2, BoundAssumption
<1> QED
  BY <1>2, <1>3, InvFacts

\* A lost packet.
LEMMA LosePacketStep ==
  ASSUME IInv, LosePacket
  PROVE  IInv'
<1>1. PICK p \in net : net' = net \ {p}
  BY DEF LosePacket
<1>2. UNCHANGED <<table, budget, aborted>>
  BY DEF LosePacket
<1>3. Few' /\ \A q \in net' : IsPacket(q, budget.epoch)
  BY <1>1, NetWithout DEF Few
<1> QED
  BY <1>2, <1>3 DEF IInv, Types, ReplicasServeNothing

\* A PING or PONG: epochs, role switch, slots, collision, and the answers.
LEMMA ProcessPingStep ==
  ASSUME IInv, NEW n \in Nodes, NEW x \in Nodes, n # x, ProcessPing(n, x)
  PROVE  IInv'
<1> DEFINE e == budget.epoch
<1>1. PICK p \in net :
        /\ p.type \in {"PING", "PONG"} /\ p.src = x /\ p.dst = n
        /\ LET h == HeaderEpochs(table[n], p)
               t == RoleSwitch(h, p)
               dirty == SlotsOf(t, MasterIn(t, x)) # p.slots
               updates == IsMaster(t, x) /\ dirty
               u == IF updates THEN UpdateSlots(t, n, x, p.config, p.slots) ELSE t
               late == OutdatedClaims(u, p)
               v == Collision(u, n, p) IN
           /\ v.current <= budget.epoch
           /\ table' = [table EXCEPT ![n] = v]
           /\ Send((IF p.type = "PING" THEN { Header(h, n, x, "PONG", "back") } ELSE {})
                     \cup (IF dirty /\ late # {}
                           THEN { Update(u, n, x, u.owner[Min(late)]) } ELSE {}),
                   net \ {p})
           /\ aborted' = IF updates /\ ~AssertsHold(t, n, x, p.config, p.slots)
                         THEN aborted \cup {n} ELSE aborted
        /\ UNCHANGED budget
  BY DEF ProcessPing
<1> DEFINE h == HeaderEpochs(table[n], p)
           t == RoleSwitch(h, p)
           dirty == SlotsOf(t, MasterIn(t, x)) # p.slots
           updates == IsMaster(t, x) /\ dirty
           u == IF updates THEN UpdateSlots(t, n, x, p.config, p.slots) ELSE t
           late == OutdatedClaims(u, p)
           v == Collision(u, n, p)
           pong == IF p.type = "PING" THEN { Header(h, n, x, "PONG", "back") } ELSE {}
           news == IF dirty /\ late # {} THEN { Update(u, n, x, u.owner[Min(late)]) } ELSE {}
<1>2. /\ v.current <= e /\ table' = [table EXCEPT ![n] = v]
      /\ Send(pong \cup news, net \ {p})
      /\ aborted' = IF updates /\ ~AssertsHold(t, n, x, p.config, p.slots)
                    THEN aborted \cup {n} ELSE aborted
      /\ budget' = budget /\ p.src = x /\ p.type \in {"PING", "PONG"}
  BY <1>1
<1>3. /\ e \in Nat /\ table[n] \in TablesOf(e) /\ Served(table[n], n) /\ aborted = {}
      /\ IsPacket(p, e) /\ budget \in [takeovers : Nat, epoch : Nat]
  BY InvFacts
<1> HIDE DEF e
<1>4. p.slots \in SUBSET Slots
  BY <1>3 DEF IsPacket
<1>5. h \in TablesOf(e) /\ Served(h, n)
  <2>1. h \in TablesOf(e) /\ h.slaveof = table[n].slaveof /\ h.owner = table[n].owner
    BY <1>3, HeaderEpochsTable
  <2> QED
    BY <1>3, <2>1 DEF Served, SlotsOf
<1> HIDE DEF h
<1>6. t \in TablesOf(e) /\ Served(t, n)
  BY <1>2, <1>3, <1>5, RoleSwitchTable
<1> HIDE DEF t
<1>7. /\ UpdateSlots(t, n, x, p.config, p.slots) \in TablesOf(e)
      /\ Served(UpdateSlots(t, n, x, p.config, p.slots), n)
      /\ AssertsHold(t, n, x, p.config, p.slots)
  BY <1>4, <1>6, UpdateSlotsTable
<1>8. u \in TablesOf(e) /\ Served(u, n)
  BY <1>6, <1>7
<1>9. aborted' = {}
  BY <1>2, <1>3, <1>7
<1> HIDE DEF u, updates
<1>10. v \in TablesOf(e) /\ Served(v, n)
  BY <1>2, <1>3, <1>8, CollisionTable
<1>11. IsFiniteSet(pong) /\ \A q \in pong : IsPacket(q, e)
  <2>1. IsPacket(Header(h, n, x, "PONG", "back"), e)
    BY <1>5, HeaderPacket
  <2>2. CASE p.type = "PING"
    <3>1. pong = { Header(h, n, x, "PONG", "back") }
      BY <2>2
    <3> QED
      BY <2>1, <3>1, FS_Singleton
  <2>3. CASE p.type # "PING"
    BY <2>3, FS_EmptySet
  <2> QED
    BY <2>2, <2>3
<1>12. IsFiniteSet(news) /\ \A q \in news : IsPacket(q, e)
  <2>1. CASE late # {}
    <3>1. late \in SUBSET Slots /\ late \in SUBSET Nat
      BY <1>4, BoundAssumption DEF OutdatedClaims
    <3>2. Min(late) \in Slots
      BY <2>1, <3>1, MinIn
    <3>3. u.owner[Min(late)] \in Nodes
      BY <1>8, <3>2, TableFields
    <3>4. IsPacket(Update(u, n, x, u.owner[Min(late)]), e)
      BY <1>8, <3>3, UpdatePacket
    <3> QED
      BY <3>4, FS_Singleton, FS_EmptySet
  <2>2. CASE late = {}
    BY <2>2, FS_EmptySet
  <2> QED
    BY <2>1, <2>2
<1> HIDE DEF v, pong, news
<1>13. IsFiniteSet(pong \cup news)
  BY <1>11, <1>12, FS_Union
<1>14. IsFiniteSet(net \ {p}) /\ \A q \in net \ {p} : IsPacket(q, e)
  BY NetWithout DEF e
<1>15. \A q \in (pong \cup news) \cup (net \ {p}) : IsPacket(q, e)
  BY <1>11, <1>12, <1>14
<1>16. Few' /\ \A q \in net' : IsPacket(q, e)
  BY <1>2, <1>13, <1>14, <1>15, SendFacts
<1> QED
  BY <1>2, <1>3, <1>9, <1>10, <1>16, OneTable DEF e

\* An UPDATE: the owner it names becomes a master, then its slots are bound.
LEMMA ProcessUpdateStep ==
  ASSUME IInv, NEW n \in Nodes, NEW x \in Nodes, ProcessUpdate(n, x)
  PROVE  IInv'
<1> DEFINE e == budget.epoch
<1>1. PICK p \in net :
        /\ p.type = "UPDATE"
        /\ LET t == HeaderEpochs(table[n], p)
               news == t.epoch[p.about] < p.aboutConfig
               u == [t EXCEPT !.slaveof[p.about] = None, !.epoch[p.about] = p.aboutConfig] IN
           /\ table' = [table EXCEPT ![n] =
                IF news THEN UpdateSlots(u, n, p.about, p.aboutConfig, p.slots) ELSE t]
           /\ aborted' = IF news /\ ~AssertsHold(u, n, p.about, p.aboutConfig, p.slots)
                         THEN aborted \cup {n} ELSE aborted
        /\ net' = net \ {p}
        /\ UNCHANGED budget
  BY DEF ProcessUpdate
<1> DEFINE t == HeaderEpochs(table[n], p)
           news == t.epoch[p.about] < p.aboutConfig
           u == [t EXCEPT !.slaveof[p.about] = None, !.epoch[p.about] = p.aboutConfig]
           w == UpdateSlots(u, n, p.about, p.aboutConfig, p.slots)
           v == IF news THEN w ELSE t
<1>2. /\ table' = [table EXCEPT ![n] = v]
      /\ aborted' = IF news /\ ~AssertsHold(u, n, p.about, p.aboutConfig, p.slots)
                    THEN aborted \cup {n} ELSE aborted
      /\ net' = net \ {p} /\ budget' = budget /\ p.type = "UPDATE"
  BY <1>1
<1>3. /\ e \in Nat /\ table[n] \in TablesOf(e) /\ Served(table[n], n) /\ aborted = {}
      /\ IsPacket(p, e) /\ budget \in [takeovers : Nat, epoch : Nat]
  BY InvFacts
<1> HIDE DEF e
<1>4. p.slots \in SUBSET Slots /\ p.about \in Nodes /\ p.aboutConfig \in Upto(e)
  BY <1>2, <1>3 DEF IsPacket
<1>5. t \in TablesOf(e) /\ Served(t, n)
  <2>1. t \in TablesOf(e) /\ t.slaveof = table[n].slaveof /\ t.owner = table[n].owner
    BY <1>3, HeaderEpochsTable
  <2> QED
    BY <1>3, <2>1 DEF Served, SlotsOf
<1> HIDE DEF t
<1>6. u \in TablesOf(e) /\ Served(u, n)
  <2>1. u \in TablesOf(e)
    BY <1>4, <1>5 DEF TablesOf, MaybeNodes
  <2>2. u.owner = t.owner /\ u.slaveof = [t.slaveof EXCEPT ![p.about] = None]
    BY <1>5 DEF TablesOf
  <2> HIDE DEF u
  <2>3. u.slaveof[n] \in {None, t.slaveof[n]}
    BY <1>5, <2>2, TableFields
  <2> QED
    BY <1>5, <2>1, <2>2, <2>3 DEF Served, SlotsOf
<1> HIDE DEF u
<1>7. w \in TablesOf(e) /\ Served(w, n) /\ AssertsHold(u, n, p.about, p.aboutConfig, p.slots)
  BY <1>4, <1>6, UpdateSlotsTable
<1> HIDE DEF w
<1>8. v \in TablesOf(e) /\ Served(v, n)
  BY <1>5, <1>7
<1>9. aborted' = {}
  BY <1>2, <1>3, <1>7
<1> HIDE DEF v
<1>10. Few' /\ \A q \in net' : IsPacket(q, e)
  BY <1>2, NetWithout DEF Few, e
<1> QED
  BY <1>2, <1>3, <1>8, <1>9, <1>10, OneTable DEF e

\* CLUSTER FAILOVER TAKEOVER.
LEMMA TakeoverStep ==
  ASSUME IInv, NEW n \in Nodes, Takeover(n)
  PROVE  IInv'
<1> DEFINE e == budget.epoch
           t == Bump(table[n], n)
           u == [MoveSlots(t, t.slaveof[n], n) EXCEPT !.slaveof[n] = None]
           pongs == { Header(u, n, x, "PONG", "own") : x \in Nodes \ {n} }
<1>1. /\ budget.takeovers > 0 /\ budget' = [budget EXCEPT !.takeovers = @ - 1]
      /\ u.current <= e /\ table' = [table EXCEPT ![n] = u]
      /\ Send(pongs, net) /\ aborted' = aborted
  BY DEF Takeover
<1>2. /\ e \in Nat /\ table[n] \in TablesOf(e) /\ aborted = {}
      /\ budget \in [takeovers : Nat, epoch : Nat] /\ IsFiniteSet(net)
      /\ \A q \in net : IsPacket(q, e)
  BY InvFacts
<1>3. budget' \in [takeovers : Nat, epoch : Nat] /\ budget'.epoch = e
  BY <1>1, <1>2
<1> HIDE DEF e
<1>4. u \in TablesOf(e) /\ u.slaveof[n] = None
  BY <1>1, <1>2, TakeoverTable
<1> HIDE DEF u, t
<1>5. IsFiniteSet(pongs)
  <2> DEFINE f == [x \in Nodes \ {n} |-> Header(u, n, x, "PONG", "own")]
  <2>1. f \in Surjection(Nodes \ {n}, pongs)
    BY DEF Surjection
  <2>2. IsFiniteSet(Nodes \ {n})
    BY NodesAssumption, FS_RemoveElement
  <2> HIDE DEF f, pongs
  <2> QED
    BY <2>1, <2>2, FS_Surjection
<1>6. \A q \in pongs : IsPacket(q, e)
  BY <1>4, HeaderPacket
<1> HIDE DEF pongs
<1>7. Few' /\ \A q \in net' : IsPacket(q, e)
  BY <1>1, <1>2, <1>5, <1>6, SendFacts
<1>8. Served(u, n)
  BY <1>4 DEF Served
<1> QED
  BY <1>1, <1>2, <1>3, <1>4, <1>7, <1>8, OneTable DEF e

\* The invariant above holds in every reachable state.
THEOREM Inductive == Spec => []IInv
<1>1. ASSUME IInv, [Next]_vars PROVE IInv'
  <2>1. CASE UNCHANGED vars
    BY <1>1, <2>1 DEF vars, IInv, Types, Few, ReplicasServeNothing
  <2>2. CASE Next
    BY <1>1, <2>2, LosePacketStep, TakeoverStep, SendPingStep, ProcessPingStep,
       ProcessUpdateStep DEF Next
  <2> QED
    BY <1>1, <2>1, <2>2
<1> QED
  BY <1>1, InitInv, PTL DEF Spec

\* TypeOK: tables, budgets and packets keep their types, and no more than MaxPackets packets
\* are under way.
THEOREM TypeCorrect == Spec => []TypeOK
<1>1. IInv => TypeOK
  <2> SUFFICES ASSUME IInv PROVE TypeOK
    OBVIOUS
  <2>1. Tables = TablesOf(budget.epoch)
    BY DEF Tables, TablesOf, Epochs, Upto, MaybeNodes
  <2> QED
    BY <2>1, InvFacts DEF TypeOK, IsPacket
<1> QED
  BY <1>1, Inductive, PTL

\* NoAbort: no packet, in whatever order, lost or late, makes a node trip an assertion of
\* clusterSetMaster.
THEOREM NeverAborts == Spec => []NoAbort
<1>1. IInv => NoAbort
  BY DEF IInv, Types, NoAbort
<1> QED
  BY <1>1, Inductive, PTL
=============================================================================
