---------------------------- MODULE PsyncProofs ----------------------------
(***************************************************************************)
(* Theorems about Psync, for any set of nodes, any size of the backlog and *)
(* any bounds.                                                             *)
(*                                                                         *)
(* Whoever shows an ID and an offset (a node, a second ID, an RDB file     *)
(* sent or saved) claims that the history with this ID has a certain       *)
(* dataset at this offset. The invariant is that claims with the same ID   *)
(* agree, and the proof is that every step leaves claims that are about    *)
(* points of histories claimed before, or about a new end of a history     *)
(* that nobody else has reached.                                           *)
(***************************************************************************)
EXTENDS Psync, SequenceTheorems, TLAPS

\* What an RDB file, sent or saved, tells of a history.
Snapshot == [data : Seq(Nat), id : Nat, off : Int]
SecondIds == [id : Nat, upto : Int]
Caches == [id : Nat, off : Int]

\* The types of the replication state.
Types ==
  /\ master \in [Nodes -> Nodes \cup {None}]
  /\ link \in [Nodes -> {"down", "transfer", "up"}]
  /\ replid \in [Nodes -> Nat]
  /\ replid2 \in [Nodes -> SecondIds]
  /\ offset \in [Nodes -> Nat]
  /\ data \in [Nodes -> Seq(Nat)]
  /\ start \in [Nodes -> Nat]
  /\ cached \in [Nodes -> Caches]
  /\ transfer \in [Nodes -> Snapshot \cup {NoTransfer}]
  /\ disk \in [Nodes -> Snapshot]
  /\ nextId \in Nat /\ writes \in Nat

\* The types of the failover state; a failover has a target that is not its master.
FailoverTypes ==
  /\ failover \in [Nodes -> [state : {"none", "wait", "progress", "asked"},
                             target : Nodes \cup {None}, force : BOOLEAN]]
  /\ \A n \in Nodes : failover[n].state # "none" => failover[n].target \in Nodes \ {n}

\* Offsets and datasets stay within the writes there were, and backlogs within their offset.
SizesOf(n) ==
  /\ offset[n] <= writes /\ Len(data[n]) <= writes /\ start[n] <= offset[n] + 1
  /\ transfer[n] # NoTransfer =>
       transfer[n].off \in 0..writes /\ Len(transfer[n].data) <= writes
  /\ Len(disk[n].data) <= writes
  /\ disk[n].id # 0 => disk[n].off \in 0..writes
Sizes == writes <= MaxWrites /\ \A n \in Nodes : SizesOf(n)

\* What a link means: a replica that is connected, or is sent an RDB file, has the history
\* of its master and is not ahead of it, and the master has a backlog. A replica that cached its
\* master has not moved since.
LinksOf(n) ==
  /\ master[n] # n
  /\ IsMaster(n) => link[n] = "down" /\ cached[n] = NoCache
  /\ link[n] = "transfer" <=> transfer[n] # NoTransfer
  /\ link[n] # "down" => start[master[n]] # 0
  /\ link[n] = "up" => /\ cached[n] = NoCache /\ start[n] # 0
                       /\ replid[n] = replid[master[n]] /\ offset[n] <= offset[master[n]]
  /\ link[n] = "transfer" => /\ transfer[n].id = replid[master[n]]
                             /\ transfer[n].off <= offset[master[n]]
  /\ cached[n] # NoCache => cached[n] = CacheOf(n)
Links == \A n \in Nodes : LinksOf(n)

\* A claim says that the history with an ID has, at an offset, a dataset that starts with
\* the first len writes of data.
Claim(i, o, l, d) == [id |-> i, off |-> o, len |-> l, data |-> d]

\* The claims a node makes: what it holds, what its second ID stands for, and what an RDB
\* file holds. The dataset at the second ID is a prefix of the dataset of the node.
Held(n) == Claim(replid[n], offset[n], Len(data[n]), data[n])
Second(n) ==
  Claim(replid2[n].id, replid2[n].upto - 1,
        Len(data[n]) - (offset[n] + 1 - replid2[n].upto), data[n])
Stored(s) == Claim(s.id, s.off, Len(s.data), s.data)

\* The nodes whose replication ID is of use to somebody, and the second IDs that are.
Valid(n) == start[n] # 0 \/ cached[n] # NoCache
HasSecond(n) == start[n] # 0 /\ replid2[n] # NoId2
Claims ==
  {Held(n) : n \in {x \in Nodes : Valid(x)}}
  \cup {Second(n) : n \in {x \in Nodes : HasSecond(x)}}
  \cup {Stored(transfer[n]) : n \in {x \in Nodes : transfer[x] # NoTransfer}}
  \cup {Stored(disk[n]) : n \in {x \in Nodes : disk[x].id # 0}}

\* Two datasets have the same first l writes.
SameUpTo(l, d, e) == \A i \in 1..l : d[i] = e[i]
IsClaim(c) == c.id \in Nat /\ c.off \in Int /\ c.len \in Nat

\* The claim c is about a point of the history that b claims, not later than b.
Point(c, b) ==
  /\ IsClaim(c) /\ c.id = b.id
  /\ c.off <= b.off /\ b.len - c.len = b.off - c.off
  /\ SameUpTo(c.len, c.data, b.data)
Agree(c, b) == IsClaim(c) /\ IsClaim(b) /\ (c.id = b.id /\ c.off <= b.off => Point(c, b))

\* The core of the proof: two claims with the same ID are about one history.
OneHistory == \A c, b \in Claims : Agree(c, b)

\* Every ID in use was handed out.
Ids ==
  /\ \A n \in Nodes : /\ replid[n] \in 1..(nextId - 1)
                      /\ replid2[n] # NoId2 => replid2[n].id \in 1..(nextId - 1)
  /\ \A c \in Claims : c.id \in 1..(nextId - 1)

\* A second ID is good for no more than its node has.
Seconds == \A n \in Nodes : HasSecond(n) => replid2[n].upto <= offset[n] + 1

\* No two masters share an ID.
OneMaster ==
  \A n, m \in Nodes : IsMaster(n) /\ IsMaster(m) /\ replid[n] = replid[m] => n = m

\* A master is not behind anybody with its ID.
Ahead ==
  \A n \in Nodes, c \in Claims :
    IsMaster(n) /\ start[n] # 0 /\ c.id = replid[n] => c.off <= offset[n]

\* Nobody has the ID of a master without a backlog (its offset may stand still while it
\* writes, so it must not be asked to continue).
Unshared ==
  \A n \in Nodes, c \in Claims : IsMaster(n) /\ start[n] = 0 => c.id # replid[n]

\* A replica without a backlog may still have a second ID from earlier days. Continue would
\* make it good again, so nobody else may have its ID.
Stale(n) == start[n] = 0 /\ cached[n] # NoCache /\ replid2[n] # NoId2
Uses(x, i) ==
  \/ Valid(x) /\ replid[x] = i
  \/ transfer[x] # NoTransfer /\ transfer[x].id = i
  \/ disk[x].id = i
StaleSecond == \A n, x \in Nodes : n # x /\ Stale(n) => ~Uses(x, replid[n])

\* The inductive invariant.
IInv ==
  /\ Types /\ FailoverTypes /\ Sizes /\ Links /\ Ids /\ Seconds
  /\ OneHistory /\ OneMaster /\ Ahead /\ Unshared /\ StaleSecond

-----------------------------------------------------------------------------
\* A snapshot is not NoTransfer.
LEMMA SnapshotIsSome ==
  ASSUME NEW d, NEW i, NEW o PROVE [data |-> d, id |-> i, off |-> o] # NoTransfer
<1> DEFINE s == [data |-> d, id |-> i, off |-> o]
<1>1. "id" \in DOMAIN s
  OBVIOUS
<1>2. DOMAIN NoTransfer = {}
  BY DEF NoTransfer
<1> QED
  BY <1>1, <1>2

\* The maximum of two numbers.
LEMMA MaxOfTwo ==
  ASSUME NEW i \in Int, NEW j \in Int
  PROVE  Max({i, j}) = IF i >= j THEN i ELSE j
<1>1. CASE i >= j
  <2>1. \A x \in {i, j} : (\A y \in {i, j} : x >= y) <=> x = i
    BY <1>1
  <2> QED
    BY <1>1, <2>1 DEF Max
<1>2. CASE ~(i >= j)
  <2>1. \A x \in {i, j} : (\A y \in {i, j} : x >= y) <=> x = j
    BY <1>2
  <2> QED
    BY <1>2, <2>1 DEF Max
<1> QED
  BY <1>1, <1>2

\* A trimmed backlog is a backlog, and starts at most one after the last write.
LEMMA TrimmedBound ==
  ASSUME Types, NEW n \in Nodes, NEW o \in Nat, start[n] <= o + 1
  PROVE  /\ Trimmed(n, o) \in Nat /\ Trimmed(n, o) <= o + 1
         /\ Trimmed(n, o) = 0 <=> start[n] = 0
<1>1. start[n] \in Nat /\ BacklogSize \in Nat \ {0}
  BY SizeAssumption DEF Types
<1>2. Max({start[n], o - BacklogSize + 1}) =
        IF start[n] >= o - BacklogSize + 1 THEN start[n] ELSE o - BacklogSize + 1
  BY <1>1, MaxOfTwo
<1> QED
  BY <1>1, <1>2 DEF Trimmed, NoBacklog

\* Where a claim comes from.
LEMMA ClaimsAre ==
  ASSUME NEW c
  PROVE  c \in Claims <=>
           \E n \in Nodes : \/ Valid(n) /\ c = Held(n)
                            \/ HasSecond(n) /\ c = Second(n)
                            \/ transfer[n] # NoTransfer /\ c = Stored(transfer[n])
                            \/ disk[n].id # 0 /\ c = Stored(disk[n])
  BY Zenon DEF Claims

\* Where a claim of the next state comes from.
LEMMA ClaimsWillBe ==
  ASSUME NEW c
  PROVE  c \in Claims' <=>
           \E n \in Nodes : \/ Valid(n)' /\ c = Held(n)'
                            \/ HasSecond(n)' /\ c = Second(n)'
                            \/ transfer'[n] # NoTransfer /\ c = Stored(transfer'[n])
                            \/ disk'[n].id # 0 /\ c = Stored(disk'[n])
  BY Zenon DEF Claims

\* If the claims C agree and every claim in D is about a point of one in C, those in D agree.
LEMMA PointsAgree ==
  ASSUME NEW C, \A c, b \in C : Agree(c, b),
         NEW D, \A c \in D : \E b \in C : Point(c, b)
  PROVE  \A c, b \in D : Agree(c, b)
<1> SUFFICES ASSUME NEW c \in D, NEW e \in D, c.id = e.id, c.off <= e.off
             PROVE  Point(c, e)
  BY DEF Agree, Point
<1>1. PICK b \in C : Point(c, b)
  OBVIOUS
<1>2. PICK a \in C : Point(e, a)
  OBVIOUS
<1>3. b.id = a.id /\ Agree(b, a) /\ Agree(a, b)
  BY <1>1, <1>2 DEF Point
<1>4. b.off \in Int /\ a.off \in Int /\ b.len \in Nat /\ a.len \in Nat
  BY <1>3 DEF Agree, IsClaim
<1>5. CASE b.off <= a.off
  <2>1. Point(b, a)
    BY <1>3, <1>5 DEF Agree
  <2> QED
    BY <1>1, <1>2, <1>4, <2>1 DEF Point, IsClaim, SameUpTo
<1>6. CASE a.off <= b.off
  <2>1. Point(a, b)
    BY <1>3, <1>6 DEF Agree
  <2>2. e.len - c.len = e.off - c.off
    BY <1>1, <1>2, <1>4, <2>1 DEF Point, IsClaim, SameUpTo
  <2>3. \A i \in 1..c.len : c.data[i] = e.data[i]
    <3> SUFFICES ASSUME NEW i \in 1..c.len PROVE c.data[i] = e.data[i]
      OBVIOUS
    <3>1. c.len <= e.len /\ e.len <= a.len /\ c.len \in Nat /\ e.len \in Nat
      BY <1>1, <1>2, <1>4, <2>2 DEF Point, IsClaim, SameUpTo
    <3>2. i \in 1..e.len /\ i \in 1..a.len
      BY <3>1, <1>4
    <3> QED
      BY <1>1, <1>2, <2>1, <3>2 DEF Point, SameUpTo
  <2> QED
    BY <1>1, <1>2, <2>2, <2>3 DEF Point, SameUpTo
<1> QED
  BY <1>4, <1>5, <1>6

\* The types of what is left when links break.
LEMMA WithoutTypes ==
  ASSUME Types, NEW S
  PROVE  /\ LinkWithout(S) \in [Nodes -> {"down", "transfer", "up"}]
         /\ CachedWithout(S) \in [Nodes -> Caches]
         /\ TransferWithout(S) \in [Nodes -> Snapshot \cup {NoTransfer}]
<1>1. LinkWithout(S) \in [Nodes -> {"down", "transfer", "up"}]
  BY DEF Types, LinkWithout
<1>2. \A r \in Nodes : CacheOf(r) \in Caches
  BY DEF Types, CacheOf, Caches
<1>3. CachedWithout(S) \in [Nodes -> Caches]
  BY <1>2 DEF Types, CachedWithout
<1>4. TransferWithout(S) \in [Nodes -> Snapshot \cup {NoTransfer}]
  BY DEF Types, TransferWithout
<1> QED
  BY <1>1, <1>3, <1>4

\* A node with a valid ID claims what it holds.
LEMMA HeldClaim ==
  ASSUME NEW n \in Nodes, Valid(n) PROVE Held(n) \in Claims
  BY ClaimsAre

\* The fields of a claim.
LEMMA ClaimFields ==
  ASSUME NEW i, NEW o, NEW l, NEW d
  PROVE  /\ Claim(i, o, l, d).id = i /\ Claim(i, o, l, d).off = o
         /\ Claim(i, o, l, d).len = l /\ Claim(i, o, l, d).data = d
  BY DEF Claim

\* A replica in sync holds a prefix of what its master holds.
LEMMA InSync ==
  ASSUME Types, Links, OneHistory, NEW r \in Nodes, link[r] = "up", NEW m, m = master[r]
  PROVE  /\ m \in Nodes \ {r} /\ replid[r] = replid[m] /\ start[m] # 0 /\ start[r] # 0
         /\ offset[r] <= offset[m]
         /\ Len(data[m]) - Len(data[r]) = offset[m] - offset[r]
         /\ SameUpTo(Len(data[r]), data[r], data[m])
<1>1. /\ m \in Nodes \ {r} /\ replid[r] = replid[m] /\ start[m] # 0
      /\ offset[r] <= offset[m] /\ start[r] # 0
  BY DEF Types, Links, LinksOf, IsMaster
<1>2. Held(r) \in Claims /\ Held(m) \in Claims
  BY <1>1, HeldClaim DEF Valid
<1>3. Point(Held(r), Held(m))
  BY <1>1, <1>2, ClaimFields DEF OneHistory, Agree, Held
<1>4. Held(m).len - Held(r).len = Held(m).off - Held(r).off
  BY <1>3 DEF Point
<1>5. SameUpTo(Held(r).len, Held(r).data, Held(m).data)
  BY <1>3 DEF Point
<1>6. /\ Held(m).len = Len(data[m]) /\ Held(m).off = offset[m] /\ Held(m).data = data[m]
      /\ Held(r).len = Len(data[r]) /\ Held(r).off = offset[r] /\ Held(r).data = data[r]
  BY ClaimFields DEF Held
<1> QED
  BY <1>1, <1>4, <1>5, <1>6

\* What a replica receives is the next write of its master.
LEMMA Received ==
  ASSUME Types, Links, OneHistory, NEW r \in Nodes, Receive(r), NEW m, m = master[r]
  PROVE  /\ m \in Nodes \ {r} /\ replid[r] = replid[m] /\ start[m] # 0 /\ start[r] # 0
         /\ offset[r] + 1 <= offset[m]
         /\ Len(data[m]) - Len(data[r]) = offset[m] - offset[r]
         /\ SameUpTo(Len(data[r]), data[r], data[m])
         /\ StreamAt(m, offset[r] + 1) = data[m][Len(data[r]) + 1]
         /\ StreamAt(m, offset[r] + 1) \in Nat
<1>1. link[r] = "up" /\ offset[r] < offset[m]
  BY DEF Receive
<1>2. m \in Nodes \ {r} /\ replid[r] = replid[m] /\ start[m] # 0 /\ start[r] # 0
  BY <1>1, InSync
<1>3. Len(data[m]) - Len(data[r]) = offset[m] - offset[r]
  BY <1>1, InSync
<1>4. SameUpTo(Len(data[r]), data[r], data[m])
  BY <1>1, InSync
<1>5. /\ offset[r] \in Nat /\ offset[m] \in Nat /\ data[m] \in Seq(Nat) /\ data[r] \in Seq(Nat)
  BY <1>2 DEF Types
<1>6. Len(data[r]) \in Nat /\ Len(data[m]) \in Nat
  BY <1>5, LenProperties
<1>7. /\ Len(data[m]) - offset[m] + (offset[r] + 1) = Len(data[r]) + 1
      /\ Len(data[r]) + 1 \in 1..Len(data[m])
      /\ offset[r] + 1 <= offset[m]
  <2> DEFINE a == Len(data[m])
             b == Len(data[r])
             c == offset[m]
             d == offset[r]
  <2>1. a \in Nat /\ b \in Nat /\ c \in Nat /\ d \in Nat /\ a - b = c - d /\ d < c
    BY <1>1, <1>3, <1>5, <1>6
  <2> HIDE DEF a, b, c, d
  <2>2. a - c + (d + 1) = b + 1 /\ b + 1 \in 1..a /\ d + 1 <= c
    BY <2>1
  <2> QED
    BY <2>2 DEF a, b, c, d
<1>9. data[m][Len(data[r]) + 1] \in Nat
  BY <1>5, <1>7, ElementOfSeq
<1> QED
  BY <1>2, <1>3, <1>4, <1>7, <1>9 DEF StreamAt

-----------------------------------------------------------------------------
\* Several actions change the replication state in the same way: becoming a master, becoming
\* a replica, and leaving it alone.
UnsetStep(n) == Unset(n) /\ UNCHANGED <<storeVars, disk, writes>>
AttachStep(n) ==
  \E m \in Nodes \ {n} : Attach(n, m) /\ UNCHANGED <<idVars, storeVars, disk, writes>>
Quiet == UNCHANGED <<master, link, idVars, storeVars, cached, transfer, disk, writes>>

\* The kinds of steps, as far as the replication state is concerned.
LEMMA NextKinds ==
  ASSUME Types, FailoverTypes, [Next]_vars
  PROVE  Quiet \/ \E n \in Nodes : \/ Write(n) \/ Receive(n) \/ LinkDown(n) \/ FreeBacklog(n)
                                   \/ Continue(n) \/ FullResync(n) \/ Load(n) \/ LoadFails(n)
                                   \/ UnsetStep(n) \/ AttachStep(n) \/ Save(n) \/ Restart(n)
<1>1. CASE UNCHANGED vars
  BY <1>1 DEF vars, Quiet, idVars, storeVars
<1>2. ASSUME NEW n \in Nodes, ReplicaOfNoOne(n) PROVE UnsetStep(n)
  BY <1>2 DEF ReplicaOfNoOne, UnsetStep
<1>3. ASSUME NEW n \in Nodes, NEW m \in Nodes, ReplicaOf(n, m) PROVE AttachStep(n)
  BY <1>3 DEF ReplicaOf, AttachStep
<1>4. ASSUME NEW n \in Nodes, NEW m \in Nodes, NEW force \in BOOLEAN, StartFailover(n, m, force)
      PROVE  Quiet
  BY <1>4 DEF StartFailover, Quiet
<1>5. ASSUME NEW n \in Nodes, UpdateFailover(n) PROVE AttachStep(n)
  <2>1. failover[n].target \in Nodes \ {n}
    BY <1>5 DEF UpdateFailover, FailoverTypes
  <2> QED
    BY <1>5, <2>1 DEF UpdateFailover, AttachStep, bounds
<1>6. ASSUME NEW n \in Nodes, RequestFailover(n) PROVE \E t \in Nodes : UnsetStep(t)
  <2>1. failover[n].target \in Nodes
    BY <1>6 DEF RequestFailover, FailoverTypes
  <2> QED
    BY <1>6, <2>1 DEF RequestFailover, UnsetStep, bounds
<1>7. ASSUME NEW n \in Nodes, AbortFailover(n) PROVE Quiet \/ UnsetStep(n)
  BY <1>7 DEF AbortFailover, UnsetStep, Quiet, bounds
<1> QED
  BY <1>1, <1>2, <1>3, <1>4, <1>5, <1>6, <1>7 DEF Next

\* The RDB file of a replica that has received a payload is the one it had, or the payload.
LEMMA FileKept ==
  ASSUME Types, Links, NEW n \in Nodes, Load(n) \/ LoadFails(n)
  PROVE  /\ transfer[n] # NoTransfer /\ transfer[n] \in Snapshot
         /\ disk' \in [Nodes -> Snapshot] /\ disk'[n] \in {disk[n], transfer[n]}
         /\ \A k \in Nodes : k # n => disk'[k] = disk[k]
<1>1. link[n] = "transfer" /\ disk' = FileReceived(n)
  BY DEF Load, LoadFails
<1>2. transfer[n] # NoTransfer /\ transfer[n] \in Snapshot
  BY <1>1 DEF Links, LinksOf, Types
<1>3. disk' = disk \/ disk' = [disk EXCEPT ![n] = transfer[n]]
  BY <1>1 DEF FileReceived
<1> QED
  BY <1>2, <1>3 DEF Types

\* Every step keeps the types.
LEMMA TypesStep ==
  ASSUME Types, FailoverTypes, Sizes, Links, OneHistory, [Next]_vars
  PROVE  Types'
<1>1. CASE Quiet
  BY <1>1 DEF Quiet, idVars, storeVars, Types, Caches, SecondIds, NoCache, CacheOf, NoId2
<1>2. ASSUME NEW n \in Nodes, Write(n) PROVE Types'
  <2>1. writes + 1 \in Nat
    BY DEF Types
  <2>2. \A o \in Nat : o >= offset[n] => Trimmed(n, o) \in Nat
    <3>1. offset[n] \in Nat /\ start[n] \in Nat /\ start[n] <= offset[n] + 1
      BY DEF Types, Sizes, SizesOf
    <3> QED
      BY <3>1, TrimmedBound
  <2>3. Append(data[n], writes + 1) \in Seq(Nat)
    BY <2>1, AppendProperties DEF Types
  <2>4. start' \in [Nodes -> Nat] /\ offset' \in [Nodes -> Nat]
    BY <1>2, <2>2 DEF Write, Types
  <2>5. data' \in [Nodes -> Seq(Nat)] /\ writes' \in Nat
    BY <1>2, <2>1, <2>3 DEF Write, Types
  <2> QED
    BY <1>2, <2>4, <2>5 DEF Write, Types, idVars
<1>3. ASSUME NEW n \in Nodes, Receive(n) PROVE Types'
  <2>1. offset[n] + 1 \in Nat /\ start[n] <= (offset[n] + 1) + 1
    BY DEF Types, Sizes, SizesOf
  <2>2. Trimmed(n, offset[n] + 1) \in Nat
    BY <2>1, TrimmedBound
  <2>3. Append(data[n], StreamAt(master[n], offset[n] + 1)) \in Seq(Nat)
    BY <1>3, Received, AppendProperties DEF Types
  <2> QED
    BY <1>3, <2>1, <2>2, <2>3 DEF Receive, Types, idVars, bounds
<1>4. ASSUME NEW n \in Nodes, LinkDown(n) PROVE Types'
  BY <1>4, WithoutTypes DEF LinkDown, Types, idVars, storeVars
<1>5. ASSUME NEW n \in Nodes, FreeBacklog(n) PROVE Types'
  <2>1. NoId2 \in SecondIds
    BY DEF NoId2, SecondIds
  <2> QED
    BY <1>5, <2>1 DEF FreeBacklog, Types
<1>6. ASSUME NEW n \in Nodes, Continue(n) PROVE Types'
  <2>1. master[n] \in Nodes
    BY <1>6 DEF Continue, Asks, IsMaster, Types
  <2>2. [id |-> cached[n].id, upto |-> offset[n] + 1] \in SecondIds
    BY DEF Types, SecondIds, Caches
  <2>3. NoCache \in Caches
    BY DEF NoCache, SecondIds, Caches
  <2>4. replid' \in [Nodes -> Nat] /\ start' \in [Nodes -> Nat]
    BY <1>6, <2>1 DEF Continue, Types
  <2>6. replid2' \in [Nodes -> SecondIds]
    BY <1>6, <2>2 DEF Continue, Types
  <2>5. /\ link' \in [Nodes -> {"down", "transfer", "up"}] /\ cached' \in [Nodes -> Caches]
        /\ transfer' \in [Nodes -> Snapshot \cup {NoTransfer}]
    BY <1>6, <2>3, WithoutTypes DEF Continue
  <2> QED
    BY <1>6, <2>4, <2>5, <2>6 DEF Continue, Types, bounds
<1>7. ASSUME NEW n \in Nodes, FullResync(n) PROVE Types'
  <2>1. master[n] \in Nodes
    BY <1>7 DEF FullResync, Asks, IsMaster, Types
  <2>2. \A id \in Nat :
          [data |-> data[master[n]], id |-> id, off |-> offset[master[n]]] \in Snapshot
    BY <2>1 DEF Types, Snapshot
  <2>3. NoId2 \in SecondIds
    BY DEF NoId2, SecondIds, Caches
  <2>4. replid' \in [Nodes -> Nat] /\ start' \in [Nodes -> Nat] /\ nextId' \in Nat
    BY <1>7, <2>1 DEF FullResync, Types
  <2>6. replid2' \in [Nodes -> SecondIds]
    BY <1>7, <2>3 DEF FullResync, Types
  <2>5. /\ link' \in [Nodes -> {"down", "transfer", "up"}]
        /\ transfer' \in [Nodes -> Snapshot \cup {NoTransfer}]
    BY <1>7, <2>1, <2>2 DEF FullResync, Types
  <2> QED
    BY <1>7, <2>4, <2>5, <2>6 DEF FullResync, Types, bounds
<1>8. ASSUME NEW n \in Nodes, Load(n) PROVE Types'
  <2>1. transfer[n] \in Snapshot /\ transfer[n].off \in Nat
    BY <1>8 DEF Load, Links, LinksOf, Types, Sizes, SizesOf
  <2>2. transfer[n].data \in Seq(Nat) /\ transfer[n].id \in Nat
    BY <2>1 DEF Snapshot
  <2>3. NoCache \in Caches /\ NoId2 \in SecondIds
    BY DEF NoCache, NoId2, SecondIds, Caches
  <2>4. /\ data' \in [Nodes -> Seq(Nat)] /\ offset' \in [Nodes -> Nat]
        /\ start' \in [Nodes -> Nat]
        /\ replid' \in [Nodes -> Nat] /\ replid2' \in [Nodes -> SecondIds]
    BY <1>8, <2>1, <2>2, <2>3 DEF Load, Types
  <2>5. /\ link' \in [Nodes -> {"down", "transfer", "up"}] /\ cached' \in [Nodes -> Caches]
        /\ transfer' \in [Nodes -> Snapshot \cup {NoTransfer}]
    BY <1>8, <2>3, WithoutTypes DEF Load
  <2> QED
    BY <1>8, <2>4, <2>5, FileKept DEF Load, Types, bounds
<1>9. ASSUME NEW n \in Nodes, LoadFails(n) PROVE Types'
  <2>1. NoCache \in Caches /\ <<>> \in Seq(Nat)
    BY EmptySeq DEF NoCache, SecondIds, Caches
  <2>2. /\ link' \in [Nodes -> {"down", "transfer", "up"}] /\ cached' \in [Nodes -> Caches]
        /\ transfer' \in [Nodes -> Snapshot \cup {NoTransfer}]
    BY <1>9, <2>1, WithoutTypes DEF LoadFails, CacheDiscarded
  <2> QED
    BY <1>9, <2>1, <2>2, FileKept DEF LoadFails, Types, idVars
<1>10. ASSUME NEW n \in Nodes, UnsetStep(n) PROVE Types'
  <2>1. NoCache \in Caches /\ SecondId(n) \in SecondIds
    BY DEF NoCache, SecondId, Types, SecondIds, Caches
  <2>2. /\ link' \in [Nodes -> {"down", "transfer", "up"}] /\ cached' \in [Nodes -> Caches]
        /\ transfer' \in [Nodes -> Snapshot \cup {NoTransfer}]
    BY <1>10, <2>1, WithoutTypes DEF UnsetStep, Unset
  <2>3. replid2' \in [Nodes -> SecondIds] /\ replid' \in [Nodes -> Nat] /\ nextId' \in Nat
    BY <1>10, <2>1 DEF UnsetStep, Unset, Types
  <2> QED
    BY <1>10, <2>2, <2>3 DEF UnsetStep, Unset, Types, storeVars
<1>11. ASSUME NEW n \in Nodes, AttachStep(n) PROVE Types'
  <2>1. CacheOf(n) \in Caches
    BY DEF CacheOf, Types, SecondIds, Caches
  <2>2. /\ link' \in [Nodes -> {"down", "transfer", "up"}] /\ cached' \in [Nodes -> Caches]
        /\ transfer' \in [Nodes -> Snapshot \cup {NoTransfer}]
    <3>1. link' = LinkWithout({n}) /\ transfer' = TransferWithout({n})
      BY <1>11 DEF AttachStep, Attach
    <3>2. cached' = [cached EXCEPT ![n] = CacheOf(n)] \/ cached' = CachedWithout({n})
      BY <1>11 DEF AttachStep, Attach
    <3>3. cached' \in [Nodes -> Caches]
      BY <2>1, <3>2, WithoutTypes DEF Types
    <3> QED
      BY <3>1, <3>3, WithoutTypes
  <2> QED
    BY <1>11, <2>2 DEF AttachStep, Attach, Types, idVars, storeVars
<1>12. ASSUME NEW n \in Nodes, Save(n) PROVE Types'
  <2>1. /\ [data |-> data[n], id |-> replid[n], off |-> offset[n]] \in Snapshot
        /\ [data |-> data[n], id |-> 0, off |-> -1] \in Snapshot
    BY DEF Snapshot, Types
  <2> QED
    BY <1>12, <2>1 DEF Save, Types, idVars, storeVars
<1>13. ASSUME NEW n \in Nodes, Restart(n) PROVE Types'
  <2>1. disk[n] \in Snapshot /\ (disk[n].id # 0 => disk[n].off \in Nat)
    BY DEF Types, Sizes, SizesOf
  <2>2. /\ disk[n].data \in Seq(Nat) /\ disk[n].id \in Nat
        /\ Append(disk[n].data, writes + 1) \in Seq(Nat)
    BY <2>1, AppendProperties DEF Snapshot, Types
  <2>3. RestartedIds(n).id \in Nat /\ RestartedIds(n).id2 \in SecondIds
    BY <2>1, <2>2 DEF RestartedIds, NoId2, Types, SecondIds, Caches
  <2>4. /\ NoCache \in Caches
        /\ (disk[n].id # 0 => [id |-> disk[n].id, off |-> disk[n].off] \in Caches)
    BY <2>1, <2>2 DEF NoCache, SecondIds, Caches
  <2>5. /\ link' \in [Nodes -> {"down", "transfer", "up"}] /\ cached' \in [Nodes -> Caches]
        /\ transfer' \in [Nodes -> Snapshot \cup {NoTransfer}]
    BY <1>13, <2>4, WithoutTypes DEF Restart, Types
  <2>6. /\ data' \in [Nodes -> Seq(Nat)] /\ offset' \in [Nodes -> Nat]
        /\ start' \in [Nodes -> Nat] /\ writes' \in Nat
    BY <1>13, <2>1, <2>2 DEF Restart, Types
  <2>7. replid' \in [Nodes -> Nat] /\ replid2' \in [Nodes -> SecondIds] /\ nextId' \in Nat
    BY <1>13, <2>3 DEF Restart, Types
  <2> QED
    BY <1>13, <2>5, <2>6, <2>7 DEF Restart, Types
<1> QED
  BY <1>1, <1>2, <1>3, <1>4, <1>5, <1>6, <1>7, <1>8, <1>9, <1>10, <1>11, <1>12, <1>13,
     NextKinds

\* Every step keeps the types of the failover state.
LEMMA FailoverTypesStep ==
  ASSUME Types, FailoverTypes, Links, [Next]_vars
  PROVE  FailoverTypes'
<1> DEFINE F == [state : {"none", "wait", "progress", "asked"},
                 target : Nodes \cup {None}, force : BOOLEAN]
<1>1. NoFailover \in F /\ NoFailover.state = "none"
  BY DEF NoFailover
<1>2. ASSUME UNCHANGED failover PROVE FailoverTypes'
  BY <1>2 DEF FailoverTypes
<1>3. ASSUME NEW n \in Nodes, NEW f \in F, failover' = [failover EXCEPT ![n] = f],
             f.state = "none" \/ f.target \in Nodes \ {n}
      PROVE  FailoverTypes'
  BY <1>3 DEF FailoverTypes
<1>4. ASSUME NEW n \in Nodes, NEW m \in Nodes, NEW force \in BOOLEAN, StartFailover(n, m, force)
      PROVE  FailoverTypes'
  <2>1. m # n
    BY <1>4 DEF StartFailover, Links, LinksOf, Slaves
  <2>2. [state |-> "wait", target |-> m, force |-> force] \in F
    OBVIOUS
  <2>3. failover' = [failover EXCEPT ![n] = [state |-> "wait", target |-> m, force |-> force]]
    BY <1>4 DEF StartFailover
  <2> QED
    BY <1>3, <2>1, <2>2, <2>3
<1>5. ASSUME NEW n \in Nodes, NEW s \in {"progress", "asked"}, failover[n].state # "none",
             failover' = [failover EXCEPT ![n].state = s]
      PROVE  FailoverTypes'
  BY <1>5 DEF FailoverTypes
<1>6. ASSUME NEW n \in Nodes, UpdateFailover(n) PROVE FailoverTypes'
  BY <1>5, <1>6 DEF UpdateFailover
<1>7. ASSUME NEW n \in Nodes, RequestFailover(n) PROVE FailoverTypes'
  BY <1>5, <1>7 DEF RequestFailover
<1>8. ASSUME NEW n \in Nodes, failover' = [failover EXCEPT ![n] = NoFailover]
      PROVE  FailoverTypes'
  BY <1>1, <1>3, <1>8
<1>9. ASSUME NEW n \in Nodes, Continue(n) \/ FullResync(n) \/ AbortFailover(n) \/ Restart(n)
      PROVE  FailoverTypes'
  BY <1>8, <1>9 DEF Continue, FullResync, AbortFailover, Restart
<1>10. ASSUME NEW n \in Nodes,
              \/ Write(n) \/ Receive(n) \/ LinkDown(n) \/ FreeBacklog(n) \/ Load(n)
              \/ LoadFails(n) \/ ReplicaOfNoOne(n)
                \/ Save(n) \/ \E m \in Nodes : ReplicaOf(n, m)
       PROVE  FailoverTypes'
  BY <1>2, <1>10
  DEF Write, Receive, LinkDown, FreeBacklog, Load, LoadFails, ReplicaOfNoOne, Save, ReplicaOf
<1> QED
  BY <1>2, <1>4, <1>6, <1>7, <1>9, <1>10 DEF Next, vars

\* The sizes of a node that a step leaves alone: the number of writes only grows.
LEMMA SizesKept ==
  ASSUME Types, Sizes, NEW k \in Nodes, writes' \in Nat, writes <= writes',
         offset'[k] = offset[k], start'[k] = start[k], data'[k] = data[k], disk'[k] = disk[k],
         transfer'[k] \in {transfer[k], NoTransfer}
  PROVE  SizesOf(k)'
<1>1. \A i \in Int : (i <= writes => i <= writes') /\ (i \in 0..writes => i \in 0..writes')
  BY DEF Types
<1>2. /\ offset[k] \in Int /\ Len(data[k]) \in Int /\ Len(disk[k].data) \in Int
      /\ disk[k].off \in Int
  <2>1. offset[k] \in Nat /\ data[k] \in Seq(Nat) /\ disk[k] \in Snapshot
    BY DEF Types
  <2>2. disk[k].data \in Seq(Nat) /\ disk[k].off \in Int
    BY <2>1 DEF Snapshot
  <2> QED
    BY <2>1, <2>2, LenProperties
<1>3. transfer[k] # NoTransfer => Len(transfer[k].data) \in Int /\ transfer[k].off \in Int
  <2>1. transfer[k] # NoTransfer => transfer[k] \in Snapshot
    BY DEF Types
  <2>2. transfer[k] # NoTransfer => transfer[k].data \in Seq(Nat) /\ transfer[k].off \in Int
    BY <2>1 DEF Snapshot
  <2> QED
    BY <2>2, LenProperties
<1>4. SizesOf(k)
  BY DEF Sizes
<1>5. offset'[k] <= writes' /\ Len(data'[k]) <= writes' /\ start'[k] <= offset'[k] + 1
  BY <1>1, <1>2, <1>4, Zenon DEF SizesOf
<1>6. Len(disk'[k].data) <= writes' /\ (disk'[k].id # 0 => disk'[k].off \in 0..writes')
  BY <1>1, <1>2, <1>4, Zenon DEF SizesOf
<1>7. transfer'[k] # NoTransfer =>
        transfer'[k].off \in 0..writes' /\ Len(transfer'[k].data) <= writes'
  BY <1>1, <1>3, <1>4, Zenon DEF SizesOf
<1> QED
  BY <1>5, <1>6, <1>7 DEF SizesOf

\* Every step keeps the sizes.
LEMMA SizesStep ==
  ASSUME Types, FailoverTypes, Sizes, Links, OneHistory, [Next]_vars
  PROVE  Sizes'
<1>1. CASE Quiet
  BY <1>1 DEF Quiet, idVars, storeVars, Types, Sizes, SizesOf
<1>2. ASSUME NEW n \in Nodes, Write(n) PROVE Sizes'
  <2>1. /\ SizesOf(n) /\ offset[n] \in Nat /\ start[n] \in Nat /\ writes \in Nat
        /\ data[n] \in Seq(Nat)
        /\ writes < MaxWrites /\ writes' = writes + 1 /\ MaxWrites \in Nat
    BY <1>2, BoundAssumption DEF Types, Sizes, Write
  <2>2. \A o \in {offset[n], offset[n] + 1} : Trimmed(n, o) \in Nat /\ Trimmed(n, o) <= o + 1
    <3> SUFFICES ASSUME NEW o \in {offset[n], offset[n] + 1}
                 PROVE  Trimmed(n, o) \in Nat /\ Trimmed(n, o) <= o + 1
      OBVIOUS
    <3>1. start[n] <= offset[n] + 1
      BY <2>1 DEF SizesOf
    <3>2. offset[n] \in Nat /\ start[n] \in Nat
      BY <2>1
    <3>3. o \in Nat /\ start[n] <= o + 1
      BY <3>1, <3>2
    <3> QED
      BY <3>3, TrimmedBound
  <2>3. offset'[n] \in {offset[n], offset[n] + 1} /\ start'[n] = Trimmed(n, offset'[n])
    BY <1>2, <2>1 DEF Write, Types
  <2>4. Len(data'[n]) = Len(data[n]) + 1 /\ Len(data[n]) \in Nat
    BY <1>2, <2>1, AppendProperties, LenProperties DEF Write, Types
  <2>5. transfer'[n] = transfer[n] /\ disk'[n] = disk[n]
    BY <1>2 DEF Write
  <2>6. Len(disk[n].data) \in Nat /\ (transfer[n] # NoTransfer => Len(transfer[n].data) \in Nat)
    BY LenProperties DEF Types, Snapshot
  <2>7. SizesOf(n)'
    <3>1. offset'[n] <= writes' /\ start'[n] <= offset'[n] + 1
      BY <2>1, <2>2, <2>3 DEF SizesOf
    <3>2. Len(data'[n]) <= writes'
      BY <2>1, <2>4 DEF SizesOf
    <3>3. /\ Len(disk[n].data) <= writes + 1
          /\ transfer[n] # NoTransfer =>
               transfer[n].off \in 0..(writes + 1) /\ Len(transfer[n].data) <= writes + 1
          /\ disk[n].id # 0 => disk[n].off \in 0..(writes + 1)
      BY <2>1, <2>6 DEF SizesOf
    <3> QED
      BY <2>1, <2>5, <3>1, <3>2, <3>3 DEF SizesOf
  <2>8. ASSUME NEW k \in Nodes, k # n PROVE SizesOf(k)'
    <3>1. /\ offset'[k] = offset[k] /\ start'[k] = start[k] /\ data'[k] = data[k]
          /\ transfer'[k] = transfer[k] /\ disk'[k] = disk[k]
      BY <1>2, <2>8 DEF Write, Types
    <3>2. writes <= writes' /\ writes' \in Nat
      BY <2>1
    <3> QED
      BY <3>1, <3>2, SizesKept
  <2> QED
    BY <2>1, <2>7, <2>8 DEF Sizes
<1>3. ASSUME NEW n \in Nodes, Receive(n) PROVE Sizes'
  <2> DEFINE m == master[n]
  <2>1. /\ m \in Nodes /\ SizesOf(n) /\ SizesOf(m)
        /\ offset[n] + 1 <= offset[m] /\ Len(data[m]) - Len(data[n]) = offset[m] - offset[n]
    BY <1>3, Received DEF Sizes
  <2>2. /\ offset[n] \in Nat /\ offset[m] \in Nat /\ start[n] \in Nat /\ writes \in Nat
        /\ data[n] \in Seq(Nat)
        /\ data[m] \in Seq(Nat) /\ writes' = writes
    BY <1>3, <2>1 DEF Types, Receive, bounds
  <2>3. start'[n] <= offset[n] + 1 + 1
    <3>1. offset[n] + 1 \in Nat /\ start[n] <= (offset[n] + 1) + 1
      BY DEF Types, Sizes, SizesOf
    <3> QED
      BY <1>3, <3>1, TrimmedBound DEF Receive, Types
  <2>4. Len(data'[n]) = Len(data[n]) + 1 /\ Len(data[n]) \in Nat /\ Len(data[m]) \in Nat
    BY <1>3, <2>2, Received, AppendProperties, LenProperties DEF Receive, Types
  <2>5. transfer'[n] = transfer[n] /\ disk'[n] = disk[n] /\ offset'[n] = offset[n] + 1
    BY <1>3 DEF Receive, Types
  <2>6. Len(data'[n]) <= writes
    <3> DEFINE a == Len(data[m])
               b == Len(data[n])
               c == offset[m]
               d == offset[n]
    <3>1. /\ a \in Nat /\ b \in Nat /\ c \in Nat /\ d \in Nat /\ a - b = c - d /\ d + 1 <= c
          /\ a <= writes
      BY <2>1, <2>2, <2>4 DEF SizesOf
    <3> HIDE DEF a, b, c, d
    <3>2. b + 1 <= writes
      BY <2>2, <3>1
    <3> QED
      BY <2>4, <3>2 DEF b
  <2>7. SizesOf(n)'
    BY <2>1, <2>2, <2>3, <2>5, <2>6 DEF SizesOf
  <2>8. ASSUME NEW k \in Nodes, k # n PROVE SizesOf(k)'
    BY <1>3, <2>8 DEF Receive, Types, Sizes, SizesOf, bounds
  <2> QED
    BY <1>3, <2>7, <2>8 DEF Sizes, Receive, bounds
<1>4. ASSUME NEW n \in Nodes, LinkDown(n) PROVE Sizes'
  BY <1>4
  DEF Types, Sizes, SizesOf, LinkDown, idVars, storeVars, LinkWithout, CachedWithout,
      TransferWithout
<1>5. ASSUME NEW n \in Nodes, FreeBacklog(n) PROVE Sizes'
  <2> SUFFICES ASSUME NEW k \in Nodes PROVE SizesOf(k)'
    BY <1>5 DEF Sizes, FreeBacklog
  <2>1. start'[k] = start[k] \/ start'[k] = 0
    BY <1>5 DEF FreeBacklog, Types
  <2>2. /\ offset'[k] = offset[k] /\ data'[k] = data[k] /\ transfer'[k] = transfer[k]
        /\ disk'[k] = disk[k] /\ writes' = writes
    BY <1>5 DEF FreeBacklog
  <2>3. SizesOf(k) /\ offset[k] \in Nat
    BY DEF Sizes, Types
  <2> QED
    BY <2>1, <2>2, <2>3 DEF SizesOf
<1>6. ASSUME NEW n \in Nodes, Continue(n) PROVE Sizes'
  <2>1. ASSUME NEW k \in Nodes PROVE SizesOf(k)'
    <3>1. SizesOf(k) /\ offset[k] \in Nat /\ start[k] \in Nat
      BY DEF Sizes, Types
    <3>2. start'[k] = start[k] \/ start'[k] = offset[k] + 1
      BY <1>6 DEF Continue, Types
    <3>3. transfer'[k] = transfer[k] \/ transfer'[k] = NoTransfer
      BY <1>6 DEF Continue, TransferWithout, Types
    <3> QED
      BY <1>6, <3>1, <3>2, <3>3 DEF Continue, SizesOf, bounds
  <2> QED
    BY <1>6, <2>1 DEF Sizes, Continue, bounds
<1>7. ASSUME NEW n \in Nodes, FullResync(n) PROVE Sizes'
  <2> DEFINE m == master[n]
  <2>1. m \in Nodes /\ SizesOf(m) /\ offset[m] \in Nat
    BY <1>7 DEF FullResync, Asks, IsMaster, Types, Sizes
  <2>2. ASSUME NEW k \in Nodes PROVE SizesOf(k)'
    <3>1. SizesOf(k) /\ offset[k] \in Nat /\ start[k] \in Nat
      BY DEF Sizes, Types
    <3>2. start'[k] = start[k] \/ start'[k] = offset[k] + 1
      BY <1>7, <2>1 DEF FullResync, Types
    <3>3. \/ transfer'[k] = transfer[k]
          \/ (transfer'[k].data = data[m] /\ transfer'[k].off = offset[m])
      BY <1>7, <2>1 DEF FullResync, Types
    <3>4. /\ data'[k] = data[k] /\ offset'[k] = offset[k] /\ disk'[k] = disk[k]
          /\ writes' = writes
      BY <1>7 DEF FullResync, bounds
    <3> QED
      BY <2>1, <3>1, <3>2, <3>3, <3>4 DEF SizesOf
  <2> QED
    BY <1>7, <2>2 DEF Sizes, FullResync, bounds
<1>8. ASSUME NEW n \in Nodes, Load(n) PROVE Sizes'
  <2>1. transfer[n] # NoTransfer /\ SizesOf(n)
    BY <1>8 DEF Load, Links, LinksOf, Sizes
  <2>2. SizesOf(n)'
    <3>1. /\ data'[n] = transfer[n].data /\ offset'[n] = transfer[n].off
          /\ start'[n] = transfer[n].off + 1
          /\ disk'[n] \in {disk[n], transfer[n]} /\ writes' = writes
      BY <1>8, FileKept DEF Load, Types, bounds
    <3>2. transfer'[n] = NoTransfer
      BY <1>8 DEF Load, TransferWithout
    <3> QED
      BY <2>1, <3>1, <3>2 DEF SizesOf
  <2>3. ASSUME NEW k \in Nodes, k # n PROVE SizesOf(k)'
    <3>1. transfer'[k] = transfer[k] \/ transfer'[k] = NoTransfer
      BY <1>8 DEF Load, TransferWithout
    <3> QED
      BY <1>8, <2>3, <3>1, FileKept DEF Load, Types, Sizes, SizesOf, bounds
  <2> QED
    BY <1>8, <2>2, <2>3 DEF Sizes, Load, bounds
<1>9. ASSUME NEW n \in Nodes, LoadFails(n) PROVE Sizes'
  <2>1. /\ transfer[n] # NoTransfer /\ disk'[n] \in {disk[n], transfer[n]}
        /\ \A k \in Nodes : k # n => disk'[k] = disk[k]
    BY <1>9, FileKept
  <2>2. ASSUME NEW k \in Nodes PROVE SizesOf(k)'
    <3>1. /\ offset' = offset /\ writes' = writes
          /\ data'[k] \in {data[k], <<>>} /\ start'[k] \in {start[k], 0}
          /\ transfer'[k] \in {transfer[k], NoTransfer}
      BY <1>9 DEF LoadFails, TransferWithout, Types
    <3>2. SizesOf(k) /\ Len(<<>>) = 0 /\ writes \in Nat /\ offset[k] \in Nat
      BY DEF Sizes, Types
    <3>3. /\ Len(disk'[k].data) <= writes
          /\ disk'[k].id # 0 => disk'[k].off \in 0..writes
      BY <2>1, <3>2 DEF Sizes, SizesOf
    <3> QED
      BY <3>1, <3>2, <3>3 DEF SizesOf
  <2> QED
    BY <1>9, <2>2 DEF Sizes, LoadFails
<1>10. ASSUME NEW n \in Nodes, UnsetStep(n) PROVE Sizes'
  BY <1>10
  DEF Types, Sizes, SizesOf, UnsetStep, Unset, storeVars, LinkWithout, CachedWithout,
      TransferWithout
<1>11. ASSUME NEW n \in Nodes, AttachStep(n) PROVE Sizes'
  BY <1>11
  DEF Types, Sizes, SizesOf, AttachStep, Attach, idVars, storeVars, LinkWithout, CachedWithout,
      TransferWithout
<1>12. ASSUME NEW n \in Nodes, Save(n) PROVE Sizes'
  BY <1>12 DEF Types, Sizes, SizesOf, Save, idVars, storeVars
<1>13. ASSUME NEW n \in Nodes, Restart(n) PROVE Sizes'
  <2> DEFINE saved == disk[n].id # 0
  <2>1. /\ SizesOf(n) /\ writes \in Nat /\ disk[n].data \in Seq(Nat)
        /\ (saved => disk[n].off \in Nat) /\ MaxWrites \in Nat
    BY BoundAssumption DEF Types, Sizes, SizesOf, Snapshot
  <2>2. PICK e \in {0, 1} :
          /\ e = 1 => saved /\ writes < MaxWrites
          /\ writes' = writes + e
          /\ data' = [data EXCEPT ![n] = IF e = 1 THEN Append(disk[n].data, writes + 1)
                                         ELSE disk[n].data]
          /\ offset' = [offset EXCEPT ![n] = IF saved THEN disk[n].off + e ELSE 0]
    <3>1. PICK e \in IF saved /\ IsMaster(n) /\ writes < MaxWrites THEN {0, 1} ELSE {0} :
          /\ writes' = writes + e
          /\ data' = [data EXCEPT ![n] = IF e = 1 THEN Append(disk[n].data, writes + 1)
                                         ELSE disk[n].data]
          /\ offset' = [offset EXCEPT ![n] = IF saved THEN disk[n].off + e ELSE 0]
      BY <1>13, Zenon DEF Restart
    <3>2. e \in {0, 1} /\ (e = 1 => saved /\ writes < MaxWrites)
      OBVIOUS
    <3> QED
      BY <3>1, <3>2, Zenon
  <2>3. /\ Len(disk[n].data) \in Nat
        /\ Len(Append(disk[n].data, writes + 1)) = Len(disk[n].data) + 1
    BY <2>1, LenProperties, AppendProperties
  <2>4. data'[n] = (IF e = 1 THEN Append(disk[n].data, writes + 1) ELSE disk[n].data)
    BY <2>2 DEF Types
  <2>5. Len(data'[n]) <= writes'
    BY <2>1, <2>2, <2>3, <2>4 DEF SizesOf
  <2>6. /\ offset'[n] = (IF saved THEN disk[n].off + e ELSE 0)
        /\ start'[n] = (IF saved /\ IsMaster(n) THEN disk[n].off + 1 ELSE 0)
        /\ disk' = disk
    BY <1>13, <2>2 DEF Restart, Types
  <2>7. transfer'[n] = NoTransfer
    BY <1>13 DEF Restart, TransferWithout
  <2>8. SizesOf(n)'
    <3>1. offset'[n] <= writes' /\ start'[n] <= offset'[n] + 1
      <4>1. CASE saved
        <5>1. disk[n].off \in Nat /\ disk[n].off <= writes
          BY <2>1, <4>1 DEF SizesOf
        <5>2. offset'[n] = disk[n].off + e /\ start'[n] \in {0, disk[n].off + 1}
          BY <2>6, <4>1
        <5>3. writes \in Nat /\ e \in {0, 1} /\ writes' = writes + e
          BY <2>1, <2>2
        <5> QED
          BY <5>1, <5>2, <5>3
      <4>2. CASE ~saved
        BY <2>1, <2>2, <2>6, <4>2
      <4> QED
        BY <4>1, <4>2
    <3>2. Len(disk'[n].data) <= writes' /\ (disk'[n].id # 0 => disk'[n].off \in 0..writes')
      <4>1. Len(disk[n].data) \in Nat /\ Len(disk[n].data) <= writes
        BY <2>1, <2>3 DEF SizesOf
      <4>2. disk[n].id # 0 => disk[n].off \in 0..writes
        BY <2>1 DEF SizesOf
      <4>3. writes \in Nat /\ writes' \in Nat /\ writes <= writes'
        BY <2>1, <2>2
      <4> QED
        BY <2>6, <4>1, <4>2, <4>3
    <3> QED
      BY <2>5, <2>7, <3>1, <3>2 DEF SizesOf
  <2>9. ASSUME NEW k \in Nodes, k # n PROVE SizesOf(k)'
    <3>1. transfer'[k] \in {transfer[k], NoTransfer}
      BY <1>13 DEF Restart, TransferWithout
    <3>2. data'[k] = data[k] /\ offset'[k] = offset[k] /\ start'[k] = start[k]
      BY <1>13, <2>2, <2>9 DEF Restart, Types
    <3>3. writes <= writes' /\ writes' \in Nat
      BY <2>1, <2>2
    <3> QED
      BY <2>6, <3>1, <3>2, <3>3, SizesKept
  <2> QED
    BY <2>1, <2>2, <2>8, <2>9 DEF Sizes
<1> QED
  BY <1>1, <1>2, <1>3, <1>4, <1>5, <1>6, <1>7, <1>8, <1>9, <1>10, <1>11, <1>12, <1>13,
     NextKinds

\* Every step keeps what links mean.
LEMMA LinksStep ==
  ASSUME Types, FailoverTypes, Sizes, Links, OneHistory, [Next]_vars
  PROVE  Links'
<1>1. CASE Quiet
  BY <1>1 DEF Quiet, idVars, storeVars, Types, Links, LinksOf, IsMaster, CacheOf, Slaves
<1>2. ASSUME NEW n \in Nodes, Write(n) PROVE Links'
  <2> SUFFICES ASSUME NEW k \in Nodes PROVE LinksOf(k)'
    BY DEF Links
  <2>a. LinksOf(k) /\ LinksOf(n)
    BY DEF Links
  <2>1. \A j \in Nodes : offset[j] \in Nat /\ start[j] \in Nat /\ start[j] <= offset[j] + 1
    BY DEF Types, Sizes, SizesOf
  <2>2. \A o \in Nat : o >= offset[n] => (Trimmed(n, o) = 0 <=> start[n] = 0)
    BY <2>1, TrimmedBound
  <2>3. \A j \in Nodes : /\ start'[j] = 0 <=> start[j] = 0
                         /\ offset'[j] >= offset[j] /\ offset'[j] \in Nat
                         /\ j # n => offset'[j] = offset[j]
    <3>1. PICK step \in {0, 1} : /\ offset' = [offset EXCEPT ![n] = @ + step]
                                /\ start' = [start EXCEPT ![n] = Trimmed(n, offset[n] + step)]
      BY <1>2 DEF Write
    <3>2. offset[n] + step \in Nat /\ offset[n] + step >= offset[n]
      BY <2>1
    <3>3. Trimmed(n, offset[n] + step) = 0 <=> start[n] = 0
      BY <2>2, <3>2
    <3>4. \A j \in Nodes : j # n => offset'[j] = offset[j] /\ start'[j] = start[j]
      BY <3>1 DEF Types
    <3>5. offset'[n] = offset[n] + step /\ start'[n] = Trimmed(n, offset[n] + step)
      BY <3>1 DEF Types
    <3>6. /\ start'[n] = 0 <=> start[n] = 0
          /\ offset'[n] >= offset[n] /\ offset'[n] \in Nat
      BY <3>2, <3>3, <3>5
    <3>7. \A j \in Nodes : offset[j] >= offset[j]
      BY <2>1
    <3> QED
      BY <2>1, <3>4, <3>6, <3>7
  <2>4. /\ master' = master /\ link' = link /\ replid' = replid /\ cached' = cached
        /\ transfer' = transfer
        /\ master[n] = None
    BY <1>2 DEF Write, idVars, IsMaster
  <2>5. link[n] = "down" /\ cached[n] = NoCache
    BY <2>a, <2>4 DEF LinksOf, IsMaster
  <2>6. CASE link[k] = "down"
    BY <2>a, <2>3, <2>4, <2>5, <2>6 DEF LinksOf, IsMaster, CacheOf
  <2>7. CASE link[k] # "down"
    <3>1. master[k] \in Nodes /\ k # n
      BY <2>a, <2>5, <2>7 DEF LinksOf, IsMaster, Types
    <3>2. transfer[k] # NoTransfer => transfer[k].off \in Nat
      BY DEF Sizes, SizesOf, Types
    <3> QED
      BY <2>a, <2>1, <2>3, <2>4, <2>7, <3>1, <3>2 DEF LinksOf, IsMaster, CacheOf
  <2> QED
    BY <2>6, <2>7
<1>3. ASSUME NEW n \in Nodes, Receive(n) PROVE Links'
  <2> SUFFICES ASSUME NEW k \in Nodes PROVE LinksOf(k)'
    BY DEF Links
  <2>a. LinksOf(k) /\ LinksOf(n)
    BY DEF Links
  <2>1. \A j \in Nodes : offset[j] \in Nat /\ start[j] \in Nat /\ start[j] <= offset[j] + 1
    BY DEF Types, Sizes, SizesOf
  <2>2. offset[n] + 1 \in Nat /\ start[n] <= (offset[n] + 1) + 1
    BY <2>1
  <2>3. Trimmed(n, offset[n] + 1) = 0 <=> start[n] = 0
    BY <2>2, TrimmedBound
  <2>4. /\ master' = master /\ link' = link /\ replid' = replid /\ cached' = cached
        /\ transfer' = transfer
        /\ link[n] = "up" /\ offset[n] < offset[master[n]]
        /\ offset' = [offset EXCEPT ![n] = @ + 1]
        /\ start' = [start EXCEPT ![n] = Trimmed(n, offset[n] + 1)]
    BY <1>3 DEF Receive, idVars
  <2>5. \A j \in Nodes : /\ start'[j] = 0 <=> start[j] = 0
                         /\ offset'[j] = IF j = n THEN offset[j] + 1 ELSE offset[j]
    BY <2>3, <2>4 DEF Types
  <2>6. cached[n] = NoCache /\ master[n] \in Nodes \ {n} /\ offset[n] + 1 <= offset[master[n]]
    BY <2>a, <2>1, <2>4 DEF LinksOf, IsMaster, Types
  <2>7. CASE link[k] = "down"
    BY <2>a, <2>4, <2>5, <2>6, <2>7 DEF LinksOf, IsMaster, CacheOf
  <2>8. CASE link[k] # "down"
    <3>1. master[k] \in Nodes \ {k}
      BY <2>a, <2>8 DEF LinksOf, IsMaster, Types
    <3>2. transfer[k] # NoTransfer => transfer[k].off \in Nat
      BY DEF Sizes, SizesOf, Types
    <3> QED
      BY <2>a, <2>1, <2>4, <2>5, <2>6, <2>8, <3>1, <3>2 DEF LinksOf, IsMaster, CacheOf
  <2> QED
    BY <2>7, <2>8
<1>4. ASSUME NEW n \in Nodes, LinkDown(n) PROVE Links'
  <2> SUFFICES ASSUME NEW k \in Nodes PROVE LinksOf(k)'
    BY DEF Links
  <2> QED
    BY <1>4
    DEF Links, Types, LinkDown, idVars, storeVars, LinkWithout, CachedWithout, TransferWithout,
        LinksOf, IsMaster, CacheOf, Slaves
<1>5. ASSUME NEW n \in Nodes, FreeBacklog(n) PROVE Links'
  <2> SUFFICES ASSUME NEW k \in Nodes PROVE LinksOf(k)'
    BY DEF Links
  <2> QED
    BY <1>5 DEF Links, Types, FreeBacklog, LinksOf, IsMaster, CacheOf, Slaves
<1>6. ASSUME NEW n \in Nodes, Continue(n) PROVE Links'
  <2> SUFFICES ASSUME NEW k \in Nodes PROVE LinksOf(k)'
    BY DEF Links
  <2>a. LinksOf(k) /\ LinksOf(n)
    BY DEF Links
  <2> DEFINE m == master[n]
             S == IF replid[m] # cached[n].id THEN Slaves(n) ELSE {}
  <2>1. m \in Nodes \ {n} /\ link[n] = "down" /\ cached[n] # NoCache /\ start[m] # 0
    BY <1>6, <2>a DEF Continue, Asks, IsMaster, CanContinue, NoBacklog, LinksOf, Types
  <2>2. cached[n].id = replid[n] /\ cached[n].off = offset[n]
    BY <2>a, <2>1 DEF LinksOf, CacheOf
  <2>3. offset[n] <= offset[m]
    BY <1>6, <2>1, <2>2 DEF Continue, CanContinue, Types
  <2>4. /\ master' = master /\ offset' = offset /\ replid' = [replid EXCEPT ![n] = replid[m]]
        /\ link' = [LinkWithout(S) EXCEPT ![n] = "up"]
        /\ cached' = [CachedWithout(S) EXCEPT ![n] = NoCache]
        /\ transfer' = TransferWithout(S)
        /\ start' = IF NoBacklog(n) THEN [start EXCEPT ![n] = offset[n] + 1] ELSE start
    BY <1>6 DEF Continue
  <2>5. start'[n] # 0 /\ (\A j \in Nodes : start[j] # 0 => start'[j] # 0)
    BY <2>4 DEF NoBacklog, Types
  <2>6. n \notin S
    BY <2>1 DEF Slaves
  <2>7. CASE k = n
    <3>1. /\ link'[n] = "up" /\ cached'[n] = NoCache /\ replid'[n] = replid[m]
          /\ replid'[m] = replid[m]
      BY <2>1, <2>4 DEF LinkWithout, CachedWithout, Types
    <3>2. transfer'[n] = NoTransfer
      BY <2>1, <2>4, <2>6, <2>a DEF LinksOf, TransferWithout
    <3> QED
      BY <2>a, <2>1, <2>3, <2>4, <2>5, <2>7, <3>1, <3>2 DEF LinksOf, IsMaster
  <2>8. CASE k # n /\ k \in S
    <3>1. /\ link'[k] = "down" /\ transfer'[k] = NoTransfer
          /\ cached'[k] \in {cached[k], CacheOf(k)} /\ replid'[k] = replid[k]
      BY <2>4, <2>8 DEF LinkWithout, CachedWithout, TransferWithout, Types
    <3>2. master[k] = n
      BY <2>8 DEF Slaves
    <3> QED
      BY <2>a, <2>4, <2>8, <3>1, <3>2, FirstAssumption DEF LinksOf, IsMaster, CacheOf
  <2>9. CASE k # n /\ k \notin S
    <3>1. /\ link'[k] = link[k] /\ transfer'[k] = transfer[k] /\ cached'[k] = cached[k]
          /\ replid'[k] = replid[k]
      BY <2>4, <2>9 DEF LinkWithout, CachedWithout, TransferWithout, Types
    <3>2. link[k] # "down" => replid'[master[k]] = replid[master[k]] /\ master[k] \in Nodes
      BY <2>a, <2>2, <2>4, <2>9 DEF Slaves, Types, LinksOf, IsMaster
    <3> QED
      BY <2>a, <2>4, <2>5, <2>9, <3>1, <3>2 DEF LinksOf, IsMaster, CacheOf
  <2> QED
    BY <2>7, <2>8, <2>9
<1>7. ASSUME NEW n \in Nodes, FullResync(n) PROVE Links'
  <2> SUFFICES ASSUME NEW k \in Nodes PROVE LinksOf(k)'
    BY DEF Links
  <2>a. LinksOf(k) /\ LinksOf(n)
    BY DEF Links
  <2> DEFINE m == master[n]
             fresh == Slaves(m) = {} /\ NoBacklog(m)
             id == IF fresh THEN nextId ELSE replid[m]
             sent == [data |-> data[m], id |-> id, off |-> offset[m]]
  <2>1. m \in Nodes \ {n} /\ link[n] = "down" /\ (IsMaster(m) \/ link[m] = "up")
    BY <1>7, <2>a DEF FullResync, Asks, IsMaster, Accepts, LinksOf, Types
  <2>2. /\ master' = master /\ offset' = offset /\ replid' = [replid EXCEPT ![m] = id]
        /\ link' = [link EXCEPT ![n] = "transfer"] /\ cached' = cached
        /\ transfer' = [transfer EXCEPT ![n] = sent]
        /\ start' = IF fresh THEN [start EXCEPT ![m] = offset[m] + 1] ELSE start
    BY <1>7 DEF FullResync
  <2>3. LinksOf(m) /\ cached[m] = NoCache
    BY <2>1 DEF Links, LinksOf
  <2>4. start'[m] # 0 /\ (\A j \in Nodes : start[j] # 0 => start'[j] # 0)
    <3>1. CASE fresh
      BY <2>1, <2>2, <3>1 DEF NoBacklog, Types
    <3>2. CASE ~fresh
      <4>1. ASSUME NEW j \in Slaves(m) PROVE start[m] # 0
        BY DEF Slaves, Links, LinksOf
      <4> QED
        BY <2>2, <3>2, <4>1 DEF NoBacklog
    <3> QED
      BY <3>1, <3>2
  <2>5. fresh => \A j \in Nodes : link[j] # "down" => master[j] # m
    BY DEF Slaves
  <2>6. CASE k = n
    <3>1. /\ transfer'[n] = sent /\ sent # NoTransfer /\ sent.id = id
          /\ sent.off = offset[m] /\ link'[n] = "transfer"
      BY <2>2, SnapshotIsSome DEF Types
    <3>2. replid'[m] = id /\ replid'[n] = replid[n] /\ offset[m] <= offset[m]
      BY <2>1, <2>2 DEF Types
    <3>3. /\ transfer'[n] # NoTransfer /\ transfer'[n].id = replid'[m]
          /\ transfer'[n].off <= offset[m] /\ link'[n] = "transfer"
      BY <3>1, <3>2
    <3>4. /\ master'[n] = m /\ offset' = offset /\ cached'[n] = cached[n]
          /\ IsMaster(n)' = IsMaster(n) /\ ~IsMaster(n)
      BY <2>1, <2>2, FirstAssumption DEF IsMaster
    <3> HIDE DEF sent, id, fresh
    <3> QED
      BY <2>a, <2>1, <2>4, <2>6, <3>2, <3>3, <3>4 DEF LinksOf, CacheOf
  <2>7. CASE k # n
    <3>1. link'[k] = link[k] /\ transfer'[k] = transfer[k]
      BY <2>2, <2>7 DEF Types
    <3>2. cached[k] # NoCache => replid'[k] = replid[k]
      BY <2>2, <2>3 DEF Types
    <3>3. ASSUME link[k] # "down"
          PROVE  /\ replid'[master[k]] = replid[master[k]] /\ master[k] \in Nodes
                 /\ link[k] = "up" => replid'[k] = replid[k]
      <4>1. master[k] \in Nodes
        BY <2>a, <3>3 DEF LinksOf, IsMaster, Types
      <4>2. replid'[master[k]] = replid[master[k]]
        BY <2>2, <2>5, <3>3, <4>1 DEF Types
      <4>3. ASSUME link[k] = "up" PROVE replid'[k] = replid[k]
        BY <2>a, <2>2, <4>3 DEF Types, LinksOf, NoBacklog
      <4> QED
        BY <4>1, <4>2, <4>3
    <3> QED
      BY <2>a, <2>2, <2>4, <2>7, <3>1, <3>2, <3>3 DEF LinksOf, IsMaster, CacheOf
  <2> QED
    BY <2>6, <2>7
<1>8. ASSUME NEW n \in Nodes, Load(n) PROVE Links'
  <2> SUFFICES ASSUME NEW k \in Nodes PROVE LinksOf(k)'
    BY DEF Links
  <2>a. LinksOf(k) /\ LinksOf(n)
    BY DEF Links
  <2> DEFINE m == master[n]
             S == Slaves(n)
  <2>0. link[n] = "transfer" /\ transfer[n] # NoTransfer /\ m \in Nodes \ {n}
    BY <1>8, <2>a DEF Load, IsMaster, LinksOf, Types
  <2>1. m \in Nodes \ {n} /\ transfer[n] # NoTransfer /\ transfer[n].off \in Nat /\ n \notin S
    BY <2>0 DEF Sizes, SizesOf, Slaves
  <2>2. /\ master' = master /\ link' = [LinkWithout(S) EXCEPT ![n] = "up"]
        /\ cached' = [CachedWithout(S) EXCEPT ![n] = NoCache]
        /\ transfer' = TransferWithout(S \cup {n})
    BY <1>8 DEF Load
  <2>3. \A j \in Nodes :
          j # n => offset'[j] = offset[j] /\ replid'[j] = replid[j] /\ start'[j] = start[j]
    BY <1>8 DEF Load, Types
  <2>4. /\ offset'[n] = transfer[n].off /\ replid'[n] = transfer[n].id
        /\ start'[n] = transfer[n].off + 1
    BY <1>8 DEF Load, Types
  <2>5. CASE k = n
    <3>1. link'[n] = "up" /\ cached'[n] = NoCache /\ transfer'[n] = NoTransfer
      BY <2>2 DEF LinkWithout, CachedWithout, TransferWithout
    <3>2. start[m] # 0 /\ transfer[n].id = replid[m] /\ transfer[n].off <= offset[m]
      BY <1>8, <2>a DEF Load, LinksOf
    <3> QED
      BY <2>a, <2>1, <2>2, <2>3, <2>4, <2>5, <3>1, <3>2 DEF LinksOf, IsMaster
  <2>6. CASE k # n /\ k \in S
    <3>1. /\ link'[k] = "down" /\ transfer'[k] = NoTransfer
          /\ cached'[k] \in {cached[k], CacheOf(k)} /\ master[k] = n
      BY <2>2, <2>6 DEF LinkWithout, CachedWithout, TransferWithout, Slaves
    <3> QED
      BY <2>a, <2>2, <2>3, <2>6, <3>1, FirstAssumption DEF LinksOf, IsMaster, CacheOf
  <2>7. CASE k # n /\ k \notin S
    <3>1. link'[k] = link[k] /\ transfer'[k] = transfer[k] /\ cached'[k] = cached[k]
      BY <2>2, <2>7 DEF LinkWithout, CachedWithout, TransferWithout
    <3>2. link[k] # "down" => master[k] \in Nodes \ {n}
      BY <2>a, <2>7 DEF Slaves, Types, LinksOf, IsMaster
    <3> QED
      BY <2>a, <2>2, <2>3, <2>7, <3>1, <3>2 DEF LinksOf, IsMaster, CacheOf
  <2> QED
    BY <2>5, <2>6, <2>7
<1>9. ASSUME NEW n \in Nodes, LoadFails(n) PROVE Links'
  <2> SUFFICES ASSUME NEW k \in Nodes PROVE LinksOf(k)'
    BY DEF Links
  <2> QED
    BY <1>9
    DEF Links, Types, LoadFails, idVars, CacheDiscarded, LinkWithout, CachedWithout,
        TransferWithout, LinksOf, IsMaster, CacheOf, Slaves
<1>10. ASSUME NEW n \in Nodes, UnsetStep(n) PROVE Links'
  <2> SUFFICES ASSUME NEW k \in Nodes PROVE LinksOf(k)'
    BY DEF Links
  <2>a. LinksOf(k) /\ LinksOf(n)
    BY DEF Links
  <2> DEFINE S == Slaves(n)
  <2>1. /\ master' = [master EXCEPT ![n] = None] /\ link' = LinkWithout(S \cup {n})
        /\ cached' = [CachedWithout(S) EXCEPT ![n] = NoCache]
        /\ transfer' = TransferWithout(S \cup {n})
        /\ offset' = offset /\ start' = start
    BY <1>10 DEF UnsetStep, Unset, storeVars
  <2>2. \A j \in Nodes : j # n => replid'[j] = replid[j] /\ master'[j] = master[j]
    BY <1>10 DEF UnsetStep, Unset, Types
  <2>3. CASE k = n
    <3>1. /\ link'[n] = "down" /\ cached'[n] = NoCache /\ transfer'[n] = NoTransfer
          /\ master'[n] = None
      BY <2>1 DEF LinkWithout, CachedWithout, TransferWithout, Types
    <3> QED
      BY <2>3, <3>1, FirstAssumption DEF LinksOf, IsMaster
  <2>4. CASE k # n /\ k \in S
    <3>1. /\ link'[k] = "down" /\ transfer'[k] = NoTransfer
          /\ cached'[k] \in {cached[k], CacheOf(k)} /\ master[k] = n
      BY <2>1, <2>4 DEF LinkWithout, CachedWithout, TransferWithout, Slaves
    <3> QED
      BY <2>a, <2>1, <2>2, <2>4, <3>1, FirstAssumption DEF LinksOf, IsMaster, CacheOf
  <2>5. CASE k # n /\ k \notin S
    <3>1. link'[k] = link[k] /\ transfer'[k] = transfer[k] /\ cached'[k] = cached[k]
      BY <2>1, <2>5 DEF LinkWithout, CachedWithout, TransferWithout
    <3>2. link[k] # "down" => master[k] \in Nodes \ {n}
      BY <2>a, <2>5 DEF Slaves, Types, LinksOf, IsMaster
    <3> QED
      BY <2>a, <2>1, <2>2, <2>5, <3>1, <3>2 DEF LinksOf, IsMaster, CacheOf
  <2> QED
    BY <2>3, <2>4, <2>5
<1>11. ASSUME NEW n \in Nodes, AttachStep(n) PROVE Links'
  <2> SUFFICES ASSUME NEW k \in Nodes PROVE LinksOf(k)'
    BY DEF Links
  <2>a. LinksOf(k) /\ LinksOf(n)
    BY DEF Links
  <2>1. PICK m \in Nodes \ {n} : master' = [master EXCEPT ![n] = m]
    BY <1>11 DEF AttachStep, Attach
  <2>2. /\ link' = LinkWithout({n}) /\ transfer' = TransferWithout({n}) /\ replid' = replid
        /\ offset' = offset
        /\ cached' = IF IsMaster(n) THEN [cached EXCEPT ![n] = CacheOf(n)] ELSE CachedWithout({n})
        /\ start' = start
    BY <1>11 DEF AttachStep, Attach, idVars, storeVars
  <2>3. CASE k = n
    <3>1. /\ link'[n] = "down" /\ cached'[n] \in {cached[n], CacheOf(n)}
          /\ transfer'[n] = NoTransfer
          /\ master'[n] = m
      BY <2>1, <2>2 DEF LinkWithout, CachedWithout, TransferWithout, Types
    <3> QED
      BY <2>a, <2>1, <2>2, <2>3, <3>1, FirstAssumption DEF LinksOf, IsMaster, CacheOf
  <2>4. CASE k # n
    <3>1. /\ link'[k] = link[k] /\ transfer'[k] = transfer[k] /\ cached'[k] = cached[k]
          /\ master'[k] = master[k]
      BY <2>1, <2>2, <2>4 DEF LinkWithout, CachedWithout, TransferWithout, Types
    <3> QED
      BY <2>a, <2>2, <2>4, <3>1 DEF LinksOf, IsMaster, CacheOf
  <2> QED
    BY <2>3, <2>4
<1>12. ASSUME NEW n \in Nodes, Save(n) PROVE Links'
  <2> SUFFICES ASSUME NEW k \in Nodes PROVE LinksOf(k)'
    BY DEF Links
  <2> QED
    BY <1>12 DEF Links, Types, Save, idVars, storeVars, LinksOf, IsMaster, CacheOf, Slaves
<1>13. ASSUME NEW n \in Nodes, Restart(n) PROVE Links'
  <2> SUFFICES ASSUME NEW k \in Nodes PROVE LinksOf(k)'
    BY DEF Links
  <2>a. LinksOf(k) /\ LinksOf(n)
    BY DEF Links
  <2> DEFINE S == Slaves(n) \cup {n}
             saved == disk[n].id # 0
  <2>1. /\ master' = master /\ link' = LinkWithout(S) /\ transfer' = TransferWithout(S)
        /\ cached' = [CachedWithout(S) EXCEPT ![n] =
             IF saved /\ ~IsMaster(n) THEN [id |-> disk[n].id, off |-> disk[n].off] ELSE NoCache]
    BY <1>13 DEF Restart
  <2>2. \A j \in Nodes :
          j # n => offset'[j] = offset[j] /\ replid'[j] = replid[j] /\ start'[j] = start[j]
    BY <1>13 DEF Restart, Types
  <2>3. CASE k = n
    <3>1. link'[n] = "down" /\ transfer'[n] = NoTransfer /\ cached'[n] =
             IF saved /\ ~IsMaster(n) THEN [id |-> disk[n].id, off |-> disk[n].off] ELSE NoCache
      BY <2>1 DEF LinkWithout, CachedWithout, TransferWithout
    <3>2. saved /\ ~IsMaster(n) => replid'[n] = disk[n].id
      BY <1>13 DEF Restart, RestartedIds, Types
    <3>3. saved /\ ~IsMaster(n) => offset'[n] = disk[n].off
      <4>1. disk[n].id # 0 => disk[n].off \in Nat
        BY DEF Sizes, SizesOf, Types
      <4>2. saved /\ ~IsMaster(n) => offset' = [offset EXCEPT ![n] = disk[n].off + 0]
        BY <1>13 DEF Restart
      <4> QED
        BY <4>1, <4>2 DEF Types
    <3> QED
      BY <2>a, <2>1, <2>3, <3>1, <3>2, <3>3 DEF LinksOf, IsMaster, CacheOf
  <2>4. CASE k # n /\ k \in S
    <3>1. /\ link'[k] = "down" /\ transfer'[k] = NoTransfer
          /\ cached'[k] \in {cached[k], CacheOf(k)} /\ master[k] = n
      BY <2>1, <2>4 DEF LinkWithout, CachedWithout, TransferWithout, Slaves
    <3> QED
      BY <2>a, <2>1, <2>2, <2>4, <3>1, FirstAssumption DEF LinksOf, IsMaster, CacheOf
  <2>5. CASE k # n /\ k \notin S
    <3>1. link'[k] = link[k] /\ transfer'[k] = transfer[k] /\ cached'[k] = cached[k]
      BY <2>1, <2>5 DEF LinkWithout, CachedWithout, TransferWithout
    <3>2. link[k] # "down" => master[k] \in Nodes \ {n}
      BY <2>a, <2>5 DEF Slaves, Types, LinksOf, IsMaster
    <3> QED
      BY <2>a, <2>1, <2>2, <2>5, <3>1, <3>2 DEF LinksOf, IsMaster, CacheOf
  <2> QED
    BY <2>3, <2>4, <2>5
<1> QED
  BY <1>1, <1>2, <1>3, <1>4, <1>5, <1>6, <1>7, <1>8, <1>9, <1>10, <1>11, <1>12, <1>13,
     NextKinds

-----------------------------------------------------------------------------
\* A claim of the next state is traced if it is about a point that was claimed before or that
\* X adds.
Traced(c, X) == \E b \in Claims \cup X : Point(c, b)
AllTraced(k, X) ==
  /\ Valid(k)' => Traced(Held(k)', X)
  /\ HasSecond(k)' => Traced(Second(k)', X)
  /\ transfer'[k] # NoTransfer => Traced(Stored(transfer'[k]), X)
  /\ disk'[k].id # 0 => Traced(Stored(disk'[k]), X)

\* A node that a step does not touch, except that its link may break.
Still(k) ==
  /\ replid'[k] = replid[k] /\ replid2'[k] = replid2[k]
  /\ offset'[k] = offset[k] /\ data'[k] = data[k] /\ start'[k] = start[k]
  /\ cached'[k] # NoCache => Valid(k)
  /\ transfer'[k] \in {transfer[k], NoTransfer}
  /\ disk'[k] = disk[k]

\* A master that keeps its ID, and a node that is a master with a new one: with a backlog they
\* stay ahead, and without one nobody has their ID.
Kept(k, X) ==
  /\ IsMaster(k) /\ replid'[k] = replid[k] /\ offset'[k] >= offset[k] /\ offset'[k] \in Nat
  /\ start'[k] = 0 <=> start[k] = 0
  /\ \A x \in X : x.id = replid[k] => start[k] # 0 /\ x.off <= offset'[k]
Renamed(k, X) ==
  /\ replid'[k] = nextId /\ offset'[k] \in Nat
  /\ \A x \in X : x.id = nextId => start'[k] # 0 /\ x.off <= offset'[k]

\* A step adds the claims X, by the node a: what all nodes claim afterwards is traced.
Evolves(a, X) ==
  /\ \A k \in Nodes : AllTraced(k, X)
  /\ \A c, b \in Claims \cup X : Agree(c, b)
  /\ \A x \in X : x.id \in 1..(nextId' - 1)
  /\ nextId' \in Nat /\ nextId' >= nextId
  /\ \A k \in Nodes : IsMaster(k)' => Kept(k, X) \/ (k = a /\ Renamed(k, X))

\* A claim is about a point of itself.
LEMMA SelfPoint ==
  ASSUME OneHistory, NEW c \in Claims PROVE Point(c, c)
<1>1. Agree(c, c)
  BY DEF OneHistory
<1> QED
  BY <1>1 DEF Agree, IsClaim

\* A claim that was there is traced.
LEMMA SelfTraced ==
  ASSUME OneHistory, NEW c \in Claims, NEW X PROVE Traced(c, X)
  BY SelfPoint DEF Traced

\* A second ID and an RDB file make claims.
LEMMA OtherClaims ==
  ASSUME NEW n \in Nodes
  PROVE  /\ HasSecond(n) => Second(n) \in Claims
         /\ transfer[n] # NoTransfer => Stored(transfer[n]) \in Claims
         /\ disk[n].id # 0 => Stored(disk[n]) \in Claims
  BY ClaimsAre

\* The claims of a node that a step does not touch are traced.
LEMMA StillTraced ==
  ASSUME OneHistory, NEW k \in Nodes, Still(k), NEW X PROVE AllTraced(k, X)
<1>1. Valid(k)' => Traced(Held(k)', X)
  <2>1. Valid(k)' => Valid(k)
    BY DEF Still, Valid
  <2>2. Held(k)' = Held(k)
    BY DEF Still, Held
  <2> QED
    BY <2>1, <2>2, HeldClaim, SelfTraced
<1>2. HasSecond(k)' => Traced(Second(k)', X)
  <2>1. HasSecond(k)' => HasSecond(k)
    BY DEF Still, HasSecond
  <2>2. Second(k)' = Second(k)
    BY DEF Still, Second
  <2> QED
    BY <2>1, <2>2, OtherClaims, SelfTraced
<1>3. transfer'[k] # NoTransfer => Traced(Stored(transfer'[k]), X)
  BY OtherClaims, SelfTraced DEF Still
<1>4. disk'[k].id # 0 => Traced(Stored(disk'[k]), X)
  BY OtherClaims, SelfTraced DEF Still
<1> QED
  BY <1>1, <1>2, <1>3, <1>4 DEF AllTraced

\* Adding nothing keeps claims in agreement.
LEMMA NoNewClaim ==
  ASSUME OneHistory, NEW X, X = {} PROVE \A c, b \in Claims \cup X : Agree(c, b)
  BY DEF OneHistory

\* A claim with an ID that nobody has agrees with all others.
LEMMA NewIdClaim ==
  ASSUME OneHistory, NEW x, IsClaim(x), \A b \in Claims : b.id # x.id
  PROVE  \A c, b \in Claims \cup {x} : Agree(c, b)
<1>1. Agree(x, x)
  BY DEF Agree, Point, IsClaim, SameUpTo
<1>2. ASSUME NEW b \in Claims PROVE Agree(x, b) /\ Agree(b, x)
  <2>1. IsClaim(b) /\ b.id # x.id
    BY DEF OneHistory, Agree
  <2> QED
    BY <2>1 DEF Agree
<1> QED
  BY <1>1, <1>2 DEF OneHistory

\* A step that evolves the claims keeps one history per ID, masters ahead and IDs known.
LEMMA HistoryStep ==
  ASSUME Types, Ids, OneHistory, Ahead, Unshared, NEW a, NEW X, Evolves(a, X)
  PROVE  /\ OneHistory' /\ Ahead' /\ Unshared'
         /\ \A c \in Claims' : c.id \in 1..(nextId' - 1)
<1>1. ASSUME NEW c \in Claims' PROVE Traced(c, X)
  BY ClaimsWillBe DEF Evolves, AllTraced
<1>2. OneHistory'
  <2>1. \A c, b \in Claims' : Agree(c, b)
    <3>1. \A c \in Claims' : \E b \in Claims \cup X : Point(c, b)
      BY <1>1 DEF Traced
    <3>2. \A c, b \in Claims \cup X : Agree(c, b)
      BY DEF Evolves
    <3> QED
      BY <3>1, <3>2, PointsAgree
  <2> QED
    BY <2>1 DEF OneHistory
<1>3. ASSUME NEW c \in Claims' PROVE c.id \in 1..(nextId' - 1)
  <2>1. PICK b \in Claims \cup X : Point(c, b)
    BY <1>1, <1>3 DEF Traced
  <2>2. c.id = b.id
    BY <2>1 DEF Point
  <2>3. nextId \in Nat /\ nextId' \in Nat /\ nextId' >= nextId
    BY DEF Types, Evolves
  <2>4. CASE b \in Claims
    <3>1. b.id \in 1..(nextId - 1)
      BY <2>4 DEF Ids
    <3> QED
      BY <2>2, <2>3, <3>1
  <2>5. CASE b \in X
    BY <2>2, <2>5 DEF Evolves
  <2> QED
    BY <2>4, <2>5
<1>4. ASSUME NEW k \in Nodes, NEW c \in Claims', IsMaster(k)', c.id = replid'[k]
      PROVE  start'[k] # 0 /\ c.off <= offset'[k]
  <2>1. PICK b \in Claims \cup X : Point(c, b)
    BY <1>1, <1>4 DEF Traced
  <2>2. c.id = b.id /\ c.off <= b.off /\ c.off \in Int
    BY <2>1 DEF Point, IsClaim
  <2>3. b.off \in Int
    BY DEF Evolves, Agree, IsClaim
  <2>4. CASE Kept(k, X)
    <3>1. /\ offset[k] \in Nat /\ offset'[k] \in Nat /\ offset'[k] >= offset[k]
          /\ b.id = replid[k] /\ IsMaster(k)
      BY <1>4, <2>2, <2>4 DEF Kept, Types
    <3>2. CASE b \in Claims
      <4>1. start[k] # 0 /\ b.off <= offset[k]
        BY <3>1, <3>2 DEF Ahead, Unshared
      <4> QED
        BY <2>2, <2>3, <2>4, <3>1, <4>1 DEF Kept
    <3>3. CASE b \in X
      BY <2>2, <2>3, <2>4, <3>1, <3>3 DEF Kept
    <3> QED
      BY <3>2, <3>3
  <2>5. CASE Renamed(k, X)
    <3>1. b.id = nextId
      BY <1>4, <2>2, <2>5 DEF Renamed
    <3>2. b \in X
      <4>1. \A d \in Claims : d.id # nextId
        BY DEF Ids, Types
      <4> QED
        BY <3>1, <4>1
    <3> QED
      BY <2>2, <2>3, <2>5, <3>1, <3>2 DEF Renamed
  <2> QED
    BY <1>4, <2>4, <2>5 DEF Evolves
<1>5. Ahead' /\ Unshared'
  BY <1>4 DEF Ahead, Unshared
<1> QED
  BY <1>2, <1>3, <1>5

\* A node whose role, ID, offset and backlog do not change.
Unmoved(k) ==
  master'[k] = master[k] /\ replid'[k] = replid[k] /\ offset'[k] = offset[k] /\ start'[k] = start[k]

\* What to show of a step with one acting node.
LEMMA EvolvesBy ==
  ASSUME Types, Ids, nextId' \in Nat, nextId' >= nextId,
         NEW a \in Nodes, NEW X,
         \A c, b \in Claims \cup X : Agree(c, b),
         \A x \in X : x.id \in 1..(nextId' - 1),
         \A k \in Nodes : k # a => AllTraced(k, X) /\ Unmoved(k),
         \A k \in Nodes : k # a /\ IsMaster(k) => \A x \in X : x.id # replid[k],
         AllTraced(a, X),
         IsMaster(a)' => Kept(a, X) \/ Renamed(a, X)
  PROVE  Evolves(a, X)
<1>1. ASSUME NEW k \in Nodes, k # a, IsMaster(k)' PROVE Kept(k, X)
  <2>1. Unmoved(k) /\ (IsMaster(k) => \A x \in X : x.id # replid[k]) /\ offset[k] \in Nat
    BY <1>1 DEF Types
  <2> QED
    BY <1>1, <2>1 DEF Unmoved, IsMaster, Kept
<1>2. \A k \in Nodes : AllTraced(k, X)
  OBVIOUS
<1>3. \A k \in Nodes : IsMaster(k)' => Kept(k, X) \/ (k = a /\ Renamed(k, X))
  BY <1>1
<1> QED
  BY <1>2, <1>3 DEF Evolves

\* All steps but FullResync leave the other nodes alone.
LEMMA StillOthers ==
  ASSUME Types, Links, NEW n \in Nodes, NEW k \in Nodes, k # n,
         \/ Write(n) \/ Receive(n) \/ LinkDown(n) \/ FreeBacklog(n) \/ Continue(n) \/ Load(n)
         \/ LoadFails(n) \/ UnsetStep(n) \/ AttachStep(n) \/ Save(n) \/ Restart(n)
  PROVE  Still(k) /\ Unmoved(k)
<1>1. link[k] = "up" => Valid(k)
  BY DEF Links, LinksOf, Valid
<1>2. cached[k] # NoCache => Valid(k)
  BY DEF Valid
<1>3. CASE Write(n)
  BY <1>1, <1>2, <1>3 DEF Types, Still, Unmoved, Write, idVars
<1>4. CASE Receive(n)
  BY <1>1, <1>2, <1>4 DEF Types, Still, Unmoved, Receive, idVars, bounds
<1>5. CASE LinkDown(n)
  BY <1>1, <1>2, <1>5
  DEF Types, Still, Unmoved, LinkDown, idVars, storeVars, LinkWithout, CachedWithout,
      TransferWithout
<1>6. CASE FreeBacklog(n)
  BY <1>1, <1>2, <1>6 DEF Types, Still, Unmoved, FreeBacklog
<1>7. CASE Continue(n)
  BY <1>1, <1>2, <1>7
  DEF Types, Still, Unmoved, Continue, bounds, LinkWithout, CachedWithout, TransferWithout
<1>8. CASE Load(n)
  BY <1>1, <1>2, <1>8, FileKept
  DEF Types, Still, Unmoved, Load, bounds, LinkWithout, CachedWithout, TransferWithout
<1>9. CASE LoadFails(n)
  BY <1>1, <1>2, <1>9, FileKept
  DEF Types, Still, Unmoved, LoadFails, idVars, CacheDiscarded, LinkWithout, CachedWithout,
      TransferWithout
<1>10. CASE UnsetStep(n)
  BY <1>1, <1>2, <1>10
  DEF Types, Still, Unmoved, UnsetStep, Unset, storeVars, LinkWithout, CachedWithout,
      TransferWithout
<1>11. CASE AttachStep(n)
  BY <1>1, <1>2, <1>11
  DEF Types, Still, Unmoved, AttachStep, Attach, idVars, storeVars, LinkWithout, CachedWithout,
      TransferWithout
<1>12. CASE Save(n)
  BY <1>1, <1>2, <1>12 DEF Types, Still, Unmoved, Save, idVars, storeVars
<1>13. CASE Restart(n)
  BY <1>1, <1>2, <1>13
  DEF Types, Still, Unmoved, Restart, RestartedIds, LinkWithout, CachedWithout, TransferWithout
<1> QED
  BY <1>3, <1>4, <1>5, <1>6, <1>7, <1>8, <1>9, <1>10, <1>11, <1>12, <1>13

\* The fields of the claim of a second ID.
LEMMA SecondFields ==
  ASSUME NEW n
  PROVE  /\ Second(n).id = replid2[n].id /\ Second(n).off = replid2[n].upto - 1
         /\ Second(n).len = Len(data[n]) - (offset[n] + 1 - replid2[n].upto)
         /\ Second(n).data = data[n]
  BY ClaimFields DEF Second

\* The same in the next state.
LEMMA SecondFieldsNext ==
  ASSUME NEW n
  PROVE  /\ Second(n)'.id = replid2'[n].id /\ Second(n)'.off = replid2'[n].upto - 1
         /\ Second(n)'.len = Len(data'[n]) - (offset'[n] + 1 - replid2'[n].upto)
         /\ Second(n)'.data = data'[n]
  BY ClaimFields DEF Second

\* Where a second ID stands after f more writes.
LEMMA ShiftArith ==
  \A o, l, f \in Nat : \A p, q, t :
    p = o + 1 /\ q = o + f /\ t = l + f => p - 1 = o /\ t - (q + 1 - p) = l
  OBVIOUS

\* The second ID of n is good up to offset o, where n had l writes, and n has had f more.
SecondIs(n, o, l, f) == replid2'[n].upto = o + 1 /\ offset'[n] = o + f /\ Len(data'[n]) = l + f

\* Then it claims offset o and l writes.
LEMMA SecondAt ==
  ASSUME NEW n, NEW o \in Nat, NEW l \in Nat, NEW f \in Nat, SecondIs(n, o, l, f)
  PROVE  Second(n)'.off = o /\ Second(n)'.len = l
<1> DEFINE p == replid2'[n].upto
           q == offset'[n]
           t == Len(data'[n])
<1>1. Second(n)'.off = p - 1 /\ Second(n)'.len = t - (q + 1 - p)
  BY SecondFieldsNext
<1>2. p = o + 1 /\ q = o + f /\ t = l + f
  BY DEF SecondIs
<1> HIDE DEF p, q, t
<1>3. p - 1 = o /\ t - (q + 1 - p) = l
  BY <1>2, ShiftArith
<1> QED
  BY <1>1, <1>3

\* The fields of the claim of an RDB file.
LEMMA StoredFields ==
  ASSUME NEW r
  PROVE  /\ Stored(r).id = r.id /\ Stored(r).off = r.off
         /\ Stored(r).len = Len(r.data) /\ Stored(r).data = r.data
  BY ClaimFields DEF Stored

\* A dataset got one more write.
Extended(n) ==
  /\ Len(data'[n]) = Len(data[n]) + 1 /\ SameUpTo(Len(data[n]), data'[n], data[n])

\* Appending a write extends a dataset.
LEMMA AppendExtends ==
  ASSUME Types, NEW n \in Nodes, NEW w \in Nat, data'[n] = Append(data[n], w) PROVE Extended(n)
<1>1. data[n] \in Seq(Nat)
  BY DEF Types
<1> QED
  BY <1>1, AppendProperties DEF Extended, SameUpTo

\* The second ID of a node claims the same after one more write.
LEMMA GrownSecond ==
  ASSUME Types, OneHistory, Seconds, NEW n \in Nodes, HasSecond(n), NEW X,
         replid2'[n] = replid2[n], offset'[n] = offset[n] + 1, Extended(n)
  PROVE  Traced(Second(n)', X)
<1> DEFINE c == Second(n)
           e == Second(n)'
           l == Len(data[n])
           o == offset[n]
           u == replid2[n].upto
<1>1. c \in Claims /\ IsClaim(c)
  BY OtherClaims DEF OneHistory, Agree
<1>2. /\ c.id = replid2[n].id /\ c.off = u - 1 /\ c.len = l - (o + 1 - u) /\ c.data = data[n]
      /\ e.id = replid2[n].id /\ e.off = u - 1 /\ e.data = data'[n]
      /\ e.len = Len(data'[n]) - (offset'[n] + 1 - u)
  BY SecondFields, SecondFieldsNext
<1>3. data[n] \in Seq(Nat) /\ l \in Nat /\ o \in Nat /\ u \in Int /\ u <= o + 1
  BY LenProperties DEF Types, SecondIds, Seconds
<1>4. Len(data'[n]) = l + 1 /\ \A i \in 1..l : data'[n][i] = data[n][i]
  BY DEF Extended, SameUpTo
<1> HIDE DEF c, e, l, o, u
<1>5. e.len = c.len /\ e.off = c.off /\ e.id = c.id /\ c.len <= l
  <2>1. e.len = (l + 1) - ((o + 1) + 1 - u)
    BY <1>2, <1>4 DEF o
  <2> QED
    BY <1>2, <1>3, <2>1
<1>6. SameUpTo(e.len, e.data, c.data)
  <2> SUFFICES ASSUME NEW i \in 1..e.len PROVE e.data[i] = c.data[i]
    BY DEF SameUpTo
  <2>1. c.len \in Nat
    BY <1>1 DEF IsClaim
  <2>2. i \in 1..l
    BY <1>3, <1>5, <2>1
  <2> QED
    BY <1>2, <1>4, <2>2
<1>7. Point(e, c)
  BY <1>1, <1>5, <1>6 DEF Point, IsClaim
<1> QED
  BY <1>1, <1>7 DEF Traced, e

\* The fields of the claim of what a node holds.
LEMMA HeldFields ==
  ASSUME NEW n
  PROVE  /\ Held(n).id = replid[n] /\ Held(n).off = offset[n]
         /\ Held(n).len = Len(data[n]) /\ Held(n).data = data[n]
  BY ClaimFields DEF Held

\* The same in the next state.
LEMMA HeldFieldsNext ==
  ASSUME NEW n
  PROVE  /\ Held(n)'.id = replid'[n] /\ Held(n)'.off = offset'[n]
         /\ Held(n)'.len = Len(data'[n]) /\ Held(n)'.data = data'[n]
  BY ClaimFields DEF Held

\* A master with a backlog may add a write: nobody with its ID is ahead of it.
LEMMA GrownHeld ==
  ASSUME Types, OneHistory, Ahead, NEW n \in Nodes, start[n] # 0, IsMaster(n),
         replid'[n] = replid[n], offset'[n] = offset[n] + 1, Extended(n)
  PROVE  \A c, b \in Claims \cup {Held(n)'} : Agree(c, b)
<1> DEFINE x == Held(n)'
           h == Held(n)
           l == Len(data[n])
           o == offset[n]
<1>1. h \in Claims
  BY HeldClaim DEF Valid
<1>2. data[n] \in Seq(Nat) /\ l \in Nat /\ o \in Nat /\ replid[n] \in Nat
  BY LenProperties DEF Types
<1>3. Len(data'[n]) = l + 1 /\ \A i \in 1..l : data'[n][i] = data[n][i]
  BY DEF Extended, SameUpTo
<1>4. h.id = replid[n] /\ h.off = o /\ h.len = l /\ h.data = data[n]
  BY HeldFields
<1>5. x.id = replid[n] /\ x.off = o + 1 /\ x.len = l + 1 /\ x.data = data'[n]
  BY <1>3, HeldFieldsNext
<1> HIDE DEF x, h, l, o
<1>6. IsClaim(x) /\ Agree(x, x)
  BY <1>2, <1>5 DEF IsClaim, Agree, Point, SameUpTo
<1>7. ASSUME NEW b \in Claims PROVE Agree(x, b) /\ Agree(b, x)
  <2>1. IsClaim(b) /\ Agree(b, h)
    BY <1>1 DEF OneHistory, Agree
  <2>2. b.id = x.id => b.off <= o
    BY <1>5 DEF Ahead, o
  <2>3. Agree(x, b)
    BY <1>2, <1>5, <1>6, <2>1, <2>2 DEF Agree, IsClaim
  <2>4. ASSUME b.id = x.id PROVE Point(b, x)
    <3>1. Point(b, h)
      BY <1>4, <1>5, <2>1, <2>2, <2>4 DEF Agree
    <3>2. b.len <= l /\ b.len \in Nat
      BY <1>2, <1>4, <2>1, <3>1, <2>2, <2>4 DEF Point, IsClaim
    <3>3. SameUpTo(b.len, b.data, x.data)
      <4> SUFFICES ASSUME NEW i \in 1..b.len PROVE b.data[i] = x.data[i]
        BY DEF SameUpTo
      <4>1. i \in 1..l /\ b.data[i] = h.data[i]
        BY <1>2, <3>1, <3>2 DEF Point, SameUpTo
      <4> QED
        BY <1>3, <1>4, <1>5, <4>1
    <3>4. x.len - b.len = x.off - b.off /\ b.off <= x.off
      <4>1. l - b.len = o - b.off /\ b.off <= o /\ b.off \in Int /\ b.len \in Nat
        BY <1>4, <3>1 DEF Point, IsClaim
      <4>2. (l + 1) - b.len = (o + 1) - b.off /\ b.off <= o + 1
        <5>1. l \in Nat /\ o \in Nat
          BY <1>2
        <5> QED
          BY <4>1, <5>1
      <4>3. b.off <= x.off
        BY <1>5, <4>2, Zenon
      <4>4. x.len - b.len = x.off - b.off
        BY <1>5, <4>2, Zenon
      <4> QED
        BY <4>3, <4>4
    <3> QED
      BY <2>1, <2>4, <3>3, <3>4 DEF Point
  <2> QED
    BY <1>6, <2>1, <2>3, <2>4 DEF Agree
<1> QED
  BY <1>6, <1>7 DEF OneHistory, x

\* The next ID is nobody's.
LEMMA IdsBelow ==
  ASSUME Types, Ids
  PROVE  /\ nextId \in Nat
         /\ \A k \in Nodes : replid[k] # nextId /\ replid[k] \in Nat /\ replid[k] >= 1
         /\ \A c \in Claims : c.id # nextId
         /\ nextId >= 1
<1>1. nextId \in Nat /\ First \in Nodes
  BY FirstAssumption DEF Types
<1>2. \A k \in Nodes : replid[k] \in 1..(nextId - 1)
  BY DEF Ids
<1>3. \A c \in Claims : c.id \in 1..(nextId - 1)
  BY DEF Ids
<1> QED
  BY <1>1, <1>2, <1>3

\* What a node holds next is well typed.
LEMMA HeldIsClaim ==
  ASSUME Types', NEW n \in Nodes PROVE IsClaim(Held(n)')
<1>1. replid'[n] \in Nat /\ offset'[n] \in Nat /\ data'[n] \in Seq(Nat)
  BY DEF Types
<1> QED
  BY <1>1, LenProperties, HeldFieldsNext DEF IsClaim

\* A step that leaves the replication state alone.
LEMMA QuietEvolves ==
  ASSUME IInv, Types', Quiet PROVE \E a \in Nodes : \E X : Evolves(a, X)
<1> USE DEF IInv
<1>1. \A k \in Nodes : Still(k) /\ Unmoved(k)
  BY DEF Quiet, idVars, storeVars, Still, Unmoved, Valid
<1>2. \A k \in Nodes : AllTraced(k, {})
  BY <1>1, StillTraced
<1>3. Kept(First, {}) \/ ~IsMaster(First)'
  BY <1>1, FirstAssumption DEF Kept, Unmoved, IsMaster, Types
<1>4. nextId' \in Nat /\ nextId' >= nextId
  BY DEF Types, Quiet, idVars
<1>5. Evolves(First, {})
  BY <1>1, <1>2, <1>3, <1>4, NoNewClaim, EvolvesBy, FirstAssumption
<1> QED
  BY <1>5, FirstAssumption

\* A write adds what the master holds then. Without a backlog nobody has its ID.
LEMMA WriteEvolves ==
  ASSUME IInv, Types', NEW n \in Nodes, Write(n) PROVE \E a \in Nodes : \E X : Evolves(a, X)
<1> USE DEF IInv
<1> DEFINE x == Held(n)'
           X == {x}
<1>1. PICK step \in {0, 1} :
        /\ start[n] # 0 => step = 1
        /\ offset' = [offset EXCEPT ![n] = @ + step]
        /\ start' = [start EXCEPT ![n] = Trimmed(n, offset[n] + step)]
  <2>1. PICK step \in IF NoBacklog(n) THEN {0, 1} ELSE {1} :
        /\ offset' = [offset EXCEPT ![n] = @ + step]
        /\ start' = [start EXCEPT ![n] = Trimmed(n, offset[n] + step)]
    BY Zenon DEF Write
  <2>2. step \in {0, 1} /\ (start[n] # 0 => step = 1)
    BY DEF NoBacklog
  <2> QED
    BY <2>1, <2>2, Zenon
<1>2. /\ IsMaster(n) /\ IsMaster(n)' /\ cached[n] = NoCache /\ cached' = cached
      /\ transfer' = transfer /\ disk' = disk
      /\ replid' = replid /\ replid2' = replid2 /\ nextId' = nextId /\ master' = master
  BY DEF Write, Links, LinksOf, idVars, IsMaster
<1>3. /\ data'[n] = Append(data[n], writes + 1) /\ writes + 1 \in Nat
      /\ offset[n] \in Nat /\ offset'[n] = offset[n] + step /\ start[n] \in Nat
  BY <1>1 DEF Write, Types
<1>4. start'[n] = 0 <=> start[n] = 0
  <2>1. offset[n] + step \in Nat /\ start[n] <= (offset[n] + step) + 1
    BY <1>3 DEF Sizes, SizesOf
  <2> QED
    BY <1>1, <2>1, TrimmedBound DEF Types
<1>5. x.id = replid[n] /\ x.off = offset'[n] /\ IsClaim(x)
  BY <1>2, HeldFieldsNext, HeldIsClaim
<1> HIDE DEF x
<1>6. nextId' \in Nat /\ nextId' >= nextId /\ x.id \in 1..(nextId' - 1)
  BY <1>2, <1>5 DEF Types, Ids
<1>7. \A k \in Nodes : k # n => Still(k) /\ Unmoved(k)
  BY StillOthers
<1>8. \A k \in Nodes : k # n /\ IsMaster(k) => x.id # replid[k]
  BY <1>2, <1>5 DEF OneMaster
<1>9. /\ transfer'[n] # NoTransfer => Traced(Stored(transfer'[n]), X)
      /\ disk'[n].id # 0 => Traced(Stored(disk'[n]), X)
  BY <1>2, OtherClaims, SelfTraced
<1>10. \A c, b \in Claims \cup X : Agree(c, b)
  <2>1. CASE start[n] # 0
    BY <1>1, <1>2, <1>3, <2>1, GrownHeld, AppendExtends DEF x
  <2>2. CASE start[n] = 0
    BY <1>2, <1>5, <2>2, NewIdClaim DEF Unshared
  <2> QED
    BY <2>1, <2>2
<1>11. Valid(n)' => Traced(x, X)
  <2>1. Point(x, x)
    BY <1>5 DEF Point, IsClaim, SameUpTo
  <2> QED
    BY <2>1 DEF Traced
<1>12. HasSecond(n)' => Traced(Second(n)', X)
  <2> SUFFICES ASSUME HasSecond(n)' PROVE Traced(Second(n)', X)
    OBVIOUS
  <2>1. HasSecond(n) /\ step = 1
    BY <1>1, <1>2, <1>4 DEF HasSecond
  <2> QED
    BY <1>2, <1>3, <2>1, GrownSecond, AppendExtends
<1>13. AllTraced(n, X)
  BY <1>9, <1>11, <1>12 DEF AllTraced, x
<1>14. start[n] # 0 => Kept(n, X)
  BY <1>2, <1>3, <1>4, <1>5 DEF Kept
<1>15. CASE start[n] # 0
  <2>1. Evolves(n, X)
    BY <1>6, <1>7, <1>8, <1>10, <1>13, <1>14, <1>15, StillTraced, EvolvesBy
  <2> QED
    BY <2>1
<1>16. CASE start[n] = 0
  <2>1. ~Valid(n)' /\ ~HasSecond(n)'
    BY <1>2, <1>4, <1>16 DEF Valid, HasSecond
  <2>2. AllTraced(n, {})
    <3>1. /\ transfer'[n] # NoTransfer => Traced(Stored(transfer'[n]), {})
          /\ disk'[n].id # 0 => Traced(Stored(disk'[n]), {})
      BY <1>2, OtherClaims, SelfTraced
    <3> QED
      BY <2>1, <3>1 DEF AllTraced
  <2>3. Kept(n, {})
    BY <1>2, <1>3, <1>4 DEF Kept
  <2>4. Evolves(n, {})
    BY <1>6, <1>7, <2>2, <2>3, NoNewClaim, StillTraced, EvolvesBy
  <2> QED
    BY <2>4
<1> QED
  BY <1>15, <1>16

\* A replica that receives a write is at a point of its master's history.
LEMMA ReceiveEvolves ==
  ASSUME IInv, Types', NEW n \in Nodes, Receive(n) PROVE \E a \in Nodes : \E X : Evolves(a, X)
<1> USE DEF IInv
<1>1. PICK m : m = master[n]
  OBVIOUS
<1>2. /\ m \in Nodes \ {n} /\ replid[n] = replid[m] /\ start[m] # 0 /\ start[n] # 0
      /\ offset[n] + 1 <= offset[m]
  BY <1>1, Received
<1>3. Len(data[m]) - Len(data[n]) = offset[m] - offset[n]
  BY <1>1, Received
<1>4. SameUpTo(Len(data[n]), data[n], data[m])
  BY <1>1, Received
<1>5. /\ StreamAt(m, offset[n] + 1) = data[m][Len(data[n]) + 1]
      /\ StreamAt(m, offset[n] + 1) \in Nat
  BY <1>1, Received
<1>6. /\ cached' = cached /\ transfer' = transfer /\ disk' = disk /\ replid' = replid
      /\ replid2' = replid2
      /\ nextId' = nextId /\ master' = master /\ ~IsMaster(n)
      /\ data'[n] = Append(data[n], StreamAt(m, offset[n] + 1)) /\ offset'[n] = offset[n] + 1
  BY <1>1, <1>2, FirstAssumption DEF Receive, idVars, IsMaster, Types
<1>7. data[n] \in Seq(Nat) /\ data[m] \in Seq(Nat)
  BY <1>2 DEF Types
<1>a. offset[n] \in Nat /\ offset[m] \in Nat /\ Len(data[n]) \in Nat /\ Len(data[m]) \in Nat
  BY <1>2, <1>7, LenProperties DEF Types
<1>8. Len(data'[n]) = Len(data[n]) + 1 /\ SameUpTo(Len(data'[n]), data'[n], data[m])
  <2>1. /\ Len(data'[n]) = Len(data[n]) + 1
        /\ \A i \in 1..Len(data[n]) : data'[n][i] = data[n][i]
        /\ data'[n][Len(data[n]) + 1] = data[m][Len(data[n]) + 1]
    BY <1>5, <1>6, <1>7, AppendProperties
  <2>2. ASSUME NEW i \in 1..(Len(data[n]) + 1) PROVE data'[n][i] = data[m][i]
    <3>1. CASE i = Len(data[n]) + 1
      BY <2>1, <3>1
    <3>2. CASE i # Len(data[n]) + 1
      <4>1. i \in 1..Len(data[n])
        BY <1>a, <3>2
      <4> QED
        BY <1>4, <2>1, <4>1 DEF SameUpTo
    <3> QED
      BY <3>1, <3>2
  <2> QED
    BY <2>1, <2>2 DEF SameUpTo
<1>9. Point(Held(n)', Held(m))
  <2>1. Len(data[m]) - (Len(data[n]) + 1) = offset[m] - (offset[n] + 1)
    <3> DEFINE a == Len(data[m])
               b == Len(data[n])
               c == offset[m]
               d == offset[n]
    <3>1. a \in Nat /\ b \in Nat /\ c \in Nat /\ d \in Nat /\ a - b = c - d
      BY <1>3, <1>a
    <3> HIDE DEF a, b, c, d
    <3>2. a - (b + 1) = c - (d + 1)
      BY <3>1
    <3> QED
      BY <3>2 DEF a, b, c, d
  <2>2. IsClaim(Held(n)')
    BY HeldIsClaim
  <2>3. /\ Held(n)'.id = Held(m).id /\ Held(n)'.off <= Held(m).off
        /\ Held(m).len - Held(n)'.len = Held(m).off - Held(n)'.off
        /\ SameUpTo(Held(n)'.len, Held(n)'.data, Held(m).data)
    BY <1>2, <1>6, <1>8, <2>1, HeldFields, HeldFieldsNext
  <2> QED
    BY <2>2, <2>3 DEF Point
<1>10. Traced(Held(n)', {})
  BY <1>2, <1>9, HeldClaim DEF Traced, Valid
<1>11. HasSecond(n)' => Traced(Second(n)', {})
  <2> SUFFICES ASSUME HasSecond(n)' PROVE Traced(Second(n)', {})
    OBVIOUS
  <2>1. HasSecond(n)
    BY <1>2, <1>6 DEF HasSecond
  <2> QED
    BY <1>5, <1>6, <2>1, GrownSecond, AppendExtends
<1>12. /\ transfer'[n] # NoTransfer => Traced(Stored(transfer'[n]), {})
       /\ disk'[n].id # 0 => Traced(Stored(disk'[n]), {})
  BY <1>6, OtherClaims, SelfTraced
<1>13. AllTraced(n, {})
  BY <1>10, <1>11, <1>12 DEF AllTraced
<1>14. \A k \in Nodes : k # n => Still(k) /\ Unmoved(k)
  BY StillOthers
<1>15. nextId' \in Nat /\ nextId' >= nextId /\ ~IsMaster(n)'
  BY <1>6 DEF Types, IsMaster
<1>16. Evolves(n, {})
  BY <1>13, <1>14, <1>15, NoNewClaim, StillTraced, EvolvesBy
<1> QED
  BY <1>16

\* What to show of a step that adds no claim.
LEMMA PlainEvolves ==
  ASSUME IInv, Types', NEW a \in Nodes, \A k \in Nodes : k # a => AllTraced(k, {}) /\ Unmoved(k),
         AllTraced(a, {}), nextId' >= nextId, IsMaster(a)' => Kept(a, {}) \/ Renamed(a, {})
  PROVE  \E b \in Nodes : \E X : Evolves(b, X)
<1>1. nextId' \in Nat
  BY DEF Types
<1>2. Evolves(a, {})
  BY <1>1, NoNewClaim, EvolvesBy DEF IInv
<1> QED
  BY <1>2

\* What to show of a step that starts a history with a new ID at m.
LEMMA FreshEvolves ==
  ASSUME IInv, Types', NEW a \in Nodes, nextId' = nextId + 1, replid'[a] = nextId, start'[a] # 0,
         \A k \in Nodes : k # a => AllTraced(k, {Held(a)'}) /\ Unmoved(k), AllTraced(a, {Held(a)'})
  PROVE  \E b \in Nodes : \E X : Evolves(b, X)
<1> DEFINE x == Held(a)'
<1>1. IsClaim(x) /\ x.id = nextId /\ x.off = offset'[a]
  BY HeldIsClaim, HeldFieldsNext
<1> HIDE DEF x
<1>2. /\ nextId \in Nat /\ nextId >= 1 /\ \A k \in Nodes : replid[k] # nextId
      /\ \A c \in Claims : c.id # nextId
  BY IdsBelow DEF IInv
<1>3. \A c, b \in Claims \cup {x} : Agree(c, b)
  BY <1>1, <1>2, NewIdClaim DEF IInv
<1>4. nextId' \in Nat /\ nextId' >= nextId /\ x.id \in 1..(nextId' - 1) /\ offset'[a] \in Nat
  BY <1>1, <1>2 DEF Types
<1>5. Renamed(a, {x})
  BY <1>1, <1>4 DEF Renamed
<1>6. \A k \in Nodes : k # a /\ IsMaster(k) => \A y \in {x} : y.id # replid[k]
  BY <1>1, <1>2
<1>7. Evolves(a, {x})
  BY <1>3, <1>4, <1>5, <1>6, EvolvesBy DEF IInv, x
<1> QED
  BY <1>7

\* What a node holds next is traced to itself.
LEMMA FreshTraced ==
  ASSUME Types', NEW a \in Nodes PROVE Traced(Held(a)', {Held(a)'})
<1>1. Point(Held(a)', Held(a)')
  BY HeldIsClaim DEF Point, IsClaim, SameUpTo
<1> QED
  BY <1>1 DEF Traced

\* A broken link adds nothing.
LEMMA LinkDownEvolves ==
  ASSUME IInv, Types', NEW n \in Nodes, LinkDown(n) PROVE \E a \in Nodes : \E X : Evolves(a, X)
<1>1. \A k \in Nodes : k # n => Still(k) /\ Unmoved(k)
  BY StillOthers DEF IInv
<1>2. Still(n) /\ nextId' = nextId /\ ~IsMaster(n)' /\ nextId \in Nat
  BY
  DEF IInv, Links, LinksOf, LinkDown, IsMaster, Still, Valid, idVars, storeVars, CachedWithout,
      TransferWithout, Types
<1>3. nextId' >= nextId
  BY <1>2
<1> QED
  BY <1>1, <1>2, <1>3, StillTraced, PlainEvolves DEF IInv

\* A master that frees its backlog takes an ID nobody has.
LEMMA FreeBacklogEvolves ==
  ASSUME IInv, Types', NEW n \in Nodes, FreeBacklog(n)
  PROVE  \E a \in Nodes : \E X : Evolves(a, X)
<1>1. \A k \in Nodes : k # n => Still(k) /\ Unmoved(k)
  BY StillOthers DEF IInv
<1>2. /\ start'[n] = 0 /\ cached'[n] = NoCache /\ transfer' = transfer /\ disk' = disk
      /\ replid'[n] = nextId
      /\ offset' = offset /\ nextId' = nextId + 1
  BY DEF IInv, Links, LinksOf, FreeBacklog, IsMaster, Types
<1>3. AllTraced(n, {})
  <2>1. ~Valid(n)' /\ ~HasSecond(n)'
    BY <1>2 DEF Valid, HasSecond
  <2> QED
    BY <1>2, <2>1, OtherClaims, SelfTraced DEF AllTraced, IInv
<1>4. Renamed(n, {}) /\ nextId' >= nextId
  BY <1>2 DEF Renamed, IInv, Types
<1> QED
  BY <1>1, <1>3, <1>4, StillTraced, PlainEvolves DEF IInv

\* The central fact about masterTryPartialResynchronization: a replica that may continue holds
\* a prefix of its master's dataset, by the ID or by the second ID of the master.
LEMMA Continued ==
  ASSUME IInv, NEW n \in Nodes, Continue(n), NEW m, m = master[n]
  PROVE  /\ m \in Nodes \ {n} /\ start[m] # 0 /\ Valid(n) /\ cached[n] = CacheOf(n)
         /\ offset[n] <= offset[m] /\ Len(data[m]) - Len(data[n]) = offset[m] - offset[n]
         /\ SameUpTo(Len(data[n]), data[n], data[m])
<1> USE DEF IInv
<1>1. m \in Nodes \ {n} /\ cached[n] # NoCache /\ start[m] # 0
  BY DEF Continue, Asks, IsMaster, CanContinue, NoBacklog, Links, LinksOf, Types
<1>2. cached[n] = CacheOf(n) /\ cached[n].id = replid[n] /\ cached[n].off = offset[n]
  BY <1>1 DEF Links, LinksOf, CacheOf
<1>3. /\ offset[n] \in Nat /\ offset[m] \in Nat /\ replid[n] \in Nat /\ replid[n] >= 1
      /\ Len(data[n]) \in Nat /\ Len(data[m]) \in Nat
  BY <1>1, IdsBelow, LenProperties DEF Types
<1>4. offset[n] <= offset[m]
  BY <1>1, <1>2, <1>3 DEF Continue, CanContinue
<1>5. Valid(n) /\ Held(n) \in Claims
  BY <1>1, HeldClaim DEF Valid
<1>6. CASE replid[n] = replid[m]
  <2>1. Held(m) \in Claims
    BY <1>1, HeldClaim DEF Valid
  <2>2. Point(Held(n), Held(m))
    BY <1>4, <1>5, <1>6, <2>1, HeldFields DEF OneHistory, Agree
  <2>3. Held(m).len - Held(n).len = Held(m).off - Held(n).off
    BY <2>2 DEF Point
  <2>4. SameUpTo(Held(n).len, Held(n).data, Held(m).data)
    BY <2>2 DEF Point
  <2> QED
    BY <1>1, <1>2, <1>4, <1>5, <2>3, <2>4, HeldFields
<1>7. CASE replid[n] = replid2[m].id /\ offset[n] + 1 <= replid2[m].upto
  <2>1. replid2[m] # NoId2
    BY <1>3, <1>7 DEF NoId2
  <2>2. /\ HasSecond(m) /\ Second(m) \in Claims /\ replid2[m].upto \in Int
        /\ replid2[m].upto <= offset[m] + 1
    BY <1>1, <2>1, OtherClaims DEF HasSecond, Types, SecondIds, Seconds
  <2>3. Point(Held(n), Second(m))
    <3>1. Held(n).id = Second(m).id /\ Held(n).off <= Second(m).off
      BY <1>3, <1>7, <2>2, HeldFields, SecondFields
    <3> QED
      BY <1>5, <2>2, <3>1 DEF OneHistory, Agree
  <2>4. Second(m).len - Held(n).len = Second(m).off - Held(n).off
    BY <2>3 DEF Point
  <2>5. SameUpTo(Held(n).len, Held(n).data, Second(m).data)
    BY <2>3 DEF Point
  <2>6. Len(data[m]) - Len(data[n]) = offset[m] - offset[n]
    <3> DEFINE a == Len(data[m])
               b == Len(data[n])
               c == offset[m]
               d == offset[n]
               u == replid2[m].upto
    <3>1. a \in Nat /\ b \in Nat /\ c \in Nat /\ d \in Nat /\ u \in Int
      BY <1>3, <2>2
    <3>2. (a - (c + 1 - u)) - b = (u - 1) - d
      BY <2>4, HeldFields, SecondFields
    <3> HIDE DEF a, b, c, d, u
    <3>3. a - b = c - d
      BY <3>1, <3>2
    <3> QED
      BY <3>3 DEF a, b, c, d
  <2> QED
    BY <1>1, <1>2, <1>4, <1>5, <2>5, <2>6, HeldFields, SecondFields
<1>8. KnownHistory(m, cached[n])
  BY DEF Continue, CanContinue
<1> QED
  BY <1>2, <1>6, <1>7, <1>8 DEF KnownHistory

\* After +CONTINUE the replica is at a point of its master's history, and its second ID at the
\* end of its own.
LEMMA ContinueEvolves ==
  ASSUME IInv, Types', NEW n \in Nodes, Continue(n) PROVE \E a \in Nodes : \E X : Evolves(a, X)
<1> USE DEF IInv
<1>1. PICK m : m = master[n]
  OBVIOUS
<1>2. /\ m \in Nodes \ {n} /\ start[m] # 0 /\ Valid(n) /\ cached[n] = CacheOf(n)
      /\ offset[n] <= offset[m]
  BY <1>1, Continued
<1>3. Len(data[m]) - Len(data[n]) = offset[m] - offset[n]
  BY <1>1, Continued
<1>4. SameUpTo(Len(data[n]), data[n], data[m])
  BY <1>1, Continued
<1>5. /\ replid'[n] = replid[m] /\ data' = data /\ offset' = offset /\ disk' = disk
      /\ nextId' = nextId /\ master' = master
      /\ ~IsMaster(n)
  BY <1>1 DEF Continue, Types, Asks
<1>6. \A k \in Nodes : k # n => Still(k) /\ Unmoved(k)
  BY StillOthers
<1>7. Traced(Held(n)', {})
  <2>1. /\ Held(n)'.id = Held(m).id /\ Held(n)'.off <= Held(m).off
        /\ Held(m).len - Held(n)'.len = Held(m).off - Held(n)'.off
        /\ SameUpTo(Held(n)'.len, Held(n)'.data, Held(m).data)
    BY <1>2, <1>3, <1>4, <1>5, HeldFields, HeldFieldsNext
  <2>2. Point(Held(n)', Held(m))
    BY <2>1, HeldIsClaim DEF Point
  <2> QED
    BY <1>2, <2>2, HeldClaim DEF Traced, Valid
<1>8. HasSecond(n)' => Traced(Second(n)', {})
  <2> SUFFICES ASSUME HasSecond(n)' PROVE Traced(Second(n)', {})
    OBVIOUS
  <2>1. CASE replid[m] # cached[n].id
    <3>0. replid2'[n] = [id |-> replid[n], upto |-> offset[n] + 1]
      BY <1>1, <1>2, <2>1 DEF Continue, Types, CacheOf
    <3>1. replid2'[n].id = replid[n] /\ replid2'[n].upto = offset[n] + 1
      BY <3>0
    <3>2. Second(n)'.id = replid[n] /\ Second(n)'.data = data[n]
      BY <1>5, <3>1, SecondFieldsNext
    <3>3. offset[n] \in Nat /\ Len(data[n]) \in Nat
      BY LenProperties DEF Types
    <3>a. offset'[n] = offset[n] + 0 /\ Len(data'[n]) = Len(data[n]) + 0
      BY <1>5, <3>3
    <3>4. Second(n)'.off = offset[n] /\ Second(n)'.len = Len(data[n])
      <4>1. SecondIs(n, offset[n], Len(data[n]), 0)
        BY <3>1, <3>a DEF SecondIs
      <4> QED
        BY <3>3, <4>1, SecondAt
    <3>5. Held(n) \in Claims /\ Point(Held(n), Held(n))
      BY <1>2, HeldClaim, SelfPoint
    <3>6. Point(Second(n)', Held(n))
      BY <3>2, <3>4, <3>5, HeldFields DEF Point, IsClaim
    <3> QED
      BY <3>5, <3>6 DEF Traced
  <2>2. CASE replid[m] = cached[n].id
    <3>1. replid2'[n] = replid2[n] /\ replid[m] = replid[n]
      BY <1>1, <1>2, <2>2 DEF Continue, CacheOf
    <3>2. start[n] # 0
      <4> SUFFICES ASSUME start[n] = 0 PROVE FALSE
        OBVIOUS
      <4>1. Stale(n)
        BY <1>2, <3>1 DEF Stale, Valid, HasSecond
      <4> QED
        BY <1>2, <3>1, <4>1 DEF StaleSecond, Uses, Valid
    <3>3. HasSecond(n) /\ Second(n)' = Second(n)
      BY <1>5, <3>1, <3>2 DEF HasSecond, Second
    <3> QED
      BY <3>3, OtherClaims, SelfTraced
  <2> QED
    BY <2>1, <2>2
<1>9. transfer'[n] # NoTransfer => Traced(Stored(transfer'[n]), {})
  <2>1. transfer'[n] \in {transfer[n], NoTransfer}
    BY DEF Continue, TransferWithout
  <2> QED
    BY <2>1, OtherClaims, SelfTraced
<1>10. disk'[n].id # 0 => Traced(Stored(disk'[n]), {})
  BY <1>5, OtherClaims, SelfTraced
<1>11. AllTraced(n, {}) /\ ~IsMaster(n)' /\ nextId' >= nextId
  BY <1>5, <1>7, <1>8, <1>9, <1>10 DEF AllTraced, IsMaster, Types
<1> QED
  BY <1>6, <1>11, StillTraced, PlainEvolves

\* The RDB file that is sent is what the master holds, under a new ID if it had no backlog.
LEMMA FullResyncEvolves ==
  ASSUME IInv, Types', NEW n \in Nodes, FullResync(n)
  PROVE  \E a \in Nodes : \E X : Evolves(a, X)
<1> USE DEF IInv
<1>1. PICK m : m = master[n]
  OBVIOUS
<1> DEFINE fresh == Slaves(m) = {} /\ NoBacklog(m)
<1>2. m \in Nodes \ {n} /\ cached[m] = NoCache
  <2>1. m \in Nodes \ {n} /\ (IsMaster(m) \/ link[m] = "up")
    BY <1>1 DEF FullResync, Asks, IsMaster, Accepts, Links, LinksOf, Types
  <2> QED
    BY <2>1 DEF Links, LinksOf
<1>3. /\ master' = master /\ offset' = offset /\ data' = data /\ cached' = cached
      /\ disk' = disk
      /\ transfer' = [transfer EXCEPT ![n] =
           [data |-> data[m], id |-> IF fresh THEN nextId ELSE replid[m], off |-> offset[m]]]
      /\ replid' = [replid EXCEPT ![m] = IF fresh THEN nextId ELSE replid[m]]
      /\ replid2' = IF fresh THEN [replid2 EXCEPT ![m] = NoId2] ELSE replid2
      /\ nextId' = IF fresh THEN nextId + 1 ELSE nextId
      /\ start' = IF fresh THEN [start EXCEPT ![m] = offset[m] + 1] ELSE start
  BY <1>1 DEF FullResync
<1>4. start'[m] # 0 /\ (~fresh => start[m] # 0)
  <2>1. CASE fresh
    BY <1>2, <1>3, <2>1 DEF Types
  <2>2. CASE ~fresh
    <3>1. ASSUME NEW j \in Slaves(m) PROVE start[m] # 0
      BY DEF Slaves, Links, LinksOf
    <3> QED
      BY <1>3, <2>2, <3>1 DEF NoBacklog
  <2> QED
    BY <2>1, <2>2
<1>5. Stored(transfer'[n]) = Held(m)'
  <2>1. /\ transfer'[n].data = data[m] /\ transfer'[n].id = replid'[m]
        /\ transfer'[n].off = offset[m]
    BY <1>2, <1>3 DEF Types
  <2> QED
    BY <1>3, <2>1 DEF Stored, Held
<1>6. \A k \in Nodes : k # m => Unmoved(k) /\ (k # n => Still(k))
  BY <1>2, <1>3 DEF Unmoved, Still, Valid, Types
<1>7. ASSUME NEW X, Traced(Held(m)', X) PROVE AllTraced(n, X)
  <2>1. Held(n)' = Held(n) /\ (Valid(n)' => Valid(n))
    BY <1>2, <1>3 DEF Held, Valid, Types
  <2>2. Second(n)' = Second(n) /\ (HasSecond(n)' => HasSecond(n))
    BY <1>2, <1>3 DEF Second, HasSecond, Types
  <2>3. Valid(n)' => Traced(Held(n)', X)
    BY <2>1, HeldClaim, SelfTraced
  <2>4. HasSecond(n)' => Traced(Second(n)', X)
    BY <2>2, OtherClaims, SelfTraced
  <2>5. disk'[n].id # 0 => Traced(Stored(disk'[n]), X)
    BY <1>3, OtherClaims, SelfTraced
  <2> QED
    BY <1>5, <1>7, <2>3, <2>4, <2>5 DEF AllTraced
<1>8. \A X : /\ transfer'[m] # NoTransfer => Traced(Stored(transfer'[m]), X)
             /\ disk'[m].id # 0 => Traced(Stored(disk'[m]), X)
  <2>1. transfer'[m] = transfer[m] /\ disk'[m] = disk[m]
    BY <1>2, <1>3 DEF Types
  <2> QED
    BY <1>2, <2>1, OtherClaims, SelfTraced
<1>9. CASE fresh
  <2>1. Traced(Held(m)', {Held(m)'})
    BY <1>2, FreshTraced
  <2>2. ~HasSecond(m)'
    BY <1>2, <1>3, <1>9 DEF HasSecond, Types
  <2>3. AllTraced(m, {Held(m)'}) /\ AllTraced(n, {Held(m)'})
    BY <1>7, <1>8, <2>1, <2>2 DEF AllTraced
  <2>4. replid'[m] = nextId /\ nextId' = nextId + 1
    BY <1>2, <1>3, <1>9 DEF Types
  <2> QED
    BY <1>2, <1>4, <1>6, <2>3, <2>4, StillTraced, FreshEvolves
<1>10. CASE ~fresh
  <2>1. start[m] # 0 /\ Valid(m) /\ Held(m)' = Held(m)
    BY <1>2, <1>3, <1>4, <1>10 DEF Valid, Held, Types
  <2>2. Traced(Held(m)', {})
    BY <1>2, <2>1, HeldClaim, SelfTraced
  <2>3. HasSecond(m)' => Traced(Second(m)', {})
    <3>1. (HasSecond(m)' => HasSecond(m)) /\ Second(m)' = Second(m)
      BY <1>2, <1>3, <1>10 DEF HasSecond, Second, Types
    <3> QED
      BY <1>2, <3>1, OtherClaims, SelfTraced
  <2>4. AllTraced(m, {}) /\ AllTraced(n, {})
    BY <1>7, <1>8, <2>2, <2>3 DEF AllTraced
  <2>5. IsMaster(m)' => Kept(m, {})
    BY <1>2, <1>3, <1>4, <1>10 DEF Kept, IsMaster, Types
  <2>6. nextId' >= nextId
    BY <1>3, <1>10 DEF Types
  <2> QED
    BY <1>2, <1>6, <2>4, <2>5, <2>6, StillTraced, PlainEvolves
<1> QED
  BY <1>9, <1>10

\* A replica that loads the RDB file claims what the file does.
LEMMA LoadEvolves ==
  ASSUME IInv, Types', NEW n \in Nodes, Load(n) PROVE \E a \in Nodes : \E X : Evolves(a, X)
<1> USE DEF IInv
<1>1. transfer[n] # NoTransfer /\ ~IsMaster(n)
  BY DEF Load, Links, LinksOf
<1>2. /\ data'[n] = transfer[n].data /\ offset'[n] = transfer[n].off
      /\ replid'[n] = transfer[n].id
      /\ replid2'[n] = NoId2 /\ master' = master /\ nextId' = nextId
      /\ disk'[n] \in {disk[n], transfer[n]}
  BY FileKept DEF Load, Types
<1>3. transfer'[n] = NoTransfer
  BY DEF Load, TransferWithout
<1>4. Held(n)' = Stored(transfer[n])
  BY <1>2 DEF Held, Stored
<1>5. AllTraced(n, {})
  <2>1. Traced(Held(n)', {})
    BY <1>1, <1>4, OtherClaims, SelfTraced
  <2>2. ~HasSecond(n)'
    BY <1>2 DEF HasSecond
  <2>3. disk'[n].id # 0 => Traced(Stored(disk'[n]), {})
    BY <1>1, <1>2, OtherClaims, SelfTraced
  <2> QED
    BY <1>3, <2>1, <2>2, <2>3 DEF AllTraced
<1>6. \A k \in Nodes : k # n => Still(k) /\ Unmoved(k)
  BY StillOthers
<1>7. ~IsMaster(n)' /\ nextId' >= nextId
  BY <1>1, <1>2 DEF IsMaster, Types
<1> QED
  BY <1>5, <1>6, <1>7, StillTraced, PlainEvolves

\* A replica that cannot load it claims nothing.
LEMMA LoadFailsEvolves ==
  ASSUME IInv, Types', NEW n \in Nodes, LoadFails(n)
  PROVE  \E a \in Nodes : \E X : Evolves(a, X)
<1> USE DEF IInv
<1>1. /\ start'[n] = 0 /\ master' = master /\ nextId' = nextId /\ ~IsMaster(n)
      /\ transfer[n] # NoTransfer /\ disk'[n] \in {disk[n], transfer[n]}
  BY FileKept DEF LoadFails, idVars, Links, LinksOf, Types
<1>2. cached'[n] = NoCache /\ transfer'[n] = NoTransfer
  BY DEF LoadFails, CacheDiscarded, CachedWithout, TransferWithout
<1>3. AllTraced(n, {})
  <2>1. ~Valid(n)' /\ ~HasSecond(n)'
    BY <1>1, <1>2 DEF Valid, HasSecond
  <2>2. disk'[n].id # 0 => Traced(Stored(disk'[n]), {})
    BY <1>1, OtherClaims, SelfTraced
  <2> QED
    BY <1>2, <2>1, <2>2 DEF AllTraced
<1>4. \A k \in Nodes : k # n => Still(k) /\ Unmoved(k)
  BY StillOthers
<1>5. ~IsMaster(n)' /\ nextId' >= nextId
  BY <1>1 DEF IsMaster, Types
<1> QED
  BY <1>3, <1>4, <1>5, StillTraced, PlainEvolves

\* A new master starts a history, and its second ID is the end of the old one.
LEMMA UnsetEvolves ==
  ASSUME IInv, Types', NEW n \in Nodes, UnsetStep(n)
  PROVE  \E a \in Nodes : \E X : Evolves(a, X)
<1> USE DEF IInv
<1>1. /\ replid'[n] = nextId /\ nextId' = nextId + 1 /\ offset' = offset /\ data' = data
      /\ start' = start /\ disk' = disk
      /\ replid2'[n] = SecondId(n)
  BY DEF UnsetStep, Unset, storeVars, Types
<1>2. cached'[n] = NoCache /\ transfer'[n] = NoTransfer
  BY DEF UnsetStep, Unset, CachedWithout, TransferWithout
<1>3. \A k \in Nodes : k # n => Still(k) /\ Unmoved(k)
  BY StillOthers
<1>4. \A X : disk'[n].id # 0 => Traced(Stored(disk'[n]), X)
  BY <1>1, OtherClaims, SelfTraced
<1>5. CASE start[n] = 0
  <2>1. AllTraced(n, {})
    <3>1. ~Valid(n)' /\ ~HasSecond(n)'
      BY <1>1, <1>2, <1>5 DEF Valid, HasSecond
    <3> QED
      BY <1>2, <1>4, <3>1 DEF AllTraced
  <2>2. Renamed(n, {}) /\ nextId' >= nextId
    BY <1>1 DEF Renamed, Types
  <2> QED
    BY <1>3, <2>1, <2>2, StillTraced, PlainEvolves
<1>6. CASE start[n] # 0
  <2>1. Held(n) \in Claims /\ Point(Held(n), Held(n))
    BY <1>6, HeldClaim, SelfPoint DEF Valid
  <2>2. Point(Second(n)', Held(n))
    <3>1. replid2'[n].id = replid[n] /\ replid2'[n].upto = offset[n] + 1
      BY <1>1 DEF SecondId
    <3>2. Second(n)'.id = replid[n] /\ Second(n)'.data = data[n]
      BY <1>1, <3>1, SecondFieldsNext
    <3>3. offset[n] \in Nat /\ Len(data[n]) \in Nat
      BY LenProperties DEF Types
    <3>a. offset'[n] = offset[n] + 0 /\ Len(data'[n]) = Len(data[n]) + 0
      BY <1>1, <3>3
    <3>5. Second(n)'.off = offset[n] /\ Second(n)'.len = Len(data[n])
      <4>1. SecondIs(n, offset[n], Len(data[n]), 0)
        BY <3>1, <3>a DEF SecondIs
      <4> QED
        BY <3>3, <4>1, SecondAt
    <3> QED
      BY <2>1, <3>2, <3>5, HeldFields DEF Point, IsClaim
  <2>3. AllTraced(n, {Held(n)'})
    <3>1. Traced(Second(n)', {Held(n)'})
      BY <2>1, <2>2 DEF Traced
    <3> QED
      BY <1>2, <1>4, <3>1, FreshTraced DEF AllTraced
  <2> QED
    BY <1>1, <1>3, <1>6, <2>3, StillTraced, FreshEvolves
<1> QED
  BY <1>5, <1>6

\* A master that becomes a replica claims what it holds; without a backlog nobody has its ID.
LEMMA AttachEvolves ==
  ASSUME IInv, Types', NEW n \in Nodes, AttachStep(n)
  PROVE  \E a \in Nodes : \E X : Evolves(a, X)
<1> USE DEF IInv
<1>1. /\ replid' = replid /\ replid2' = replid2 /\ nextId' = nextId /\ offset' = offset
      /\ data' = data /\ start' = start
      /\ disk' = disk
  BY DEF AttachStep, Attach, idVars, storeVars
<1>2. transfer'[n] = NoTransfer /\ ~IsMaster(n)'
  BY FirstAssumption DEF AttachStep, Attach, TransferWithout, IsMaster, Types
<1>3. \A k \in Nodes : k # n => Still(k) /\ Unmoved(k)
  BY StillOthers
<1>4. nextId' \in Nat /\ nextId' >= nextId
  BY <1>1 DEF Types
<1>5. Held(n)' = Held(n) /\ Second(n)' = Second(n) /\ (HasSecond(n)' => HasSecond(n))
  BY <1>1 DEF Held, Second, HasSecond
<1>6. \A X : /\ HasSecond(n)' => Traced(Second(n)', X)
             /\ disk'[n].id # 0 => Traced(Stored(disk'[n]), X)
  BY <1>1, <1>5, OtherClaims, SelfTraced
<1>7. CASE IsMaster(n) /\ start[n] = 0
  <2> DEFINE x == Held(n)'
  <2>1. IsClaim(x) /\ x.id = replid[n]
    BY <1>1, HeldIsClaim, HeldFieldsNext
  <2>2. AllTraced(n, {x})
    BY <1>2, <1>6, FreshTraced DEF AllTraced
  <2> HIDE DEF x
  <2>3. \A c, b \in Claims \cup {x} : Agree(c, b)
    BY <1>7, <2>1, NewIdClaim DEF Unshared
  <2>4. x.id \in 1..(nextId' - 1)
    BY <1>1, <2>1 DEF Ids
  <2>5. \A k \in Nodes : k # n /\ IsMaster(k) => \A y \in {x} : y.id # replid[k]
    BY <1>7, <2>1 DEF OneMaster
  <2>6. Evolves(n, {x})
    BY <1>2, <1>3, <1>4, <2>2, <2>3, <2>4, <2>5, StillTraced, EvolvesBy
  <2> QED
    BY <2>6
<1>8. CASE ~(IsMaster(n) /\ start[n] = 0)
  <2>1. Valid(n)' => Valid(n)
    <3>1. CASE start[n] # 0
      BY <3>1 DEF Valid
    <3>2. CASE start[n] = 0
      <4>1. ~IsMaster(n) /\ link[n] # "up"
        BY <1>8, <3>2 DEF Links, LinksOf
      <4>2. cached'[n] = cached[n]
        BY <4>1 DEF AttachStep, Attach, CachedWithout
      <4> QED
        BY <1>1, <4>2 DEF Valid
    <3> QED
      BY <3>1, <3>2
  <2>2. AllTraced(n, {})
    BY <1>2, <1>5, <1>6, <2>1, HeldClaim, SelfTraced DEF AllTraced
  <2> QED
    BY <1>2, <1>3, <1>4, <2>2, StillTraced, PlainEvolves
<1> QED
  BY <1>7, <1>8

\* A saved RDB file claims what the node holds.
LEMMA SaveEvolves ==
  ASSUME IInv, Types', NEW n \in Nodes, Save(n) PROVE \E a \in Nodes : \E X : Evolves(a, X)
<1> USE DEF IInv
<1>1. /\ replid' = replid /\ replid2' = replid2 /\ nextId' = nextId /\ offset' = offset
      /\ data' = data /\ start' = start
      /\ cached' = cached /\ transfer' = transfer /\ master' = master
  BY DEF Save, idVars, storeVars
<1>2. \A k \in Nodes : k # n => Still(k) /\ Unmoved(k)
  BY StillOthers
<1>3. /\ Held(n)' = Held(n) /\ Second(n)' = Second(n)
      /\ (HasSecond(n)' => HasSecond(n)) /\ (Valid(n)' => Valid(n))
  BY <1>1 DEF Held, Second, HasSecond, Valid
<1>4. disk'[n].id # 0 => Valid(n) /\ Stored(disk'[n]) = Held(n)
  <2>1. disk'[n].id # 0 =>
          SavesHistory(n) /\ disk'[n] = [data |-> data[n], id |-> replid[n], off |-> offset[n]]
    BY DEF Save, Types
  <2>2. SavesHistory(n) => Valid(n)
    BY DEF SavesHistory, Valid, NoBacklog, Links, LinksOf
  <2> QED
    BY <2>1, <2>2 DEF Stored, Held
<1>5. AllTraced(n, {})
  <2>1. Valid(n)' => Traced(Held(n)', {})
    BY <1>3, HeldClaim, SelfTraced
  <2>2. HasSecond(n)' => Traced(Second(n)', {})
    BY <1>3, OtherClaims, SelfTraced
  <2>3. transfer'[n] # NoTransfer => Traced(Stored(transfer'[n]), {})
    BY <1>1, OtherClaims, SelfTraced
  <2>4. disk'[n].id # 0 => Traced(Stored(disk'[n]), {})
    BY <1>4, HeldClaim, SelfTraced
  <2> QED
    BY <2>1, <2>2, <2>3, <2>4 DEF AllTraced
<1>6. IsMaster(n)' => Kept(n, {})
  BY <1>1 DEF Kept, IsMaster, Types
<1>7. nextId' >= nextId
  BY <1>1 DEF Types
<1> QED
  BY <1>2, <1>5, <1>6, <1>7, StillTraced, PlainEvolves

\* A node that starts from an RDB file claims what the file does: a replica under its ID, a
\* master as its second ID.
LEMMA RestartEvolves ==
  ASSUME IInv, Types', NEW n \in Nodes, Restart(n) PROVE \E a \in Nodes : \E X : Evolves(a, X)
<1> USE DEF IInv
<1> DEFINE saved == disk[n].id # 0
<1>1. PICK e \in {0, 1} :
        /\ ~IsMaster(n) => e = 0
        /\ data'[n] = (IF e = 1 THEN Append(disk[n].data, writes + 1) ELSE disk[n].data)
        /\ offset'[n] = IF saved THEN disk[n].off + e ELSE 0
  <2>1. PICK e \in IF saved /\ IsMaster(n) /\ writes < MaxWrites THEN {0, 1} ELSE {0} :
        /\ data' = [data EXCEPT ![n] = IF e = 1 THEN Append(disk[n].data, writes + 1)
                                       ELSE disk[n].data]
        /\ offset' = [offset EXCEPT ![n] = IF saved THEN disk[n].off + e ELSE 0]
    BY Zenon DEF Restart
  <2>2. e \in {0, 1} /\ (~IsMaster(n) => e = 0)
    OBVIOUS
  <2>3. data'[n] = (IF e = 1 THEN Append(disk[n].data, writes + 1) ELSE disk[n].data)
    BY <2>1, Zenon DEF Types
  <2>4. offset'[n] = IF saved THEN disk[n].off + e ELSE 0
    BY <2>1, Zenon DEF Types
  <2> QED
    BY <2>2, <2>3, <2>4, Zenon
<1>2. /\ start'[n] = (IF saved /\ IsMaster(n) THEN disk[n].off + 1 ELSE 0)
      /\ disk' = disk /\ master' = master /\ nextId' = nextId + 1
      /\ replid'[n] = RestartedIds(n).id /\ replid2'[n] = RestartedIds(n).id2
  BY DEF Restart, Types
<1>3. transfer'[n] = NoTransfer
  BY DEF Restart, TransferWithout
<1>4. cached'[n] =
        IF saved /\ ~IsMaster(n) THEN [id |-> disk[n].id, off |-> disk[n].off] ELSE NoCache
  BY DEF Restart, CachedWithout
<1>5. \A k \in Nodes : k # n => Still(k) /\ Unmoved(k)
  BY StillOthers
<1>6. \A X : disk'[n].id # 0 => Traced(Stored(disk'[n]), X)
  BY <1>2, OtherClaims, SelfTraced
<1>7. disk[n].data \in Seq(Nat) /\ (saved => disk[n].off \in Nat) /\ writes + 1 \in Nat
  <2>1. disk[n] \in Snapshot /\ writes \in Nat /\ SizesOf(n)
    BY DEF Types, Sizes
  <2> QED
    BY <2>1 DEF Snapshot, SizesOf
<1>8. nextId' >= nextId
  BY <1>2 DEF Types
<1>9. CASE ~saved
  <2>1. ~Valid(n)' /\ ~HasSecond(n)'
    BY <1>2, <1>4, <1>9 DEF Valid, HasSecond
  <2>2. AllTraced(n, {})
    BY <1>3, <1>6, <2>1 DEF AllTraced
  <2>3. Renamed(n, {})
    BY <1>1, <1>2, <1>9 DEF Renamed, RestartedIds
  <2> QED
    BY <1>5, <1>8, <2>2, <2>3, StillTraced, PlainEvolves
<1>10. CASE saved /\ ~IsMaster(n)
  <2>1. /\ replid'[n] = disk[n].id /\ ~HasSecond(n)' /\ data'[n] = disk[n].data
        /\ offset'[n] = disk[n].off
    BY <1>1, <1>2, <1>7, <1>10 DEF RestartedIds, HasSecond
  <2>2. Held(n)' = Stored(disk[n])
    BY <2>1 DEF Held, Stored
  <2>3. Traced(Held(n)', {})
    BY <1>10, <2>2, OtherClaims, SelfTraced
  <2>4. AllTraced(n, {}) /\ ~IsMaster(n)'
    BY <1>2, <1>3, <1>6, <1>10, <2>1, <2>3 DEF AllTraced, IsMaster
  <2> QED
    BY <1>5, <1>8, <2>4, StillTraced, PlainEvolves
<1>11. CASE saved /\ IsMaster(n)
  <2>1. replid'[n] = nextId /\ start'[n] # 0
    BY <1>2, <1>7, <1>11 DEF RestartedIds
  <2>2. replid2'[n].id = disk[n].id /\ replid2'[n].upto = disk[n].off + 1
    BY <1>2, <1>11 DEF RestartedIds
  <2>3. /\ Len(data'[n]) = Len(disk[n].data) + e /\ Len(disk[n].data) \in Nat
        /\ SameUpTo(Len(disk[n].data), data'[n], disk[n].data)
    BY <1>1, <1>7, AppendProperties, LenProperties DEF SameUpTo
  <2>4. /\ Second(n)'.id = disk[n].id /\ Second(n)'.off = disk[n].off
        /\ Second(n)'.data = data'[n]
        /\ Second(n)'.len = Len(disk[n].data)
    <3>2. e \in Nat /\ offset'[n] = disk[n].off + e
      BY <1>1, <1>11
    <3>5. disk[n].off \in Nat /\ Len(disk[n].data) \in Nat
      BY <1>7, <1>11, <2>3
    <3>6. Second(n)'.off = disk[n].off /\ Second(n)'.len = Len(disk[n].data)
      <4>1. Len(data'[n]) = Len(disk[n].data) + e
        BY <2>3
      <4> QED
        <5>1. SecondIs(n, disk[n].off, Len(disk[n].data), e)
          BY <2>2, <3>2, <4>1 DEF SecondIs
        <5> QED
          BY <3>2, <3>5, <5>1, SecondAt
    <3> QED
      BY <2>2, <3>6, SecondFieldsNext
  <2>5. Stored(disk[n]) \in Claims /\ Point(Stored(disk[n]), Stored(disk[n]))
    BY <1>11, OtherClaims, SelfPoint
  <2>6. Point(Second(n)', Stored(disk[n]))
    BY <2>3, <2>4, <2>5, StoredFields DEF Point, IsClaim
  <2>7. Traced(Second(n)', {Held(n)'})
    BY <2>5, <2>6 DEF Traced
  <2>8. AllTraced(n, {Held(n)'})
    BY <1>3, <1>6, <2>7, FreshTraced DEF AllTraced
  <2> QED
    BY <1>2, <1>5, <2>1, <2>8, StillTraced, FreshEvolves
<1> QED
  BY <1>9, <1>10, <1>11

\* Every step evolves the claims.
LEMMA EvolveStep ==
  ASSUME IInv, Types', [Next]_vars PROVE \E a \in Nodes : \E X : Evolves(a, X)
  BY NextKinds, QuietEvolves, WriteEvolves, ReceiveEvolves, LinkDownEvolves,
     FreeBacklogEvolves,
     ContinueEvolves, FullResyncEvolves, LoadEvolves, LoadFailsEvolves, UnsetEvolves, AttachEvolves,
     SaveEvolves, RestartEvolves DEF IInv

-----------------------------------------------------------------------------
\* What FullResync does to the IDs and backlogs of a master m and its replica n.
LEMMA FullResyncParts ==
  ASSUME Types, Links, NEW n \in Nodes, FullResync(n), NEW m, m = master[n],
         NEW fresh, fresh = (Slaves(m) = {} /\ NoBacklog(m))
  PROVE  /\ m \in Nodes \ {n} /\ cached[m] = NoCache /\ start'[m] # 0
         /\ fresh => replid'[m] = nextId /\ replid2'[m] = NoId2 /\ nextId' = nextId + 1
         /\ ~fresh => /\ start[m] # 0 /\ replid'[m] = replid[m] /\ replid2'[m] = replid2[m]
                      /\ nextId' = nextId
         /\ transfer'[n].id = replid'[m]
         /\ offset' = offset /\ cached' = cached /\ disk' = disk /\ master' = master
         /\ \A k \in Nodes \ {n} : transfer'[k] = transfer[k]
         /\ \A k \in Nodes \ {m} :
              replid'[k] = replid[k] /\ replid2'[k] = replid2[k] /\ start'[k] = start[k]
<1> DEFINE id == IF fresh THEN nextId ELSE replid[m]
<1>1. m \in Nodes \ {n} /\ cached[m] = NoCache
  <2>1. ~IsMaster(n) /\ (IsMaster(m) \/ link[m] = "up")
    BY DEF FullResync, Asks, Accepts
  <2>2. m \in Nodes \ {n}
    BY <2>1 DEF IsMaster, Types, Links, LinksOf
  <2> QED
    BY <2>1, <2>2 DEF Links, LinksOf
<1>2. /\ replid' = [replid EXCEPT ![m] = id]
      /\ replid2' = IF fresh THEN [replid2 EXCEPT ![m] = NoId2] ELSE replid2
      /\ nextId' = IF fresh THEN nextId + 1 ELSE nextId
      /\ start' = IF fresh THEN [start EXCEPT ![m] = offset[m] + 1] ELSE start
      /\ transfer' = [transfer EXCEPT ![n] = [data |-> data[m], id |-> id, off |-> offset[m]]]
      /\ offset' = offset /\ cached' = cached /\ disk' = disk /\ master' = master
  BY Zenon DEF FullResync
<1>3. start'[m] # 0 /\ (~fresh => start[m] # 0)
  <2>1. CASE fresh
    BY <1>1, <1>2, <2>1 DEF Types
  <2>2. CASE ~fresh
    <3>1. ASSUME NEW j \in Slaves(m) PROVE start[m] # 0
      BY DEF Slaves, Links, LinksOf
    <3> QED
      BY <1>2, <2>2, <3>1 DEF NoBacklog
  <2> QED
    BY <2>1, <2>2
<1>4. transfer'[n].id = id /\ replid'[m] = id
  BY <1>1, <1>2 DEF Types
<1> QED
  BY <1>1, <1>2, <1>3, <1>4 DEF Types

\* The ID i was handed out before or by this step.
IdOk(i) == i \in 1..(nextId - 1) \/ (i = nextId /\ nextId' = nextId + 1)
IdsOk(k) == IdOk(replid'[k]) /\ (replid2'[k] # NoId2 => IdOk(replid2'[k].id))

\* IDs that do not change are known.
LEMMA StillIdsOk ==
  ASSUME Ids, NEW k \in Nodes, replid'[k] = replid[k], replid2'[k] = replid2[k] PROVE IdsOk(k)
  BY DEF Ids, IdOk, IdsOk

\* The ID in an RDB file is known.
LEMMA StoredIdOk ==
  ASSUME Ids, NEW n \in Nodes
  PROVE  /\ transfer[n] # NoTransfer => IdOk(transfer[n].id)
         /\ disk[n].id # 0 => IdOk(disk[n].id)
<1>1. \A c \in Claims : IdOk(c.id)
  BY DEF Ids, IdOk
<1>2. transfer[n] # NoTransfer => IdOk(Stored(transfer[n]).id)
  BY <1>1, OtherClaims
<1>3. disk[n].id # 0 => IdOk(Stored(disk[n]).id)
  BY <1>1, OtherClaims
<1> QED
  BY <1>2, <1>3, StoredFields

\* The IDs of all nodes after a step are known.
LEMMA NewIds ==
  ASSUME IInv, [Next]_vars, NEW k \in Nodes PROVE nextId' \in {nextId, nextId + 1} /\ IdsOk(k)
<1> USE DEF IInv
<1> DEFINE G == nextId' \in {nextId, nextId + 1} /\ IdsOk(k)
<1>1. CASE Quiet
  BY <1>1, StillIdsOk DEF Quiet, idVars
<1>a. \A j \in Nodes : IdOk(replid[j])
  BY DEF Ids, IdOk
<1>b. nextId' = nextId + 1 => IdOk(nextId)
  BY DEF IdOk
<1>2. ASSUME NEW n \in Nodes,
             Write(n) \/ Receive(n) \/ LinkDown(n) \/ LoadFails(n) \/ AttachStep(n) \/ Save(n)
      PROVE  G
  <2>1. replid' = replid /\ replid2' = replid2 /\ nextId' = nextId
    BY <1>2 DEF Write, Receive, LinkDown, LoadFails, AttachStep, Save, idVars
  <2> QED
    BY <2>1, StillIdsOk
<1>3. ASSUME NEW n \in Nodes, FreeBacklog(n) PROVE G
  <2>1. nextId' = nextId + 1
    BY <1>3 DEF FreeBacklog
  <2>2. CASE k = n
    BY <1>3, <1>b, <2>1, <2>2 DEF FreeBacklog, Types, IdsOk
  <2> QED
    BY <1>3, <2>1, <2>2, StillIdsOk, StillOthers DEF Still
<1>4. ASSUME NEW n \in Nodes, Continue(n) PROVE G
  <2>0. PICK m : m = master[n]
    OBVIOUS
  <2>a. m \in Nodes /\ cached[n] = CacheOf(n)
    BY <1>4, <2>0, Continued
  <2>1. m \in Nodes /\ cached[n].id = replid[n]
    BY <2>a DEF CacheOf
  <2>2. nextId' = nextId /\ replid'[n] = replid[m]
    BY <1>4, <2>0 DEF Continue, Types
  <2>3. CASE k = n
    <3>1. IdOk(replid'[n])
      BY <1>a, <2>1, <2>2
    <3>2. replid2'[n].id = cached[n].id \/ replid2'[n] = replid2[n]
      BY <1>4 DEF Continue, Types
    <3>3. replid2[n] # NoId2 => IdOk(replid2[n].id)
      BY DEF Ids, IdOk
    <3> QED
      BY <1>a, <2>1, <2>2, <2>3, <3>1, <3>2, <3>3 DEF IdsOk
  <2> QED
    BY <1>4, <2>2, <2>3, StillIdsOk, StillOthers DEF Still
<1>5. ASSUME NEW n \in Nodes, FullResync(n) PROVE G
  <2> DEFINE m == master[n]
  <2>1. PICK fresh : fresh = (Slaves(m) = {} /\ NoBacklog(m))
    OBVIOUS
  <2>2. /\ fresh => replid'[m] = nextId /\ replid2'[m] = NoId2 /\ nextId' = nextId + 1
        /\ ~fresh => replid'[m] = replid[m] /\ replid2'[m] = replid2[m] /\ nextId' = nextId
        /\ k # m => replid'[k] = replid[k] /\ replid2'[k] = replid2[k]
    BY <1>5, <2>1, FullResyncParts
  <2>3. CASE k = m /\ fresh
    BY <1>b, <2>2, <2>3 DEF IdsOk
  <2>4. CASE k # m \/ ~fresh
    BY <2>2, <2>4, StillIdsOk
  <2> QED
    BY <2>2, <2>3, <2>4
<1>6. ASSUME NEW n \in Nodes, Load(n) PROVE G
  <2>1. nextId' = nextId
    BY <1>6 DEF Load
  <2>2. CASE k = n
    <3>1. replid'[n] = transfer[n].id /\ replid2'[n] = NoId2 /\ transfer[n] # NoTransfer
      BY <1>6 DEF Load, Types, Links, LinksOf
    <3> QED
      BY <2>1, <2>2, <3>1, StoredIdOk DEF IdsOk
  <2> QED
    BY <1>6, <2>1, <2>2, StillIdsOk, StillOthers DEF Still
<1>7. ASSUME NEW n \in Nodes, UnsetStep(n) PROVE G
  <2>1. nextId' = nextId + 1
    BY <1>7 DEF UnsetStep, Unset
  <2>2. CASE k = n
    <3>1. replid'[n] = nextId /\ replid2'[n].id = replid[n]
      BY <1>7 DEF UnsetStep, Unset, SecondId, Types
    <3> QED
      BY <1>a, <1>b, <2>1, <2>2, <3>1 DEF IdsOk
  <2> QED
    BY <1>7, <2>1, <2>2, StillIdsOk, StillOthers DEF Still
<1>8. ASSUME NEW n \in Nodes, Restart(n) PROVE G
  <2>1. nextId' = nextId + 1
    BY <1>8 DEF Restart
  <2>2. CASE k = n
    <3>1. replid'[n] = RestartedIds(n).id /\ replid2'[n] = RestartedIds(n).id2
      BY <1>8 DEF Restart, Types
    <3>2. /\ RestartedIds(n).id = nextId \/ (disk[n].id # 0 /\ RestartedIds(n).id = disk[n].id)
          /\ RestartedIds(n).id2 = NoId2 \/ (disk[n].id # 0 /\ RestartedIds(n).id2.id = disk[n].id)
      BY DEF RestartedIds
    <3> QED
      BY <1>b, <2>1, <2>2, <3>1, <3>2, StoredIdOk DEF IdsOk
  <2> QED
    BY <1>8, <2>1, <2>2, StillIdsOk, StillOthers DEF Still
<1> QED
  BY <1>1, <1>2, <1>3, <1>4, <1>5, <1>6, <1>7, <1>8, NextKinds

\* Every step keeps the IDs known.
LEMMA IdsStep ==
  ASSUME IInv, Types', [Next]_vars PROVE Ids'
<1> USE DEF IInv
<1>1. nextId \in Nat /\ nextId >= 1
  BY IdsBelow
<1>2. \A k \in Nodes : nextId' \in {nextId, nextId + 1} /\ IdsOk(k)
  BY NewIds
<1>3. nextId' \in {nextId, nextId + 1}
  BY <1>2, FirstAssumption
<1>4. \A i : IdOk(i) => i \in 1..(nextId' - 1)
  BY <1>1, <1>3 DEF IdOk
<1>5. (\A n \in Nodes : /\ replid[n] \in 1..(nextId - 1)
                        /\ replid2[n] # NoId2 => replid2[n].id \in 1..(nextId - 1))'
  BY <1>2, <1>4 DEF IdsOk
<1>6. \A c \in Claims' : c.id \in 1..(nextId' - 1)
  BY EvolveStep, HistoryStep
<1> QED
  BY <1>5, <1>6 DEF Ids

\* Every step leaves masters with different IDs: a new one is handed out once.
LEMMA OneMasterStep ==
  ASSUME IInv, Types', [Next]_vars PROVE OneMaster'
<1> USE DEF IInv
<1> SUFFICES ASSUME NEW n \in Nodes, NEW m \in Nodes, IsMaster(n)', IsMaster(m)',
                    replid'[n] = replid'[m]
             PROVE  n = m
  BY DEF OneMaster
<1>1. PICK a \in Nodes : \E X : Evolves(a, X)
  BY EvolveStep
<1>2. PICK X : Evolves(a, X)
  BY <1>1
<1>3. (Kept(n, X) \/ (n = a /\ Renamed(n, X))) /\ (Kept(m, X) \/ (m = a /\ Renamed(m, X)))
  BY <1>2 DEF Evolves
<1>4. replid[n] # nextId /\ replid[m] # nextId
  BY IdsBelow
<1> QED
  BY <1>3, <1>4 DEF Kept, Renamed, OneMaster

\* Every step keeps second IDs within what their node has. Continue could revive an old one
\* and does not, by StaleSecond.
LEMMA SecondsStep ==
  ASSUME IInv, Types', [Next]_vars PROVE Seconds'
<1> USE DEF IInv
<1> DEFINE G(k) == HasSecond(k)' => replid2'[k].upto <= offset'[k] + 1
<1>a. ASSUME NEW k \in Nodes, replid2'[k] = replid2[k], offset[k] <= offset'[k],
             start'[k] # 0 => start[k] # 0
      PROVE  G(k)
  <2>1. HasSecond(k)' => HasSecond(k)
    BY <1>a DEF HasSecond
  <2>2. offset[k] \in Nat /\ offset'[k] \in Nat /\ replid2[k].upto \in Int
    BY DEF Types, SecondIds
  <2> QED
    BY <1>a, <2>1, <2>2 DEF Seconds
<1>b. ASSUME NEW k \in Nodes, Still(k) PROVE G(k)
  <2>1. offset[k] \in Nat /\ offset'[k] = offset[k]
    BY <1>b DEF Types, Still
  <2> QED
    BY <1>a, <1>b, <2>1 DEF Still
<1>1. CASE Quiet
  <2>1. \A k \in Nodes : Still(k)
    BY <1>1 DEF Quiet, idVars, storeVars, Still, Valid
  <2> QED
    BY <1>b, <2>1 DEF Seconds
<1>2. ASSUME NEW n \in Nodes, G(n), \A k \in Nodes : k # n => Still(k) PROVE Seconds'
  BY <1>2, <1>b DEF Seconds
<1> HIDE DEF G
<1>3. ASSUME NEW n \in Nodes, Write(n) \/ Receive(n) PROVE G(n)
  <2>1. replid2' = replid2 /\ offset[n] \in Nat
    BY <1>3 DEF Write, Receive, idVars, Types
  <2>2. PICK step \in {0, 1} : /\ offset'[n] = offset[n] + step
                              /\ start'[n] = Trimmed(n, offset[n] + step)
    <3>1. CASE Write(n)
      <4>1. PICK step \in {0, 1} : /\ offset' = [offset EXCEPT ![n] = @ + step]
                                  /\ start' = [start EXCEPT ![n] = Trimmed(n, offset[n] + step)]
        BY <3>1 DEF Write
      <4> QED
        BY <4>1 DEF Types
    <3>2. CASE Receive(n)
      BY <3>2 DEF Receive, Types
    <3> QED
      BY <1>3, <3>1, <3>2
  <2>3. Trimmed(n, offset[n] + step) # 0 => start[n] # 0
    BY DEF Trimmed, NoBacklog
  <2>4. offset[n] <= offset'[n]
    BY <2>1, <2>2
  <2> QED
    BY <1>a, <2>1, <2>2, <2>3, <2>4
<1>4. ASSUME NEW n \in Nodes, LinkDown(n) \/ AttachStep(n) \/ Save(n) PROVE G(n)
  <2>1. replid2' = replid2 /\ offset' = offset /\ start' = start
    BY <1>4 DEF LinkDown, AttachStep, Save, idVars, storeVars
  <2>2. offset[n] <= offset[n]
    BY DEF Types
  <2> QED
    BY <1>a, <2>1, <2>2
<1>5. ASSUME NEW n \in Nodes, FreeBacklog(n) \/ Load(n) \/ LoadFails(n) PROVE G(n)
  <2>1. replid2'[n] = NoId2 \/ start'[n] = 0
    BY <1>5 DEF FreeBacklog, Load, LoadFails, Types
  <2> QED
    BY <2>1 DEF G, HasSecond
<1>6. ASSUME NEW n \in Nodes, Continue(n) PROVE G(n)
  <2>0. PICK m : m = master[n]
    OBVIOUS
  <2>1. m \in Nodes \ {n} /\ start[m] # 0 /\ Valid(n) /\ cached[n] = CacheOf(n)
    BY <1>6, <2>0, Continued
  <2>2. offset' = offset /\ offset[n] \in Nat
    BY <1>6 DEF Continue, Types
  <2>3. CASE replid[m] # replid[n]
    <3>1. replid2'[n].upto = offset[n] + 1
      BY <1>6, <2>0, <2>1, <2>3 DEF Continue, CacheOf, Types
    <3> QED
      BY <2>2, <3>1 DEF G
  <2>4. CASE replid[m] = replid[n]
    <3>1. replid2' = replid2
      BY <1>6, <2>0, <2>1, <2>4 DEF Continue, CacheOf
    <3>2. CASE start[n] # 0
      BY <1>a, <2>2, <3>1, <3>2
    <3>3. CASE start[n] = 0
      <4>1. ~Stale(n)
        BY <2>1, <2>4 DEF StaleSecond, Uses, Valid
      <4> QED
        BY <2>1, <3>1, <3>3, <4>1 DEF Stale, Valid, G, HasSecond
    <3> QED
      BY <3>2, <3>3
  <2> QED
    BY <2>3, <2>4
<1>7. ASSUME NEW n \in Nodes, FullResync(n) PROVE Seconds'
  <2>0. PICK m : m = master[n]
    OBVIOUS
  <2>1. PICK fresh : fresh = (Slaves(m) = {} /\ NoBacklog(m))
    OBVIOUS
  <2>2. /\ fresh => replid2'[m] = NoId2
        /\ ~fresh => start[m] # 0 /\ replid2'[m] = replid2[m]
        /\ \A k \in Nodes \ {m} : replid2'[k] = replid2[k] /\ start'[k] = start[k]
        /\ offset' = offset
    BY <1>7, <2>0, <2>1, FullResyncParts
  <2> SUFFICES ASSUME NEW k \in Nodes PROVE G(k)
    BY DEF Seconds, G
  <2>3. offset[k] <= offset[k]
    BY DEF Types
  <2>4. CASE k = m /\ fresh
    BY <2>2, <2>4 DEF G, HasSecond
  <2>5. CASE k # m \/ ~fresh
    BY <1>a, <2>2, <2>3, <2>5
  <2> QED
    BY <2>4, <2>5
<1>8. ASSUME NEW n \in Nodes, UnsetStep(n) PROVE G(n)
  <2>1. replid2'[n].upto = offset[n] + 1 /\ offset' = offset /\ offset[n] \in Nat
    BY <1>8 DEF UnsetStep, Unset, storeVars, SecondId, Types
  <2> QED
    BY <2>1 DEF G
<1>9. ASSUME NEW n \in Nodes, Restart(n) PROVE G(n)
  <2>1. CASE disk[n].id # 0 /\ IsMaster(n)
    <3>1. replid2'[n].upto = disk[n].off + 1
      BY <1>9, <2>1 DEF Restart, RestartedIds, Types
    <3>2. disk[n].off \in Nat
      BY <2>1 DEF Sizes, SizesOf
    <3>3. \E e \in {0, 1} : offset'[n] = disk[n].off + e
      BY <1>9, <2>1 DEF Restart, Types
    <3> QED
      BY <3>1, <3>2, <3>3 DEF G
  <2>2. CASE ~(disk[n].id # 0 /\ IsMaster(n))
    <3>1. replid2'[n] = NoId2
      BY <1>9, <2>2 DEF Restart, RestartedIds, Types
    <3> QED
      BY <3>1 DEF G, HasSecond
  <2> QED
    BY <2>1, <2>2
<1>10. ASSUME NEW n \in Nodes,
              \/ Write(n) \/ Receive(n) \/ LinkDown(n) \/ FreeBacklog(n) \/ Continue(n) \/ Load(n)
              \/ LoadFails(n) \/ UnsetStep(n) \/ AttachStep(n) \/ Save(n) \/ Restart(n)
       PROVE  Seconds'
  <2>1. \A k \in Nodes : k # n => Still(k)
    BY <1>10, StillOthers
  <2>2. G(n)
    BY <1>10, <1>3, <1>4, <1>5, <1>6, <1>8, <1>9
  <2> QED
    BY <1>2, <2>1, <2>2
<1> QED
  BY <1>1, <1>7, <1>10, NextKinds

\* A node that a step does not touch uses no other ID.
LEMMA StillUses ==
  ASSUME NEW k \in Nodes, Still(k), NEW i, Uses(k, i)' PROVE Uses(k, i)
  BY DEF Still, Uses, Valid

\* An ID in use is claimed.
LEMMA UsedId ==
  ASSUME NEW k \in Nodes, NEW i, i # 0, Uses(k, i) PROVE \E c \in Claims : c.id = i
<1>1. Valid(k) /\ replid[k] = i => Held(k) \in Claims /\ Held(k).id = i
  BY HeldClaim, HeldFields
<1>2. transfer[k] # NoTransfer /\ transfer[k].id = i =>
        Stored(transfer[k]) \in Claims /\ Stored(transfer[k]).id = i
  BY OtherClaims, StoredFields
<1>3. disk[k].id = i => Stored(disk[k]) \in Claims /\ Stored(disk[k]).id = i
  BY OtherClaims, StoredFields
<1> QED
  BY <1>1, <1>2, <1>3 DEF Uses

\* A node with a stale second ID had it before, or it was a master without a backlog.
LEMMA StaleWas ==
  ASSUME IInv, [Next]_vars, NEW s \in Nodes, Stale(s)'
  PROVE  /\ replid'[s] = replid[s]
         /\ Stale(s) \/ (AttachStep(s) /\ IsMaster(s) /\ start[s] = 0)
<1> USE DEF IInv
<1>1. ASSUME Still(s) PROVE replid'[s] = replid[s] /\ Stale(s)
  BY <1>1 DEF Still, Stale, Valid
<1>2. CASE Quiet
  <2>1. Still(s)
    BY <1>2 DEF Quiet, idVars, storeVars, Still, Valid
  <2> QED
    BY <1>1, <2>1
<1>3. CASE Write(s) \/ Receive(s) \/ FreeBacklog(s)
  <2>1. cached[s] = NoCache
    BY <1>3 DEF Write, Receive, FreeBacklog, Links, LinksOf
  <2>2. cached'[s] = NoCache
    BY <1>3, <2>1 DEF Write, Receive, FreeBacklog
  <2> QED
    BY <2>2 DEF Stale
<1>4. CASE Continue(s) \/ Load(s) \/ LoadFails(s) \/ UnsetStep(s)
  <2>1. cached'[s] = NoCache
    BY <1>4 DEF Continue, Load, LoadFails, CacheDiscarded, UnsetStep, Unset, CachedWithout
  <2> QED
    BY <2>1 DEF Stale
<1>5. CASE LinkDown(s)
  BY <1>5 DEF LinkDown, idVars, storeVars, CachedWithout, Stale, Links, LinksOf
<1>6. CASE AttachStep(s)
  <2>1. replid' = replid /\ start' = start /\ replid2' = replid2
    BY <1>6 DEF AttachStep, Attach, idVars, storeVars
  <2>2. ~IsMaster(s) => cached'[s] = cached[s] \/ link[s] = "up"
    BY <1>6 DEF AttachStep, Attach, CachedWithout
  <2>3. link[s] = "up" => start[s] # 0
    BY DEF Links, LinksOf
  <2> QED
    BY <1>6, <2>1, <2>2, <2>3 DEF Stale
<1>7. CASE Save(s)
  BY <1>7 DEF Save, idVars, storeVars, Stale
<1>8. CASE Restart(s)
  <2>1. replid2'[s] = NoId2 \/ cached'[s] = NoCache
    BY <1>8 DEF Restart, RestartedIds, CachedWithout, Types
  <2> QED
    BY <2>1 DEF Stale
<1>9. ASSUME NEW n \in Nodes, FullResync(n) PROVE replid'[s] = replid[s] /\ Stale(s)
  <2>0. PICK m : m = master[n]
    OBVIOUS
  <2>2. /\ cached[m] = NoCache /\ cached' = cached
        /\ \A k \in Nodes \ {m} :
             replid'[k] = replid[k] /\ replid2'[k] = replid2[k] /\ start'[k] = start[k]
    BY <1>9, <2>0, FullResyncParts
  <2> QED
    BY <2>2 DEF Stale
<1>10. ASSUME NEW n \in Nodes, n # s,
              \/ Write(n) \/ Receive(n) \/ LinkDown(n) \/ FreeBacklog(n) \/ Continue(n) \/ Load(n)
              \/ LoadFails(n) \/ UnsetStep(n) \/ AttachStep(n) \/ Save(n) \/ Restart(n)
       PROVE  Still(s)
  BY <1>10, StillOthers
<1> QED
  BY <1>1, <1>2, <1>3, <1>4, <1>5, <1>6, <1>7, <1>8, <1>9, <1>10, NextKinds

\* While a node has a stale second ID, nobody gets its ID who did not take it from another
\* node.
LEMMA UsesWas ==
  ASSUME IInv, [Next]_vars, NEW s \in Nodes, Stale(s), NEW i, i = replid[s],
         NEW x \in Nodes \ {s}, Uses(x, i)'
  PROVE  \E y \in Nodes \ {s} : Uses(y, i)
<1> USE DEF IInv
<1>1. start[s] = 0 /\ Valid(s) /\ i # nextId /\ i # 0 /\ Held(s) \in Claims /\ Held(s).id = i
  <2>1. start[s] = 0 /\ Valid(s)
    BY DEF Stale, Valid
  <2>2. i # nextId /\ i # 0
    BY IdsBelow
  <2> QED
    BY <2>1, <2>2, HeldClaim, HeldFields
<1>2. Still(x) => Uses(x, i)
  BY StillUses
<1>3. CASE Quiet
  <2>1. Still(x)
    BY <1>3 DEF Quiet, idVars, storeVars, Still, Valid
  <2> QED
    BY <1>2, <2>1
<1>4. CASE Write(x) \/ Receive(x) \/ LinkDown(x)
  <2>1. replid' = replid /\ disk' = disk /\ transfer'[x] \in {transfer[x], NoTransfer}
    BY <1>4 DEF Write, Receive, LinkDown, idVars, TransferWithout
  <2>2. Valid(x)' => Valid(x)
    <3>1. CASE Write(x) \/ Receive(x)
      <4>1. PICK o : start'[x] = Trimmed(x, o)
        BY <3>1 DEF Write, Receive, Types
      <4>2. Trimmed(x, o) # 0 => start[x] # 0
        BY DEF Trimmed, NoBacklog
      <4>3. cached' = cached
        BY <3>1 DEF Write, Receive
      <4> QED
        BY <4>1, <4>2, <4>3 DEF Valid
    <3>2. CASE LinkDown(x)
      BY <3>2 DEF LinkDown, storeVars, CachedWithout, Valid, Links, LinksOf
    <3> QED
      BY <1>4, <3>1, <3>2
  <2> QED
    BY <2>1, <2>2 DEF Uses
<1>5. CASE FreeBacklog(x)
  <2>1. replid'[x] = nextId /\ disk' = disk /\ transfer' = transfer
    BY <1>5 DEF FreeBacklog, Types
  <2> QED
    BY <1>1, <2>1 DEF Uses
<1>6. CASE Continue(x)
  <2>0. PICK m : m = master[x]
    OBVIOUS
  <2>1. m \in Nodes \ {x} /\ start[m] # 0
    BY <1>6, <2>0, Continued
  <2>2. replid'[x] = replid[m] /\ disk' = disk /\ transfer'[x] \in {transfer[x], NoTransfer}
    BY <1>6, <2>0 DEF Continue, TransferWithout, Types
  <2>3. replid[m] = i => Uses(m, i) /\ m # s
    BY <1>1, <2>1 DEF Uses, Valid
  <2> QED
    BY <2>1, <2>2, <2>3 DEF Uses
<1>7. ASSUME NEW n \in Nodes, FullResync(n) PROVE \E y \in Nodes \ {s} : Uses(y, i)
  <2>0. PICK m : m = master[n]
    OBVIOUS
  <2>1. PICK fresh : fresh = (Slaves(m) = {} /\ NoBacklog(m))
    OBVIOUS
  <2>2. /\ m \in Nodes \ {n} /\ cached[m] = NoCache
        /\ fresh => replid'[m] = nextId
        /\ ~fresh => start[m] # 0 /\ replid'[m] = replid[m]
        /\ transfer'[n].id = replid'[m] /\ cached' = cached /\ disk' = disk
    <3>1. m \in Nodes \ {n} /\ cached[m] = NoCache /\ cached' = cached /\ disk' = disk
      BY <1>7, <2>0, <2>1, FullResyncParts
    <3>2. /\ fresh => replid'[m] = nextId
          /\ ~fresh => start[m] # 0 /\ replid'[m] = replid[m]
      BY <1>7, <2>0, <2>1, FullResyncParts
    <3>3. transfer'[n].id = replid'[m]
      BY <1>7, <2>0, <2>1, FullResyncParts
    <3> QED
      BY <3>1, <3>2, <3>3
  <2>3. /\ x # n => transfer'[x] = transfer[x]
        /\ x # m => replid'[x] = replid[x] /\ start'[x] = start[x]
    BY <1>7, <2>0, <2>1, FullResyncParts
  <2>4. replid'[m] = i => Uses(m, i) /\ m # s
    BY <1>1, <2>2 DEF Uses, Valid, Stale
  <2> QED
    BY <2>2, <2>3, <2>4 DEF Uses, Valid
<1>8. CASE Load(x)
  <2>1. /\ replid'[x] = transfer[x].id /\ transfer[x] # NoTransfer
        /\ disk'[x] \in {disk[x], transfer[x]}
    BY <1>8, FileKept DEF Load, Types, Links, LinksOf
  <2>2. transfer'[x] = NoTransfer
    BY <1>8 DEF Load, TransferWithout
  <2> QED
    BY <2>1, <2>2 DEF Uses
<1>9. CASE LoadFails(x)
  <2>1. /\ cached'[x] = NoCache /\ start'[x] = 0 /\ transfer'[x] = NoTransfer
        /\ transfer[x] # NoTransfer /\ disk'[x] \in {disk[x], transfer[x]}
    BY <1>9, FileKept DEF LoadFails, CacheDiscarded, CachedWithout, TransferWithout, Types
  <2> QED
    BY <2>1 DEF Uses, Valid
<1>10. CASE UnsetStep(x)
  <2>1. replid'[x] = nextId /\ disk' = disk /\ transfer'[x] = NoTransfer
    BY <1>10 DEF UnsetStep, Unset, TransferWithout, Types
  <2> QED
    BY <1>1, <2>1 DEF Uses
<1>11. CASE AttachStep(x)
  <2>1. replid' = replid /\ start' = start /\ disk' = disk /\ transfer'[x] = NoTransfer
    BY <1>11 DEF AttachStep, Attach, idVars, storeVars, TransferWithout
  <2>2. CASE IsMaster(x) /\ start[x] = 0
    <3>1. replid[x] # i
      BY <1>1, <2>2 DEF Unshared
    <3> QED
      BY <2>1, <3>1 DEF Uses
  <2>3. CASE IsMaster(x) /\ start[x] # 0
    BY <2>1, <2>3 DEF Uses, Valid
  <2>4. CASE ~IsMaster(x)
    <3>1. Valid(x)' => Valid(x)
      BY <1>11, <2>4 DEF AttachStep, Attach, storeVars, CachedWithout, Valid, Links, LinksOf
    <3> QED
      BY <2>1, <3>1 DEF Uses
  <2> QED
    BY <2>2, <2>3, <2>4
<1>12. CASE Save(x)
  <2>1. replid' = replid /\ start' = start /\ cached' = cached /\ transfer' = transfer
    BY <1>12 DEF Save, idVars, storeVars
  <2>2. disk'[x].id = 0 \/ (SavesHistory(x) /\ disk'[x].id = replid[x])
    BY <1>12 DEF Save, Types
  <2>3. SavesHistory(x) => Valid(x)
    BY DEF SavesHistory, Valid, NoBacklog, Links, LinksOf
  <2> QED
    BY <1>1, <2>1, <2>2, <2>3 DEF Uses, Valid
<1>13. CASE Restart(x)
  <2>1. disk' = disk /\ transfer'[x] = NoTransfer
    BY <1>13 DEF Restart, TransferWithout
  <2>2. replid'[x] = nextId \/ replid'[x] = disk[x].id
    BY <1>13 DEF Restart, RestartedIds, Types
  <2> QED
    BY <1>1, <2>1, <2>2 DEF Uses
<1>14. ASSUME NEW n \in Nodes, n # x,
              \/ Write(n) \/ Receive(n) \/ LinkDown(n) \/ FreeBacklog(n) \/ Continue(n) \/ Load(n)
              \/ LoadFails(n) \/ UnsetStep(n) \/ AttachStep(n) \/ Save(n) \/ Restart(n)
       PROVE  Still(x)
  BY <1>14, StillOthers
<1> QED
  BY <1>2, <1>3, <1>4, <1>5, <1>6, <1>7, <1>8, <1>9, <1>10, <1>11, <1>12, <1>13, <1>14,
     NextKinds

\* Every step keeps the IDs of nodes with a stale second ID to themselves.
LEMMA StaleSecondStep ==
  ASSUME IInv, [Next]_vars PROVE StaleSecond'
<1> USE DEF IInv
<1> SUFFICES ASSUME NEW s \in Nodes, NEW x \in Nodes, s # x, Stale(s)', Uses(x, replid[s])'
             PROVE  FALSE
  BY DEF StaleSecond
<1>1. PICK i : i = replid[s]
  OBVIOUS
<1>2. replid'[s] = i
  BY <1>1, StaleWas
<1>3. Uses(x, i)'
  BY <1>2 DEF Uses
<1>4. CASE Stale(s)
  <2>1. \E y \in Nodes \ {s} : Uses(y, i)
    BY <1>1, <1>3, <1>4, UsesWas
  <2> QED
    BY <1>1, <1>4, <2>1 DEF StaleSecond
<1>5. CASE AttachStep(s) /\ IsMaster(s) /\ start[s] = 0
  <2>1. Uses(x, i)
    BY <1>3, <1>5, StillOthers, StillUses
  <2>2. i # 0
    BY <1>1, IdsBelow
  <2> QED
    BY <1>1, <1>5, <2>1, <2>2, UsedId DEF Unshared
<1> QED
  BY <1>4, <1>5, StaleWas

\* The invariant holds at the start.
LEMMA InitIInv == Init => IInv
<1> SUFFICES ASSUME Init PROVE IInv
  OBVIOUS
<1>1. First \in Nodes /\ None \notin Nodes /\ MaxWrites \in Nat
  BY FirstAssumption, BoundAssumption
<1>2. <<>> \in Seq(Nat) /\ Len(<<>>) = 0
  BY EmptySeq
<1>3. Types
  <2>1. NoId2 \in SecondIds /\ NoCache \in Caches /\ NoInfo \in Snapshot
    BY <1>2 DEF NoId2, SecondIds, NoCache, Caches, NoInfo, Snapshot
  <2> QED
    BY <1>1, <1>2, <2>1 DEF Init, Types
<1>4. FailoverTypes
  BY DEF Init, FailoverTypes, NoFailover
<1>5. Sizes
  BY <1>1, <1>2 DEF Init, Sizes, SizesOf, NoInfo
<1>6. Links
  BY <1>1 DEF Init, Links, LinksOf, IsMaster
<1>7. ASSUME NEW c \in Claims PROVE c = Claim(1, 0, 0, <<>>)
  <2>1. PICK n \in Nodes : \/ Valid(n) /\ c = Held(n)
                           \/ HasSecond(n) /\ c = Second(n)
                           \/ transfer[n] # NoTransfer /\ c = Stored(transfer[n])
                           \/ disk[n].id # 0 /\ c = Stored(disk[n])
    BY ClaimsAre
  <2>2. ~HasSecond(n) /\ transfer[n] = NoTransfer /\ disk[n].id = 0
    BY DEF Init, HasSecond, NoInfo
  <2>3. Held(n) = Claim(1, 0, 0, <<>>)
    BY <1>2 DEF Init, Held
  <2> QED
    BY <2>1, <2>2, <2>3
<1> DEFINE z == Claim(1, 0, 0, <<>>)
<1>8. z.id = 1 /\ z.off = 0 /\ z.len = 0
  BY ClaimFields
<1> HIDE DEF z
<1>9. OneHistory
  <2>1. Agree(z, z)
    BY <1>8 DEF Agree, IsClaim, Point, SameUpTo
  <2> QED
    BY <1>7, <2>1 DEF OneHistory, z
<1>10. Ids
  <2>1. \A c \in Claims : c.id = 1
    BY <1>7, <1>8 DEF z
  <2> QED
    BY <2>1 DEF Init, Ids
<1>11. Seconds
  BY DEF Init, Seconds, HasSecond
<1>12. OneMaster
  BY <1>1 DEF Init, OneMaster, IsMaster
<1>13. Ahead
  <2>1. \A c \in Claims : c.off = 0
    BY <1>7, <1>8 DEF z
  <2> QED
    BY <2>1 DEF Init, Ahead
<1>14. Unshared /\ StaleSecond
  BY DEF Init, Unshared, StaleSecond, Stale
<1> QED
  BY <1>3, <1>4, <1>5, <1>6, <1>9, <1>10, <1>11, <1>12, <1>13, <1>14 DEF IInv

\* The invariant holds in every reachable state (proved for any set of nodes, any size of the
\* backlog and any bounds).
THEOREM Inductive == Spec => []IInv
<1>1. IInv /\ [Next]_vars => IInv'
  <2> SUFFICES ASSUME IInv, [Next]_vars PROVE IInv'
    OBVIOUS
  <2>1. Types' /\ FailoverTypes' /\ Sizes' /\ Links'
    BY TypesStep, FailoverTypesStep, SizesStep, LinksStep DEF IInv
  <2>2. Ids' /\ Seconds' /\ OneMaster' /\ StaleSecond'
    BY <2>1, IdsStep, SecondsStep, OneMasterStep, StaleSecondStep
  <2>3. OneHistory' /\ Ahead' /\ Unshared'
    <3>1. PICK a \in Nodes : \E X : Evolves(a, X)
      BY <2>1, EvolveStep
    <3> QED
      BY <3>1, HistoryStep DEF IInv
  <2> QED
    BY <2>1, <2>2, <2>3 DEF IInv
<1> QED
  BY InitIInv, <1>1, PTL DEF Spec

\* Type correctness of replication: in particular a replica in sync has a backlog
\* (replicationAttachToNewMaster, replicationResurrectCachedMaster).
THEOREM TypeCorrect == Spec => []TypeOK
<1>1. IInv => TypeOK
  <2> SUFFICES ASSUME IInv PROVE TypeOK
    OBVIOUS
  <2>1. MaxWrites \in Nat /\ writes \in Nat /\ writes <= MaxWrites
    BY BoundAssumption DEF IInv, Types, Sizes
  <2>2. ASSUME NEW n \in Nodes
        PROVE  /\ offset[n] \in 0..MaxWrites /\ Len(data[n]) <= MaxWrites
               /\ start[n] \in 0..(offset[n] + 1)
    <3>1. offset[n] \in Nat /\ start[n] \in Nat /\ Len(data[n]) \in Nat
      BY LenProperties DEF IInv, Types
    <3>2. offset[n] <= writes /\ Len(data[n]) <= writes /\ start[n] <= offset[n] + 1
      BY DEF IInv, Sizes, SizesOf
    <3> QED
      BY <2>1, <3>1, <3>2
  <2>3. ASSUME NEW n \in Nodes
        PROVE  /\ link[n] = "transfer" <=> transfer[n] # NoTransfer
               /\ link[n] = "up" => cached[n] = NoCache /\ ~NoBacklog(n)
    BY DEF IInv, Links, LinksOf, NoBacklog
  <2> QED
    BY <2>2, <2>3 DEF TypeOK, IInv, Types
<1> QED
  BY Inductive, <1>1, PTL

\* A replica in sync holds exactly what its master held at the replica's offset, whichever
\* role changes, restarts, failed loads and resynchronizations came before: a partial
\* resynchronization is never accepted between two histories that differ
\* (masterTryPartialResynchronization, shiftReplicationId, loadDataFromDisk).
THEOREM ReplicasFollow == Spec => []SameHistory
<1>1. IInv => SameHistory
  <2> SUFFICES ASSUME IInv, NEW r \in Nodes, link[r] = "up", NEW m, m = master[r]
               PROVE  /\ offset[m] - offset[r] >= 0
                      /\ data[r] = SubSeq(data[m], 1, Len(data[m]) - (offset[m] - offset[r]))
    BY DEF SameHistory
  <2> USE DEF IInv
  <2>1. m \in Nodes /\ offset[r] <= offset[m]
    BY InSync
  <2>2. Len(data[m]) - Len(data[r]) = offset[m] - offset[r]
    BY InSync
  <2>3. SameUpTo(Len(data[r]), data[r], data[m])
    BY InSync
  <2>4. /\ data[r] \in Seq(Nat) /\ data[m] \in Seq(Nat) /\ offset[r] \in Nat
        /\ offset[m] \in Nat
        /\ Len(data[r]) \in Nat /\ Len(data[m]) \in Nat
    BY <2>1, LenProperties DEF Types
  <2> DEFINE a == Len(data[m])
             b == Len(data[r])
             c == offset[m]
             d == offset[r]
  <2>5. c - d >= 0 /\ a - (c - d) = b /\ b <= a
    <3>1. a \in Nat /\ b \in Nat /\ c \in Nat /\ d \in Nat /\ a - b = c - d /\ d <= c
      BY <2>1, <2>2, <2>4
    <3> HIDE DEF a, b, c, d
    <3> QED
      BY <3>1
  <2>6. data[r] = SubSeq(data[m], 1, b)
    <3>0. \A i \in 1..b : data[m][i] \in Nat
      <4>1. \A i \in 1..b : i \in 1..a
        BY <2>4, <2>5
      <4> QED
        BY <2>4, <4>1, ElementOfSeq
    <3>1. SubSeq(data[m], 1, b) \in Seq(Nat) /\ Len(SubSeq(data[m], 1, b)) = b
      <4>1. Len(SubSeq(data[m], 1, b)) = IF 1 <= b THEN b - 1 + 1 ELSE 0
        BY <2>4, <3>0, SubSeqProperties
      <4>2. SubSeq(data[m], 1, b) \in Seq(Nat)
        BY <2>4, <3>0, SubSeqProperties
      <4> QED
        BY <2>4, <4>1, <4>2
    <3>2. \A i \in 1..b : SubSeq(data[m], 1, b)[i] = data[m][i]
      BY <2>4, <2>5, SubSeqProperties
    <3>3. \A i \in 1..b : data[r][i] = SubSeq(data[m], 1, b)[i]
      BY <2>3, <3>2 DEF SameUpTo
    <3> QED
      BY <2>4, <3>1, <3>3, SeqEqual
  <2> QED
    BY <2>5, <2>6
<1> QED
  BY Inductive, <1>1, PTL

-----------------------------------------------------------------------------
\* The failover of n waits for its target or has handed over to it.
Engaged(n) == failover[n].state \in {"wait", "progress"}
CaughtUp(n) ==
  LET t == failover[n].target IN offset[t] = offset[n] /\ data[t] = data[n]

\* The state of a failover: the target stays a replica of n and has no failover of its own, and
\* once n hands over without FORCE it holds what n holds.
FailoverOf(n) ==
  /\ failover[n].state = "none" => failover[n] = NoFailover
  /\ link[n] # "down" => failover[n] = NoFailover
  /\ failover[n].state = "wait" => IsMaster(n)
  /\ Engaged(n) => LET t == failover[n].target IN
                   master[t] = n /\ link[t] # "transfer" /\ failover[t] = NoFailover
  /\ failover[n].state = "progress" => ~IsMaster(n) /\ (~failover[n].force => CaughtUp(n))
Failovers == \A n \in Nodes : FailoverOf(n)

\* A step leaves k alone, except that its link may break.
Untouched(k) ==
  /\ failover'[k] = failover[k] /\ master'[k] = master[k]
  /\ data'[k] = data[k] /\ offset'[k] = offset[k] /\ link'[k] \in {link[k], "down"}

\* What a failover under way says of its master and its target.
LEMMA EngagedFacts ==
  ASSUME FailoverTypes, Failovers, NEW n \in Nodes, Engaged(n), NEW t, t = failover[n].target
  PROVE  /\ t \in Nodes \ {n} /\ master[t] = n /\ link[t] # "transfer"
         /\ failover[t] = NoFailover
         /\ failover[n] # NoFailover /\ link[n] = "down" /\ ~Engaged(t)
<1>1. NoFailover.state = "none"
  BY DEF NoFailover
<1>2. FailoverOf(n) /\ failover[n].state # "none"
  BY DEF Failovers, Engaged
<1>3. t \in Nodes \ {n}
  BY <1>2 DEF FailoverTypes
<1>4. master[t] = n /\ link[t] # "transfer" /\ failover[t] = NoFailover
  BY <1>2 DEF FailoverOf
<1>5. failover[n] # NoFailover
  BY <1>1, <1>2
<1>6. link[n] = "down"
  BY <1>2, <1>5 DEF FailoverOf
<1>7. ~Engaged(t)
  BY <1>1, <1>4 DEF Engaged
<1> QED
  BY <1>3, <1>4, <1>5, <1>6, <1>7

\* A failover goes on if its master and its target are left alone.
LEMMA UntouchedKeeps ==
  ASSUME FailoverTypes, Failovers, NEW n \in Nodes, Untouched(n),
         Engaged(n) => Untouched(failover[n].target)
  PROVE  FailoverOf(n)'
<1>1. FailoverOf(n)
  BY DEF Failovers
<1>2. Engaged(n)' => Engaged(n)
  BY DEF Engaged, Untouched
<1>3. failover[n].state = "progress" => Engaged(n)
  BY DEF Engaged
<1>4. CaughtUp(n) /\ Engaged(n) => CaughtUp(n)'
  BY DEF CaughtUp, Untouched
<1>5. IsMaster(n)' = IsMaster(n)
  BY DEF IsMaster, Untouched
<1>6. failover'[n] = failover[n]
  BY DEF Untouched
<1>7. link'[n] # "down" => link[n] # "down"
  BY DEF Untouched
<1>8. Engaged(n)' => LET t == failover'[n].target IN
                     master'[t] = n /\ link'[t] # "transfer" /\ failover'[t] = NoFailover
  BY <1>1, <1>2, <1>6 DEF FailoverOf, Untouched
<1>9. /\ failover'[n].state = "none" => failover'[n] = NoFailover
      /\ link'[n] # "down" => failover'[n] = NoFailover
      /\ failover'[n].state = "wait" => IsMaster(n)'
      /\ failover'[n].state = "progress" => ~IsMaster(n)' /\ (~failover'[n].force => CaughtUp(n)')
  BY <1>1, <1>3, <1>4, <1>5, <1>6, <1>7 DEF FailoverOf
<1> QED
  BY <1>8, <1>9 DEF FailoverOf

\* A node without a failover has nothing to show.
LEMMA IdleKeeps ==
  ASSUME NEW n \in Nodes, failover'[n] = NoFailover PROVE FailoverOf(n)'
<1>1. NoFailover.state = "none"
  BY DEF NoFailover
<1> QED
  BY <1>1 DEF FailoverOf, Engaged

\* What to show of a step by a node that is nobody's target.
LEMMA OneActor ==
  ASSUME FailoverTypes, Failovers, NEW a \in Nodes, \A k \in Nodes : k # a => Untouched(k),
         \A n \in Nodes : n # a /\ Engaged(n) => failover[n].target # a,
         FailoverOf(a)'
  PROVE  Failovers'
<1> SUFFICES ASSUME NEW n \in Nodes, n # a PROVE FailoverOf(n)'
  BY DEF Failovers
<1>1. Engaged(n) => Untouched(failover[n].target)
  BY EngagedFacts
<1> QED
  BY <1>1, UntouchedKeeps

\* Every step keeps the state of failovers if targets do not restart.
LEMMA FailoversStep ==
  ASSUME IInv, Failovers, [Next]_vars, TargetRestarts = FALSE PROVE Failovers'
<1> USE DEF IInv
<1>0. NoFailover.state = "none"
  BY DEF NoFailover
<1>1. ASSUME \A k \in Nodes : Untouched(k) PROVE Failovers'
  <2>1. ASSUME NEW n \in Nodes PROVE FailoverOf(n)'
    BY <1>1, UntouchedKeeps, EngagedFacts
  <2> QED
    BY <2>1 DEF Failovers
<1>2. CASE UNCHANGED vars
  BY <1>1, <1>2 DEF vars, Untouched
<1>3. ASSUME NEW a \in Nodes, LinkDown(a) \/ FreeBacklog(a) \/ Save(a) PROVE Failovers'
  <2>1. \A k \in Nodes : Untouched(k)
    BY <1>3 DEF LinkDown, FreeBacklog, Save, idVars, storeVars, LinkWithout, Untouched
  <2> QED
    BY <1>1, <2>1
<1>4. ASSUME NEW a \in Nodes, Write(a) PROVE Failovers'
  <2>1. \A k \in Nodes : k # a => Untouched(k)
    BY <1>4 DEF Write, Untouched, Types
  <2>2. failover'[a] = NoFailover /\ master[a] = None
    BY <1>4 DEF Write, IsMaster
  <2>3. \A n \in Nodes : n # a /\ Engaged(n) => failover[n].target # a
    BY <2>2, EngagedFacts, FirstAssumption
  <2> QED
    BY <2>1, <2>2, <2>3, IdleKeeps, OneActor
<1>5. ASSUME NEW a \in Nodes, Receive(a) PROVE Failovers'
  <2>1. \A k \in Nodes : k # a => Untouched(k)
    BY <1>5 DEF Receive, Untouched, Types
  <2>2. /\ failover'[a] = failover[a] /\ failover' = failover /\ master' = master
        /\ link' = link
        /\ link[a] = "up" /\ offset[a] < offset[master[a]]
    BY <1>5 DEF Receive
  <2>3. FailoverOf(a)'
    BY <2>2, IdleKeeps DEF Failovers, FailoverOf
  <2>4. ASSUME NEW n \in Nodes, n # a, Engaged(n), failover[n].target = a PROVE FailoverOf(n)'
    <3>1. master[a] = n /\ FailoverOf(n)
      BY <2>4, EngagedFacts DEF Failovers
    <3>2. offset[a] # offset[n]
      BY <2>2, <3>1 DEF Types
    <3>3. failover[n].state = "progress" => failover[n].force /\ ~IsMaster(n)
      BY <2>4, <3>1, <3>2 DEF FailoverOf, CaughtUp
    <3>4. FailoverTypes /\ failover[n].force \in BOOLEAN
      BY DEF FailoverTypes
    <3> QED
      BY <2>2, <3>1, <3>3 DEF FailoverOf, Engaged, IsMaster
  <2>5. ASSUME NEW n \in Nodes, n # a, Engaged(n) => failover[n].target # a
        PROVE  FailoverOf(n)'
    <3>1. Engaged(n) => Untouched(failover[n].target)
      BY <2>1, <2>5, EngagedFacts
    <3> QED
      BY <2>1, <2>5, <3>1, UntouchedKeeps
  <2> QED
    BY <2>3, <2>4, <2>5 DEF Failovers
<1>6. ASSUME NEW a \in Nodes, Continue(a) \/ FullResync(a) PROVE Failovers'
  <2>1. \A k \in Nodes : k # a => Untouched(k)
    <3>1. /\ master' = master /\ offset' = offset /\ data' = data
          /\ failover' = [failover EXCEPT ![a] = NoFailover]
      BY <1>6 DEF Continue, FullResync
    <3>2. \A k \in Nodes : k # a => link'[k] \in {link[k], "down"}
      <4>1. CASE Continue(a)
        <5>1. PICK S : link' = [LinkWithout(S) EXCEPT ![a] = "up"]
          BY <4>1 DEF Continue
        <5> QED
          BY <5>1 DEF LinkWithout
      <4>2. CASE FullResync(a)
        <5>1. link' = [link EXCEPT ![a] = "transfer"]
          BY <4>2 DEF FullResync
        <5> QED
          BY <5>1 DEF Types
      <4> QED
        BY <1>6, <4>1, <4>2
    <3> QED
      BY <3>1, <3>2 DEF Untouched, FailoverTypes
  <2>2. failover'[a] = NoFailover /\ failover[master[a]] = NoFailover
    BY <1>6 DEF Continue, FullResync, Accepts, FailoverTypes
  <2>3. \A n \in Nodes : n # a /\ Engaged(n) => failover[n].target # a
    BY <2>2, EngagedFacts
  <2> QED
    BY <2>1, <2>2, <2>3, IdleKeeps, OneActor
<1>7. ASSUME NEW a \in Nodes, Load(a) \/ LoadFails(a) PROVE Failovers'
  <2>1. \A k \in Nodes : k # a => Untouched(k)
    BY <1>7 DEF Load, LoadFails, LinkWithout, Untouched, Types
  <2>2. failover'[a] = failover[a] /\ link[a] = "transfer"
    BY <1>7 DEF Load, LoadFails
  <2>3. failover'[a] = NoFailover
    BY <2>2 DEF Failovers, FailoverOf
  <2>4. \A n \in Nodes : n # a /\ Engaged(n) => failover[n].target # a
    BY <2>2, EngagedFacts
  <2> QED
    BY <2>1, <2>3, <2>4, IdleKeeps, OneActor
<1>8. ASSUME NEW a \in Nodes, ReplicaOfNoOne(a) \/ \E m \in Nodes : ReplicaOf(a, m)
      PROVE  Failovers'
  <2>1. \A k \in Nodes : k # a => Untouched(k)
    BY <1>8
    DEF ReplicaOfNoOne, ReplicaOf, Unset, Attach, storeVars, LinkWithout, Untouched, Types
  <2>2. failover'[a] = NoFailover /\ ~IsTarget(a)
    BY <1>8 DEF ReplicaOfNoOne, ReplicaOf
  <2>3. \A n \in Nodes : n # a /\ Engaged(n) => failover[n].target # a
    BY <2>2 DEF IsTarget
  <2> QED
    BY <2>1, <2>2, <2>3, IdleKeeps, OneActor
<1>9. ASSUME NEW a \in Nodes, NEW t \in Nodes, NEW force \in BOOLEAN, StartFailover(a, t, force)
      PROVE  Failovers'
  <2>1. \A k \in Nodes : k # a => Untouched(k)
    BY <1>9 DEF StartFailover, storeVars, Untouched, Types, FailoverTypes
  <2>2. /\ failover'[a] = [state |-> "wait", target |-> t, force |-> force]
        /\ master' = master /\ link' = link /\ master[a] = None /\ master[t] = a
        /\ link[t] = "up"
    BY <1>9 DEF StartFailover, FailoverTypes, Slaves, IsMaster
  <2>3. t # a /\ failover[t] = NoFailover /\ failover'[t] = NoFailover
    BY <2>1, <2>2, FirstAssumption DEF Failovers, FailoverOf, Untouched
  <2>4. \A n \in Nodes : n # a /\ Engaged(n) => failover[n].target # a
    BY <2>2, EngagedFacts, FirstAssumption
  <2>5. link[a] = "down"
    BY <2>2 DEF Links, LinksOf, IsMaster
  <2>6. FailoverOf(a)'
    BY <2>2, <2>3, <2>5 DEF FailoverOf, Engaged, IsMaster
  <2> QED
    BY <2>1, <2>4, <2>6, OneActor
<1>10. ASSUME NEW a \in Nodes, UpdateFailover(a) PROVE Failovers'
  <2>1. \A k \in Nodes : k # a => Untouched(k)
    BY <1>10
    DEF UpdateFailover, Attach, storeVars, LinkWithout, Untouched, Types, FailoverTypes
  <2>2. PICK t : t = failover[a].target
    OBVIOUS
  <2>3. Engaged(a) /\ failover[a].state = "wait"
    BY <1>10 DEF UpdateFailover, Engaged
  <2>4. t \in Nodes \ {a} /\ master[t] = a /\ link[t] # "transfer" /\ failover[t] = NoFailover
    BY <2>2, <2>3, EngagedFacts
  <2>5. \A n \in Nodes : n # a /\ Engaged(n) => failover[n].target # a
    BY <2>3, <1>0, EngagedFacts DEF Engaged
  <2>6. /\ failover'[a].state = "progress" /\ failover'[a].target = t
        /\ failover'[a].force = failover[a].force
        /\ master'[a] = t /\ link'[a] = "down" /\ data' = data /\ offset' = offset
    BY <1>10, <2>2 DEF UpdateFailover, Attach, storeVars, LinkWithout, Types, FailoverTypes
  <2>7. ASSUME ~failover[a].force PROVE offset[t] = offset[a] /\ data[t] = data[a]
    <3>1. link[t] = "up" /\ offset[t] = offset[a]
      BY <1>10, <2>2, <2>7 DEF UpdateFailover, TargetSynced
    <3>2. /\ Len(data[a]) - Len(data[t]) = offset[a] - offset[t]
          /\ SameUpTo(Len(data[t]), data[t], data[a])
      BY <2>4, <3>1, InSync
    <3>3. data[a] \in Seq(Nat) /\ data[t] \in Seq(Nat) /\ offset[a] \in Nat
      BY <2>4 DEF Types
    <3>4. Len(data[a]) \in Nat /\ Len(data[t]) \in Nat
      BY <3>3, LenProperties
    <3>5. Len(data[a]) = Len(data[t])
      <4> DEFINE b == Len(data[a])
                 c == Len(data[t])
                 o == offset[a]
      <4>1. b \in Nat /\ c \in Nat /\ o \in Nat /\ b - c = o - o
        BY <3>1, <3>2, <3>3, <3>4
      <4> HIDE DEF b, c, o
      <4>2. b = c
        BY <4>1
      <4> QED
        BY <4>2 DEF b, c
    <3> QED
      BY <3>1, <3>2, <3>3, <3>5, SeqEqual DEF SameUpTo
  <2>8. failover'[t] = NoFailover /\ master'[t] = a /\ link'[t] # "transfer"
    BY <2>1, <2>4 DEF Untouched
  <2>9. FailoverOf(a)'
    <3>1. ~failover'[a].force => CaughtUp(a)'
      BY <2>6, <2>7 DEF CaughtUp
    <3>2. ~IsMaster(a)'
      BY <2>4, <2>6, FirstAssumption DEF IsMaster
    <3> QED
      BY <2>6, <2>8, <3>1, <3>2 DEF FailoverOf, Engaged
  <2> QED
    BY <2>1, <2>5, <2>9, OneActor
<1>11. ASSUME NEW a \in Nodes, RequestFailover(a) PROVE Failovers'
  <2>1. PICK t : t = failover[a].target
    OBVIOUS
  <2>2. Engaged(a) /\ failover[a].state = "progress"
    BY <1>11 DEF RequestFailover, Engaged
  <2>3. t \in Nodes \ {a} /\ master[t] = a /\ failover[t] = NoFailover /\ link[a] = "down"
    BY <2>1, <2>2, EngagedFacts
  <2>4. \A k \in Nodes : k # a /\ k # t => Untouched(k)
    BY <1>11, <2>1, <2>3
    DEF RequestFailover, Unset, storeVars, LinkWithout, Untouched, Types, FailoverTypes
  <2>5. failover'[a].state = "asked" /\ failover'[t] = NoFailover /\ link'[a] = "down"
    BY <1>11, <2>1, <2>3 DEF RequestFailover, Unset, LinkWithout, FailoverTypes
  <2>6. FailoverOf(a)'
    BY <2>5 DEF FailoverOf, Engaged
  <2>7. ASSUME NEW n \in Nodes, n # a, n # t PROVE FailoverOf(n)'
    <3>1. Engaged(n) => Untouched(failover[n].target)
      BY <1>0, <2>2, <2>3, <2>4, <2>7, EngagedFacts DEF Engaged
    <3> QED
      BY <2>4, <2>7, <3>1, UntouchedKeeps
  <2> QED
    BY <2>3, <2>5, <2>6, <2>7, IdleKeeps DEF Failovers
<1>12. ASSUME NEW a \in Nodes, AbortFailover(a) PROVE Failovers'
  <2>1. \A k \in Nodes : k # a => Untouched(k)
    BY <1>12 DEF AbortFailover, Unset, storeVars, LinkWithout, Untouched, Types, FailoverTypes
  <2>2. failover'[a] = NoFailover /\ failover[a].state # "none"
    BY <1>12 DEF AbortFailover, FailoverTypes
  <2>3. \A n \in Nodes : n # a /\ Engaged(n) => failover[n].target # a
    BY <1>0, <2>2, EngagedFacts
  <2> QED
    BY <2>1, <2>2, <2>3, IdleKeeps, OneActor
<1>13. ASSUME NEW a \in Nodes, Restart(a) PROVE Failovers'
  <2>1. \A k \in Nodes : k # a => Untouched(k)
    BY <1>13 DEF Restart, LinkWithout, Untouched, Types, FailoverTypes
  <2>2. failover'[a] = NoFailover /\ ~IsTarget(a)
    BY <1>13 DEF Restart, FailoverTypes
  <2>3. \A n \in Nodes : n # a /\ Engaged(n) => failover[n].target # a
    BY <2>2 DEF IsTarget
  <2> QED
    BY <2>1, <2>2, <2>3, IdleKeeps, OneActor
<1> QED
  BY <1>2, <1>3, <1>4, <1>5, <1>6, <1>7, <1>8, <1>9, <1>10, <1>11, <1>12, <1>13 DEF Next

\* A failover without FORCE loses no write, provided that the target does not restart
\* meanwhile: when it is promoted it has the dataset of the old master (updateFailoverStatus,
\* replicationSetMaster).
THEOREM FailoverLosesNothing ==
  ASSUME TargetRestarts = FALSE PROVE Spec => FailoverKeepsData
<1>1. Init => Failovers
  BY DEF Init, Failovers, FailoverOf, Engaged, NoFailover
<1>2. IInv /\ Failovers /\ [Next]_vars => Failovers'
  BY FailoversStep
<1> DEFINE A == \A n \in Nodes :
              failover[n].state = "progress" /\ ~failover[n].force /\ failover'[n].state = "asked"
                => data[failover[n].target] = data[n]
<1>3. Failovers => A
  BY DEF Failovers, FailoverOf, CaughtUp
<1> QED
  BY Inductive, <1>1, <1>2, <1>3, PTL DEF Spec, FailoverKeepsData

=============================================================================
