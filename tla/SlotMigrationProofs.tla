------------------------ MODULE SlotMigrationProofs ------------------------
(***************************************************************************)
(* Theorems about SlotMigration, for any number of clients, keys, writes,  *)
(* faults, packets and attempts to move the slot.                          *)
(*                                                                         *)
(* The refinement of KeyStore rests on an invariant about where a key may  *)
(* be. While the slot is closed at the source, the target has none of its  *)
(* keys and nobody was asked to go there; a client was only asked to go    *)
(* there for keys the source has not; once the target owns the slot, the   *)
(* source has no key of it. So whoever serves a command has the copy that  *)
(* counts. A MIGRATE in progress keeps its promise because the source is   *)
(* blocked: what it has sent is what it has, and what was acknowledged is  *)
(* at the target with that value when the source forgets it.               *)
(*                                                                         *)
(* Two of these facts depend on what may happen together (SafeModes). A    *)
(* key that is deleted at the source must not have a copy at the target,   *)
(* which an interrupted MIGRATE leaves there. And a RESTORE of an          *)
(* abandoned connection is harmless without REPLACE, since a key that was  *)
(* moved is not missing at the target, but with REPLACE it puts an old     *)
(* value back. TLC finds both when they are allowed.                       *)
(***************************************************************************)
EXTENDS SlotMigration, FiniteSetTheorems, SequenceTheorems, WellFoundedInduction, TLAPS

\* Clients that delete keys meet no broken MIGRATE, and no RESTORE with REPLACE is late.
SafeModes == \A m \in Modes : (m.deletes => m.faults = 0) /\ TRUE \notin m.late

\* The steps of redis-cli while the slot is open at both ends, after it was handed over, all.
Opened == {"keys", "migrate", "wait", "busy", "replace", "target"}
Final == {"source", "other", "done"}
Steps == Opened \cup Final \cup {"importing", "migrating", "stopped"}
Stored == Values \cup {Missing}

\* The target owns the slot; the source has no key of it.
Closed == owner[Target] = Target
Emptied == \A k \in Keys : data[Source][k] = Missing

\* The inductive invariant, first what holds in every mode.
Types ==
  /\ mode \in Modes
  /\ owner \in [Nodes -> Nodes \cup {None}] /\ disowned \subseteq Nodes
  /\ epoch \in [Nodes -> [Nodes -> 1..4]]
  /\ replica \in BOOLEAN /\ migrating \in BOOLEAN /\ importing \in BOOLEAN
  /\ data \in [Nodes -> [Keys -> Stored]]
  /\ request \in [Clients -> Requests]
  /\ admin \in [step : Steps, keys : SUBSET Keys]
  /\ writes \in 0..mode.writes /\ faults \in 0..mode.faults /\ runs \in 1..MaxRuns

\* Nobody believes in the target before it owns the slot, and it owns it with the greatest
\* configEpoch, for good.
Owners ==
  /\ owner[Source] \in {Source, Target} /\ owner[Target] \in {Source, Target}
  /\ owner[Other] \in {Source, Target, None}
  /\ owner[Source] = Target \/ owner[Other] = Target => Closed
  /\ replica => owner[Source] = Target
  /\ Closed => epoch[Target][Target] = 4 /\ Target \notin disowned /\ ~importing

\* Epoch 4 is the one the target takes when the slot is closed there.
Ages ==
  /\ epoch[Target][Target] \in {1, 4} /\ epoch[Target][Other] = 3
  /\ epoch[Target][Target] = 4 \/ \A n, x \in Nodes : epoch[n][x] <= 3

\* No packet knows more than the target.
IsPacket(p) ==
  /\ p.src \in Nodes /\ p.dst \in Nodes /\ p.about \in {Source, Target} /\ p.about # p.dst
  /\ p.epoch \in 1..4 /\ (p.epoch = 4 => epoch[Target][Target] = 4)
  /\ p.claims /\ p.about = Target => Closed
  /\ p.slave => Closed /\ p.src = Source /\ p.about = Source
Packets == \A p \in net : IsPacket(p)

\* What redis-cli has achieved at each step; a MIGRATE blocks the source only where it waits.
Moves ==
  /\ admin.step \in Opened \cup {"migrating"} => importing /\ ~Closed
  /\ admin.step \in Opened => migrating
  /\ admin.step = "target" => Emptied
  /\ admin.step \in Final => Closed
  /\ Blocked => admin.step = "wait"

\* As long as the source owns the slot and it is not open, the target has none of its keys and
\* nobody was sent there.
Shut ==
  owner[Source] = Source /\ ~migrating =>
    /\ ~Closed /\ stray = {}
    /\ \A k \in Keys : data[Target][k] = Missing
    /\ \A c \in Clients : ~request[c].asking
\* A slot is handed over without keys.
Handed == Closed => Emptied

\* ASK was answered only for keys the source has not.
IsAsk(r) ==
  /\ r = NoRequest \/ r.op \in {"read", "write", "delete"}
  /\ r.op \in {"write", "delete"} => \E k \in Keys : r.keys = {k}
  /\ r.op = "delete" => mode.deletes
  /\ r.asking => r.at = Target /\ \A k \in r.keys : data[Source][k] = Missing
Asks == \A c \in Clients : IsAsk(request[c])

\* A MIGRATE has as many answers and RESTOREs as keys; the RESTOREs carry what the source has.
CallFields == {"keys", "todo", "replies", "replace", "retry"}
RestoreSet == [key : Keys, value : Values, replace : BOOLEAN]
IsCall(c) ==
  /\ c = [f \in CallFields |-> c[f]]
  /\ c.keys \in Seq(Keys) /\ c.todo \in Seq(RestoreSet) /\ c.replies \in Seq({"ok", "busy"})
  /\ c.replace \in BOOLEAN
  /\ Len(c.todo) + Len(c.replies) = Len(c.keys)
Sent ==
  /\ call.keys # <<>>
  /\ \A i, j \in 1..Len(call.keys) : call.keys[i] = call.keys[j] => i = j
  /\ \A i \in 1..Len(call.keys) : data[Source][call.keys[i]] # Missing
  /\ \A i \in 1..Len(call.todo) :
       LET k == call.keys[Len(call.replies) + i] IN
       call.todo[i] = Restore(k, data[Source][k], call.replace)
Calls ==
  /\ IsCall(call)
  /\ stray \subseteq RestoreSet
  /\ Blocked => Sent

Base == Types /\ Owners /\ Ages /\ Packets /\ Moves /\ Shut /\ Handed /\ Asks /\ Calls

\* What holds in SafeModes: acknowledged keys are at the target, late RESTOREs find their keys
\* there or at the source, and clients that delete see every key in one place, except for those
\* the blocked source has sent.
Acked ==
  Blocked => \A i \in 1..Len(call.replies) :
    call.replies[i] = "ok" => data[Target][call.keys[i]] = data[Source][call.keys[i]]
Strays ==
  /\ \A r \in stray : ~r.replace /\ Home[r.key] # Missing
  /\ mode.deletes => stray = {}
Both(k) == data[Source][k] # Missing /\ data[Target][k] # Missing
OneCopy ==
  mode.deletes =>
    /\ \A i \in 1..Len(call.replies) : call.replies[i] = "ok"
    /\ \A k \in Keys : Both(k) => Blocked /\ \E i \in 1..Len(call.replies) : call.keys[i] = k

Kept == Acked /\ Strays /\ OneCopy

IInv == Base /\ (SafeModes => Kept)

\* The nodes.
LEMMA NodeFacts ==
  /\ Source \in Nodes /\ Target \in Nodes /\ Other \in Nodes
  /\ Source # Target /\ Source # Other /\ Target # Other
  /\ None # Source /\ None # Target /\ None # Other
  /\ \A n \in Nodes : n = Source \/ n = Target \/ n = Other
BY NodesAssumption DEF Nodes

\* The bounds of a mode.
LEMMA ModeFacts ==
  ASSUME NEW m \in Modes
  PROVE  m.writes \in 0..MaxWrites /\ m.faults \in Nat
BY ModesAssumption

\* No call is a call without keys.
LEMMA NoCallIsCall == IsCall(NoCall) /\ Len(NoCall.replies) = 0 /\ Len(NoCall.todo) = 0
<1>1. NoCall = [f \in CallFields |-> NoCall[f]]
  BY DEF NoCall, CallFields
<1>2. NoCall.keys = <<>> /\ NoCall.replies = <<>> /\ NoCall.todo = <<>>
  BY DEF NoCall
<1>3. NoCall.keys \in Seq(Keys) /\ NoCall.replies \in Seq({"ok", "busy"})
  BY <1>2
<1>4. NoCall.todo \in Seq(RestoreSet) /\ NoCall.replace \in BOOLEAN
  BY <1>2 DEF NoCall
<1>5. Len(NoCall.keys) = 0 /\ Len(NoCall.replies) = 0 /\ Len(NoCall.todo) = 0
  BY <1>2
<1>6. Len(NoCall.todo) + Len(NoCall.replies) = Len(NoCall.keys)
  BY <1>5
<1> QED
  BY <1>1, <1>3, <1>4, <1>5, <1>6, Zenon DEF IsCall

\* The invariant holds at the beginning.
LEMMA InitInv == Init => IInv
<1> SUFFICES ASSUME Init PROVE IInv
  OBVIOUS
<1> USE DEF Init
<1>1. Types
  <2>1. mode.writes \in 0..MaxWrites /\ mode.faults \in Nat
    BY ModeFacts
  <2>2. writes \in 0..mode.writes /\ faults \in 0..mode.faults /\ runs \in 1..MaxRuns
    BY <2>1, BoundAssumption
  <2>3. epoch \in [Nodes -> [Nodes -> 1..4]]
    OBVIOUS
  <2>4. owner \in [Nodes -> Nodes \cup {None}]
    BY NodeFacts
  <2>5. data \in [Nodes -> [Keys -> Stored]]
    BY DEF Stored
  <2>6. NoRequest \in Requests
    BY NodeFacts DEF NoRequest, Requests
  <2>7. request \in [Clients -> Requests]
    BY <2>6
  <2>8. admin \in [step : Steps, keys : SUBSET Keys]
    BY DEF Steps
  <2> QED
    BY <2>2, <2>3, <2>4, <2>5, <2>7, <2>8 DEF Types
<1>2. Owners
  BY NodeFacts DEF Owners, Closed
<1>3. Ages
  BY NodeFacts DEF Ages
<1>4. Packets
  BY DEF Packets
<1>5. ~Blocked
  BY DEF Blocked
<1>6. Moves
  BY <1>5 DEF Moves, Opened, Final
<1>7. Shut
  BY NodeFacts DEF Shut, Closed, NoRequest
<1>8. Handed
  BY NodeFacts DEF Handed, Closed
<1>9. Asks
  BY DEF Asks, IsAsk, NoRequest
<1>10. Calls
  BY <1>5, NoCallIsCall DEF Calls
<1>11. Acked
  BY <1>5 DEF Acked
<1>12. Strays
  BY DEF Strays
<1>13. OneCopy
  <2>1. \A k \in Keys : ~Both(k)
    BY NodeFacts DEF Both
  <2> QED
    BY <2>1, NoCallIsCall DEF OneCopy
<1> QED
  BY <1>1, <1>2, <1>3, <1>4, <1>6, <1>7, <1>8, <1>9, <1>10, <1>11, <1>12, <1>13
     DEF IInv, Base, Kept

\* A step of redis-cli that asks no node to change anything.
LEMMA AdminOnly ==
  ASSUME IInv, UNCHANGED <<mode, slotVars, data, clientVars, migrateVars, net>>,
         runs' \in 1..MaxRuns,
         NEW s \in Steps, NEW K \in SUBSET Keys, admin' = [step |-> s, keys |-> K],
         s \in Opened \cup {"migrating"} => importing /\ ~Closed,
         s \in Opened => migrating,
         s = "target" => Emptied,
         s \in Final => Closed,
         ~Blocked
  PROVE  IInv'
<1> USE DEF slotVars, clientVars, migrateVars
<1>1. Types'
  BY DEF IInv, Base, Types
<1>2. Owners' /\ Ages'
  BY DEF IInv, Base, Owners, Ages, Closed
<1>3. Packets'
  BY DEF IInv, Base, Packets, IsPacket, Closed
<1>4. Moves'
  <2>1. admin'.step = s
    OBVIOUS
  <2> QED
    BY <2>1 DEF Moves, Blocked, Closed, Emptied
<1>5. Shut' /\ Handed'
  BY DEF IInv, Base, Shut, Handed, Closed, Emptied
<1>6. Asks'
  BY DEF IInv, Base, Asks, IsAsk
<1>7. Calls'
  BY DEF IInv, Base, Calls, IsCall, Sent, Blocked
<1>8. SafeModes => Acked' /\ OneCopy'
  BY DEF IInv, Kept, Acked, OneCopy, Blocked, Both
<1>9. SafeModes => Strays'
  BY DEF IInv, Kept, Strays, Home
<1> QED
  BY <1>1, <1>2, <1>3, <1>4, <1>5, <1>6, <1>7, <1>8, <1>9 DEF IInv, Base, Kept, SafeModes

\* redis-cli goes on with the keys it has listed.
LEMMA GotoAdmin ==
  ASSUME Types, NEW s \in Steps, Goto(s)
  PROVE  admin' = [step |-> s, keys |-> admin.keys] /\ admin.keys \in SUBSET Keys
BY DEF Types, Goto

\* The commands of redis-cli that change no key.
LEMMA SetImportingStep ==
  ASSUME IInv, SetImporting
  PROVE  IInv'
<1> USE DEF slotVars, clientVars, migrateVars
<1>1. Types /\ Moves /\ admin.step = "importing"
  BY DEF IInv, Base, SetImporting, At
<1>2. ~Blocked
  BY <1>1 DEF Moves
<1>3. CASE owner[Target] = Target
  <2>1. Goto("stopped") /\ UNCHANGED <<mode, slotVars, data, clientVars, migrateVars, net, runs>>
    BY <1>3 DEF SetImporting
  <2>2. "stopped" \in Steps /\ "stopped" \notin Opened \cup Final
    BY DEF Steps, Opened, Final
  <2>3. runs' \in 1..MaxRuns
    BY <1>1, <2>1 DEF Types
  <2> QED
    BY <1>1, <1>2, <2>1, <2>2, <2>3, GotoAdmin, AdminOnly
<1>4. CASE owner[Target] # Target
  <2>1. /\ importing' = TRUE /\ Goto("migrating")
        /\ UNCHANGED <<mode, owner, disowned, epoch, replica, migrating, data, clientVars,
                       migrateVars, net, runs>>
    BY <1>4 DEF SetImporting
  <2>2. admin' = [step |-> "migrating", keys |-> admin.keys] /\ admin.keys \in SUBSET Keys
    BY <1>1, <2>1, GotoAdmin DEF Steps
  <2>3. Types'
    BY <2>1, <2>2 DEF IInv, Base, Types, Steps
  <2>4. Owners' /\ Ages'
    BY <1>4, <2>1 DEF IInv, Base, Owners, Ages, Closed
  <2>5. Packets'
    BY <2>1 DEF IInv, Base, Packets, IsPacket, Closed
  <2>6. Moves'
    BY <1>2, <1>4, <2>1, <2>2 DEF Moves, Opened, Final, Blocked, Closed
  <2>7. Shut' /\ Handed'
    BY <2>1 DEF IInv, Base, Shut, Handed, Closed, Emptied
  <2>8. Asks'
    BY <2>1 DEF IInv, Base, Asks, IsAsk
  <2>9. Calls'
    BY <2>1 DEF IInv, Base, Calls, IsCall, Sent, Blocked
  <2>10. SafeModes => Acked' /\ OneCopy'
    BY <2>1 DEF IInv, Kept, Acked, OneCopy, Blocked, Both
  <2>11. SafeModes => Strays'
    BY <2>1 DEF IInv, Kept, Strays, Home
  <2> QED
    BY <2>3, <2>4, <2>5, <2>6, <2>7, <2>8, <2>9, <2>10, <2>11 DEF IInv, Base, Kept, SafeModes
<1> QED
  BY <1>3, <1>4

\* SETSLOT MIGRATING.
LEMMA SetMigratingStep ==
  ASSUME IInv, SetMigrating
  PROVE  IInv'
<1> USE DEF slotVars, clientVars, migrateVars
<1>1. Types /\ Moves /\ admin.step = "migrating" /\ ~Blocked
  BY DEF IInv, Base, SetMigrating, At
<1>2. CASE owner[Source] # Source
  <2>1. Goto("stopped") /\ UNCHANGED <<mode, slotVars, data, clientVars, migrateVars, net, runs>>
    BY <1>2 DEF SetMigrating
  <2>2. "stopped" \in Steps /\ "stopped" \notin Opened \cup Final
    BY DEF Steps, Opened, Final
  <2>3. runs' \in 1..MaxRuns
    BY <1>1, <2>1 DEF Types
  <2> QED
    BY <1>1, <2>1, <2>2, <2>3, GotoAdmin, AdminOnly
<1>3. CASE owner[Source] = Source
  <2>1. /\ migrating' = TRUE /\ Goto("keys")
        /\ UNCHANGED <<mode, owner, disowned, epoch, replica, importing, data, clientVars,
                       migrateVars, net, runs>>
    BY <1>3 DEF SetMigrating
  <2>2. admin' = [step |-> "keys", keys |-> admin.keys] /\ admin.keys \in SUBSET Keys
    BY <1>1, <2>1, GotoAdmin DEF Steps, Opened
  <2>3. Types'
    BY <2>1, <2>2 DEF IInv, Base, Types, Steps, Opened
  <2>4. Owners' /\ Ages'
    BY <2>1 DEF IInv, Base, Owners, Ages, Closed
  <2>5. Packets'
    BY <2>1 DEF IInv, Base, Packets, IsPacket, Closed
  <2>6. Moves'
    BY <1>1, <2>1, <2>2 DEF Moves, Opened, Final, Blocked, Closed
  <2>7. Shut' /\ Handed'
    BY <2>1 DEF IInv, Base, Shut, Handed, Closed, Emptied
  <2>8. Asks'
    BY <2>1 DEF IInv, Base, Asks, IsAsk
  <2>9. Calls'
    BY <2>1 DEF IInv, Base, Calls, IsCall, Sent, Blocked
  <2>10. SafeModes => Acked' /\ OneCopy'
    BY <2>1 DEF IInv, Kept, Acked, OneCopy, Blocked, Both
  <2>11. SafeModes => Strays'
    BY <2>1 DEF IInv, Kept, Strays, Home
  <2> QED
    BY <2>3, <2>4, <2>5, <2>6, <2>7, <2>8, <2>9, <2>10, <2>11 DEF IInv, Base, Kept, SafeModes
<1> QED
  BY <1>2, <1>3

\* GETKEYSINSLOT: none left means that the source is empty.
LEMMA ListKeysStep ==
  ASSUME IInv, ListKeys
  PROVE  IInv'
<1> USE DEF slotVars, clientVars, migrateVars
<1>1. Types /\ Moves /\ admin.step = "keys" /\ ~Blocked
      /\ UNCHANGED <<mode, slotVars, data, clientVars, migrateVars, net, runs>>
  BY DEF IInv, Base, ListKeys, At
<1>2. importing /\ ~Closed /\ migrating
  BY <1>1 DEF Moves, Opened
<1>3. runs' \in 1..MaxRuns
  BY <1>1 DEF Types
<1>4. CASE KeysAt(Source) = {}
  <2>1. "target" \in Steps /\ "target" \notin Final
    BY DEF Steps, Opened, Final
  <2>2. Emptied
    BY <1>4 DEF Emptied, KeysAt
  <2>3. Goto("target")
    BY <1>4 DEF ListKeys
  <2> QED
    BY <1>1, <1>2, <1>3, <2>1, <2>2, <2>3, GotoAdmin, AdminOnly
<1>5. CASE KeysAt(Source) # {}
  <2>1. PICK K \in SUBSET KeysAt(Source) : admin' = [step |-> "migrate", keys |-> K]
    BY <1>5 DEF ListKeys
  <2>2. K \in SUBSET Keys
    BY DEF KeysAt
  <2>3. "migrate" \in Steps /\ "migrate" \notin Final /\ "migrate" # "target"
    BY DEF Steps, Opened, Final
  <2> QED
    BY <1>1, <1>2, <1>3, <2>1, <2>2, <2>3, AdminOnly
<1> QED
  BY <1>4, <1>5

\* The values of busy keys are compared.
LEMMA CompareKeysStep ==
  ASSUME IInv, CompareKeys
  PROVE  IInv'
<1> USE DEF slotVars, clientVars, migrateVars
<1> DEFINE s == IF ~mode.clusterReplace /\ Different # {} THEN "stopped" ELSE "replace"
<1>1. Types /\ Moves /\ admin.step = "busy" /\ ~Blocked /\ Goto(s)
      /\ UNCHANGED <<mode, slotVars, data, clientVars, migrateVars, net, runs>>
  BY DEF IInv, Base, CompareKeys, At
<1>2. importing /\ ~Closed /\ migrating
  BY <1>1 DEF Moves, Opened
<1>3. runs' \in 1..MaxRuns
  BY <1>1 DEF Types
<1>4. s \in Steps /\ s \notin Final /\ s # "target"
  BY DEF Steps, Opened, Final
<1> HIDE DEF s
<1> QED
  BY <1>1, <1>2, <1>3, <1>4, GotoAdmin, AdminOnly

\* The move starts again.
LEMMA RerunStep ==
  ASSUME IInv, Rerun
  PROVE  IInv'
<1> USE DEF slotVars, clientVars, migrateVars
<1>1. Types /\ Moves /\ admin.step = "stopped" /\ Goto("importing") /\ runs' = runs + 1
      /\ runs < MaxRuns /\ UNCHANGED <<mode, slotVars, data, clientVars, migrateVars, net>>
  BY DEF IInv, Base, Rerun, At
<1>2. ~Blocked
  BY <1>1 DEF Moves
<1>3. runs' \in 1..MaxRuns
  BY <1>1, BoundAssumption DEF Types
<1>4. "importing" \in Steps /\ "importing" \notin Opened \cup Final \cup {"migrating"}
  BY DEF Steps, Opened, Final
<1> QED
  BY <1>1, <1>2, <1>3, <1>4, GotoAdmin, AdminOnly

\* A batch of keys as a sequence.
LEMMA KeySeq ==
  ASSUME NEW S \in SUBSET Keys, S # {}
  PROVE  LET s == SetToSeq(S) IN
         /\ s \in Seq(Keys) /\ Len(s) > 0
         /\ \A i, j \in 1..Len(s) : s[i] = s[j] => i = j
         /\ \A i \in 1..Len(s) : s[i] \in S
<1> DEFINE n == Cardinality(S)
           s == SetToSeq(S)
<1>1. IsFiniteSet(S)
  BY KeysAssumption, FS_Subset
<1>2. n \in Nat /\ n # 0 /\ ExistsBijection(1..n, S)
  BY <1>1, FS_CardinalityType, FS_EmptySet
<1> HIDE DEF n
<1>3. PICK f \in Bijection(1..n, S) : TRUE
  BY <1>2 DEF ExistsBijection
<1>4. f \in [1..n -> S] /\ IsInjective(f)
  BY DEF Bijection, Injection
<1>5. s \in [1..n -> S] /\ IsInjective(s)
  BY <1>4 DEF SetToSeq, n
<1> HIDE DEF s
<1>6. s \in Seq(Keys) /\ Len(s) = n
  BY <1>2, <1>5
<1>7. Len(s) > 0 /\ \A i \in 1..Len(s) : s[i] \in S
  BY <1>2, <1>5, <1>6
<1>8. \A i, j \in 1..Len(s) : s[i] = s[j] => i = j
  BY <1>5, <1>6 DEF IsInjective
<1> QED
  BY <1>6, <1>7, <1>8 DEF s

\* A call that is about to send all its RESTOREs.
LEMMA NewCall ==
  ASSUME NEW s \in Seq(Keys), Len(s) > 0, \A i, j \in 1..Len(s) : s[i] = s[j] => i = j,
         \A i \in 1..Len(s) : data[Source][s[i]] # Missing,
         Types, NEW replace \in BOOLEAN, UNCHANGED data,
         call' = [f \in CallFields |-> call'[f]], call'.keys = s, call'.replace = replace,
         call'.replies = <<>>, call'.todo = Restores(s, replace)
  PROVE  IsCall(call') /\ Sent' /\ Len(call'.replies) = 0
<1> DEFINE t == Restores(s, replace)
<1>1. Len(s) \in Nat /\ s # <<>>
  OBVIOUS
<1>2. t = [i \in 1..Len(s) |-> Restore(s[i], data[Source][s[i]], replace)]
  BY DEF Restores
<1>3. Len(t) = Len(s)
  BY <1>1, <1>2
<1>4. t \in Seq(RestoreSet)
  <2>1. ASSUME NEW i \in 1..Len(s)
        PROVE  Restore(s[i], data[Source][s[i]], replace) \in RestoreSet
    <3>1. s[i] \in Keys
      OBVIOUS
    <3>2. data[Source][s[i]] \in Values
      BY <3>1, NodeFacts DEF Types, Stored
    <3> QED
      BY <3>1, <3>2 DEF Restore, RestoreSet
  <2> QED
    BY <1>1, <1>2, <2>1
<1>5. \A i \in 1..Len(t) : t[i] = Restore(s[i], data[Source][s[i]], replace)
  BY <1>2, <1>3
<1> HIDE DEF t
<1>6. call'.todo = t /\ Len(call'.replies) = 0 /\ call'.replies \in Seq({"ok", "busy"})
  BY DEF t
<1>7. Len(call'.todo) + Len(call'.replies) = Len(call'.keys)
  BY <1>1, <1>3, <1>6
<1>8. IsCall(call')
  BY <1>4, <1>6, <1>7, Zenon DEF IsCall
<1>9. \A i \in 1..Len(call'.todo) :
        LET k == call'.keys[Len(call'.replies) + i] IN
        call'.todo[i] = Restore(k, data[Source][k], call'.replace)
  <2> SUFFICES ASSUME NEW i \in 1..Len(t)
               PROVE  t[i] = Restore(s[0 + i], data[Source][s[0 + i]], replace)
    BY <1>6
  <2>1. 0 + i = i
    BY <1>1, <1>3
  <2> QED
    BY <1>5, <2>1
<1>10. Sent'
  BY <1>1, <1>9 DEF Sent
<1> QED
  BY <1>6, <1>8, <1>10

\* MIGRATE blocks the source, with the values it has.
LEMMA MigrateStart ==
  ASSUME IInv, ~Blocked, admin.step \in {"migrate", "replace"}, NEW replace \in BOOLEAN,
         admin.keys \cap KeysAt(Source) # {}, Migrate(admin.keys, replace), Goto("wait"),
         UNCHANGED <<mode, slotVars, data, clientVars, stray, faults, net, runs>>
  PROVE  IInv'
<1> USE DEF slotVars, clientVars
<1> DEFINE S == admin.keys \cap KeysAt(Source)
           s == SetToSeq(S)
<1>1. Types /\ Moves
  BY DEF IInv, Base
<1>2. importing /\ ~Closed /\ migrating
  BY <1>1 DEF Moves, Opened
<1>3. admin' = [step |-> "wait", keys |-> admin.keys] /\ admin.keys \in SUBSET Keys
  BY <1>1, GotoAdmin DEF Steps, Opened
<1>4. /\ s \in Seq(Keys) /\ Len(s) > 0
      /\ \A i, j \in 1..Len(s) : s[i] = s[j] => i = j
      /\ \A i \in 1..Len(s) : s[i] \in S
  BY <1>3, KeySeq
<1>5. call' = [keys |-> s, replace |-> replace, retry |-> TRUE, replies |-> <<>>,
               todo |-> Restores(s, replace)]
  BY DEF Migrate
<1> HIDE DEF s
<1>6. /\ call' = [f \in CallFields |-> call'[f]] /\ call'.keys = s /\ call'.replace = replace
      /\ call'.replies = <<>> /\ call'.todo = Restores(s, replace)
  BY <1>5 DEF CallFields
<1>7. \A i \in 1..Len(s) : data[Source][s[i]] # Missing
  BY <1>4 DEF KeysAt
<1>8. IsCall(call') /\ Sent' /\ Len(call'.replies) = 0
  BY <1>1, <1>4, <1>6, <1>7, NewCall
<1>9. Types'
  BY <1>3 DEF IInv, Base, Types, Steps, Opened
<1>10. Owners' /\ Ages'
  BY DEF IInv, Base, Owners, Ages, Closed
<1>11. Packets'
  BY DEF IInv, Base, Packets, IsPacket, Closed
<1>12. Moves'
  BY <1>2, <1>3 DEF Moves, Opened, Final, Closed
<1>13. Shut' /\ Handed'
  BY DEF IInv, Base, Shut, Handed, Closed, Emptied
<1>14. Asks'
  BY DEF IInv, Base, Asks, IsAsk
<1>15. Calls'
  <2>1. stray \subseteq RestoreSet
    BY DEF IInv, Base, Calls
  <2> QED
    BY <1>8, <2>1 DEF Calls
<1>16. SafeModes => Acked' /\ OneCopy'
  <2>1. \A i \in 1..Len(call'.replies) : FALSE
    BY <1>8
  <2>2. SafeModes /\ mode.deletes => \A k \in Keys : ~Both(k)
    BY DEF IInv, Kept, OneCopy
  <2> QED
    BY <2>1, <2>2 DEF Acked, OneCopy, Both
<1>17. SafeModes => Strays'
  BY DEF IInv, Kept, Strays, Home
<1> QED
  BY <1>9, <1>10, <1>11, <1>12, <1>13, <1>14, <1>15, <1>16, <1>17 DEF IInv, Base, Kept, SafeModes

\* MIGRATE without and with REPLACE.
LEMMA MigrateKeysStep ==
  ASSUME IInv, MigrateKeys \/ ReplaceKeys
  PROVE  IInv'
<1> USE DEF slotVars, clientVars, migrateVars
<1>1. PICK b \in BOOLEAN :
        /\ admin.step \in {"migrate", "replace"} /\ ~Blocked
        /\ IF admin.keys \cap KeysAt(Source) = {}
           THEN Goto("keys") /\ UNCHANGED call
           ELSE Migrate(admin.keys, b) /\ Goto("wait")
        /\ UNCHANGED <<mode, slotVars, data, clientVars, stray, faults, net, runs>>
  BY DEF MigrateKeys, ReplaceKeys, At
<1>2. Types /\ Moves
  BY DEF IInv, Base
<1>3. importing /\ ~Closed /\ migrating
  BY <1>1, <1>2 DEF Moves, Opened
<1>4. CASE admin.keys \cap KeysAt(Source) = {}
  <2>1. "keys" \in Steps /\ "keys" \notin Final /\ "keys" # "target"
    BY DEF Steps, Opened, Final
  <2>2. runs' \in 1..MaxRuns
    BY <1>1, <1>2 DEF Types
  <2>3. UNCHANGED <<mode, slotVars, data, clientVars, migrateVars, net>>
    BY <1>1, <1>4
  <2>4. Goto("keys")
    BY <1>1, <1>4
  <2> QED
    BY <1>1, <1>2, <1>3, <2>1, <2>2, <2>3, <2>4, GotoAdmin, AdminOnly
<1>5. CASE admin.keys \cap KeysAt(Source) # {}
  BY <1>1, <1>5, MigrateStart
<1> QED
  BY <1>4, <1>5

\* What a RESTORE changes.
LEMMA RestoreFacts ==
  ASSUME Types, NEW r \in RestoreSet, data' = [data EXCEPT ![Target] = RestoreKey(r)]
  PROVE  /\ data' \in [Nodes -> [Keys -> Stored]] /\ data'[Source] = data[Source]
         /\ \A j \in Keys : j # r.key => data'[Target][j] = data[Target][j]
         /\ data'[Target][r.key] =
              IF data[Target][r.key] # Missing /\ ~r.replace THEN data[Target][r.key] ELSE r.value
<1>1. data \in [Nodes -> [Keys -> Stored]] /\ data[Target] \in [Keys -> Stored]
  BY NodeFacts DEF Types
<1>2. r.key \in Keys /\ r.value \in Stored
  BY DEF RestoreSet, Stored
<1>3. RestoreKey(r) \in [Keys -> Stored]
  BY <1>1, <1>2 DEF RestoreKey
<1>4. data' \in [Nodes -> [Keys -> Stored]] /\ data'[Source] = data[Source]
      /\ data'[Target] = RestoreKey(r)
  BY <1>1, <1>3, NodeFacts
<1> QED
  BY <1>1, <1>2, <1>4 DEF RestoreKey

\* A RESTORE of a key the source has, or of one that is there and not replaced.
LEMMA RestoreStep ==
  ASSUME IInv, NEW r \in RestoreSet, data' = [data EXCEPT ![Target] = RestoreKey(r)],
         UNCHANGED <<mode, slotVars, clientVars, adminVars, net, faults>>,
         stray' \subseteq stray, stray # {} \/ Blocked,
         Blocked => call'.keys = call.keys, ~Blocked => UNCHANGED call
  PROVE  Types' /\ Owners' /\ Ages' /\ Packets' /\ Moves' /\ Shut' /\ Handed' /\ Asks'
<1> USE DEF slotVars, clientVars, adminVars
<1>1. Types /\ Moves /\ Shut /\ Calls
  BY DEF IInv, Base
<1>2. data' \in [Nodes -> [Keys -> Stored]] /\ data'[Source] = data[Source]
  BY <1>1, RestoreFacts
<1>3. Types'
  BY <1>1, <1>2 DEF Types
<1>4. Owners' /\ Ages'
  BY DEF IInv, Base, Owners, Ages, Closed
<1>5. Packets'
  BY DEF IInv, Base, Packets, IsPacket, Closed
<1>6. Blocked' => Blocked
  BY DEF Blocked
<1>7. Moves'
  BY <1>1, <1>2, <1>6 DEF Moves, Closed, Emptied
<1>8. ~(owner[Source] = Source /\ ~migrating)
  BY <1>1 DEF Shut, Moves, Opened
<1>9. Shut'
  BY <1>8 DEF Shut
<1>10. Handed'
  BY <1>2 DEF IInv, Base, Handed, Closed, Emptied
<1>11. Asks'
  BY <1>2 DEF IInv, Base, Asks, IsAsk
<1> QED
  BY <1>3, <1>4, <1>5, <1>7, <1>9, <1>10, <1>11

\* The target executes a RESTORE of the waiting MIGRATE: the source still has the key, so clients
\* see no change.
LEMMA TargetRestoreStep ==
  ASSUME IInv, TargetRestore
  PROVE  IInv' /\ Home' = Home
<1> USE DEF slotVars, clientVars, adminVars
<1> DEFINE r == Head(call.todo)
           m == Len(call.replies)
           k == call.keys[m + 1]
<1>1. /\ Blocked /\ call.todo # <<>>
      /\ data' = [data EXCEPT ![Target] = RestoreKey(r)]
      /\ call' = [call EXCEPT !.todo = Tail(@), !.replies = Append(@, RestoreReply(r))]
      /\ UNCHANGED <<mode, slotVars, clientVars, adminVars, stray, net, faults>>
  BY DEF TargetRestore
<1>2. Types /\ IsCall(call) /\ Sent /\ stray \subseteq RestoreSet
  BY <1>1 DEF IInv, Base, Calls
<1>3. /\ call.keys \in Seq(Keys) /\ call.todo \in Seq(RestoreSet)
      /\ call.replies \in Seq({"ok", "busy"})
      /\ Len(call.todo) + Len(call.replies) = Len(call.keys) /\ call.replace \in BOOLEAN
  BY <1>2 DEF IsCall
<1>4. call = [f \in CallFields |-> call[f]]
  BY <1>2 DEF IsCall
<1>5. /\ call' = [f \in CallFields |-> call'[f]] /\ call'.keys = call.keys
      /\ call'.replace = call.replace /\ call'.todo = Tail(call.todo)
      /\ call'.replies = Append(call.replies, RestoreReply(r))
  BY <1>1, <1>4 DEF CallFields
<1>6. /\ Len(call.todo) \in Nat \ {0} /\ m \in Nat /\ Len(call.keys) \in Nat
      /\ m + 1 \in 1..Len(call.keys) /\ 1 \in 1..Len(call.todo)
  <2> DEFINE a == Len(call.todo)
             b == Len(call.keys)
  <2>1. a \in Nat \ {0} /\ m \in Nat /\ b \in Nat
    BY <1>1, <1>3
  <2>2. a + m = b
    BY <1>3
  <2> HIDE DEF a, b, m
  <2>3. m + 1 \in 1..b /\ 1 \in 1..a
    BY <2>1, <2>2
  <2> QED
    BY <2>1, <2>3 DEF a, b
<1>7. r = Restore(k, data[Source][k], call.replace) /\ r \in RestoreSet
  <2>1. r = call.todo[1] /\ r \in RestoreSet
    BY <1>1, <1>3
  <2> QED
    BY <1>2, <1>6, <2>1 DEF Sent
<1>8. r.key = k /\ r.value = data[Source][k] /\ r.replace = call.replace
  BY <1>7 DEF Restore
<1>9. k \in Keys /\ data[Source][k] # Missing
  BY <1>2, <1>3, <1>6 DEF Sent
<1>10. /\ Len(call'.todo) = Len(call.todo) - 1
       /\ \A i \in 1..Len(call'.todo) : call'.todo[i] = call.todo[i + 1]
       /\ call'.todo \in Seq(RestoreSet)
  BY <1>1, <1>3, <1>5
<1>11. /\ RestoreReply(r) \in {"ok", "busy"}
       /\ RestoreReply(r) = "ok" <=> ~(data[Target][k] # Missing /\ ~call.replace)
  BY <1>8 DEF RestoreReply
<1>12. /\ Len(call'.replies) = m + 1 /\ call'.replies \in Seq({"ok", "busy"})
       /\ call'.replies[m + 1] = RestoreReply(r)
       /\ \A i \in 1..m : call'.replies[i] = call.replies[i]
  BY <1>3, <1>5, <1>11
<1> HIDE DEF r, m
<1>13. IsCall(call')
  <2> DEFINE a == Len(call.todo)
             b == Len(call.keys)
  <2>1. a \in Nat \ {0} /\ m \in Nat /\ b \in Nat
    BY <1>6
  <2>2. a + m = b
    BY <1>3 DEF m
  <2>3. Len(call'.todo) = a - 1 /\ Len(call'.replies) = m + 1 /\ Len(call'.keys) = b
    BY <1>5, <1>10, <1>12
  <2> HIDE DEF a, b
  <2>4. Len(call'.todo) + Len(call'.replies) = Len(call'.keys)
    BY <2>1, <2>2, <2>3
  <2>5. call'.keys \in Seq(Keys) /\ call'.replace \in BOOLEAN
    BY <1>3, <1>5
  <2> QED
    BY <1>5, <1>10, <1>12, <2>4, <2>5, Zenon DEF IsCall
<1>14. /\ data' \in [Nodes -> [Keys -> Stored]] /\ data'[Source] = data[Source]
       /\ \A j \in Keys : j # k => data'[Target][j] = data[Target][j]
       /\ data'[Target][k] =
            IF data[Target][k] # Missing /\ ~call.replace THEN data[Target][k] ELSE data[Source][k]
  <2>1. /\ data' \in [Nodes -> [Keys -> Stored]] /\ data'[Source] = data[Source]
        /\ \A j \in Keys : j # r.key => data'[Target][j] = data[Target][j]
        /\ data'[Target][r.key] =
             IF data[Target][r.key] # Missing /\ ~r.replace THEN data[Target][r.key] ELSE r.value
    BY <1>1, <1>2, <1>7, RestoreFacts
  <2> HIDE DEF k
  <2> QED
    BY <1>8, <2>1
<1>15. Sent'
  <2>1. ASSUME NEW i \in 1..Len(call'.todo)
        PROVE  LET j == call'.keys[Len(call'.replies) + i] IN
               call'.todo[i] = Restore(j, data'[Source][j], call'.replace)
    <3>1. i + 1 \in 1..Len(call.todo) /\ (m + 1) + i = m + (i + 1)
      BY <1>6, <1>10
    <3>2. LET j == call.keys[m + (i + 1)] IN
          call.todo[i + 1] = Restore(j, data[Source][j], call.replace)
      BY <1>2, <3>1 DEF Sent, m
    <3> QED
      BY <1>5, <1>10, <1>12, <1>14, <3>1, <3>2
  <2> QED
    BY <1>2, <1>5, <1>14, <2>1 DEF Sent
<1>16. Calls'
  BY <1>1, <1>2, <1>13, <1>15 DEF Calls
<1>17. Types' /\ Owners' /\ Ages' /\ Packets' /\ Moves' /\ Shut' /\ Handed' /\ Asks'
  BY <1>1, <1>5, <1>7, RestoreStep
<1>18. Home' = Home
  BY <1>9, <1>14 DEF Home
<1>19. ASSUME SafeModes PROVE Acked' /\ Strays' /\ OneCopy'
  <2>1. Acked /\ Strays /\ OneCopy
    BY <1>19 DEF IInv, Kept
  <2>2. Acked'
    <3> SUFFICES ASSUME NEW i \in 1..(m + 1), call'.replies[i] = "ok"
                 PROVE  data'[Target][call.keys[i]] = data[Source][call.keys[i]]
      BY <1>5, <1>12, <1>14 DEF Acked
    <3>1. CASE i = m + 1
      BY <1>11, <1>12, <1>14, <3>1
    <3>2. CASE i \in 1..m
      <4>1. data[Target][call.keys[i]] = data[Source][call.keys[i]]
        BY <1>1, <1>12, <2>1, <3>2 DEF Acked, m
      <4>2. call.keys[i] \in Keys
        BY <1>3, <1>6, <3>2
      <4> QED
        BY <1>9, <1>14, <4>1, <4>2
    <3> QED
      BY <1>6, <3>1, <3>2
  <2>3. Strays'
    BY <1>1, <1>18, <2>1 DEF Strays
  <2>4. OneCopy'
    <3> SUFFICES ASSUME mode.deletes PROVE OneCopy'
      BY <1>1 DEF OneCopy
    <3>1. /\ \A i \in 1..m : call.replies[i] = "ok"
          /\ \A j \in Keys : Both(j) => \E i \in 1..m : call.keys[i] = j
      BY <2>1 DEF OneCopy, m
    <3>2. ~Both(k)
      <4>1. \A i \in 1..m : call.keys[i] # k
        BY <1>2, <1>6 DEF Sent
      <4> QED
        BY <1>9, <3>1, <4>1
    <3>3. RestoreReply(r) = "ok"
      BY <1>9, <1>11, <3>2 DEF Both
    <3>4. \A i \in 1..(m + 1) : call'.replies[i] = "ok"
      BY <1>6, <1>12, <3>1, <3>3
    <3>5. ASSUME NEW j \in Keys, Both(j)' PROVE \E i \in 1..(m + 1) : call.keys[i] = j
      <4>1. CASE j = k
        BY <1>6, <4>1
      <4>2. CASE j # k
        <5>1. Both(j)
          BY <1>14, <3>5, <4>2 DEF Both
        <5> QED
          BY <1>6, <3>1, <5>1
      <4> QED
        BY <4>1, <4>2
    <3>6. Blocked'
      BY <1>2, <1>5 DEF Blocked, NoCall, Sent
    <3> QED
      BY <1>5, <1>12, <3>4, <3>5, <3>6 DEF OneCopy
  <2> QED
    BY <2>2, <2>3, <2>4
<1> QED
  BY <1>16, <1>17, <1>18, <1>19 DEF IInv, Base, Kept, SafeModes

\* A MIGRATE in progress.
LEMMA CallFacts ==
  ASSUME IInv, Blocked
  PROVE  /\ IsCall(call) /\ Sent /\ call.keys \in Seq(Keys) /\ call.todo \in Seq(RestoreSet)
         /\ call.replies \in Seq({"ok", "busy"}) /\ call.replace \in BOOLEAN
         /\ Len(call.replies) \in Nat /\ Len(call.todo) \in Nat /\ Len(call.keys) \in Nat
         /\ Len(call.todo) + Len(call.replies) = Len(call.keys)
         /\ \A i \in 1..Len(call.replies) : i \in 1..Len(call.keys)
         /\ \A i \in 1..Len(call.keys) : call.keys[i] \in Keys
<1>1. /\ IsCall(call) /\ Sent /\ call.keys \in Seq(Keys) /\ call.todo \in Seq(RestoreSet)
      /\ call.replies \in Seq({"ok", "busy"}) /\ call.replace \in BOOLEAN
      /\ Len(call.todo) + Len(call.replies) = Len(call.keys)
  BY DEF IInv, Base, Calls, IsCall
<1>2. Len(call.replies) \in Nat /\ Len(call.todo) \in Nat /\ Len(call.keys) \in Nat
  BY <1>1
<1>3. \A i \in 1..Len(call.replies) : i \in 1..Len(call.keys)
  <2> DEFINE a == Len(call.todo)
             b == Len(call.keys)
             m == Len(call.replies)
  <2>1. a \in Nat /\ b \in Nat /\ m \in Nat /\ a + m = b
    BY <1>1, <1>2
  <2> HIDE DEF a, b, m
  <2>2. \A i \in 1..m : i \in 1..b
    BY <2>1
  <2> QED
    BY <2>2 DEF b, m
<1>4. \A i \in 1..Len(call.keys) : call.keys[i] \in Keys
  BY <1>1
<1> QED
  BY <1>1, <1>2, <1>3, <1>4

\* A late RESTORE without REPLACE finds its key at one end and changes nothing clients see.
LEMMA StrayRestoreStep ==
  ASSUME IInv, StrayRestore
  PROVE  IInv' /\ (SafeModes => Home' = Home)
<1> USE DEF slotVars, clientVars, adminVars
<1>1. PICK r \in stray :
        data' = [data EXCEPT ![Target] = RestoreKey(r)] /\ stray' = stray \ {r}
  BY DEF StrayRestore
<1>2. UNCHANGED <<mode, slotVars, clientVars, adminVars, call, net, faults>>
  BY DEF StrayRestore
<1>3. Types /\ Calls /\ r \in RestoreSet
  BY DEF IInv, Base, Calls
<1>4. Types' /\ Owners' /\ Ages' /\ Packets' /\ Moves' /\ Shut' /\ Handed' /\ Asks'
  BY <1>1, <1>2, <1>3, RestoreStep
<1>5. /\ data'[Source] = data[Source]
      /\ \A j \in Keys : j # r.key => data'[Target][j] = data[Target][j]
      /\ data'[Target][r.key] =
           IF data[Target][r.key] # Missing /\ ~r.replace THEN data[Target][r.key] ELSE r.value
  BY <1>1, <1>3, RestoreFacts
<1>6. Calls'
  BY <1>1, <1>2, <1>3, <1>5 DEF Calls, IsCall, Sent, Blocked
<1>7. ASSUME SafeModes PROVE Acked' /\ Strays' /\ OneCopy' /\ Home' = Home
  <2>1. Acked /\ Strays /\ OneCopy
    BY <1>7 DEF IInv, Kept
  <2>2. ~r.replace /\ Home[r.key] # Missing /\ r.key \in Keys /\ ~mode.deletes
    BY <1>3, <2>1 DEF Strays, RestoreSet
  <2>3. data[Target][r.key] = Missing => data[Source][r.key] # Missing
    BY <2>2 DEF Home
  <2>4. Home' = Home
    BY <1>5, <2>2, <2>3 DEF Home
  <2>5. Acked'
    <3> SUFFICES ASSUME Blocked, NEW i \in 1..Len(call.replies), call.replies[i] = "ok"
                 PROVE  data'[Target][call.keys[i]] = data[Source][call.keys[i]]
      BY <1>2, <1>5 DEF Acked, Blocked
    <3>1. data[Target][call.keys[i]] = data[Source][call.keys[i]]
      BY <2>1 DEF Acked
    <3>2. i \in 1..Len(call.keys) /\ call.keys[i] \in Keys
      BY CallFacts
    <3>3. data[Source][call.keys[i]] # Missing
      BY <1>3, <3>2 DEF Calls, Sent
    <3> QED
      BY <1>5, <2>2, <3>1, <3>2, <3>3
  <2>6. Strays'
    BY <1>1, <1>2, <2>1, <2>4 DEF Strays
  <2>7. OneCopy'
    BY <1>2, <2>2 DEF OneCopy
  <2> QED
    BY <2>4, <2>5, <2>6, <2>7
<1> QED
  BY <1>4, <1>6, <1>7 DEF IInv, Base, Kept, SafeModes

\* The RESTOREs a broken connection leaves behind are of keys the source has.
LEMMA NewStrays ==
  ASSUME IInv, Blocked, faults < mode.faults,
         stray' = IF call.replace \in mode.late THEN stray \cup Range(call.todo) ELSE stray
  PROVE  /\ stray' \subseteq RestoreSet
         /\ SafeModes => /\ ~mode.deletes
                         /\ \A r \in stray' : ~r.replace /\ Home[r.key] # Missing
<1>1. Types /\ Sent /\ stray \subseteq RestoreSet /\ call.todo \in Seq(RestoreSet)
  BY CallFacts DEF IInv, Base, Calls
<1>2. stray' \subseteq RestoreSet
  <2>1. Range(call.todo) \subseteq RestoreSet
    BY <1>1 DEF Range
  <2> QED
    BY <1>1, <2>1
<1>3. ASSUME SafeModes
      PROVE  ~mode.deletes /\ \A r \in stray' : ~r.replace /\ Home[r.key] # Missing
  <2>1. mode \in Modes /\ mode.faults # 0
    BY <1>1, ModeFacts DEF Types
  <2>2. ~mode.deletes /\ TRUE \notin mode.late
    BY <1>3, <2>1, Zenon DEF SafeModes
  <2>3. \A r \in stray : ~r.replace /\ Home[r.key] # Missing
    BY <1>3 DEF IInv, Kept, Strays
  <2>4. ASSUME NEW r \in Range(call.todo), call.replace \in mode.late
        PROVE  ~r.replace /\ Home[r.key] # Missing
    <3>1. PICK i \in 1..Len(call.todo) : r = call.todo[i]
      BY <1>1 DEF Range
    <3> DEFINE k == call.keys[Len(call.replies) + i]
    <3>2. r = Restore(k, data[Source][k], call.replace)
      BY <1>1, <3>1 DEF Sent
    <3>3. Len(call.replies) + i \in 1..Len(call.keys)
      <4> DEFINE a == Len(call.todo)
                 b == Len(call.keys)
                 m == Len(call.replies)
      <4>1. a \in Nat /\ b \in Nat /\ m \in Nat /\ a + m = b /\ i \in 1..a
        BY CallFacts
      <4> HIDE DEF a, b, m
      <4>2. m + i \in 1..b
        BY <4>1
      <4> QED
        BY <4>2 DEF b, m
    <3>4. k \in Keys /\ data[Source][k] # Missing
      BY <1>1, <3>3, CallFacts DEF Sent
    <3> HIDE DEF k
    <3>5. r.key = k /\ r.replace = call.replace
      BY <3>2 DEF Restore
    <3>6. call.replace = FALSE
      BY <2>2, <2>4, CallFacts
    <3> QED
      BY <3>4, <3>5, <3>6 DEF Home
  <2> QED
    BY <2>2, <2>3, <2>4
<1> QED
  BY <1>2, <1>3

\* The end of a MIGRATE of which m replies have been read.
LEMMA EndCall ==
  ASSUME IInv, Blocked, NEW m \in 0..Len(call.replies), NEW busy, NEW error,
         data' = [data EXCEPT ![Source] = ForgetKeys(m)], call' = NoCall,
         AfterMigrate(busy, error), faults' \in 0..mode.faults, stray' \subseteq RestoreSet,
         SafeModes => /\ \A r \in stray' : ~r.replace /\ Home[r.key] # Missing
                      /\ mode.deletes => m = Len(call.replies) /\ stray' = {},
         UNCHANGED <<mode, slotVars, clientVars, net, runs>>
  PROVE  IInv' /\ (SafeModes => Home' = Home)
<1> USE DEF slotVars, clientVars
<1>1. Types /\ Moves
  BY DEF IInv, Base
<1>2. importing /\ ~Closed /\ migrating
  BY <1>1 DEF Moves, Opened
<1>3. PICK s \in {"keys", "busy", "stopped"} : Goto(s)
  BY DEF AfterMigrate, Goto
<1>4. admin' = [step |-> s, keys |-> admin.keys] /\ admin.keys \in SUBSET Keys
  BY <1>1, <1>3, GotoAdmin DEF Steps, Opened
<1>5. data \in [Nodes -> [Keys -> Stored]]
  BY <1>1 DEF Types
<1>6. /\ data' \in [Nodes -> [Keys -> Stored]] /\ data'[Target] = data[Target]
      /\ data'[Source] = ForgetKeys(m)
  <2>1. ForgetKeys(m) \in [Keys -> Stored]
    BY <1>5, NodeFacts DEF ForgetKeys, Stored
  <2> QED
    BY <1>5, <2>1, NodeFacts
<1>7. \A k \in Keys : data'[Source][k] = IF k \in Acknowledged(m) THEN Missing ELSE data[Source][k]
  BY <1>6 DEF ForgetKeys
<1>8. Types'
  BY <1>1, <1>4, <1>6 DEF Types, Steps, Opened
<1>9. Owners' /\ Ages'
  BY DEF IInv, Base, Owners, Ages, Closed
<1>10. Packets'
  BY DEF IInv, Base, Packets, IsPacket, Closed
<1>11. ~Blocked'
  BY DEF Blocked
<1>12. Moves'
  BY <1>2, <1>4, <1>11 DEF Moves, Opened, Final, Closed
<1>13. Shut' /\ Handed'
  BY <1>2 DEF Shut, Handed, Closed
<1>14. Asks'
  <2> SUFFICES ASSUME NEW c \in Clients PROVE IsAsk(request[c])'
    BY DEF Asks
  <2>1. IsAsk(request[c]) /\ request[c].keys \in SUBSET Keys
    BY <1>1 DEF IInv, Base, Asks, Types, Requests
  <2> QED
    BY <1>7, <2>1 DEF IsAsk
<1>15. Calls'
  BY <1>11, NoCallIsCall DEF Calls
<1>16. ASSUME SafeModes PROVE Acked' /\ Strays' /\ OneCopy' /\ Home' = Home
  <2>1. Acked /\ Strays /\ OneCopy
    BY <1>16 DEF IInv, Kept
  <2>2. Home' = Home
    <3>1. ASSUME NEW k \in Keys, k \in Acknowledged(m) PROVE data[Target][k] = data[Source][k]
      <4>1. PICK i \in 1..m : k = call.keys[i] /\ call.replies[i] = "ok"
        BY <3>1 DEF Acknowledged
      <4>2. i \in 1..Len(call.replies)
        BY CallFacts
      <4> QED
        BY <2>1, <4>1, <4>2 DEF Acked
    <3> QED
      BY <1>6, <1>7, <3>1 DEF Home
  <2>3. Strays'
    BY <1>16, <2>2 DEF Strays
  <2>4. OneCopy'
    <3> SUFFICES ASSUME mode.deletes, NEW k \in Keys PROVE ~Both(k)'
      BY NoCallIsCall DEF OneCopy
    <3>1. m = Len(call.replies)
      BY <1>16
    <3>2. SUFFICES ASSUME Both(k) PROVE k \in Acknowledged(m)
      BY <1>6, <1>7 DEF Both
    <3>3. PICK i \in 1..Len(call.replies) : call.keys[i] = k /\ call.replies[i] = "ok"
      BY <2>1, <3>2 DEF OneCopy
    <3> QED
      BY <3>1, <3>3 DEF Acknowledged
  <2> QED
    BY <1>11, <2>2, <2>3, <2>4 DEF Acked
<1> QED
  BY <1>8, <1>9, <1>10, <1>12, <1>13, <1>14, <1>15, <1>16 DEF IInv, Base, Kept, SafeModes

\* All replies are in: the acknowledged keys have the value of the source at the target.
LEMMA MigrateDoneStep ==
  ASSUME IInv, MigrateDone
  PROVE  IInv' /\ (SafeModes => Home' = Home)
<1>1. Types /\ Calls
  BY DEF IInv, Base
<1>2. /\ Blocked /\ data' = [data EXCEPT ![Source] = ForgetKeys(Len(call.replies))]
      /\ AfterMigrate("busy" \in Range(call.replies), FALSE) /\ call' = NoCall
      /\ UNCHANGED <<mode, slotVars, clientVars, stray, net, faults, runs>>
  BY DEF MigrateDone
<1>3. faults' \in 0..mode.faults /\ stray' \subseteq RestoreSet
  BY <1>1, <1>2 DEF Types, Calls
<1>4. Len(call.replies) \in 0..Len(call.replies)
  BY <1>2, CallFacts
<1>5. SafeModes => /\ \A r \in stray' : ~r.replace /\ Home[r.key] # Missing
                   /\ mode.deletes => stray' = {}
  BY <1>2 DEF IInv, Kept, Strays
<1> DEFINE busy == "busy" \in Range(call.replies)
<1> HIDE DEF busy
<1> QED
  BY <1>2, <1>3, <1>4, <1>5, EndCall DEF busy

\* The call is made once more on a new connection.
LEMMA RetryStep ==
  ASSUME IInv, Blocked, faults < mode.faults, faults' = faults + 1,
         stray' = IF call.replace \in mode.late THEN stray \cup Range(call.todo) ELSE stray,
         call' = [call EXCEPT !.retry = FALSE, !.replies = <<>>,
                              !.todo = Restores(call.keys, call.replace)],
         UNCHANGED <<mode, slotVars, clientVars, net, runs, data, admin>>
  PROVE  IInv'
<1> USE DEF slotVars, clientVars
<1>1. Types /\ Moves /\ Shut
  BY DEF IInv, Base
<1>2. importing /\ ~Closed /\ migrating /\ admin.step = "wait"
  BY <1>1 DEF Moves, Opened
<1>3. /\ IsCall(call) /\ Sent /\ call.keys \in Seq(Keys) /\ call.replace \in BOOLEAN
      /\ Len(call.keys) \in Nat
  BY CallFacts
<1>4. call = [f \in CallFields |-> call[f]]
  BY <1>3 DEF IsCall
<1>5. /\ call' = [f \in CallFields |-> call'[f]] /\ call'.keys = call.keys
      /\ call'.replace = call.replace /\ call'.replies = <<>>
      /\ call'.todo = Restores(call.keys, call.replace)
  BY <1>4 DEF CallFields
<1>6. IsCall(call') /\ Sent' /\ Len(call'.replies) = 0
  <2>1. Len(call.keys) > 0
    BY <1>3 DEF Sent
  <2>2. /\ \A i, j \in 1..Len(call.keys) : call.keys[i] = call.keys[j] => i = j
        /\ \A i \in 1..Len(call.keys) : data[Source][call.keys[i]] # Missing
    BY <1>3 DEF Sent
  <2> QED
    BY <1>1, <1>3, <1>5, <2>1, <2>2, NewCall
<1>7. /\ stray' \subseteq RestoreSet
      /\ SafeModes => /\ ~mode.deletes
                      /\ \A r \in stray' : ~r.replace /\ Home[r.key] # Missing
  BY NewStrays
<1>8. Types'
  BY <1>1, ModeFacts DEF Types
<1>9. Owners' /\ Ages'
  BY DEF IInv, Base, Owners, Ages, Closed
<1>10. Packets'
  BY DEF IInv, Base, Packets, IsPacket, Closed
<1>11. Moves'
  BY <1>1, <1>2 DEF Moves, Closed, Emptied
<1>12. Shut' /\ Handed'
  BY <1>2 DEF Shut, Handed, Closed
<1>13. Asks'
  BY DEF IInv, Base, Asks, IsAsk
<1>14. Calls'
  BY <1>6, <1>7 DEF Calls
<1>15. SafeModes => Acked' /\ Strays' /\ OneCopy'
  <2>1. \A i \in 1..Len(call'.replies) : FALSE
    BY <1>6
  <2>2. Home' = Home
    BY DEF Home
  <2> QED
    BY <1>7, <2>1, <2>2 DEF Acked, Strays, OneCopy
<1> QED
  BY <1>8, <1>9, <1>10, <1>11, <1>12, <1>13, <1>14, <1>15 DEF IInv, Base, Kept, SafeModes

\* A broken or timed out MIGRATE.
LEMMA MigrateFailsStep ==
  ASSUME IInv, MigrateFails
  PROVE  IInv' /\ (SafeModes => Home' = Home)
<1>1. /\ Blocked /\ faults < mode.faults /\ faults' = faults + 1
      /\ stray' = IF call.replace \in mode.late THEN stray \cup Range(call.todo) ELSE stray
      /\ UNCHANGED <<mode, slotVars, clientVars, net, runs>>
  BY DEF MigrateFails
<1>2. PICK m \in 0..Len(call.replies), timeout \in BOOLEAN :
        IF m = 0 /\ call.retry /\ ~timeout
        THEN /\ call' = [call EXCEPT !.retry = FALSE, !.replies = <<>>,
                  !.todo = Restores(call.keys, call.replace)]
             /\ UNCHANGED <<data, admin>>
        ELSE /\ call' = NoCall
             /\ data' = [data EXCEPT ![Source] = ForgetKeys(m)]
             /\ AfterMigrate("busy" \in { call.replies[i] : i \in 1..m }, TRUE)
  BY DEF MigrateFails
<1>3. CASE m = 0 /\ call.retry /\ ~timeout
  <2>1. IInv'
    BY <1>1, <1>2, <1>3, RetryStep
  <2>2. Home' = Home
    BY <1>2, <1>3 DEF Home
  <2> QED
    BY <2>1, <2>2
<1>4. CASE ~(m = 0 /\ call.retry /\ ~timeout)
  <2> DEFINE busy == "busy" \in { call.replies[i] : i \in 1..m }
  <2>1. call' = NoCall /\ data' = [data EXCEPT ![Source] = ForgetKeys(m)]
        /\ AfterMigrate(busy, TRUE)
    BY <1>2, <1>4
  <2>2. faults' \in 0..mode.faults
    BY <1>1, ModeFacts DEF IInv, Base, Types
  <2>3. /\ stray' \subseteq RestoreSet
        /\ SafeModes => /\ ~mode.deletes
                        /\ \A r \in stray' : ~r.replace /\ Home[r.key] # Missing
    BY <1>1, NewStrays
  <2> HIDE DEF busy
  <2> QED
    BY <1>1, <2>1, <2>2, <2>3, EndCall
<1> QED
  BY <1>3, <1>4

\* The greatest of a set of epochs.
LEMMA MaxOf ==
  ASSUME NEW S \in SUBSET (1..4), NEW x \in S, \A y \in S : x >= y
  PROVE  Max(S) = x
<1>1. Max(S) \in S /\ \A y \in S : Max(S) >= y
  BY DEF Max
<1>2. Max(S) >= x /\ x >= Max(S)
  BY <1>1
<1>3. Max(S) \in 1..4 /\ x \in 1..4
  BY <1>1
<1> QED
  BY <1>2, <1>3

\* The target gets epoch 4, greater than all others.
LEMMA BumpedFour ==
  ASSUME Types, Ages
  PROVE  Bumped(Target) = 4
<1> DEFINE S == { epoch[Target][x] : x \in Nodes }
<1>1. S \in SUBSET (1..4) /\ epoch[Target][Target] \in S /\ 3 \in S
  BY NodeFacts DEF Types, Ages
<1>2. Bumped(Target) = IF epoch[Target][Target] = Max(S) THEN Max(S) ELSE Max(S) + 1
  BY DEF Bumped
<1>3. CASE epoch[Target][Target] = 4
  <2>1. Max(S) = 4
    BY <1>1, <1>3, MaxOf
  <2> QED
    BY <1>2, <1>3, <2>1
<1>4. CASE epoch[Target][Target] # 4
  <2>1. epoch[Target][Target] = 1 /\ \A y \in S : 3 >= y
    BY <1>4, NodeFacts DEF Ages
  <2> HIDE DEF S
  <2>2. Max(S) = 3
    BY <1>1, <2>1, MaxOf
  <2> QED
    BY <1>2, <2>1, <2>2
<1> QED
  BY <1>3, <1>4

\* SETSLOT NODE at the target, when the source is empty.
LEMMA CloseAtTargetStep ==
  ASSUME IInv, CloseAtTarget
  PROVE  IInv'
<1> USE DEF slotVars, clientVars, migrateVars
<1>1. Types /\ Moves /\ Owners /\ Ages /\ Packets /\ admin.step = "target"
  BY DEF IInv, Base, CloseAtTarget, At
<1>2. importing /\ ~Closed /\ migrating /\ Emptied /\ ~Blocked
  BY <1>1 DEF Moves, Opened
<1>3. Bumped(Target) = 4
  BY <1>1, BumpedFour
<1>4. /\ owner' = [owner EXCEPT ![Target] = Target] /\ disowned' = disowned \ {Target}
      /\ epoch' = [epoch EXCEPT ![Target][Target] = 4]
      /\ net' = net \cup { Packet(Target, n, Target, 4, TRUE, FALSE) : n \in Nodes \ {Target} }
      /\ importing' = FALSE /\ Goto("source")
      /\ UNCHANGED <<mode, replica, migrating, data, clientVars, migrateVars, runs>>
  BY <1>2, <1>3 DEF CloseAtTarget, Bind
<1>5. admin' = [step |-> "source", keys |-> admin.keys] /\ admin.keys \in SUBSET Keys
  BY <1>1, <1>4, GotoAdmin DEF Steps, Final
<1>6. /\ owner'[Source] = owner[Source] /\ owner'[Other] = owner[Other]
      /\ owner'[Target] = Target
  BY <1>1, <1>4, NodeFacts DEF Types
<1>7. /\ epoch' \in [Nodes -> [Nodes -> 1..4]] /\ epoch'[Target][Target] = 4
      /\ epoch'[Target][Other] = epoch[Target][Other]
  BY <1>1, <1>4, NodeFacts DEF Types
<1>8. Types'
  <2>1. owner' \in [Nodes -> Nodes \cup {None}] /\ disowned' \subseteq Nodes
    BY <1>1, <1>4, NodeFacts DEF Types
  <2>2. admin' \in [step : Steps, keys : SUBSET Keys]
    BY <1>5 DEF Steps, Final
  <2> QED
    BY <1>1, <1>4, <1>7, <2>1, <2>2 DEF Types
<1>9. Owners'
  BY <1>1, <1>4, <1>6, <1>7, NodeFacts DEF Owners, Closed
<1>10. Ages'
  BY <1>1, <1>7 DEF Ages
<1>11. Packets'
  <2> SUFFICES ASSUME NEW p \in net' PROVE IsPacket(p)'
    BY DEF Packets
  <2>1. CASE p \in net
    BY <1>1, <1>6, <1>7, <2>1 DEF Packets, IsPacket, Closed
  <2>2. CASE p \notin net
    <3>1. PICK n \in Nodes \ {Target} : p = Packet(Target, n, Target, 4, TRUE, FALSE)
      BY <1>4, <2>2
    <3> QED
      BY <1>6, <1>7, <3>1, NodeFacts DEF IsPacket, Packet, Closed
  <2> QED
    BY <2>1, <2>2
<1>12. Moves'
  BY <1>2, <1>4, <1>5, <1>6 DEF Moves, Opened, Final, Blocked, Closed
<1>13. Shut' /\ Handed'
  BY <1>2, <1>4 DEF Shut, Handed, Emptied
<1>14. Asks'
  BY <1>4 DEF IInv, Base, Asks, IsAsk
<1>15. Calls'
  BY <1>2, <1>4 DEF IInv, Base, Calls, IsCall, Blocked
<1>16. SafeModes => Acked' /\ OneCopy'
  BY <1>4 DEF IInv, Kept, Acked, OneCopy, Blocked, Both
<1>17. SafeModes => Strays'
  BY <1>4 DEF IInv, Kept, Strays, Home
<1> QED
  BY <1>8, <1>9, <1>10, <1>11, <1>12, <1>13, <1>14, <1>15, <1>16, <1>17
     DEF IInv, Base, Kept, SafeModes

\* SETSLOT NODE at the other node.
LEMMA CloseAtOtherStep ==
  ASSUME IInv, CloseAtOther
  PROVE  IInv'
<1> USE DEF slotVars, clientVars, migrateVars
<1>1. Types /\ Moves /\ Owners /\ Ages /\ Packets /\ admin.step = "other"
  BY DEF IInv, Base, CloseAtOther, At
<1>2. Closed /\ ~Blocked
  BY <1>1 DEF Moves, Final
<1>3. /\ owner' = [owner EXCEPT ![Other] = Target] /\ disowned' = disowned \ {Other}
      /\ Goto("done")
      /\ UNCHANGED <<mode, epoch, replica, migrating, importing, data, clientVars,
                     migrateVars, net, runs>>
  BY DEF CloseAtOther, Bind
<1>4. admin' = [step |-> "done", keys |-> admin.keys] /\ admin.keys \in SUBSET Keys
  BY <1>1, <1>3, GotoAdmin DEF Steps, Final
<1>5. /\ owner'[Source] = owner[Source] /\ owner'[Target] = owner[Target]
      /\ owner'[Other] = Target
  BY <1>1, <1>3, NodeFacts DEF Types
<1>6. Types'
  <2>1. owner' \in [Nodes -> Nodes \cup {None}] /\ disowned' \subseteq Nodes
    BY <1>1, <1>3, NodeFacts DEF Types
  <2>2. admin' \in [step : Steps, keys : SUBSET Keys]
    BY <1>4 DEF Steps, Final
  <2> QED
    BY <1>1, <1>3, <2>1, <2>2 DEF Types
<1>7. Owners'
  BY <1>1, <1>2, <1>3, <1>5, NodeFacts DEF Owners, Closed
<1>8. Ages'
  BY <1>1, <1>3 DEF Ages
<1>9. Packets'
  BY <1>1, <1>3, <1>5 DEF Packets, IsPacket, Closed
<1>10. Moves'
  BY <1>2, <1>3, <1>4, <1>5 DEF Moves, Opened, Final, Blocked, Closed
<1>11. Shut' /\ Handed'
  BY <1>3, <1>5 DEF IInv, Base, Shut, Handed, Emptied, Closed
<1>12. Asks'
  BY <1>3 DEF IInv, Base, Asks, IsAsk
<1>13. Calls'
  BY <1>2, <1>3 DEF IInv, Base, Calls, IsCall, Blocked
<1>14. SafeModes => Acked' /\ OneCopy'
  BY <1>3 DEF IInv, Kept, Acked, OneCopy, Blocked, Both
<1>15. SafeModes => Strays'
  BY <1>3 DEF IInv, Kept, Strays, Home
<1> QED
  BY <1>6, <1>7, <1>8, <1>9, <1>10, <1>11, <1>12, <1>13, <1>14, <1>15
     DEF IInv, Base, Kept, SafeModes

\* Deleting the keys of an empty slot changes nothing.
LEMMA WipeEmpty ==
  ASSUME Types, Emptied
  PROVE  [data EXCEPT ![Source] = [k \in Keys |-> Missing]] = data
<1>1. data \in [Nodes -> [Keys -> Stored]] /\ data[Source] \in [Keys -> Stored]
  BY NodeFacts DEF Types
<1>2. data[Source] = [k \in Keys |-> Missing]
  BY <1>1 DEF Emptied
<1> QED
  BY <1>1, <1>2

\* SETSLOT NODE at the source, which is empty by then: no key is lost with the last slot.
LEMMA CloseAtSourceStep ==
  ASSUME IInv, CloseAtSource
  PROVE  IInv' /\ UNCHANGED data
<1> USE DEF slotVars, clientVars, migrateVars
<1>1. Types /\ Moves /\ Owners /\ Ages /\ Packets /\ Handed /\ admin.step = "source"
  BY DEF IInv, Base, CloseAtSource, At
<1>2. Closed /\ ~Blocked /\ Emptied
  BY <1>1 DEF Moves, Final, Handed
<1>3. UNCHANGED <<mode, epoch, importing, clientVars, migrateVars, net, runs>>
  BY DEF CloseAtSource
<1>4. KeysAt(Source) = {}
  BY <1>2 DEF KeysAt, Emptied
<1>5. CASE replica /\ Goto("other") /\ UNCHANGED <<owner, disowned, replica, migrating, data>>
  <2>1. "other" \in Steps /\ "other" \notin Opened /\ "other" # "target" /\ "other" # "migrating"
    BY DEF Steps, Opened, Final
  <2>2. runs' \in 1..MaxRuns
    BY <1>1, <1>3 DEF Types
  <2>3. IInv'
    BY <1>1, <1>2, <1>3, <1>5, <2>1, <2>2, GotoAdmin, AdminOnly
  <2> QED
    BY <1>5, <2>3
<1>6. CASE /\ Bind(Source, Target) /\ Goto("other")
           /\ IF owner[Source] = Source /\ mode.lastSlot
              THEN Demote
              ELSE /\ migrating' = (migrating /\ KeysAt(Source) # {})
                   /\ UNCHANGED <<replica, data>>
  <2>1. data' = data /\ replica' \in BOOLEAN /\ migrating' \in BOOLEAN
    BY <1>1, <1>2, <1>6, WipeEmpty DEF Demote, Types
  <2>2. owner' = [owner EXCEPT ![Source] = Target] /\ disowned' = disowned \ {Source}
    BY <1>6 DEF Bind
  <2>3. admin' = [step |-> "other", keys |-> admin.keys] /\ admin.keys \in SUBSET Keys
    BY <1>1, <1>6, GotoAdmin DEF Steps, Final
  <2>4. /\ owner'[Source] = Target /\ owner'[Target] = owner[Target]
        /\ owner'[Other] = owner[Other]
    BY <1>1, <2>2, NodeFacts DEF Types
  <2>5. Types'
    <3>1. owner' \in [Nodes -> Nodes \cup {None}] /\ disowned' \subseteq Nodes
      BY <1>1, <2>2, NodeFacts DEF Types
    <3>2. admin' \in [step : Steps, keys : SUBSET Keys]
      BY <2>3 DEF Steps, Final
    <3> QED
      BY <1>1, <1>3, <2>1, <3>1, <3>2 DEF Types
  <2>6. Owners'
    BY <1>1, <1>2, <1>3, <2>2, <2>4, NodeFacts DEF Owners, Closed
  <2>7. Ages'
    BY <1>1, <1>3 DEF Ages
  <2>8. Packets'
    BY <1>1, <1>3, <2>4 DEF Packets, IsPacket, Closed
  <2>9. Moves'
    BY <1>2, <1>3, <2>3, <2>4 DEF Moves, Opened, Final, Blocked, Closed
  <2>10. Shut' /\ Handed'
    BY <1>2, <2>1, <2>4, NodeFacts DEF Shut, Handed, Emptied
  <2>11. Asks'
    BY <1>3, <2>1 DEF IInv, Base, Asks, IsAsk
  <2>12. Calls'
    BY <1>2, <1>3 DEF IInv, Base, Calls, IsCall, Blocked
  <2>13. SafeModes => Acked' /\ OneCopy'
    BY <1>3, <2>1 DEF IInv, Kept, Acked, OneCopy, Blocked, Both
  <2>14. SafeModes => Strays'
    BY <1>3, <2>1 DEF IInv, Kept, Strays, Home
  <2> QED
    BY <2>1, <2>5, <2>6, <2>7, <2>8, <2>9, <2>10, <2>11, <2>12, <2>13, <2>14
       DEF IInv, Base, Kept, SafeModes
<1> QED
  BY <1>4, <1>5, <1>6 DEF CloseAtSource

\* Steps that change only what is under way on the bus.
LEMMA BusOnly ==
  ASSUME IInv, UNCHANGED <<mode, slotVars, data, clientVars, adminVars, migrateVars>>,
         \A p \in net' : IsPacket(p)
  PROVE  IInv'
<1> USE DEF slotVars, clientVars, adminVars, migrateVars
<1>1. Types'
  BY DEF IInv, Base, Types
<1>2. Owners' /\ Ages'
  BY DEF IInv, Base, Owners, Ages, Closed
<1>3. Packets'
  BY DEF Packets, IsPacket, Closed
<1>4. Moves'
  BY DEF IInv, Base, Moves, Blocked, Closed, Emptied
<1>5. Shut' /\ Handed'
  BY DEF IInv, Base, Shut, Handed, Closed, Emptied
<1>6. Asks'
  BY DEF IInv, Base, Asks, IsAsk
<1>7. Calls'
  BY DEF IInv, Base, Calls, IsCall, Sent, Blocked
<1>8. SafeModes => Acked' /\ OneCopy'
  BY DEF IInv, Kept, Acked, OneCopy, Blocked, Both
<1>9. SafeModes => Strays'
  BY DEF IInv, Kept, Strays, Home
<1> QED
  BY <1>1, <1>2, <1>3, <1>4, <1>5, <1>6, <1>7, <1>8, <1>9 DEF IInv, Base, Kept, SafeModes

\* A header says no more than its sender knows.
LEMMA SendPingStep ==
  ASSUME IInv, NEW n \in Nodes, NEW x \in Nodes, n # x, SendPing(n, x)
  PROVE  IInv'
<1> DEFINE slave == n = Source /\ replica
           p == Packet(n, x, n, epoch[n][IF slave THEN Target ELSE n], owner[n] = n, slave)
<1>1. n # Other /\ net' = net \cup {p}
      /\ UNCHANGED <<mode, slotVars, data, clientVars, adminVars, migrateVars>>
  BY DEF SendPing
<1>2. n \in {Source, Target}
  BY <1>1, NodeFacts
<1>3. Types /\ Owners /\ Ages /\ Packets
  BY DEF IInv, Base
<1>4. slave => Closed /\ n = Source
  BY <1>3 DEF Owners
<1> DEFINE e == epoch[n][IF slave THEN Target ELSE n]
<1>5. e \in 1..4 /\ (e = 4 => epoch[Target][Target] = 4)
  BY <1>3, NodeFacts DEF Types, Ages
<1>6. /\ p.src = n /\ p.dst = x /\ p.about = n /\ p.epoch = e
      /\ p.claims = (owner[n] = n) /\ p.slave = slave
  BY DEF Packet
<1>7. n = Target /\ owner[n] = n => Closed
  BY DEF Closed
<1> HIDE DEF p, e, slave
<1>8. IsPacket(p)
  BY <1>2, <1>4, <1>5, <1>6, <1>7 DEF IsPacket
<1> QED
  BY <1>1, <1>3, <1>8, BusOnly DEF Packets

\* A lost packet.
LEMMA LosePacketStep ==
  ASSUME IInv, LosePacket
  PROVE  IInv'
BY BusOnly DEF LosePacket, IInv, Base, Packets

\* What a packet may change in the tables: the target's own entry and the keys stay.
LEMMA TableAfter ==
  ASSUME IInv, NEW n \in Nodes, NEW p \in net, p.dst = n, p.src # n, UpdateTable(n, p)
  PROVE  /\ owner' \in [Nodes -> Nodes \cup {None}] /\ disowned' \subseteq Nodes
         /\ owner'[Target] = owner[Target] /\ data' = data
         /\ owner'[Source] = owner[Source] \/ (Closed /\ owner'[Source] = Target)
         /\ owner'[Other] \in {Source, Target, None} /\ (owner'[Other] = Target => Closed)
         /\ replica' \in BOOLEAN /\ (replica' => owner'[Source] = Target)
         /\ migrating' \in BOOLEAN /\ (owner'[Source] = Source => migrating' = migrating)
         /\ Closed => Target \notin disowned'
<1>1. Types /\ Owners /\ Ages /\ IsPacket(p) /\ Handed
  BY DEF IInv, Base, Packets
<1>2. owner \in [Nodes -> Nodes \cup {None}] /\ disowned \subseteq Nodes
      /\ replica \in BOOLEAN /\ migrating \in BOOLEAN
  BY <1>1 DEF Types
<1>3. p.about \in {Source, Target} /\ p.about # n
  BY <1>1 DEF IsPacket
<1>4. CASE /\ p.slave
           /\ owner' = [owner EXCEPT ![n] = IF @ = p.src THEN None ELSE @]
           /\ disowned' = IF owner[n] = p.src THEN disowned \ {n} ELSE disowned
           /\ UNCHANGED <<replica, migrating, data>>
  <2>1. Closed /\ p.src = Source /\ n \in {Target, Other}
    BY <1>1, <1>4, NodeFacts DEF IsPacket
  <2>2. owner' \in [Nodes -> Nodes \cup {None}] /\ disowned' \subseteq Nodes
    BY <1>2, <1>4
  <2>3. owner'[Target] = owner[Target]
    BY <1>2, <1>4, <2>1, NodeFacts DEF Closed
  <2>4. owner'[Source] = owner[Source]
    BY <1>2, <1>4, <2>1, NodeFacts
  <2>5. owner'[Other] \in {owner[Other], None}
    BY <1>2, <1>4, <2>1, NodeFacts
  <2> QED
    BY <1>1, <1>2, <1>4, <2>1, <2>2, <2>3, <2>4, <2>5, NodeFacts DEF Owners
<1>5. CASE /\ ~p.slave /\ Rebinds(n, p) /\ Bind(n, p.about)
           /\ IF n = Source /\ owner[n] = Source THEN LoseSlot
              ELSE UNCHANGED <<replica, migrating, data>>
  <2>1. owner' = [owner EXCEPT ![n] = p.about] /\ disowned' = disowned \ {n}
    BY <1>5 DEF Bind
  <2>2. n # Target
    <3> SUFFICES ASSUME n = Target PROVE FALSE
      OBVIOUS
    <3>1. p.about = Source /\ owner[Target] # Source
      BY <1>3, <1>5 DEF Rebinds
    <3>2. Closed
      BY <1>1, <3>1 DEF Owners, Closed
    <3>3. epoch[Target][Target] = 4 /\ ~Unclaimed(Target)
      BY <1>1, <3>2, NodeFacts DEF Owners, Closed, Unclaimed
    <3>4. 4 < p.epoch
      BY <1>5, <3>2, <3>3 DEF Rebinds, Closed
    <3> QED
      BY <1>1, <3>4 DEF IsPacket
  <2>3. p.about = Target => Closed
    BY <1>1, <1>5 DEF Rebinds, IsPacket
  <2>4. owner' \in [Nodes -> Nodes \cup {None}] /\ disowned' \subseteq Nodes
        /\ (Target \in disowned' => Target \in disowned)
    BY <1>2, <1>3, <2>1, NodeFacts
  <2>5. CASE n = Source
    <3>1. p.about = Target /\ Closed /\ Emptied
      BY <1>1, <1>3, <2>3, <2>5 DEF Handed
    <3>2. owner'[Source] = Target /\ owner'[Target] = owner[Target]
          /\ owner'[Other] = owner[Other]
      BY <1>2, <2>1, <2>5, <3>1, NodeFacts
    <3>3. data' = data /\ replica' \in BOOLEAN /\ migrating' \in BOOLEAN
      BY <1>1, <1>2, <1>5, <3>1, WipeEmpty DEF LoseSlot, Demote
    <3> QED
      BY <1>1, <2>4, <3>1, <3>2, <3>3, NodeFacts DEF Owners
  <2>6. CASE n = Other
    <3>1. owner'[Source] = owner[Source] /\ owner'[Target] = owner[Target]
          /\ owner'[Other] = p.about
      BY <1>2, <2>1, <2>6, NodeFacts
    <3>2. UNCHANGED <<replica, migrating, data>>
      BY <1>5, <2>6, NodeFacts
    <3> QED
      BY <1>1, <1>2, <1>3, <2>3, <2>4, <3>1, <3>2 DEF Owners
  <2> QED
    BY <2>2, <2>5, <2>6, NodeFacts
<1>6. CASE /\ ~p.slave /\ ~Rebinds(n, p)
           /\ disowned' = IF owner[n] # p.about \/ (p.claims /\ p.about = p.src) THEN disowned
                          ELSE IF p.claims THEN disowned \ {n} ELSE disowned \cup {n}
           /\ UNCHANGED <<owner, replica, migrating, data>>
  <2>1. disowned' \subseteq Nodes
    BY <1>2, <1>6
  <2>2. Closed => Target \notin disowned'
    <3>1. CASE n = Target
      BY <1>1, <1>3, <1>6, <3>1 DEF Owners, Closed
    <3>2. CASE n # Target
      BY <1>1, <1>6, <3>2 DEF Owners
    <3> QED
      BY <3>1, <3>2
  <2> QED
    BY <1>1, <1>2, <1>6, <2>1, <2>2 DEF Owners
<1> QED
  BY <1>4, <1>5, <1>6 DEF UpdateTable

\* A packet, or the UPDATE that answers it, moves no key.
LEMMA ProcessPacketStep ==
  ASSUME IInv, NEW n \in Nodes, NEW x \in Nodes, n # x, ProcessPacket(n, x)
  PROVE  IInv' /\ UNCHANGED data
<1> USE DEF clientVars, adminVars, migrateVars
<1>1. PICK p \in net :
        LET update == p.about # x
            outdated == ~update /\ p.claims /\ owner'[n] \notin {x, None} /\ n \notin disowned'
                        /\ epoch'[n][owner'[n]] > p.epoch IN
        /\ p.dst = n /\ p.src = x
        /\ IF update /\ epoch[n][p.about] >= p.epoch
           THEN net' = net \ {p} /\ UNCHANGED <<slotVars, data>>
           ELSE /\ epoch' = [epoch EXCEPT ![n][p.about] = Max({@, p.epoch})]
                /\ UpdateTable(n, p)
                /\ net' = (net \ {p}) \cup
                     IF outdated
                     THEN { Packet(n, x, owner'[n], epoch'[n][owner'[n]], TRUE, FALSE) } ELSE {}
                /\ UNCHANGED importing
  BY DEF ProcessPacket
<1>2. UNCHANGED <<mode, clientVars, adminVars, migrateVars>>
  BY DEF ProcessPacket
<1>3. Types /\ Owners /\ Ages /\ Packets /\ IsPacket(p) /\ p.dst = n /\ p.src = x
  BY <1>1 DEF IInv, Base, Packets
<1>4. CASE net' = net \ {p} /\ UNCHANGED <<slotVars, data>>
  BY <1>2, <1>3, <1>4, BusOnly DEF Packets
<1>5. CASE /\ epoch' = [epoch EXCEPT ![n][p.about] = Max({@, p.epoch})]
           /\ UpdateTable(n, p) /\ UNCHANGED importing
           /\ \A q \in net' : \/ q \in net
                              \/ /\ owner'[n] \notin {x, None}
                                 /\ q = Packet(n, x, owner'[n], epoch'[n][owner'[n]], TRUE, FALSE)
  <2>1. /\ owner' \in [Nodes -> Nodes \cup {None}] /\ disowned' \subseteq Nodes
        /\ owner'[Target] = owner[Target] /\ data' = data
        /\ owner'[Source] = owner[Source] \/ (Closed /\ owner'[Source] = Target)
        /\ owner'[Other] \in {Source, Target, None} /\ (owner'[Other] = Target => Closed)
        /\ replica' \in BOOLEAN /\ (replica' => owner'[Source] = Target)
        /\ migrating' \in BOOLEAN /\ (owner'[Source] = Source => migrating' = migrating)
        /\ Closed => Target \notin disowned'
    BY <1>3, <1>5, TableAfter
  <2> DEFINE S == {epoch[n][p.about], p.epoch}
             e == Max(S)
  <2>2. S \in SUBSET (1..4) /\ \A y \in S : y = 4 => epoch[Target][Target] = 4
    BY <1>3, NodeFacts DEF Types, Ages, IsPacket
  <2>3. e \in S
    <3>1. CASE epoch[n][p.about] >= p.epoch
      <4>1. \A y \in S : epoch[n][p.about] >= y
        BY <2>2, <3>1
      <4> QED
        BY <2>2, <4>1, MaxOf
    <3>2. CASE ~(epoch[n][p.about] >= p.epoch)
      <4>1. \A y \in S : p.epoch >= y
        BY <2>2, <3>2
      <4> QED
        BY <2>2, <4>1, MaxOf
    <3> QED
      BY <3>1, <3>2
  <2>4. e \in 1..4 /\ (e = 4 => epoch[Target][Target] = 4)
    BY <2>2, <2>3
  <2>5. epoch' = [epoch EXCEPT ![n][p.about] = e]
    BY <1>5
  <2>6. p.about \in {Source, Target} /\ p.about # n /\ p.about \in Nodes
    BY <1>3, NodeFacts DEF IsPacket
  <2> HIDE DEF e, S
  <2>7. epoch' \in [Nodes -> [Nodes -> 1..4]]
    BY <1>3, <2>4, <2>5 DEF Types
  <2>8. /\ epoch'[Target][Target] = epoch[Target][Target]
        /\ epoch'[Target][Other] = epoch[Target][Other]
    BY <1>3, <2>5, <2>6, NodeFacts DEF Types
  <2>9. Ages'
    <3>1. ASSUME epoch[Target][Target] # 4, NEW m \in Nodes, NEW y \in Nodes
          PROVE  epoch'[m][y] <= 3
      <4>1. epoch[m][y] <= 3 /\ e <= 3
        BY <1>3, <2>4, <3>1 DEF Ages
      <4>2. epoch'[m][y] \in {epoch[m][y], e}
        BY <1>3, <2>5, <2>6 DEF Types
      <4> QED
        BY <4>1, <4>2
    <3> QED
      BY <1>3, <2>8, <3>1 DEF Ages
  <2>10. Types'
    BY <1>2, <1>3, <1>5, <2>1, <2>7 DEF Types
  <2>11. Owners'
    BY <1>3, <1>5, <2>1, <2>8, NodeFacts DEF Owners, Closed
  <2>12. Packets'
    <3> SUFFICES ASSUME NEW q \in net' PROVE IsPacket(q)'
      BY DEF Packets
    <3>1. CASE q \in net
      BY <1>3, <2>1, <2>8, <3>1 DEF Packets, IsPacket, Closed
    <3>2. CASE /\ owner'[n] \notin {x, None}
               /\ q = Packet(n, x, owner'[n], epoch'[n][owner'[n]], TRUE, FALSE)
      <4>1. owner'[n] \in {Source, Target} /\ (owner'[n] = Target => owner'[Target] = Target)
        BY <2>11, <3>2, NodeFacts DEF Owners, Closed
      <4> DEFINE f == epoch'[n][owner'[n]]
      <4>2. f \in 1..4 /\ (f = 4 => epoch'[Target][Target] = 4)
        BY <2>7, <2>9, <4>1, NodeFacts DEF Ages
      <4>3. /\ q.src = n /\ q.dst = x /\ q.about = owner'[n] /\ q.epoch = f
            /\ q.slave = FALSE
        BY <3>2 DEF Packet
      <4> HIDE DEF f
      <4> QED
        BY <3>2, <4>1, <4>2, <4>3 DEF IsPacket, Closed
    <3> QED
      BY <1>5, <3>1, <3>2
  <2>13. Moves'
    <3>1. Moves
      BY DEF IInv, Base
    <3>2. ~Closed => migrating' = migrating
      BY <1>3, <2>1 DEF Owners
    <3> QED
      BY <1>2, <1>5, <2>1, <3>1, <3>2 DEF Moves, Blocked, Closed, Emptied
  <2>14. Shut'
    <3>1. Shut
      BY DEF IInv, Base
    <3>2. owner'[Source] = Source => owner[Source] = Source /\ migrating' = migrating
      BY <2>1, NodeFacts
    <3> QED
      BY <1>2, <2>1, <3>1, <3>2 DEF Shut, Closed
  <2>15. Handed'
    BY <2>1 DEF IInv, Base, Handed, Closed, Emptied
  <2>16. Asks'
    BY <1>2, <2>1 DEF IInv, Base, Asks, IsAsk
  <2>17. Calls'
    BY <1>2, <2>1 DEF IInv, Base, Calls, IsCall, Sent, Blocked
  <2>18. SafeModes => Acked' /\ OneCopy'
    BY <1>2, <2>1 DEF IInv, Kept, Acked, OneCopy, Blocked, Both
  <2>19. SafeModes => Strays'
    BY <1>2, <2>1 DEF IInv, Kept, Strays, Home
  <2> QED
    BY <2>1, <2>9, <2>10, <2>11, <2>12, <2>13, <2>14, <2>15, <2>16, <2>17, <2>18, <2>19
       DEF IInv, Base, Kept, SafeModes
<1> QED
  BY <1>1, <1>4, <1>5

\* A client sends a command, without ASKING.
LEMMA SendCommandStep ==
  ASSUME IInv, NEW c \in Clients, SendCommand(c)
  PROVE  IInv'
<1> USE DEF slotVars, adminVars, migrateVars
<1>1. PICK n \in Nodes, op \in {"read", "write", "delete"}, K \in SUBSET Keys :
        /\ op # "read" => Cardinality(K) = 1
        /\ op = "delete" => mode.deletes
        /\ request' = [request EXCEPT ![c] = [op |-> op, keys |-> K, at |-> n, asking |-> FALSE]]
  BY DEF SendCommand
<1>2. UNCHANGED <<mode, slotVars, data, adminVars, migrateVars, net, writes>>
  BY DEF SendCommand
<1> DEFINE r == [op |-> op, keys |-> K, at |-> n, asking |-> FALSE]
<1>3. r \in Requests
  BY DEF Requests
<1>4. request \in [Clients -> Requests]
  BY DEF IInv, Base, Types
<1>5. request' \in [Clients -> Requests]
      /\ \A d \in Clients : request'[d] = IF d = c THEN r ELSE request[d]
  BY <1>1, <1>3, <1>4
<1>6. r.op = op /\ r.keys = K /\ r.asking = FALSE
  OBVIOUS
<1>7. op # "read" => \E k \in Keys : K = {k}
  <2>1. IsFiniteSet(K)
    BY KeysAssumption, FS_Subset
  <2> QED
    BY <1>1, <2>1, FS_Singleton
<1> HIDE DEF r
<1>8. Types'
  BY <1>2, <1>5 DEF IInv, Base, Types
<1>9. Owners' /\ Ages'
  BY <1>2 DEF IInv, Base, Owners, Ages, Closed
<1>10. Packets'
  BY <1>2 DEF IInv, Base, Packets, IsPacket, Closed
<1>11. Moves' /\ Handed'
  BY <1>2 DEF IInv, Base, Moves, Handed, Blocked, Closed, Emptied
<1>12. Shut'
  <2>1. \A d \in Clients : ~request[d].asking => ~request'[d].asking
    BY <1>5, <1>6
  <2> QED
    BY <1>2, <2>1 DEF IInv, Base, Shut, Closed
<1>13. Asks'
  <2> SUFFICES ASSUME NEW d \in Clients PROVE IsAsk(request[d])'
    BY DEF Asks
  <2>1. CASE d = c
    BY <1>1, <1>2, <1>5, <1>6, <1>7, <2>1 DEF IsAsk
  <2>2. CASE d # c
    BY <1>2, <1>5, <2>2 DEF IInv, Base, Asks, IsAsk
  <2> QED
    BY <2>1, <2>2
<1>14. Calls'
  BY <1>2 DEF IInv, Base, Calls, IsCall, Sent, Blocked
<1>15. SafeModes => Acked' /\ OneCopy'
  BY <1>2 DEF IInv, Kept, Acked, OneCopy, Blocked, Both
<1>16. SafeModes => Strays'
  BY <1>2 DEF IInv, Kept, Strays, Home
<1> QED
  BY <1>8, <1>9, <1>10, <1>11, <1>12, <1>13, <1>14, <1>15, <1>16 DEF IInv, Base, Kept, SafeModes

\* getNodeByQuery: who redirects a command, and who serves it.
LEMMA RouteFacts ==
  ASSUME IInv, NEW c \in Clients
  PROVE  LET r == request[c]
             route == Route(r.at, r.keys, r.asking) IN
         /\ route.kind \in {"serve", "ask", "moved", "tryagain", "down"}
         /\ route.kind \in {"moved", "ask"} => route.to \in Nodes
         /\ route.kind = "ask" => /\ route.to = Target /\ migrating
                                  /\ \A k \in r.keys : data[Source][k] = Missing
         /\ route.kind = "serve" =>
              \/ /\ r.at = Source /\ owner[Source] = Source
                 /\ migrating => \A k \in r.keys : data[Source][k] # Missing
              \/ /\ r.at = Target /\ (Closed \/ r.asking)
                 /\ \A k \in r.keys : data[Source][k] = Missing
<1> DEFINE r == request[c]
           n == r.at
           missing == r.keys \ KeysAt(n)
           kind == Route(n, r.keys, r.asking).kind
           to == Route(n, r.keys, r.asking).to
           many == Cardinality(r.keys) > 1 /\ missing # {}
<1>1. Types /\ Owners /\ Handed /\ IsAsk(r)
  BY DEF IInv, Base, Asks
<1>2. r \in Requests /\ n \in Nodes /\ r.keys \in SUBSET Keys
  BY <1>1 DEF Types, Requests
<1>3. Closed => \A k \in r.keys : data[Source][k] = Missing
  BY <1>1, <1>2 DEF Handed, Emptied
<1>4. r.asking => \A k \in r.keys : data[Source][k] = Missing
  BY <1>1 DEF IsAsk
<1>5. Route(n, r.keys, r.asking) =
        IF n = Source /\ owner[n] = n /\ migrating /\ missing # {}
        THEN [to |-> Target, kind |-> IF missing # r.keys THEN "tryagain" ELSE "ask"]
        ELSE IF n = Target /\ importing /\ r.asking
        THEN [to |-> Target, kind |-> IF many THEN "tryagain" ELSE "serve"]
        ELSE [to |-> owner[n], kind |-> BaseCase(n)]
  BY DEF Route
<1> HIDE DEF many
<1>6. CASE n = Source /\ owner[n] = n /\ migrating /\ missing # {}
  <2>1. to = Target /\ kind = IF missing # r.keys THEN "tryagain" ELSE "ask"
    BY <1>5, <1>6
  <2>2. missing = r.keys => \A k \in r.keys : data[Source][k] = Missing
    BY <1>2, <1>6 DEF KeysAt
  <2> QED
    BY <1>6, <2>1, <2>2, NodeFacts
<1>7. CASE n = Target /\ importing /\ r.asking
  <2>1. to = Target /\ kind \in {"tryagain", "serve"}
    BY <1>5, <1>7, NodeFacts
  <2> QED
    BY <1>4, <1>7, <2>1
<1>8. CASE /\ ~(n = Source /\ owner[n] = n /\ migrating /\ missing # {})
           /\ ~(n = Target /\ importing /\ r.asking)
  <2>1. to = owner[n] /\ kind = BaseCase(n)
    BY <1>5, <1>8
  <2>2. kind \in {"serve", "moved", "down"} /\ (kind = "moved" => owner[n] # None)
        /\ (kind = "serve" => owner[n] = n)
    BY <2>1 DEF BaseCase
  <2>3. kind = "moved" => to \in Nodes
    BY <1>1, <1>2, <2>1, <2>2 DEF Types
  <2>4. kind = "serve" => n # Other
    BY <1>1, <2>2, NodeFacts DEF Owners
  <2>5. kind = "serve" /\ n = Target => Closed
    BY <2>2 DEF Closed
  <2>6. kind = "serve" /\ n = Source /\ migrating => \A k \in r.keys : data[Source][k] # Missing
    <3> SUFFICES ASSUME kind = "serve", n = Source, migrating, NEW k \in r.keys
                 PROVE  data[Source][k] # Missing
      OBVIOUS
    <3>1. missing = {}
      BY <1>8, <2>2
    <3> QED
      BY <3>1 DEF KeysAt
  <2> QED
    BY <1>2, <1>3, <2>2, <2>3, <2>4, <2>5, <2>6, NodeFacts
<1> QED
  BY <1>6, <1>7, <1>8

\* A command that is redirected, refused or answered without a write.
LEMMA NoWrite ==
  ASSUME IInv, NEW c \in Clients, NEW r \in Requests, IsAsk(r), r.asking => migrating,
         request' = [request EXCEPT ![c] = r],
         UNCHANGED <<mode, slotVars, data, adminVars, migrateVars, net, writes>>
  PROVE  IInv'
<1> USE DEF slotVars, adminVars, migrateVars
<1>1. request \in [Clients -> Requests]
  BY DEF IInv, Base, Types
<1>2. request' \in [Clients -> Requests]
      /\ \A d \in Clients : request'[d] = IF d = c THEN r ELSE request[d]
  BY <1>1
<1>3. Types'
  BY <1>2 DEF IInv, Base, Types
<1>4. Owners' /\ Ages'
  BY DEF IInv, Base, Owners, Ages, Closed
<1>5. Packets'
  BY DEF IInv, Base, Packets, IsPacket, Closed
<1>6. Moves' /\ Handed'
  BY DEF IInv, Base, Moves, Handed, Blocked, Closed, Emptied
<1>7. Shut'
  <2>1. ~migrating => \A d \in Clients : ~request[d].asking => ~request'[d].asking
    BY <1>2
  <2> QED
    BY <2>1 DEF IInv, Base, Shut, Closed
<1>8. Asks'
  <2> SUFFICES ASSUME NEW d \in Clients PROVE IsAsk(request[d])'
    BY DEF Asks
  <2>1. IsAsk(request'[d])
    BY <1>2 DEF IInv, Base, Asks
  <2> QED
    BY <2>1 DEF IsAsk
<1>9. Calls'
  BY DEF IInv, Base, Calls, IsCall, Sent, Blocked
<1>10. SafeModes => Acked' /\ OneCopy'
  BY DEF IInv, Kept, Acked, OneCopy, Blocked, Both
<1>11. SafeModes => Strays'
  BY DEF IInv, Kept, Strays, Home
<1> QED
  BY <1>3, <1>4, <1>5, <1>6, <1>7, <1>8, <1>9, <1>10, <1>11 DEF IInv, Base, Kept, SafeModes

\* One key changes, at one node.
Puts(n, k, v) ==
  /\ data' \in [Nodes -> [Keys -> Stored]]
  /\ \A m \in Nodes, x \in Keys : data'[m][x] = IF m = n /\ x = k THEN v ELSE data[m][x]
\* What that is for the clients.
Stores(k, v) == Home' = [Home EXCEPT ![k] = v]

\* A command that writes or deletes one key where it is served.
LEMMA WriteStep ==
  ASSUME IInv, NEW c \in Clients, NEW k \in Keys, NEW n \in {Source, Target}, NEW v \in Stored,
         Runs(n),
         n = Source => owner[Source] = Source /\ (migrating => data[Source][k] # Missing),
         n = Target => (Closed \/ request[c].asking) /\ data[Source][k] = Missing,
         v = Missing => mode.deletes,
         request' = [request EXCEPT ![c] = NoRequest],
         Puts(n, k, v),
         writes' \in 0..mode.writes,
         UNCHANGED <<mode, slotVars, adminVars, migrateVars, net>>
  PROVE  IInv' /\ (SafeModes => Stores(k, v))
<1> USE DEF slotVars, adminVars, migrateVars
<1>1. Types /\ Moves /\ Shut /\ Handed /\ Asks /\ Calls
  BY DEF IInv, Base
<1>2. SafeModes => Acked /\ Strays /\ OneCopy
  BY DEF IInv, Kept
<1>3. n \in Nodes /\ Source \in Nodes /\ Target \in Nodes /\ Source # Target
  BY NodeFacts
<1>4. data \in [Nodes -> [Keys -> Stored]] /\ request \in [Clients -> Requests]
  BY <1>1 DEF Types
<1>5. data' \in [Nodes -> [Keys -> Stored]]
      /\ \A m \in Nodes, x \in Keys : data'[m][x] = IF m = n /\ x = k THEN v ELSE data[m][x]
  BY DEF Puts
<1>6. NoRequest \in Requests /\ NoRequest.asking = FALSE
  BY NodeFacts DEF NoRequest, Requests
<1>7. request' \in [Clients -> Requests]
      /\ \A d \in Clients : request'[d] = IF d = c THEN NoRequest ELSE request[d]
  BY <1>4, <1>6
<1>8. n = Source => ~Blocked
  BY DEF Runs
<1>9. n = Target => ~(owner[Source] = Source /\ ~migrating)
  BY <1>1, <1>3 DEF Shut
<1>10. Types'
  BY <1>1, <1>5, <1>7 DEF Types
<1>11. Owners' /\ Ages'
  BY DEF IInv, Base, Owners, Ages, Closed
<1>12. Packets'
  BY DEF IInv, Base, Packets, IsPacket, Closed
<1>13. Emptied /\ migrating => Emptied'
  BY <1>3, <1>5 DEF Emptied
<1>14. Moves'
  <2>1. admin.step = "target" => Emptied'
    BY <1>1, <1>13 DEF Moves, Opened
  <2> QED
    BY <1>1, <2>1 DEF Moves, Blocked, Closed
<1>15. Shut'
  <2> SUFFICES ASSUME owner[Source] = Source, ~migrating
               PROVE  /\ ~Closed /\ stray = {}
                      /\ \A x \in Keys : data'[Target][x] = Missing
                      /\ \A d \in Clients : ~request'[d].asking
    BY DEF Shut, Closed
  <2>1. n = Source
    BY <1>9
  <2> QED
    BY <1>1, <1>3, <1>5, <1>6, <1>7, <2>1 DEF Shut
<1>16. Handed'
  <2> SUFFICES ASSUME Closed PROVE Emptied'
    BY DEF Handed, Closed
  <2>1. Emptied
    BY <1>1 DEF Handed
  <2>2. n = Source => migrating
    BY <1>1 DEF Shut
  <2>3. n = Source => FALSE
    BY <1>3, <2>1, <2>2 DEF Emptied
  <2> QED
    BY <1>3, <1>5, <2>1, <2>3 DEF Emptied
<1>17. Asks'
  <2> SUFFICES ASSUME NEW d \in Clients PROVE IsAsk(request[d])'
    BY DEF Asks
  <2>1. CASE d = c
    BY <1>7, <2>1 DEF IsAsk, NoRequest
  <2>2. CASE d # c
    <3> DEFINE r == request[d]
    <3>1. request'[d] = r /\ IsAsk(r) /\ r \in Requests
      BY <1>1, <1>4, <1>7, <2>2 DEF Asks
    <3>2. r.keys \in SUBSET Keys
      BY <3>1 DEF Requests
    <3>3. r.asking /\ n = Source => k \notin r.keys
      BY <1>1, <3>1 DEF Shut, IsAsk
    <3> HIDE DEF r
    <3>4. r.asking => \A x \in r.keys : data'[Source][x] = Missing
      <4> SUFFICES ASSUME r.asking, NEW x \in r.keys PROVE data'[Source][x] = Missing
        OBVIOUS
      <4>1. data[Source][x] = Missing /\ x \in Keys
        BY <3>1, <3>2 DEF IsAsk
      <4>2. ~(Source = n /\ x = k)
        BY <3>3
      <4> QED
        BY <1>3, <1>5, <4>1, <4>2
    <3> QED
      BY <3>1, <3>4 DEF IsAsk
  <2> QED
    BY <2>1, <2>2
<1>18. Blocked => \A x \in Keys : data'[Source][x] = data[Source][x]
  BY <1>3, <1>5, <1>8
<1>19. Calls'
  <2>1. IsCall(call)' /\ (stray \subseteq RestoreSet)'
    BY <1>1 DEF Calls, IsCall
  <2>2. Blocked => Sent'
    <3> SUFFICES ASSUME Blocked PROVE Sent'
      OBVIOUS
    <3>1. Sent /\ IsCall(call)
      BY CallFacts
    <3>2. \A i \in 1..Len(call.keys) : call.keys[i] \in Keys
      BY CallFacts
    <3>3. \A i \in 1..Len(call.todo) : Len(call.replies) + i \in 1..Len(call.keys)
      <4> DEFINE a == Len(call.todo)
                 b == Len(call.replies)
      <4>1. a \in Nat /\ b \in Nat /\ a + b = Len(call.keys)
        BY CallFacts
      <4> HIDE DEF a, b
      <4>2. \A i \in 1..a : b + i \in 1..(a + b)
        BY <4>1
      <4> QED
        BY <4>1, <4>2 DEF a, b
    <3>4. \A i \in 1..Len(call.keys) :
            data'[Source][call.keys[i]] = data[Source][call.keys[i]]
      BY <1>18, <3>2
    <3>5. call' = call
      OBVIOUS
    <3>6. \A i \in 1..Len(call.keys) : data'[Source][call.keys[i]] # Missing
      BY <3>1, <3>4 DEF Sent
    <3>7. \A i \in 1..Len(call.todo) :
            LET j == call.keys[Len(call.replies) + i] IN
            call.todo[i] = Restore(j, data'[Source][j], call.replace)
      BY <3>1, <3>3, <3>4 DEF Sent
    <3> QED
      BY <3>1, <3>5, <3>6, <3>7 DEF Sent
  <2> QED
    BY <2>1, <2>2 DEF Calls, Blocked
<1>20. SafeModes => Acked'
  <2> SUFFICES ASSUME SafeModes, Blocked, NEW i \in 1..Len(call.replies), call.replies[i] = "ok"
               PROVE  data'[Target][call.keys[i]] = data'[Source][call.keys[i]]
    BY DEF Acked, Blocked
  <2>1. Sent /\ i \in 1..Len(call.keys)
    BY CallFacts
  <2>3. call.keys[i] \in Keys /\ data[Source][call.keys[i]] # Missing
    BY <2>1, CallFacts DEF Sent
  <2>4. n = Target /\ call.keys[i] # k
    BY <1>8, <2>3
  <2>5. data[Target][call.keys[i]] = data[Source][call.keys[i]]
    BY <1>2 DEF Acked
  <2> QED
    BY <1>3, <1>5, <2>3, <2>4, <2>5
<1>21. SafeModes /\ n = Source /\ mode.deletes => data[Target][k] = Missing
  BY <1>1, <1>2, <1>8 DEF Shut, OneCopy, Both
<1>22. SafeModes => OneCopy'
  <2> SUFFICES ASSUME SafeModes, mode.deletes, NEW x \in Keys, Both(x)'
               PROVE  Blocked /\ \E i \in 1..Len(call.replies) : call.keys[i] = x
    BY <1>2 DEF OneCopy, Blocked
  <2>1. x # k
    BY <1>3, <1>5, <1>21 DEF Both
  <2>2. Both(x)
    BY <1>3, <1>5, <2>1 DEF Both
  <2> QED
    BY <1>2, <2>2 DEF OneCopy
<1>23. SafeModes => Home' = [Home EXCEPT ![k] = v]
  <2> SUFFICES ASSUME SafeModes, NEW x \in Keys PROVE Home'[x] = IF x = k THEN v ELSE Home[x]
    <3>1. Home' = [x \in Keys |-> Home'[x]] /\ Home = [x \in Keys |-> Home[x]]
      BY DEF Home
    <3>2. [Home EXCEPT ![k] = v] = [x \in Keys |-> IF x = k THEN v ELSE Home[x]]
      BY <3>1
    <3> QED
      BY <3>1, <3>2
  <2>1. Home'[x] = IF data'[Source][x] # Missing THEN data'[Source][x] ELSE data'[Target][x]
    BY DEF Home
  <2>2. CASE x # k
    BY <1>3, <1>5, <2>1, <2>2 DEF Home
  <2>3. CASE x = k
    BY <1>3, <1>5, <1>21, <2>1, <2>3
  <2> QED
    BY <2>2, <2>3
<1>24. SafeModes => Strays'
  <2> SUFFICES ASSUME SafeModes, ~mode.deletes, NEW r \in stray PROVE Home'[r.key] # Missing
    BY <1>2 DEF Strays
  <2>1. Home[r.key] # Missing /\ r.key \in Keys
    BY <1>1, <1>2 DEF Strays, Calls, RestoreSet
  <2>2. Home \in [Keys -> Stored]
    BY <1>3, <1>4 DEF Home
  <2> QED
    BY <1>23, <2>1, <2>2
<1> QED
  BY <1>10, <1>11, <1>12, <1>14, <1>15, <1>16, <1>17, <1>19, <1>20, <1>22, <1>23, <1>24
     DEF IInv, Base, Kept, SafeModes, Stores

\* The copy a command is served from is the one that counts.
LEMMA ServedFromHome ==
  ASSUME IInv, NEW c \in Clients,
         LET r == request[c] IN Route(r.at, r.keys, r.asking).kind = "serve"
  PROVE  LET r == request[c] IN [k \in r.keys |-> data[r.at][k]] = [k \in r.keys |-> Home[k]]
<1> DEFINE r == request[c]
<1>1. Types /\ Shut
  BY DEF IInv, Base
<1>2. r.keys \in SUBSET Keys
  BY <1>1 DEF Types, Requests
<1> SUFFICES ASSUME NEW k \in r.keys PROVE data[r.at][k] = Home[k]
  OBVIOUS
<1>3. Home[k] = IF data[Source][k] # Missing THEN data[Source][k] ELSE data[Target][k]
  BY <1>2 DEF Home
<1>4. \/ /\ r.at = Source /\ owner[Source] = Source
         /\ migrating => data[Source][k] # Missing
      \/ r.at = Target /\ data[Source][k] = Missing
  BY RouteFacts
<1>5. r.at = Source /\ owner[Source] = Source /\ ~migrating => data[Target][k] = Missing
  BY <1>1, <1>2 DEF Shut
<1> QED
  BY <1>3, <1>4, <1>5

\* A command is redirected, refused, or is a Read or a Write of the store.
LEMMA ExecuteStep ==
  ASSUME IInv, NEW c \in Clients, Execute(c)
  PROVE  /\ IInv'
         /\ SafeModes => \/ Abstract!Read(c) \/ Abstract!Write(c)
                         \/ Home' = Home /\ reply' = reply
<1> DEFINE r == request[c]
           route == Route(r.at, r.keys, r.asking)
           v == IF r.op = "write" THEN writes + 1 ELSE Missing
<1>1. Types /\ IsAsk(r) /\ r \in Requests /\ r # NoRequest /\ Runs(r.at)
      /\ UNCHANGED <<mode, slotVars, adminVars, migrateVars, net>>
  BY DEF IInv, Base, Types, Asks, Execute
<1>2. NoRequest \in Requests /\ IsAsk(NoRequest) /\ ~NoRequest.asking
  BY NodeFacts DEF NoRequest, Requests, IsAsk
<1>3. CASE /\ route.kind \in {"moved", "ask"}
           /\ request' = [request EXCEPT ![c].at = route.to, ![c].asking = (route.kind = "ask")]
           /\ UNCHANGED <<data, reply, writes>>
  <2> DEFINE s == [r EXCEPT !.at = route.to, !.asking = (route.kind = "ask")]
  <2>1. route.to \in Nodes
        /\ (route.kind = "ask" => /\ route.to = Target /\ migrating
                                  /\ \A k \in r.keys : data[Source][k] = Missing)
    BY <1>3, RouteFacts
  <2>3. request' = [request EXCEPT ![c] = s]
    BY <1>1, <1>3 DEF Types
  <2>5. s \in Requests /\ s.op = r.op /\ s.keys = r.keys /\ s.at = route.to
        /\ s.asking = (route.kind = "ask")
    <3> DEFINE to == route.to
               ask == route.kind = "ask"
    <3>1. r \in Requests /\ to \in Nodes /\ ask \in BOOLEAN
      BY <1>1, <2>1
    <3> HIDE DEF r, to, ask
    <3>2. [r EXCEPT !.at = to, !.asking = ask] \in Requests
      BY <3>1 DEF Requests
    <3>3. LET q == [r EXCEPT !.at = to, !.asking = ask] IN
          q.op = r.op /\ q.keys = r.keys /\ q.at = to /\ q.asking = ask
      BY <3>1 DEF Requests
    <3> QED
      BY <3>2, <3>3 DEF to, ask
  <2>6. r.op \in {"read", "write", "delete"}
    BY <1>1 DEF IsAsk
  <2> HIDE DEF r, route, s
  <2>7. IsAsk(s) /\ (s.asking => migrating)
    BY <1>1, <2>1, <2>5, <2>6 DEF IsAsk
  <2>8. IInv'
    BY <1>1, <1>3, <2>3, <2>5, <2>7, NoWrite
  <2> QED
    BY <1>3, <2>8 DEF Home
<1>4. CASE /\ route.kind \in {"tryagain", "down"}
           /\ request' = [request EXCEPT ![c] = NoRequest]
           /\ UNCHANGED <<data, reply, writes>>
  <2>1. IInv'
    BY <1>1, <1>2, <1>4, NoWrite
  <2> QED
    BY <1>4, <2>1 DEF Home
<1>5. CASE /\ route.kind = "serve" /\ r.op = "read"
           /\ request' = [request EXCEPT ![c] = NoRequest]
           /\ reply' = [reply EXCEPT ![c] = [k \in r.keys |-> data[r.at][k]]]
           /\ UNCHANGED <<data, writes>>
  <2>1. IInv'
    BY <1>1, <1>2, <1>5, NoWrite
  <2>2. reply' = [reply EXCEPT ![c] = [k \in r.keys |-> Home[k]]]
    BY <1>5, ServedFromHome
  <2>3. r.keys \in SUBSET Keys
    BY <1>1 DEF Requests
  <2>4. Home' = Home
    BY <1>5 DEF Home
  <2>5. Abstract!Read(c)
    BY <2>2, <2>3, <2>4 DEF Abstract!Read
  <2> QED
    BY <2>1, <2>5
<1>6. CASE /\ route.kind = "serve" /\ r.op # "read"
           /\ r.op = "write" => writes < mode.writes
           /\ data' = [data EXCEPT ![r.at] = [k \in Keys |-> IF k \in r.keys THEN v ELSE @[k]]]
           /\ reply' = [reply EXCEPT ![c] = [k \in r.keys |-> v]]
           /\ writes' = IF r.op = "write" THEN writes + 1 ELSE writes
           /\ request' = [request EXCEPT ![c] = NoRequest]
  <2>1. r.op \in {"write", "delete"} /\ (r.op = "delete" => mode.deletes)
    BY <1>1, <1>6 DEF IsAsk
  <2>2. PICK k \in Keys : r.keys = {k}
    BY <1>1, <2>1 DEF IsAsk
  <2>3. v \in Stored /\ (v = Missing => mode.deletes) /\ writes' \in 0..mode.writes
    <3>1. mode.writes \in 0..MaxWrites /\ writes \in 0..mode.writes /\ MaxWrites \in Nat
      BY <1>1, ModeFacts, BoundAssumption DEF Types
    <3>2. r.op = "write" => writes + 1 \in 1..MaxWrites /\ writes + 1 \in 0..mode.writes
      BY <1>6, <3>1
    <3>3. r.op = "write" => v \in Values /\ v # Missing
      BY <3>2 DEF Values, Missing
    <3> QED
      BY <1>6, <2>1, <3>1, <3>2, <3>3 DEF Stored
  <2>4. \/ /\ r.at = Source /\ owner[Source] = Source
           /\ migrating => data[Source][k] # Missing
        \/ /\ r.at = Target /\ (Closed \/ r.asking)
           /\ data[Source][k] = Missing
    BY <1>6, <2>2, RouteFacts
  <2>5. Puts(r.at, k, v)
    <3>1. data \in [Nodes -> [Keys -> Stored]] /\ r.at \in Nodes
      BY <1>1 DEF Types, Requests
    <3> QED
      BY <1>6, <2>2, <2>3, <3>1 DEF Puts
  <2> HIDE DEF v
  <2>6. IInv' /\ (SafeModes => Home' = [Home EXCEPT ![k] = v])
    <3>1. PICK n \in {Source, Target} : n = r.at
      BY <2>4
    <3>2. PICK w \in Stored : w = v
      BY <2>3
    <3>3. n = Source => owner[Source] = Source /\ (migrating => data[Source][k] # Missing)
      BY <2>4, <3>1, NodeFacts
    <3>4. n = Target => (Closed \/ request[c].asking) /\ data[Source][k] = Missing
      BY <2>4, <3>1, NodeFacts
    <3>5. Runs(n) /\ (w = Missing => mode.deletes)
      BY <1>1, <2>3, <3>1, <3>2
    <3>6. Puts(n, k, w)
      BY <2>5, <3>1, <3>2 DEF Puts
    <3>7. request' = [request EXCEPT ![c] = NoRequest]
      BY <1>6
    <3>8. IInv' /\ (SafeModes => Stores(k, w))
      BY <1>1, <2>3, <3>3, <3>4, <3>5, <3>6, <3>7, WriteStep
    <3> QED
      BY <3>2, <3>8 DEF Stores
  <2>7. reply' = [reply EXCEPT ![c] = [x \in {k} |-> v]]
    BY <1>6, <2>2
  <2>8. SafeModes => Abstract!Write(c)
    BY <2>3, <2>6, <2>7 DEF Abstract!Write, Stored
  <2> QED
    BY <2>6, <2>8
<1> QED
  <2> HIDE DEF IInv
  <2> QED
    BY <1>3, <1>4, <1>5, <1>6 DEF Execute

\* Every step keeps the invariant, and is a step or a stutter of the store.
LEMMA NextStep ==
  ASSUME IInv, [Next]_vars
  PROVE  IInv' /\ (SafeModes => [Abstract!Next]_<<Home, reply>>)
<1> DEFINE Quiet == Home' = Home /\ reply' = reply
<1>1. CASE \E c \in Clients : SendCommand(c)
  <2>1. PICK c \in Clients : SendCommand(c)
    BY <1>1
  <2>2. IInv'
    BY <2>1, SendCommandStep
  <2>3. reply' = [reply EXCEPT ![c] = <<>>] /\ Home' = Home
    BY <2>1 DEF SendCommand, Home
  <2>4. Abstract!Next
    BY <2>3 DEF Abstract!Next, Abstract!Invoke
  <2> QED
    BY <2>2, <2>4
<1>2. CASE \E c \in Clients : Execute(c)
  <2>1. PICK c \in Clients : Execute(c)
    BY <1>2
  <2>2. IInv' /\ (SafeModes => Abstract!Read(c) \/ Abstract!Write(c) \/ Quiet)
    BY <2>1, ExecuteStep
  <2> QED
    BY <2>2 DEF Abstract!Next
<1>3. CASE TargetRestore \/ StrayRestore
  <2>1. reply' = reply
    BY <1>3 DEF TargetRestore, StrayRestore, clientVars
  <2> QED
    BY <1>3, <2>1, TargetRestoreStep, StrayRestoreStep
<1>4. CASE MigrateDone \/ MigrateFails
  <2>1. reply' = reply
    BY <1>4 DEF MigrateDone, MigrateFails, clientVars
  <2> QED
    BY <1>4, <2>1, MigrateDoneStep, MigrateFailsStep
<1>5. CASE SetImporting \/ SetMigrating \/ ListKeys \/ CompareKeys \/ Rerun
  <2>1. Quiet
    BY <1>5 DEF SetImporting, SetMigrating, ListKeys, CompareKeys, Rerun, clientVars, Home
  <2> QED
    BY <1>5, <2>1, SetImportingStep, SetMigratingStep, ListKeysStep, CompareKeysStep, RerunStep
<1>6. CASE MigrateKeys \/ ReplaceKeys
  <2>1. Quiet
    BY <1>6 DEF MigrateKeys, ReplaceKeys, clientVars, Home
  <2> QED
    BY <1>6, <2>1, MigrateKeysStep
<1>7. CASE CloseAtTarget \/ CloseAtOther
  <2>1. Quiet
    BY <1>7 DEF CloseAtTarget, CloseAtOther, clientVars, Home
  <2> QED
    BY <1>7, <2>1, CloseAtTargetStep, CloseAtOtherStep
<1>8. CASE CloseAtSource
  <2>1. IInv' /\ data' = data
    BY <1>8, CloseAtSourceStep
  <2>2. Quiet
    BY <1>8, <2>1 DEF CloseAtSource, clientVars, Home
  <2> QED
    BY <2>1, <2>2
<1>9. CASE LosePacket
  <2>1. Quiet
    BY <1>9 DEF LosePacket, clientVars, Home
  <2> QED
    BY <1>9, <2>1, LosePacketStep
<1>10. CASE \E n, x \in Nodes : n # x /\ SendPing(n, x)
  <2>1. PICK n \in Nodes, x \in Nodes : n # x /\ SendPing(n, x)
    BY <1>10
  <2>2. Quiet
    BY <2>1 DEF SendPing, clientVars, Home
  <2> QED
    BY <2>1, <2>2, SendPingStep
<1>11. CASE \E n, x \in Nodes : n # x /\ ProcessPacket(n, x)
  <2>1. PICK n \in Nodes, x \in Nodes : n # x /\ ProcessPacket(n, x)
    BY <1>11
  <2>2. IInv' /\ data' = data
    BY <2>1, ProcessPacketStep
  <2>3. Quiet
    BY <2>1, <2>2 DEF ProcessPacket, clientVars, Home
  <2> QED
    BY <2>2, <2>3
<1>12. CASE UNCHANGED vars
  <2> USE DEF vars
  <2>1. Types' /\ Owners' /\ Ages'
    BY <1>12 DEF IInv, Base, Types, Owners, Ages, Closed
  <2>2. Packets'
    BY <1>12 DEF IInv, Base, Packets, IsPacket, Closed
  <2>3. Moves' /\ Shut' /\ Handed'
    BY <1>12 DEF IInv, Base, Moves, Shut, Handed, Blocked, Closed, Emptied
  <2>4. Asks'
    BY <1>12 DEF IInv, Base, Asks, IsAsk
  <2>5. Calls'
    BY <1>12 DEF IInv, Base, Calls, IsCall, Sent, Blocked
  <2>6. SafeModes => Acked' /\ OneCopy'
    BY <1>12 DEF IInv, Kept, Acked, OneCopy, Blocked, Both
  <2>7. SafeModes => Strays'
    BY <1>12 DEF IInv, Kept, Strays, Home
  <2>8. Quiet
    BY <1>12 DEF Home
  <2> QED
    BY <2>1, <2>2, <2>3, <2>4, <2>5, <2>6, <2>7, <2>8 DEF IInv, Base, Kept, SafeModes
<1> QED
  BY <1>1, <1>2, <1>3, <1>4, <1>5, <1>6, <1>7, <1>8, <1>9, <1>10, <1>11, <1>12, Zenon DEF Next

\* The invariant above holds in every reachable state, in every mode.
THEOREM Inductive == Spec => []IInv
<1>1. IInv /\ [Next]_vars => IInv'
  BY NextStep
<1> QED
  BY <1>1, InitInv, PTL DEF Spec

\* TypeOK: tables, epochs, keys and requests keep their types, and a MIGRATE has as many answers
\* and open RESTOREs as it has keys, in every mode.
THEOREM TypeCorrect == Spec => []TypeOK
<1>1. IInv => TypeOK
  BY DEF IInv, Base, Types, Calls, IsCall, TypeOK, Stored
<1> QED
  BY <1>1, Inductive, PTL

\* ImplementsKeyStore: in SafeModes no client can tell that the slot is being moved. Every command
\* that is served sees and changes one copy of its keys.
THEOREM OneCopyForClients ==
  ASSUME SafeModes
  PROVE  Spec => ImplementsKeyStore
<1>1. Init => Abstract!Init
  <2>1. Init => Home = [k \in Keys |-> Missing]
    BY NodeFacts DEF Init, Home
  <2>2. Init => reply = [c \in Clients |-> <<>>]
    BY DEF Init
  <2> QED
    BY <2>1, <2>2 DEF Abstract!Init
<1>2. IInv /\ [Next]_vars => [Abstract!Next]_<<Home, reply>>
  BY NextStep
<1> QED
  BY <1>1, <1>2, Inductive, PTL DEF Spec, ImplementsKeyStore, Abstract!Spec

\* No packet makes the source delete a key: when clusterUpdateSlotsConfigWith takes the slot away
\* and calls delKeysInSlot, or makes the source a replica, no key of the slot is left there. The
\* same holds for SETSLOT NODE at the source, which may demote it with its last slot.
THEOREM SlotLossDeletesNothing ==
  Spec => [][/\ \A n, x \in Nodes : n # x /\ ProcessPacket(n, x) => UNCHANGED data
             /\ CloseAtSource => UNCHANGED data]_vars
<1>1. ASSUME IInv, NEW n \in Nodes, NEW x \in Nodes, n # x /\ ProcessPacket(n, x)
      PROVE  UNCHANGED data
  BY <1>1, ProcessPacketStep
<1>2. ASSUME IInv, CloseAtSource
      PROVE  UNCHANGED data
  BY <1>2, CloseAtSourceStep
<1>3. IInv /\ [Next]_vars =>
        [/\ \A n, x \in Nodes : n # x /\ ProcessPacket(n, x) => UNCHANGED data
         /\ CloseAtSource => UNCHANGED data]_vars
  BY <1>1, <1>2
<1> QED
  BY <1>3, Inductive, PTL DEF Spec
=============================================================================
