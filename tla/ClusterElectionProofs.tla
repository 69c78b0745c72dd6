------------------------ MODULE ClusterElectionProofs ------------------------
(***************************************************************************)
(* Proofs about ClusterElection, for any electorate, any replicas and any  *)
(* bounds. VoteInv is the part of the inductive invariant about the voters *)
(* and needs nothing of the network; CountInv, about the candidates, is    *)
(* inductive when BoundedDelay holds.                                      *)
(***************************************************************************)
EXTENDS ClusterElection, FiniteSetTheorems, TLAPS

\* Epochs on disk never exceed the ones in memory, and cover the votes; an
\* election is not ahead of the currentEpoch of its replica.
EpochInv ==
  /\ \A n \in Nodes : slotEpoch[n] <= savedEpoch[n] /\ savedEpoch[n] <= currentEpoch[n]
  /\ \A m \in Masters : lastVoteEpoch[m] <= savedEpoch[m]
  /\ \A r \in Replicas : authEpoch[r] <= currentEpoch[r]

\* No vote is newer than lastVoteEpoch, and every AUTH_ACK stands for a vote.
BallotInv ==
  /\ \A v \in votes : v[3] <= lastVoteEpoch[v[1]]
  /\ \A q \in net : q.type = "AUTH_ACK" => <<q.src, q.dst, q.epoch>> \in votes

VoteInv == TypeOK /\ EpochInv /\ BallotInv /\ AtMostOneVotePerEpoch

\* Masters whose vote in the present election of r has arrived at r.
Counted(r) ==
  { m \in Masters : /\ <<m, r, authEpoch[r]>> \in votes
                    /\ AuthAck(m, r, authEpoch[r]) \notin net }

CountInvOf(r) ==
  window[r] # "none" =>
    IF authSent[r]
    THEN /\ \A q \in Outstanding(r) : q.epoch = authEpoch[r]
         /\ authCount[r] <= Cardinality(Counted(r))
    ELSE Outstanding(r) = {} /\ authCount[r] = 0

CountInv == \A r \in Replicas : CountInvOf(r)

IInv == VoteInv /\ CountInv /\ ElectedByMajority
-----------------------------------------------------------------------------
\* Larger picks one of its arguments and bounds both.
LEMMA LargerFacts ==
  ASSUME NEW a \in Nat, NEW b \in Nat
  PROVE  /\ Larger(a, b) \in {a, b}
         /\ a <= Larger(a, b)
         /\ b <= Larger(a, b)
BY DEF Larger

\* Larger stays within the bounded epochs.
LEMMA LargerEpoch ==
  ASSUME NEW a \in Epochs, NEW b \in Epochs
  PROVE  Larger(a, b) \in Epochs
BY DEF Larger

\* What a packet of the type invariant looks like.
LEMMA PacketFields ==
  ASSUME NEW q \in Requests \cup Acks
  PROVE  /\ q.type \in {"AUTH_REQUEST", "AUTH_ACK"}
         /\ q.epoch \in Epochs
         /\ q.type = "AUTH_REQUEST" => q.src \in Replicas /\ q.dst \in Masters
         /\ q.type = "AUTH_ACK" => /\ q.src \in Masters /\ q.dst \in Replicas
                                   /\ q = AuthAck(q.src, q.dst, q.epoch)
BY DEF Requests, Acks, AuthRequest, AuthAck

\* An AUTH_ACK is of its type, and determined by its three fields.
LEMMA AckFields ==
  ASSUME NEW m, NEW r, NEW e
  PROVE  /\ AuthAck(m, r, e).type = "AUTH_ACK"
         /\ AuthAck(m, r, e).src = m
         /\ AuthAck(m, r, e).dst = r
         /\ AuthAck(m, r, e).epoch = e
BY DEF AuthAck

\* Type correctness is inductive on its own.
LEMMA TypeStep == TypeOK /\ [Next]_vars => TypeOK'
<1> SUFFICES ASSUME TypeOK, [Next]_vars PROVE TypeOK'
  OBVIOUS
<1> USE MastersAssumption, ReplicasAssumption, BoundAssumption, FlagAssumption
<1>0. \A a, b \in Epochs : Larger(a, b) \in Epochs
  BY LargerEpoch
<1>1. ASSUME NEW r \in Replicas, ScheduleElection(r) PROVE TypeOK'
  BY <1>1 DEF TypeOK, ScheduleElection, Outstanding
<1>2. ASSUME NEW r \in Replicas, TimePasses(r) PROVE TypeOK'
  BY <1>2 DEF TypeOK, TimePasses
<1>3. ASSUME NEW r \in Replicas, RankDelay(r) PROVE TypeOK'
  BY <1>3 DEF TypeOK, RankDelay
<1>4. ASSUME NEW r \in Replicas, RequestAuth(r) PROVE TypeOK'
  <2> DEFINE e == currentEpoch[r] + 1
  <2>0. currentEpoch[r] \in Epochs /\ currentEpoch[r] < MaxEpoch /\ topEpoch \in Epochs
    BY <1>4 DEF TypeOK, RequestAuth, Nodes
  <2>1a. e \in Epochs
    BY <2>0 DEF Epochs
  <2>1. e \in Epochs /\ Larger(topEpoch, e) \in Epochs
    BY <2>0, <2>1a, LargerEpoch
  <2>2. \A f \in BOOLEAN : { AuthRequest(r, m, e, f) : m \in Masters } \subseteq Requests
    BY <2>1 DEF Requests
  <2>3. (net \subseteq Requests \cup Acks)'
    BY <1>4, <2>2 DEF TypeOK, RequestAuth
  <2>4. (currentEpoch \in [Nodes -> Epochs])' /\ (authEpoch \in [Replicas -> Epochs])'
    BY <1>4, <2>1 DEF TypeOK, RequestAuth
  <2>5. (authSent \in [Replicas -> BOOLEAN])' /\ (topEpoch \in Epochs)'
    BY <1>4, <2>1 DEF TypeOK, RequestAuth
  <2> QED
    BY <1>4, <2>3, <2>4, <2>5 DEF TypeOK, RequestAuth
<1>5. ASSUME NEW r \in Replicas, ProcessAuthAck(r) PROVE TypeOK'
  <2> PICK a \in net : ProcessAuthAck(r)!(a)
    BY <1>5 DEF ProcessAuthAck
  <2>1. a.epoch \in Epochs
    BY PacketFields DEF TypeOK
  <2>2. Larger(currentEpoch[r], a.epoch) \in Epochs
    BY <2>1, <1>0 DEF TypeOK, Nodes
  <2>3. (currentEpoch \in [Nodes -> Epochs])'
    BY <2>2 DEF TypeOK
  <2>4. (authCount \in [Replicas -> Nat])'
    BY DEF TypeOK
  <2>5. (net \subseteq Requests \cup Acks)'
    BY DEF TypeOK
  <2> QED
    BY <2>3, <2>4, <2>5 DEF TypeOK
<1>6. ASSUME NEW r \in Replicas, ReplaceYourMaster(r) PROVE TypeOK'
  BY <1>6 DEF TypeOK, ReplaceYourMaster, Nodes
<1>7. ASSUME NEW m \in Masters, ProcessAuthRequest(m) PROVE TypeOK'
  <2> PICK q \in net : ProcessAuthRequest(m)!(q)
    BY <1>7 DEF ProcessAuthRequest
  <2> DEFINE e == VoteEpoch(m, q)
  <2>1. q.epoch \in Epochs /\ q.src \in Replicas
    BY PacketFields DEF TypeOK
  <2>2. e \in Epochs
    BY <2>1, <1>0 DEF TypeOK, Nodes, VoteEpoch
  <2>3. AuthAck(m, q.src, e) \in Acks
    BY <2>1, <2>2 DEF Acks
  <2>4. CASE GrantVote(m, q)
    <3>1. (currentEpoch \in [Nodes -> Epochs])' /\ (savedEpoch \in [Nodes -> Epochs])'
      BY <2>2, <2>4 DEF TypeOK, GrantVote
    <3>2. (lastVoteEpoch \in [Masters -> Epochs])'
      BY <2>2, <2>4 DEF TypeOK, GrantVote
    <3>3. (net \subseteq Requests \cup Acks)'
      BY <2>3, <2>4 DEF TypeOK, GrantVote
    <3>4. (votes \subseteq Masters \X Replicas \X Epochs)'
      BY <2>1, <2>2, <2>4 DEF TypeOK, GrantVote
    <3> QED
      BY <2>4, <3>1, <3>2, <3>3, <3>4 DEF TypeOK, GrantVote
  <2>5. CASE RefuseVote(m, q)
    BY <2>2, <2>5 DEF TypeOK, RefuseVote
  <2> QED
    BY <2>4, <2>5
<1>8. ASSUME NEW n \in Nodes, LearnConfig(n) PROVE TypeOK'
  <2> PICK w \in won : LearnConfig(n)!(w)
    BY <1>8 DEF LearnConfig
  <2>1. w[2] \in Epochs
    BY DEF TypeOK
  <2>2. Larger(currentEpoch[n], w[2]) \in Epochs
    BY <2>1, <1>0 DEF TypeOK
  <2> QED
    BY <2>1, <2>2 DEF TypeOK
<1>9. ASSUME NEW n \in Nodes, LearnEpoch(n) PROVE TypeOK'
  BY <1>9 DEF TypeOK, LearnEpoch
<1>10. ASSUME NEW n \in Nodes, CrashRestart(n) PROVE TypeOK'
  <2>0. EpochsOnDisk(n) \subseteq Epochs
    BY DEF EpochsOnDisk, Epochs, TypeOK
  <2>1. PICK e \in Epochs :
          currentEpoch' = [currentEpoch EXCEPT ![n] = Larger(e, slotEpoch[n])]
    BY <1>10, <2>0 DEF CrashRestart
  <2>2. Larger(e, slotEpoch[n]) \in Epochs
    BY <1>0 DEF TypeOK
  <2>3. crashes' \in 0..MaxCrashes
    BY <1>10 DEF TypeOK, CrashRestart
  <2>4. 0 \in Epochs
    BY DEF Epochs
  <2> QED
    BY <1>10, <2>1, <2>2, <2>3, <2>4 DEF TypeOK, CrashRestart
<1>11. CASE UNCHANGED vars
  BY <1>11 DEF TypeOK, vars, Requests, Acks
<1> QED
  BY <1>1, <1>2, <1>3, <1>4, <1>5, <1>6, <1>7, <1>8, <1>9, <1>10, <1>11 DEF Next

\* The voters' part of the invariant is inductive, whatever the network does.
LEMMA VoteStep == VoteInv /\ [Next]_vars => VoteInv'
<1> SUFFICES ASSUME VoteInv, [Next]_vars PROVE VoteInv'
  OBVIOUS
<1> USE MastersAssumption, ReplicasAssumption, BoundAssumption, FlagAssumption
<1>t. TypeOK /\ TypeOK'
  BY TypeStep DEF VoteInv
<1>i. EpochInv /\ BallotInv /\ AtMostOneVotePerEpoch
  BY DEF VoteInv
<1>s. Masters \subseteq Nodes /\ Replicas \subseteq Nodes /\ \A e \in Epochs : e \in Nat
  BY DEF Epochs, Nodes
<1>n. /\ \A n \in Nodes : /\ currentEpoch[n] \in Nat /\ currentEpoch'[n] \in Nat
                         /\ savedEpoch[n] \in Nat /\ savedEpoch'[n] \in Nat
                         /\ slotEpoch[n] \in Nat /\ slotEpoch'[n] \in Nat
      /\ \A m \in Masters : /\ lastVoteEpoch[m] \in Nat /\ lastVoteEpoch'[m] \in Nat
                           /\ m \in Nodes
      /\ \A r \in Replicas : /\ authEpoch[r] \in Nat /\ authEpoch'[r] \in Nat
                            /\ r \in Nodes
  BY <1>t, <1>s DEF TypeOK
<1>1. ASSUME NEW r \in Replicas, ScheduleElection(r) PROVE VoteInv'
  <2>1. net' \subseteq net
    BY <1>1 DEF ScheduleElection
  <2> QED
    BY <1>1, <1>t, <1>i, <2>1
    DEF VoteInv, EpochInv, BallotInv, AtMostOneVotePerEpoch, ScheduleElection
<1>2. ASSUME NEW r \in Replicas, TimePasses(r) PROVE VoteInv'
  BY <1>2, <1>t, <1>i DEF VoteInv, EpochInv, BallotInv, AtMostOneVotePerEpoch, TimePasses
<1>3. ASSUME NEW r \in Replicas, RankDelay(r) PROVE VoteInv'
  BY <1>3, <1>t, <1>i DEF VoteInv, EpochInv, BallotInv, AtMostOneVotePerEpoch, RankDelay
<1>4. ASSUME NEW r \in Replicas, RequestAuth(r) PROVE VoteInv'
  <2>1. EpochInv'
    <3>1. \A n \in Nodes : currentEpoch[n] <= currentEpoch'[n]
      BY <1>4, <1>t, <1>n DEF RequestAuth, TypeOK
    <3> QED
      BY <1>4, <1>t, <1>i, <1>n, <3>1 DEF EpochInv, RequestAuth, TypeOK
  <2>2. \A q \in net' : q.type = "AUTH_ACK" => q \in net
    BY <1>4 DEF RequestAuth, AuthRequest
  <2> QED
    BY <1>4, <1>t, <1>i, <2>1, <2>2
    DEF VoteInv, BallotInv, AtMostOneVotePerEpoch, RequestAuth
<1>5. ASSUME NEW r \in Replicas, ProcessAuthAck(r) PROVE VoteInv'
  <2> PICK a \in net : ProcessAuthAck(r)!(a)
    BY <1>5 DEF ProcessAuthAck
  <2>1. a.epoch \in Nat
    BY <1>t, <1>s, PacketFields DEF TypeOK
  <2>2. \A n \in Nodes : currentEpoch[n] <= currentEpoch'[n]
    BY <1>t, <1>n, <2>1, LargerFacts DEF TypeOK
  <2>3. EpochInv'
    BY <1>t, <1>i, <1>n, <2>2 DEF EpochInv, TypeOK
  <2> QED
    BY <1>t, <1>i, <2>3 DEF VoteInv, BallotInv, AtMostOneVotePerEpoch
<1>6. ASSUME NEW r \in Replicas, ReplaceYourMaster(r) PROVE VoteInv'
  <2>2. EpochInv'
    BY <1>6, <1>t, <1>i, <1>n DEF EpochInv, ReplaceYourMaster, TypeOK
  <2> QED
    BY <1>6, <1>t, <1>i, <2>2
    DEF VoteInv, BallotInv, AtMostOneVotePerEpoch, ReplaceYourMaster
<1>7. ASSUME NEW m \in Masters, ProcessAuthRequest(m) PROVE VoteInv'
  <2> PICK q \in net : ProcessAuthRequest(m)!(q)
    BY <1>7 DEF ProcessAuthRequest
  <2> DEFINE e == VoteEpoch(m, q)
  <2>1. q.epoch \in Nat /\ q.src \in Replicas
    BY <1>t, <1>s, PacketFields DEF TypeOK
  <2>2. e \in Nat /\ currentEpoch[m] <= e
    BY <1>t, <1>n, <2>1, LargerFacts DEF TypeOK, VoteEpoch
  <2>3. CASE GrantVote(m, q)
    <3>1. lastVoteEpoch[m] < e
      <4>1. lastVoteEpoch[m] <= currentEpoch[m]
        BY <1>t, <1>i, <1>n DEF EpochInv, TypeOK
      <4> QED
        BY <1>t, <1>n, <2>2, <2>3, <4>1 DEF GrantVote, MayVote, TypeOK
    <3>0. \A v \in votes : v[1] \in Masters /\ v[3] \in Nat /\ v[3] <= lastVoteEpoch[v[1]]
      BY <1>t, <1>s, <1>i DEF BallotInv, TypeOK
    <3>2. \A v \in votes : v[1] = m => v[3] < e
      BY <1>n, <2>2, <3>0, <3>1
    <3>3. EpochInv'
      BY <1>t, <1>i, <1>n, <2>2, <2>3 DEF EpochInv, GrantVote, TypeOK
    <3>4. BallotInv'
      <4>1. \A v \in votes : v[3] <= lastVoteEpoch'[v[1]]
        BY <1>t, <1>n, <2>2, <2>3, <3>0, <3>2 DEF GrantVote, TypeOK
      <4>2. lastVoteEpoch'[m] = e
        BY <1>t, <2>3 DEF GrantVote, TypeOK
      <4>3. \A p \in net' : p.type = "AUTH_ACK" => <<p.src, p.dst, p.epoch>> \in votes'
        BY <1>i, <2>3, AckFields DEF BallotInv, GrantVote
      <4> QED
        BY <2>2, <2>3, <4>1, <4>2, <4>3 DEF BallotInv, GrantVote
    <3>5. AtMostOneVotePerEpoch'
      <4> SUFFICES ASSUME NEW v \in votes', NEW w \in votes', v[1] = w[1], v[3] = w[3]
                   PROVE  v[2] = w[2]
        BY DEF AtMostOneVotePerEpoch
      <4>1. CASE v \in votes /\ w \in votes
        BY <1>i, <4>1 DEF AtMostOneVotePerEpoch
      <4>2. CASE v \notin votes \/ w \notin votes
        <5>1. votes' = votes \cup { <<m, q.src, e>> }
          BY <2>3 DEF GrantVote
        <5>2. v \in votes /\ v[1] = m => v[3] # e
          BY <1>t, <2>2, <3>2 DEF TypeOK
        <5>3. w \in votes /\ w[1] = m => w[3] # e
          BY <1>t, <2>2, <3>2 DEF TypeOK
        <5> QED
          BY <4>2, <5>1, <5>2, <5>3
      <4> QED
        BY <4>1, <4>2
    <3> QED
      BY <1>t, <3>3, <3>4, <3>5 DEF VoteInv
  <2>4. CASE RefuseVote(m, q)
    <3>1. EpochInv'
      BY <1>t, <1>i, <1>n, <2>2, <2>4 DEF EpochInv, RefuseVote, TypeOK
    <3> QED
      BY <1>t, <1>i, <2>4, <3>1
      DEF VoteInv, BallotInv, AtMostOneVotePerEpoch, RefuseVote
  <2> QED
    BY <2>3, <2>4
<1>8. ASSUME NEW n \in Nodes, LearnConfig(n) PROVE VoteInv'
  <2> PICK w \in won : LearnConfig(n)!(w)
    BY <1>8 DEF LearnConfig
  <2>1. w[2] \in Nat
    BY <1>t, <1>s DEF TypeOK
  <2>2. w[2] <= Larger(currentEpoch[n], w[2])
    BY <1>t, <1>n, <2>1, LargerFacts DEF TypeOK
  <2>3. currentEpoch[n] <= Larger(currentEpoch[n], w[2]) /\ Larger(currentEpoch[n], w[2]) \in Nat
    BY <1>t, <1>n, <2>1, LargerFacts DEF TypeOK
  <2>4. EpochInv'
    BY <1>t, <1>i, <1>n, <2>1, <2>2, <2>3 DEF EpochInv, TypeOK
  <2> QED
    BY <1>t, <1>i, <2>4 DEF VoteInv, BallotInv, AtMostOneVotePerEpoch
<1>9. ASSUME NEW n \in Nodes, LearnEpoch(n) PROVE VoteInv'
  <2>1. EpochInv'
    BY <1>9, <1>t, <1>i, <1>n DEF EpochInv, LearnEpoch, TypeOK
  <2> QED
    BY <1>9, <1>t, <1>i, <2>1
    DEF VoteInv, BallotInv, AtMostOneVotePerEpoch, LearnEpoch
<1>10. ASSUME NEW n \in Nodes, CrashRestart(n) PROVE VoteInv'
  <2>1. PICK e \in Nat :
          /\ savedEpoch[n] <= e
          /\ currentEpoch' = [currentEpoch EXCEPT ![n] = Larger(e, slotEpoch[n])]
    <3>1. \A e \in EpochsOnDisk(n) : e \in Nat /\ savedEpoch[n] <= e
      BY <1>n DEF EpochsOnDisk
    <3> QED
      BY <1>10, <3>1 DEF CrashRestart
  <2>2. Larger(e, slotEpoch[n]) \in Nat /\ e <= Larger(e, slotEpoch[n]) /\ e \in Nat
    BY <1>s, <1>n, LargerFacts
  <2>3. EpochInv'
    BY <1>10, <1>t, <1>i, <1>n, <2>1, <2>2 DEF EpochInv, CrashRestart, TypeOK
  <2> QED
    BY <1>10, <1>t, <1>i, <2>3
    DEF VoteInv, BallotInv, AtMostOneVotePerEpoch, CrashRestart
<1>11. CASE UNCHANGED vars
  BY <1>11, <1>t, <1>i DEF VoteInv, EpochInv, BallotInv, AtMostOneVotePerEpoch, vars
<1> QED
  BY <1>1, <1>2, <1>3, <1>4, <1>5, <1>6, <1>7, <1>8, <1>9, <1>10, <1>11 DEF Next

\* An AUTH_ACK in flight to r, or a request of r, is outstanding for r.
LEMMA OutstandingFacts ==
  ASSUME NEW r, NEW q \in net
  PROVE  q \in Outstanding(r) <=> \/ q.type = "AUTH_REQUEST" /\ q.src = r
                                  \/ q.type = "AUTH_ACK" /\ q.dst = r
BY DEF Outstanding

\* A candidate whose election state and votes stay, and whose packets can only
\* disappear without an AUTH_ACK among them, keeps its count in order.
LEMMA CountFrame ==
  ASSUME TypeOK, NEW r \in Replicas, CountInvOf(r),
         window'[r] # "none" => window[r] # "none",
         authSent'[r] = authSent[r], authEpoch'[r] = authEpoch[r],
         authCount'[r] = authCount[r],
         \A m \in Masters, e \in Epochs : <<m, r, e>> \in votes' <=> <<m, r, e>> \in votes,
         Outstanding(r)' \subseteq Outstanding(r),
         \A m \in Masters, e \in Epochs :
            AuthAck(m, r, e) \in net' <=> AuthAck(m, r, e) \in net
  PROVE  CountInvOf(r)'
<1>1. Counted(r)' = Counted(r)
  BY DEF Counted, TypeOK
<1> QED
  BY <1>1 DEF CountInvOf

\* The candidates' part of the invariant is inductive when the packets of an
\* attempt are gone before the next one is set up.
LEMMA CountStep ==
  BoundedDelay /\ VoteInv /\ CountInv /\ [Next]_vars => CountInv'
<1> SUFFICES ASSUME BoundedDelay, VoteInv, CountInv, [Next]_vars, NEW c \in Replicas
             PROVE  CountInvOf(c)'
  BY DEF CountInv
<1> USE MastersAssumption, ReplicasAssumption, BoundAssumption, FlagAssumption
<1>t. TypeOK /\ TypeOK' /\ CountInvOf(c) /\ BallotInv /\ EpochInv
  BY TypeStep DEF VoteInv, CountInv
<1>f. IsFiniteSet(Counted(c)) /\ Cardinality(Counted(c)) \in Nat
  <2>1. Counted(c) \in SUBSET Masters
    BY DEF Counted
  <2> QED
    BY <2>1, FS_Subset, FS_CardinalityType
<1>f2. Cardinality(Counted(c)') \in Nat
  <2>1. Counted(c)' \in SUBSET Masters
    BY DEF Counted
  <2> QED
    BY <2>1, FS_Subset, FS_CardinalityType
<1>1. ASSUME NEW r \in Replicas, ScheduleElection(r) PROVE CountInvOf(c)'
  <2>1. CASE c = r
    <3>1. authSent'[c] = FALSE /\ authCount'[c] = 0
      BY <1>1, <1>t, <2>1 DEF ScheduleElection, TypeOK
    <3>2. Outstanding(c)' = {}
      BY <1>1, <2>1 DEF ScheduleElection, Outstanding
    <3> QED
      BY <3>1, <3>2 DEF CountInvOf
  <2>2. CASE c # r
    <3>1. Outstanding(c)' \subseteq Outstanding(c)
      BY <1>1 DEF ScheduleElection, Outstanding
    <3>2. \A m \in Masters, e \in Epochs :
            AuthAck(m, c, e) \in net' <=> AuthAck(m, c, e) \in net
      BY <1>1, <2>2, AckFields DEF ScheduleElection, Outstanding
    <3> QED
      BY <1>1, <1>t, <2>2, <3>1, <3>2, CountFrame DEF ScheduleElection, TypeOK
  <2> QED
    BY <2>1, <2>2
<1>2. ASSUME NEW r \in Replicas, TimePasses(r) PROVE CountInvOf(c)'
  <2>1. window'[c] # "none" => window[c] # "none"
    BY <1>2, <1>t DEF TimePasses, TypeOK
  <2>2. Outstanding(c)' = Outstanding(c)
    BY <1>2 DEF TimePasses, Outstanding
  <2> QED
    BY <1>2, <1>t, <2>1, <2>2, CountFrame DEF TimePasses
<1>3. ASSUME NEW r \in Replicas, RankDelay(r) PROVE CountInvOf(c)'
  <2>1. window'[c] # "none" => window[c] # "none"
    BY <1>3, <1>t DEF RankDelay, TypeOK
  <2>2. Outstanding(c)' = Outstanding(c)
    BY <1>3 DEF RankDelay, Outstanding
  <2> QED
    BY <1>3, <1>t, <2>1, <2>2, CountFrame DEF RankDelay
<1>4. ASSUME NEW r \in Replicas, RequestAuth(r) PROVE CountInvOf(c)'
  <2> DEFINE e == currentEpoch[r] + 1
  <2>1. PICK f \in BOOLEAN : net' = net \cup { AuthRequest(r, m, e, f) : m \in Masters }
    BY <1>4 DEF RequestAuth
  <2>2. CASE c = r
    <3>1. Outstanding(c) = {} /\ authCount[c] = 0
      BY <1>4, <1>t, <2>2 DEF RequestAuth, CountInvOf
    <3>2. authSent'[c] = TRUE /\ authEpoch'[c] = e /\ authCount'[c] = 0
      BY <1>4, <1>t, <2>2, <3>1 DEF RequestAuth, TypeOK
    <3>3. \A q \in Outstanding(c)' : q.epoch = e
      BY <2>1, <2>2, <3>1 DEF Outstanding, AuthRequest
    <3> QED
      BY <1>f2, <3>2, <3>3 DEF CountInvOf
  <2>3. CASE c # r
    <3>1. Outstanding(c)' \subseteq Outstanding(c)
      BY <2>1, <2>3 DEF Outstanding, AuthRequest
    <3>2. \A m \in Masters, d \in Epochs :
            AuthAck(m, c, d) \in net' <=> AuthAck(m, c, d) \in net
      BY <2>1 DEF AuthRequest, AuthAck
    <3> QED
      BY <1>4, <1>t, <2>3, <3>1, <3>2, CountFrame DEF RequestAuth, TypeOK
  <2> QED
    BY <2>2, <2>3
<1>5. ASSUME NEW r \in Replicas, ProcessAuthAck(r) PROVE CountInvOf(c)'
  <2> PICK a \in net : ProcessAuthAck(r)!(a)
    BY <1>5 DEF ProcessAuthAck
  <2>1. /\ a = AuthAck(a.src, r, a.epoch) /\ a.src \in Masters /\ a.epoch \in Epochs
        /\ <<a.src, r, a.epoch>> \in votes
    BY <1>t, PacketFields DEF TypeOK, BallotInv
  <2>2. Outstanding(c)' \subseteq Outstanding(c)
    BY DEF Outstanding
  <2>3. CASE c = r
    <3> SUFFICES ASSUME window[c] # "none" PROVE CountInvOf(c)'
      BY DEF CountInvOf
    <3>1. authSent[c] /\ a.epoch = authEpoch[c]
      BY <1>t, <2>3 DEF CountInvOf, Outstanding
    <3>2. a.src \notin Counted(c)
      BY <2>1, <2>3, <3>1 DEF Counted
    <3>3. Counted(c)' = Counted(c) \cup {a.src}
      BY <2>1, <2>3, <3>1, AckFields DEF Counted
    <3>4. Cardinality(Counted(c)') = Cardinality(Counted(c)) + 1
      BY <1>f, <3>2, <3>3, FS_AddElement
    <3>5. authCount'[c] <= authCount[c] + 1 /\ authCount[c] \in Nat /\ authCount'[c] \in Nat
      BY <1>t, <2>3 DEF TypeOK
    <3>6. authCount[c] <= Cardinality(Counted(c))
      BY <1>t, <3>1 DEF CountInvOf
    <3>7. authCount'[c] <= Cardinality(Counted(c)')
      BY <1>f, <3>4, <3>5, <3>6
    <3>8. \A q \in Outstanding(c)' : q.epoch = authEpoch'[c]
      BY <1>t, <2>2, <3>1 DEF CountInvOf
    <3> QED
      BY <3>1, <3>7, <3>8 DEF CountInvOf
  <2>4. CASE c # r
    <3>1. \A m \in Masters, e \in Epochs :
            AuthAck(m, c, e) \in net' <=> AuthAck(m, c, e) \in net
      BY <2>4, AckFields
    <3> QED
      BY <1>t, <2>2, <2>4, <3>1, CountFrame DEF TypeOK
  <2> QED
    BY <2>3, <2>4
<1>6. ASSUME NEW r \in Replicas, ReplaceYourMaster(r) PROVE CountInvOf(c)'
  <2>1. Outstanding(c)' = Outstanding(c)
    BY <1>6 DEF ReplaceYourMaster, Outstanding
  <2> QED
    BY <1>6, <1>t, <2>1, CountFrame DEF ReplaceYourMaster
<1>7. ASSUME NEW m \in Masters, ProcessAuthRequest(m) PROVE CountInvOf(c)'
  <2> PICK q \in net : ProcessAuthRequest(m)!(q)
    BY <1>7 DEF ProcessAuthRequest
  <2>1. q.epoch \in Epochs /\ q.src \in Replicas /\ q.epoch \in Nat
    BY <1>t, PacketFields DEF TypeOK, Epochs
  <2>2. CASE RefuseVote(m, q)
    <3>1. Outstanding(c)' \subseteq Outstanding(c)
      BY <2>2 DEF RefuseVote, Outstanding
    <3>2. \A v \in Masters, e \in Epochs :
            AuthAck(v, c, e) \in net' <=> AuthAck(v, c, e) \in net
      BY <2>2, AckFields DEF RefuseVote
    <3> QED
      BY <1>t, <2>2, <3>1, <3>2, CountFrame DEF RefuseVote
  <2>3. CASE GrantVote(m, q)
    <3>1. currentEpoch[m] \in Nat /\ lastVoteEpoch[m] \in Nat /\ lastVoteEpoch[m] <= currentEpoch[m]
      <4>1. /\ currentEpoch[m] \in Nat /\ lastVoteEpoch[m] \in Nat
            /\ savedEpoch[m] \in Nat /\ m \in Nodes
        BY <1>t DEF TypeOK, Epochs, Nodes
      <4> QED
        BY <1>t, <4>1 DEF EpochInv
    <3>2. VoteEpoch(m, q) = q.epoch /\ lastVoteEpoch[m] < q.epoch
      BY <2>1, <2>3, <3>1 DEF GrantVote, MayVote, VoteEpoch, Larger
    <3>3. /\ net' = (net \ {q}) \cup { AuthAck(m, q.src, q.epoch) }
          /\ votes' = votes \cup { <<m, q.src, q.epoch>> }
          /\ UNCHANGED <<window, authSent, authEpoch, authCount>>
      BY <2>3, <3>2 DEF GrantVote
    <3>4. \A v \in Masters, e \in Epochs :
            (v # m \/ c # q.src \/ e # q.epoch) =>
              (AuthAck(v, c, e) \in net' <=> AuthAck(v, c, e) \in net)
      BY <3>3, AckFields
    <3>5. CASE c # q.src
      <4>1. Outstanding(c)' \subseteq Outstanding(c)
        BY <3>3, <3>5, AckFields DEF Outstanding
      <4>2. \A v \in Masters, e \in Epochs : <<v, c, e>> \in votes' <=> <<v, c, e>> \in votes
        BY <3>3, <3>5
      <4> QED
        BY <1>t, <3>3, <3>4, <3>5, <4>1, <4>2, CountFrame
    <3>6. CASE c = q.src
      <4> SUFFICES ASSUME window[c] # "none" PROVE CountInvOf(c)'
        BY <3>3 DEF CountInvOf
      <4>1. authSent[c] /\ q.epoch = authEpoch[c]
        BY <1>t, <3>6 DEF CountInvOf, Outstanding
      <4>2. <<m, c, q.epoch>> \notin votes
        BY <1>t, <2>1, <3>1, <3>2 DEF BallotInv
      <4>3. Counted(c)' = Counted(c)
        <5>1. ASSUME NEW v \in Masters PROVE v \in Counted(c)' <=> v \in Counted(c)
          <6>1. CASE v = m
            BY <3>3, <3>6, <4>1, <4>2, <6>1 DEF Counted
          <6>2. CASE v # m
            BY <2>1, <3>3, <3>4, <4>1, <6>2 DEF Counted
          <6> QED
            BY <6>1, <6>2
        <5> QED
          BY <5>1 DEF Counted
      <4>4. \A p \in Outstanding(c)' : p.epoch = authEpoch[c]
        BY <1>t, <3>3, <4>1, AckFields DEF CountInvOf, Outstanding
      <4> QED
        BY <1>t, <3>3, <4>1, <4>3, <4>4 DEF CountInvOf
    <3> QED
      BY <3>5, <3>6
  <2> QED
    BY <2>2, <2>3
<1>8. ASSUME NEW n \in Nodes, LearnConfig(n) PROVE CountInvOf(c)'
  <2>1. Outstanding(c)' = Outstanding(c)
    BY <1>8 DEF LearnConfig, Outstanding
  <2> QED
    BY <1>8, <1>t, <2>1, CountFrame DEF LearnConfig
<1>9. ASSUME NEW n \in Nodes, LearnEpoch(n) PROVE CountInvOf(c)'
  <2>1. Outstanding(c)' = Outstanding(c)
    BY <1>9 DEF LearnEpoch, Outstanding
  <2> QED
    BY <1>9, <1>t, <2>1, CountFrame DEF LearnEpoch
<1>10. ASSUME NEW n \in Nodes, CrashRestart(n) PROVE CountInvOf(c)'
  <2>1. CASE c = n
    <3>1. window'[c] = "none"
      BY <1>10, <2>1 DEF CrashRestart
    <3> QED
      BY <3>1 DEF CountInvOf
  <2>2. CASE c # n
    <3>1. Outstanding(c)' \subseteq Outstanding(c)
      BY <1>10 DEF CrashRestart, Outstanding
    <3>2. \A m \in Masters, e \in Epochs :
            AuthAck(m, c, e) \in net' <=> AuthAck(m, c, e) \in net
      BY <1>10, <2>2, AckFields DEF CrashRestart
    <3>3. /\ window'[c] = window[c] /\ authSent'[c] = authSent[c]
          /\ authEpoch'[c] = authEpoch[c] /\ authCount'[c] = authCount[c]
      BY <1>10, <2>2 DEF CrashRestart
    <3> QED
      BY <1>10, <1>t, <3>1, <3>2, <3>3, CountFrame DEF CrashRestart
  <2> QED
    BY <2>1, <2>2
<1>11. CASE UNCHANGED vars
  <2>1. Outstanding(c)' = Outstanding(c)
    BY <1>11 DEF vars, Outstanding
  <2> QED
    BY <1>11, <1>t, <2>1, CountFrame DEF vars
<1> QED
  BY <1>1, <1>2, <1>3, <1>4, <1>5, <1>6, <1>7, <1>8, <1>9, <1>10, <1>11 DEF Next

\* A takeover needs a counted majority, and votes are never withdrawn.
LEMMA MajorityStep ==
  VoteInv /\ CountInv /\ ElectedByMajority /\ [Next]_vars => ElectedByMajority'
<1> SUFFICES ASSUME VoteInv, CountInv, ElectedByMajority, [Next]_vars, NEW w \in won'
             PROVE  Cardinality({ m \in Masters : <<m, w[1], w[2]>> \in votes' }) >= needed_quorum
  BY DEF ElectedByMajority
<1> USE MastersAssumption
<1> DEFINE Before == { m \in Masters : <<m, w[1], w[2]>> \in votes }
           After == { m \in Masters : <<m, w[1], w[2]>> \in votes' }
<1>1. votes \subseteq votes'
  BY DEF Next, vars, ScheduleElection, TimePasses, RankDelay, RequestAuth, ProcessAuthAck,
         ReplaceYourMaster, ProcessAuthRequest, GrantVote, RefuseVote, LearnConfig,
         LearnEpoch, CrashRestart
<1>2. Before \in SUBSET After /\ After \in SUBSET Masters
  BY <1>1
<1>3. /\ Cardinality(Before) <= Cardinality(After)
      /\ Cardinality(Before) \in Nat /\ Cardinality(After) \in Nat
      /\ needed_quorum \in Nat
  <2>1. IsFiniteSet(After)
    BY <1>2, FS_Subset
  <2>2. IsFiniteSet(Before) /\ Cardinality(Before) <= Cardinality(After)
    BY <1>2, <2>1, FS_Subset
  <2>3. Cardinality(Masters) \in Nat
    BY FS_CardinalityType
  <2> QED
    BY <2>1, <2>2, <2>3, FS_CardinalityType DEF needed_quorum
<1>4. Cardinality(Before) >= needed_quorum
  <2>1. CASE w \in won
    BY <2>1 DEF ElectedByMajority
  <2>2. CASE w \notin won
    <3>1. PICK r \in Replicas : ReplaceYourMaster(r)
      BY <2>2
      DEF Next, vars, ScheduleElection, TimePasses, RankDelay, RequestAuth, ProcessAuthAck,
          ProcessAuthRequest, GrantVote, RefuseVote, LearnConfig, LearnEpoch, CrashRestart
    <3>2. w = <<r, authEpoch[r]>>
      BY <2>2, <3>1 DEF ReplaceYourMaster
    <3>3. /\ authCount[r] <= Cardinality(Counted(r))
          /\ authCount[r] >= needed_quorum /\ authCount[r] \in Nat
      BY <3>1 DEF CountInv, CountInvOf, ReplaceYourMaster, VoteInv, TypeOK
    <3>4. Counted(r) \in SUBSET Before
      BY <3>2 DEF Counted
    <3>5. IsFiniteSet(Before)
      BY FS_Subset
    <3>6. Cardinality(Counted(r)) <= Cardinality(Before) /\ Cardinality(Counted(r)) \in Nat
      BY <3>4, <3>5, FS_Subset, FS_CardinalityType
    <3> QED
      BY <1>3, <3>3, <3>6
  <2> QED
    BY <2>1, <2>2
<1> QED
  BY <1>3, <1>4

\* Two majorities of the electorate share a master.
LEMMA QuorumsMeet ==
  ASSUME NEW S \in SUBSET Masters, NEW T \in SUBSET Masters,
         Cardinality(S) >= needed_quorum, Cardinality(T) >= needed_quorum
  PROVE  S \cap T # {}
<1>1. IsFiniteSet(S) /\ IsFiniteSet(T)
  BY MastersAssumption, FS_Subset
<1>2. /\ Cardinality(S) \in Nat /\ Cardinality(T) \in Nat
      /\ Cardinality(Masters) \in Nat /\ Cardinality(S \cup T) \in Nat
  BY <1>1, MastersAssumption, FS_CardinalityType, FS_Union
<1>3. Cardinality(S \cup T) <= Cardinality(Masters)
  <2>1. S \cup T \in SUBSET Masters
    OBVIOUS
  <2> QED
    BY <2>1, MastersAssumption, FS_Subset
<1>4. Cardinality(S \cup T) = Cardinality(S) + Cardinality(T) - Cardinality(S \cap T)
  BY <1>1, FS_Union
<1>5. SUFFICES ASSUME S \cap T = {} PROVE FALSE
  OBVIOUS
<1>6. Cardinality(S \cup T) = Cardinality(S) + Cardinality(T)
  <2>1. Cardinality(S \cap T) = 0
    BY <1>5, FS_EmptySet
  <2> QED
    BY <1>2, <1>4, <2>1
<1>7. Cardinality(Masters) < 2 * needed_quorum
  BY <1>2 DEF needed_quorum
<1>8. needed_quorum \in Nat
  BY <1>2 DEF needed_quorum
<1> QED
  BY <1>2, <1>3, <1>6, <1>7, <1>8

\* Single votes and counted majorities leave room for one winner per epoch.
LEMMA MajorityImpliesOneWinner ==
  VoteInv /\ ElectedByMajority => OneWinnerPerEpoch
<1> SUFFICES ASSUME VoteInv, ElectedByMajority, NEW v \in won, NEW w \in won, v[2] = w[2]
             PROVE  v[1] = w[1]
  BY DEF OneWinnerPerEpoch
<1> DEFINE S == { m \in Masters : <<m, v[1], v[2]>> \in votes }
           T == { m \in Masters : <<m, w[1], w[2]>> \in votes }
<1>1. Cardinality(S) >= needed_quorum /\ Cardinality(T) >= needed_quorum
  BY DEF ElectedByMajority
<1>2. S \cap T # {}
  BY <1>1, QuorumsMeet
<1>3. PICK m \in Masters : <<m, v[1], v[2]>> \in votes /\ <<m, w[1], w[2]>> \in votes
  BY <1>2
<1> QED
  BY <1>3 DEF VoteInv, AtMostOneVotePerEpoch

\* The initial states satisfy the whole invariant.
LEMMA InitIInv == Init => IInv
<1> SUFFICES ASSUME Init PROVE IInv
  OBVIOUS
<1> USE BoundAssumption
<1>1. 0 \in Epochs /\ 0 <= 0
  BY DEF Epochs
<1>2. TypeOK
  BY <1>1 DEF Init, TypeOK
<1>3. EpochInv
  BY <1>1 DEF Init, EpochInv, Nodes
<1> QED
  BY <1>2, <1>3
  DEF Init, IInv, VoteInv, BallotInv, AtMostOneVotePerEpoch, CountInv, CountInvOf,
      ElectedByMajority
-----------------------------------------------------------------------------
(***************************************************************************)
(* Every reachable state is well typed: epochs stay inside their bounds    *)
(* and the network holds well formed election packets only.                *)
(***************************************************************************)
THEOREM TypeCorrect == Spec => []TypeOK
<1>1. Init => TypeOK
  BY InitIInv DEF IInv, VoteInv
<1> QED
  BY <1>1, TypeStep, PTL DEF Spec

(***************************************************************************)
(* No master ever votes twice in one epoch, for any electorate and with    *)
(* packets of any age (clusterSendFailoverAuthIfNeeded, clusterLoadConfig).*)
(***************************************************************************)
THEOREM SingleVote == Spec => []AtMostOneVotePerEpoch
<1>1. Init => VoteInv
  BY InitIInv DEF IInv
<1>2. VoteInv => AtMostOneVotePerEpoch
  BY DEF VoteInv
<1> QED
  BY <1>1, <1>2, VoteStep, PTL DEF Spec

(***************************************************************************)
(* A master votes in ever greater epochs, across crashes and restarts that *)
(* may set its currentEpoch back (clusterSaveConfig, clusterLoadConfig).   *)
(***************************************************************************)
THEOREM AscendingVotes == Spec => VotesAscend
<1> DEFINE Ascend == \A v \in votes' \ votes : \A w \in votes : w[1] = v[1] => w[3] < v[3]
<1>1. Init => VoteInv
  BY InitIInv DEF IInv
<1>2. VoteInv /\ [Next]_vars => [Ascend]_vars
  <2> SUFFICES ASSUME VoteInv, Next, NEW v \in votes' \ votes, NEW w \in votes, w[1] = v[1]
               PROVE  w[3] < v[3]
    OBVIOUS
  <2> USE MastersAssumption, ReplicasAssumption
  <2>1. PICK m \in Masters, q \in net : GrantVote(m, q) /\ q.type = "AUTH_REQUEST"
    BY DEF Next, ScheduleElection, TimePasses, RankDelay, RequestAuth, ProcessAuthAck,
           ReplaceYourMaster, ProcessAuthRequest, RefuseVote, LearnConfig, LearnEpoch,
           CrashRestart
  <2>2. v = <<m, q.src, VoteEpoch(m, q)>>
    BY <2>1 DEF GrantVote
  <2>3. /\ w[3] \in Nat /\ lastVoteEpoch[m] \in Nat /\ currentEpoch[m] \in Nat
        /\ savedEpoch[m] \in Nat /\ q.epoch \in Nat
    BY <2>1, PacketFields DEF VoteInv, TypeOK, Nodes, Epochs
  <2>4. w[3] <= lastVoteEpoch[m]
    BY <2>2 DEF VoteInv, BallotInv
  <2>5. lastVoteEpoch[m] <= savedEpoch[m] /\ savedEpoch[m] <= currentEpoch[m]
    BY DEF VoteInv, EpochInv, Nodes
  <2>6. VoteEpoch(m, q) \in Nat /\ currentEpoch[m] <= VoteEpoch(m, q)
    BY <2>3, LargerFacts DEF VoteEpoch
  <2>7. lastVoteEpoch[m] # VoteEpoch(m, q)
    BY <2>1 DEF GrantVote, MayVote
  <2> QED
    BY <2>2, <2>3, <2>4, <2>5, <2>6, <2>7
<1> QED
  BY <1>1, <1>2, VoteStep, PTL DEF Spec, VotesAscend

(***************************************************************************)
(* If the packets of an attempt never outlive it, whoever takes the slots  *)
(* over holds the votes of a majority of the electorate in that epoch.     *)
(***************************************************************************)
THEOREM MajorityWins == BoundedDelay => (Spec => []ElectedByMajority)
<1> SUFFICES ASSUME BoundedDelay PROVE Spec => []ElectedByMajority
  OBVIOUS
<1>1. Init => IInv
  BY InitIInv
<1>2. IInv /\ [Next]_vars => IInv'
  BY VoteStep, CountStep, MajorityStep DEF IInv
<1>3. IInv => ElectedByMajority
  BY DEF IInv
<1> QED
  BY <1>1, <1>2, <1>3, PTL DEF Spec

(***************************************************************************)
(* If the packets of an attempt never outlive it, two replicas never take  *)
(* the slots over with the same configEpoch.                               *)
(***************************************************************************)
THEOREM SingleWinner == BoundedDelay => (Spec => []OneWinnerPerEpoch)
<1> SUFFICES ASSUME BoundedDelay PROVE Spec => []OneWinnerPerEpoch
  OBVIOUS
<1>1. Init => IInv
  BY InitIInv
<1>2. IInv /\ [Next]_vars => IInv'
  BY VoteStep, CountStep, MajorityStep DEF IInv
<1>3. IInv => OneWinnerPerEpoch
  BY MajorityImpliesOneWinner DEF IInv
<1> QED
  BY <1>1, <1>2, <1>3, PTL DEF Spec
=============================================================================
