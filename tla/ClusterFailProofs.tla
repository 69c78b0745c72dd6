------------------------- MODULE ClusterFailProofs -------------------------
(***************************************************************************)
(* Proofs about the failure detector, for any number of observers and any  *)
(* timeout: types, and the majority behind every FAIL that is found by     *)
(* counting, provided no master is without slots. The inductive invariant  *)
(* ties every live entry of fail_reports to the moment its sender really   *)
(* suspected Target.                                                       *)
(***************************************************************************)
EXTENDS ClusterFailHistory, FiniteSetTheorems, TLAPS

\* The types of the model and of the history.
HTypeOK == TypeOK /\ suspected \in [Masters -> 0..NoReport]

\* A master that has Target as failing has it so now.
FailingInv == \A m \in Masters : Failing(m) => suspected[m] = 0

\* A report is never younger than the last suspicion of its sender.
ReportInv ==
  \A n \in Observers : \A m \in Masters :
    report[n][m] <= ReportValidity => suspected[m] <= report[n][m]

\* Nobody has a report of its own: the vote of n is not counted twice.
OwnReportInv == \A n \in Masters : report[n][n] = NoReport

IInv == HTypeOK /\ FailingInv /\ ReportInv /\ OwnReportInv

USE DEF NoReport

(***************************************************************************)
(* The durations of the detector are natural numbers.                      *)
(***************************************************************************)
LEMMA Durations == /\ NodeTimeout \in Nat /\ ReportValidity \in Nat /\ UndoTime \in Nat
                   /\ Masters \subseteq Observers
BY TimeAssumption DEF ReportValidity, UndoTime, Masters, Observers

(***************************************************************************)
(* An age grows by one until it is past the limit (Tick).                  *)
(***************************************************************************)
LEMMA OlderFact ==
  ASSUME NEW limit \in Nat, NEW age \in 0..(limit + 1)
  PROVE  /\ Older(age, limit) \in 0..(limit + 1)
         /\ Older(age, limit) <= limit => Older(age, limit) = age + 1 /\ age <= limit
         /\ Older(age, limit) <= age + 1
         /\ age = limit + 1 => Older(age, limit) = limit + 1
BY DEF Older

(***************************************************************************)
(* The model starts in the invariant.                                      *)
(***************************************************************************)
LEMMA InitInv == HInit => IInv
<1> SUFFICES ASSUME HInit PROVE IInv
  OBVIOUS
<1>1. HTypeOK
  BY Durations, BoundAssumption DEF HInit, Init, HTypeOK, TypeOK
<1>2. FailingInv
  BY Durations DEF HInit, Init, FailingInv, Failing
<1>3. ReportInv
  BY Durations DEF HInit, Init, ReportInv
<1>4. OwnReportInv
  BY Durations DEF HInit, Init, OwnReportInv
<1> QED BY <1>1, <1>2, <1>3, <1>4 DEF IInv

(***************************************************************************)
(* Time may pass: a report and the suspicion behind it age together.       *)
(***************************************************************************)
LEMMA TickInv == IInv /\ HTick => IInv'
<1> SUFFICES ASSUME IInv, HTick PROVE IInv'
  OBVIOUS
<1> USE Durations
<1>r. \A n \in Observers, m \in Masters : report[n][m] \in 0..NoReport
  BY DEF IInv, HTypeOK, TypeOK
<1>s. \A m \in Masters : suspected[m] \in 0..NoReport
  BY DEF IInv, HTypeOK
<1>1. /\ silent' \in [Observers -> 0..(NodeTimeout + 1)]
      /\ failAge' \in [Observers -> 0..(UndoTime + 1)]
  <2>1. \A n \in Observers : /\ Older(silent[n], NodeTimeout) \in 0..(NodeTimeout + 1)
                             /\ Older(failAge[n], UndoTime) \in 0..(UndoTime + 1)
    <3> SUFFICES ASSUME NEW n \in Observers
                 PROVE  /\ Older(silent[n], NodeTimeout) \in 0..(NodeTimeout + 1)
                        /\ Older(failAge[n], UndoTime) \in 0..(UndoTime + 1)
      OBVIOUS
    <3>1. silent[n] \in 0..(NodeTimeout + 1) /\ failAge[n] \in 0..(UndoTime + 1)
      BY DEF IInv, HTypeOK, TypeOK
    <3> QED BY <3>1, OlderFact
  <2> QED BY <2>1 DEF HTick, Tick
<1>2. /\ report' \in [Observers -> [Masters -> 0..NoReport]]
      /\ suspected' \in [Masters -> 0..NoReport]
  <2>1. \A n \in Observers, m \in Masters : Older(report[n][m], ReportValidity) \in 0..NoReport
    BY <1>r, OlderFact
  <2>2. \A m \in Masters : Older(suspected[m], ReportValidity) \in 0..NoReport
    BY <1>s, OlderFact
  <2> QED BY <2>1, <2>2 DEF HTick, Tick
<1>3. HTypeOK'
  BY <1>1, <1>2 DEF HTick, Tick, IInv, HTypeOK, TypeOK
<1>4. FailingInv'
  BY DEF HTick, Tick, FailingInv, Failing
<1>5. ReportInv'
  <2> SUFFICES ASSUME NEW n \in Observers, NEW m \in Masters,
                      report'[n][m] <= ReportValidity
               PROVE  suspected'[m] <= report'[n][m]
    BY DEF ReportInv
  <2>1. report'[n][m] = Older(report[n][m], ReportValidity)
    BY DEF HTick, Tick
  <2>2. report'[n][m] = report[n][m] + 1 /\ report[n][m] <= ReportValidity
    BY <2>1, <1>r, OlderFact
  <2>3. suspected[m] <= report[n][m]
    BY <2>2 DEF IInv, ReportInv
  <2>4. suspected'[m] <= suspected[m] + 1
    <3>1. suspected'[m] = IF Failing(m) THEN 0 ELSE Older(suspected[m], ReportValidity)
      BY DEF HTick
    <3>2. suspected[m] \in 0..(ReportValidity + 1)
      BY <1>s
    <3>3. Older(suspected[m], ReportValidity) <= suspected[m] + 1
      BY <3>2, OlderFact
    <3> QED BY <3>1, <3>2, <3>3
  <2>5. suspected'[m] \in Nat /\ suspected[m] \in Nat /\ report[n][m] \in Nat
    BY <1>2, <1>s, <1>r
  <2> QED BY <2>2, <2>3, <2>4, <2>5
<1>6. OwnReportInv'
  <2> SUFFICES ASSUME NEW n \in Masters PROVE report'[n][n] = NoReport
    BY DEF OwnReportInv
  <2>1. report'[n][n] = Older(report[n][n], ReportValidity)
    BY DEF HTick, Tick
  <2>2. report[n][n] = NoReport
    BY DEF IInv, OwnReportInv
  <2> QED BY <2>1, <2>2, <1>r, OlderFact
<1> QED BY <1>3, <1>4, <1>5, <1>6 DEF IInv

(***************************************************************************)
(* A step without a tick keeps the history in step with the flags.         *)
(***************************************************************************)
LEMMA StepHistory ==
  ASSUME IInv, HStep, flag' \in [Observers -> {"ok", "pfail", "fail"}]
  PROVE  /\ suspected' \in [Masters -> 0..NoReport]
         /\ FailingInv'
         /\ \A m \in Masters : suspected'[m] <= suspected[m]
<1> USE Durations
<1>s. \A m \in Masters : suspected[m] \in 0..NoReport
  BY DEF IInv, HTypeOK
<1>1. suspected' = [m \in Masters |-> IF flag'[m] # "ok" THEN 0 ELSE suspected[m]]
  BY DEF HStep
<1>2. suspected' \in [Masters -> 0..NoReport]
  BY <1>s, <1>1
<1>3. FailingInv'
  BY <1>1 DEF FailingInv, Failing
<1>4. \A m \in Masters : suspected'[m] <= suspected[m]
  BY <1>s, <1>1
<1> QED BY <1>2, <1>3, <1>4

(***************************************************************************)
(* If the reports of a step are those of before, or NoReport, or young     *)
(* ones of masters that have Target as failing, the invariant is kept.     *)
(***************************************************************************)
LEMMA ReportsKept ==
  ASSUME IInv, HStep, TypeOK',
         \A n \in Observers : \A m \in Masters :
           \/ report'[n][m] = report[n][m]
           \/ report'[n][m] = NoReport
           \/ report'[n][m] = 0 /\ suspected[m] = 0 /\ n # m
  PROVE  IInv'
<1> USE Durations
<1>t. flag' \in [Observers -> {"ok", "pfail", "fail"}]
  BY DEF TypeOK
<1>1. /\ suspected' \in [Masters -> 0..NoReport]
      /\ FailingInv'
      /\ \A m \in Masters : suspected'[m] <= suspected[m]
  BY <1>t, StepHistory
<1>2. ReportInv'
  <2> SUFFICES ASSUME NEW n \in Observers, NEW m \in Masters,
                      report'[n][m] <= ReportValidity
               PROVE  suspected'[m] <= report'[n][m]
    BY DEF ReportInv
  <2>1. /\ suspected[m] \in Nat /\ suspected'[m] \in Nat /\ report[n][m] \in Nat
        /\ suspected'[m] <= suspected[m]
    BY <1>1 DEF IInv, HTypeOK, TypeOK
  <2>2. report[n][m] <= ReportValidity => suspected[m] <= report[n][m]
    BY DEF IInv, ReportInv
  <2> QED BY <2>1, <2>2
<1>3. OwnReportInv'
  BY DEF IInv, OwnReportInv
<1> QED BY <1>1, <1>2, <1>3 DEF IInv, HTypeOK

(***************************************************************************)
(* Gossip about Target keeps the types (clusterProcessGossipSection).      *)
(***************************************************************************)
LEMMA GossipInv ==
  ASSUME IInv, HStep, NEW n \in Observers, NEW m \in Masters, Gossip(n, m)
  PROVE  IInv'
<1> USE Durations
<1>t. /\ TypeOK /\ n # m
      /\ report[n] \in [Masters -> 0..NoReport]
  BY DEF IInv, HTypeOK, TypeOK, Gossip
<1>1. CASE Failing(m) /\ GossipFailing(n, m)
  <2>1. report' = [report EXCEPT ![n] = [report[n] EXCEPT ![m] = 0]]
    BY <1>1 DEF GossipFailing
  <2>2. report' \in [Observers -> [Masters -> 0..NoReport]]
    BY <2>1, <1>t DEF TypeOK
  <2>3. failPackets' \subseteq Observers \X Observers
    BY <1>1, <1>t DEF GossipFailing, SendFail, TypeOK
  <2>4. /\ flag' \in [Observers -> {"ok", "pfail", "fail"}]
        /\ failAge' \in [Observers -> 0..(UndoTime + 1)]
    BY <1>1, <1>t DEF GossipFailing, TypeOK
  <2>5. TypeOK'
    BY <2>2, <2>3, <2>4, <1>t DEF Gossip, TypeOK
  <2>6. suspected[m] = 0
    BY <1>1 DEF IInv, FailingInv
  <2>7. \A x \in Observers : \A y \in Masters :
          report'[x][y] = report[x][y] \/ (report'[x][y] = 0 /\ x = n /\ y = m)
    BY <2>1, <1>t DEF TypeOK
  <2> QED BY <2>5, <2>6, <2>7, <1>t, ReportsKept
<1>2. CASE ~Failing(m) /\ GossipFine(n, m)
  <2>1. report' = [report EXCEPT ![n][m] = NoReport]
    BY <1>2 DEF GossipFine
  <2>2. TypeOK'
    BY <2>1, <1>2, <1>t DEF GossipFine, Gossip, TypeOK
  <2>3. \A x \in Observers : \A y \in Masters :
          report'[x][y] = report[x][y] \/ report'[x][y] = NoReport
    BY <2>1, <1>t DEF TypeOK
  <2> QED BY <2>2, <2>3, ReportsKept
<1> QED BY <1>1, <1>2 DEF Gossip

(***************************************************************************)
(* Every other step leaves the reports alone.                              *)
(***************************************************************************)
LEMMA StepInv == IInv /\ HStep => IInv'
<1> SUFFICES ASSUME IInv, HStep PROVE IInv'
  OBVIOUS
<1> USE Durations
<1>t. TypeOK
  BY DEF IInv, HTypeOK
<1>k. ASSUME TypeOK', report' = report PROVE IInv'
  BY <1>k, ReportsKept
<1>1. CASE ReachChange
  BY <1>1, <1>t, <1>k, BoundAssumption DEF ReachChange, TypeOK
<1>2. CASE LoseFail
  BY <1>2, <1>t, <1>k DEF LoseFail, TypeOK
<1>3. ASSUME NEW n \in Observers, Suspect(n) PROVE IInv'
  BY <1>3, <1>t, <1>k DEF Suspect, TypeOK
<1>4. ASSUME NEW n \in Observers, Pong(n) PROVE IInv'
  BY <1>4, <1>t, <1>k DEF Pong, TypeOK
<1>5. ASSUME NEW n \in Observers, HearData(n) PROVE IInv'
  BY <1>5, <1>t, <1>k DEF HearData, TypeOK
<1>6. ASSUME NEW n \in Observers, ProcessFail(n) PROVE IInv'
  BY <1>6, <1>t, <1>k DEF ProcessFail, TypeOK
<1>7. ASSUME NEW n \in Observers, NEW m \in Masters, Gossip(n, m) PROVE IInv'
  BY <1>7, GossipInv
<1> QED BY <1>1, <1>2, <1>3, <1>4, <1>5, <1>6, <1>7 DEF HStep, Step

(***************************************************************************)
(* The invariant holds in every reachable state.                           *)
(***************************************************************************)
THEOREM Invariance == HSpec => []IInv
<1>1. IInv /\ UNCHANGED hvars => IInv'
  BY DEF IInv, HTypeOK, TypeOK, FailingInv, Failing, ReportInv, OwnReportInv, hvars
<1>2. IInv /\ [HNext]_hvars => IInv'
  BY <1>1, TickInv, StepInv DEF HNext
<1> QED BY InitInv, <1>2, PTL DEF HSpec

(***************************************************************************)
(* The flags, ages and packets of the detector always have their types     *)
(* (clusterNode.flags, fail_reports, fail_time).                           *)
(***************************************************************************)
THEOREM TypeCorrect == HSpec => []TypeOK
<1>1. IInv => TypeOK
  BY DEF IInv, HTypeOK
<1> QED BY <1>1, Invariance, PTL

(***************************************************************************)
(* What n counts is covered by the masters that suspected Target within    *)
(* the validity of a report (markNodeAsFailingIfNeeded).                   *)
(***************************************************************************)
LEMMA CountedSuspects ==
  ASSUME IInv, Empty = {}, NEW n \in Observers, NEW m \in Masters, n # m, Failing(m),
         MarksAsFailing(n, [report[n] EXCEPT ![m] = 0])
  PROVE  Cardinality(RecentSuspects) >= needed_quorum
<1> USE Durations
<1> DEFINE reports == [report[n] EXCEPT ![m] = 0]
           counted == { x \in Masters : reports[x] <= ReportValidity }
<1>m. Masters = Serving /\ IsFiniteSet(Serving)
  BY RolesAssumption DEF Masters
<1>t. /\ report[n] \in [Masters -> 0..NoReport]
      /\ \A x \in Masters : suspected[x] \in 0..NoReport
  BY DEF IInv, HTypeOK, TypeOK
<1>1. \A x \in Masters : Failing(x) => suspected[x] <= ReportValidity
  BY DEF IInv, FailingInv
<1>2. \A x \in counted : suspected[x] <= ReportValidity
  <2> SUFFICES ASSUME NEW x \in Masters, reports[x] <= ReportValidity
               PROVE  suspected[x] <= ReportValidity
    OBVIOUS
  <2>1. CASE x = m
    BY <2>1, <1>1
  <2>2. CASE x # m
    <3>1. report[n][x] <= ReportValidity
      BY <2>2, <1>t
    <3>2. suspected[x] <= report[n][x]
      BY <3>1 DEF IInv, ReportInv
    <3> QED BY <3>1, <3>2, <1>t
  <2> QED BY <2>1, <2>2
<1>3. /\ RecentSuspects \subseteq Serving /\ counted \subseteq RecentSuspects
      /\ IsFiniteSet(RecentSuspects) /\ IsFiniteSet(counted)
  <2>1. RecentSuspects \subseteq Serving /\ counted \subseteq RecentSuspects
    BY <1>2, <1>m DEF RecentSuspects
  <2> QED BY <2>1, <1>m, FS_Subset
<1>4. /\ Cardinality(RecentSuspects) \in Nat /\ Cardinality(counted) \in Nat
      /\ Cardinality(counted) <= Cardinality(RecentSuspects)
  BY <1>3, FS_CardinalityType, FS_Subset
<1>5. needed_quorum \in Nat
  BY <1>m, FS_CardinalityType DEF needed_quorum
<1>6. Failures(n, reports) >= needed_quorum /\ Failing(n)
  BY DEF MarksAsFailing, Failing
<1>7. CASE n \in Masters
  <2>1. n \notin counted
    <3>1. reports[n] = NoReport
      BY <1>7, <1>t DEF IInv, OwnReportInv
    <3> QED BY <3>1
  <2>2. n \in RecentSuspects
    BY <1>7, <1>6, <1>1, <1>m DEF RecentSuspects
  <2>3. Cardinality(counted \cup {n}) = Cardinality(counted) + 1
    BY <2>1, <1>3, FS_AddElement
  <2>4. counted \cup {n} \subseteq RecentSuspects
    BY <2>2, <1>3
  <2>5. /\ Cardinality(counted \cup {n}) <= Cardinality(RecentSuspects)
        /\ IsFiniteSet(counted \cup {n})
    BY <2>4, <1>3, FS_Subset
  <2>6. Failures(n, reports) = Cardinality(counted) + 1
    BY <1>7 DEF Failures
  <2> QED BY <2>3, <2>5, <2>6, <1>4, <1>5, <1>6
<1>8. CASE n \notin Masters
  <2>1. Failures(n, reports) = Cardinality(counted) + 0
    BY <1>8 DEF Failures
  <2> QED BY <2>1, <1>4, <1>5, <1>6
<1> QED BY <1>7, <1>8

(***************************************************************************)
(* In a cluster without empty masters, whoever turns Target into FAIL by   *)
(* counting reports does so on the recent suspicion of a majority of the   *)
(* serving masters (markNodeAsFailingIfNeeded).                            *)
(***************************************************************************)
THEOREM MajorityFails == Empty = {} => (HSpec => MajorityBehindFail)
<1> SUFFICES ASSUME Empty = {} PROVE HSpec => MajorityBehindFail
  OBVIOUS
<1> DEFINE Counted == \A n \in Observers :
             flag[n] # "fail" /\ flag'[n] = "fail" /\ ~FailPacketProcessed(n) =>
               Cardinality(RecentSuspects) >= needed_quorum
<1>1. ASSUME IInv, [HNext]_hvars PROVE Counted
  <2> SUFFICES ASSUME NEW n \in Observers,
                      flag[n] # "fail", flag'[n] = "fail", ~FailPacketProcessed(n)
               PROVE  Cardinality(RecentSuspects) >= needed_quorum
    OBVIOUS
  <2>t. flag \in [Observers -> {"ok", "pfail", "fail"}]
    BY <1>1 DEF IInv, HTypeOK, TypeOK
  <2>1. ~HTick /\ ~UNCHANGED hvars
    BY DEF HTick, Tick, hvars
  <2>2. Step
    BY <1>1, <2>1 DEF HNext, HStep
  <2>3. PICK x \in Observers : \/ Suspect(x) \/ Pong(x) \/ HearData(x) \/ ProcessFail(x)
                               \/ \E m \in Masters : Gossip(x, m)
    <3>1. ~ReachChange /\ ~LoseFail
      BY DEF ReachChange, LoseFail
    <3> QED BY <2>2, <3>1 DEF Step
  <2>4. ~Suspect(x) /\ ~Pong(x) /\ ~HearData(x)
    BY <2>t DEF Suspect, Pong, HearData
  <2>5. ~ProcessFail(x)
    <3> SUFFICES ASSUME ProcessFail(x) PROVE FALSE
      OBVIOUS
    <3>1. x = n
      BY <2>t DEF ProcessFail
    <3>2. PICK p \in failPackets : p[2] = x /\ failPackets' = failPackets \ {p}
      BY DEF ProcessFail
    <3> QED BY <3>1, <3>2 DEF FailPacketProcessed
  <2>6. PICK m \in Masters : Gossip(x, m)
    BY <2>3, <2>4, <2>5
  <2>7. Failing(m) /\ GossipFailing(x, m) /\ x # m
    BY <2>6 DEF Gossip, GossipFine
  <2>8. x = n /\ MarksAsFailing(n, [report[n] EXCEPT ![m] = 0])
    BY <2>7, <2>t DEF GossipFailing
  <2> QED BY <1>1, <2>7, <2>8, CountedSuspects
<1>2. IInv /\ [HNext]_hvars => [Counted]_hvars
  BY <1>1
<1> QED BY <1>2, Invariance, PTL DEF HSpec, MajorityBehindFail
=============================================================================
