-------------------------- MODULE ClusterFailDetect --------------------------
(***************************************************************************)
(* The failure detector of Redis Cluster (cluster.c) about one node, the   *)
(* Target, a master that serves slots and is nobody else's affair: every   *)
(* other node (an observer) pings it, suspects it (PFAIL) when it stays    *)
(* silent longer than cluster_node_timeout, gossips its view, and marks it *)
(* FAIL when enough masters reported it within the validity of a report.   *)
(* Whoever marks it broadcasts one FAIL packet, which every receiver       *)
(* obeys. A PONG takes PFAIL back, and FAIL once it is old enough.         *)
(*                                                                         *)
(* Time is counted in ticks; ages are kept instead of timestamps and stop  *)
(* growing one tick after they last matter. A gossip entry is processed in *)
(* the tick it is sent. Target is assumed to keep its slots: a takeover is *)
(* the business of ClusterElection.                                        *)
(***************************************************************************)
EXTENDS Naturals, FiniteSets

CONSTANTS
  Serving,      \* masters with slots, Target apart
  Empty,        \* masters without slots
  Replicas,     \* observers that are replicas
  NodeTimeout,  \* cluster_node_timeout, in ticks
  MaxChanges,   \* bound on the changes of who reaches Target
  MaxPackets,   \* bound on the FAIL packets in flight
  Timely        \* TRUE: within a tick every live link carries a PONG and every
                \* failure flag is gossiped (clusterCron, clusterSendPing)

ASSUME RolesAssumption ==
  /\ IsFiniteSet(Serving) /\ IsFiniteSet(Empty)
  /\ Serving \cap Empty = {} /\ (Serving \cup Empty) \cap Replicas = {}
ASSUME TimeAssumption == NodeTimeout \in Nat \ {0} /\ Timely \in BOOLEAN
ASSUME BoundAssumption == MaxChanges \in Nat /\ MaxPackets \in Nat

VARIABLES
  reach,      \* observers whose pings Target answers at present
  changes,    \* how often that changed
  flag,       \* flag[n]: the flags of Target in the nodes table of n
  silent,     \* silent[n]: node_delay, ticks since n heard from Target; 0 while
              \* Target is flagged: only a PONG ends that, and it starts anew
  report,     \* report[n][m]: age of the entry of m in n's fail_reports
  failAge,    \* failAge[n]: ticks since fail_time
  failPackets \* <<from, to>>: FAIL packets on their way

vars == <<reach, changes, flag, silent, report, failAge, failPackets>>

Masters == Serving \cup Empty
Observers == Masters \cup Replicas

\* CLUSTER_FAIL_REPORT_VALIDITY_MULT and CLUSTER_FAIL_UNDO_TIME_MULT are both 2.
ReportValidity == 2 * NodeTimeout
UndoTime == 2 * NodeTimeout

\* server.cluster->size counts the masters with slots, Target among them.
needed_quorum == ((Cardinality(Serving) + 1) \div 2) + 1

\* An entry older than its validity is as good as none: every reader of
\* fail_reports drops it first (clusterNodeCleanupFailureReports).
NoReport == ReportValidity + 1
Older(age, limit) == IF age > limit THEN age ELSE age + 1

Failing(n) == flag[n] # "ok"
-----------------------------------------------------------------------------
Init ==
  /\ reach = Observers
  /\ changes = 0
  /\ flag = [n \in Observers |-> "ok"]
  /\ silent = [n \in Observers |-> 0]
  /\ report = [n \in Observers |-> [m \in Masters |-> NoReport]]
  /\ failAge = [n \in Observers |-> 0]
  /\ failPackets = {}

\* Target crashes, comes back, or loses and regains the path to some observers.
ReachChange ==
  /\ changes < MaxChanges
  /\ changes' = changes + 1
  /\ reach' \in SUBSET Observers
  /\ UNCHANGED <<flag, silent, report, failAge, failPackets>>

\* What the ping period of clusterCron (half the timeout) and the choice of
\* gossip entries in clusterSendPing bring about before a tick is over.
TickIsDue ==
  /\ \A n \in reach : flag[n] # "pfail" /\ silent[n] < NodeTimeout
  /\ \A m \in Masters : Failing(m) => \A n \in Observers \ {m} : report[n][m] = 0

\* Mutant: reports grow old and are never dropped.
TickNoCleanup ==
  /\ Timely => TickIsDue
  /\ silent' = [n \in Observers |-> IF Failing(n) THEN 0 ELSE Older(silent[n], NodeTimeout)]
  /\ report' = [n \in Observers |-> [m \in Masters |-> report[n][m] + 1]]
  /\ failAge' = [n \in Observers |-> IF flag[n] = "fail" THEN Older(failAge[n], UndoTime)
                                                         ELSE 0]
  /\ UNCHANGED <<reach, changes, flag, failPackets>>

\* A tick passes on every node.
Tick ==
  /\ Timely => TickIsDue
  /\ silent' = [n \in Observers |-> IF Failing(n) THEN 0 ELSE Older(silent[n], NodeTimeout)]
  /\ report' = [n \in Observers |-> [m \in Masters |-> Older(report[n][m], ReportValidity)]]
  /\ failAge' = [n \in Observers |-> IF flag[n] = "fail" THEN Older(failAge[n], UndoTime)
                                                         ELSE 0]
  /\ UNCHANGED <<reach, changes, flag, failPackets>>

\* clusterCron: node_delay exceeds the timeout. (markNodeAsFailingIfNeeded is
\* called from here only in a cluster of one serving master.)
Suspect(n) ==
  /\ silent[n] > NodeTimeout /\ flag[n] = "ok"
  /\ flag' = [flag EXCEPT ![n] = "pfail"]
  /\ silent' = [silent EXCEPT ![n] = 0]
  /\ UNCHANGED <<reach, changes, report, failAge, failPackets>>

\* The age at which clearNodeFailureIfNeeded gives up on a failover of Target.
UndoElapsed(n) == failAge[n] > UndoTime

\* A PONG on n's own link to Target: PFAIL is taken back, FAIL if it is old.
Pong(n) ==
  /\ n \in reach
  /\ silent' = [silent EXCEPT ![n] = 0]
  /\ LET cleared == flag[n] = "pfail" \/ (flag[n] = "fail" /\ UndoElapsed(n)) IN
       /\ flag' = [flag EXCEPT ![n] = IF cleared THEN "ok" ELSE @]
       /\ failAge' = [failAge EXCEPT ![n] = IF cleared THEN 0 ELSE @]
  /\ UNCHANGED <<reach, changes, report, failPackets>>

\* Any other packet of Target only shows that it is alive (data_received).
HearData(n) ==
  /\ n \in reach
  /\ silent' = [silent EXCEPT ![n] = 0]
  /\ UNCHANGED <<reach, changes, flag, report, failAge, failPackets>>

\* Mutant: a replica counts itself as well.
FailuresWithMyself(n, reports) ==
  Cardinality({ m \in Masters : reports[m] <= ReportValidity }) + 1

\* clusterNodeFailureReportsCount, and n itself if it is a master.
Failures(n, reports) ==
  Cardinality({ m \in Masters : reports[m] <= ReportValidity })
    + (IF n \in Masters THEN 1 ELSE 0)

\* Mutant: enough reports will do, whatever n thinks of Target.
MarksAsFailingOnHearsay(n, reports) ==
  /\ flag[n] # "fail"
  /\ Failures(n, reports) >= needed_quorum

\* markNodeAsFailingIfNeeded goes through to the end.
MarksAsFailing(n, reports) ==
  /\ flag[n] = "pfail"
  /\ Failures(n, reports) >= needed_quorum

\* clusterSendFail: a packet for every observer n has a link to.
SendFail(n) ==
  \E linked \in SUBSET (Observers \ {n}) :
    /\ failPackets' = failPackets \cup ({n} \X linked)
    /\ Cardinality(failPackets') <= MaxPackets

\* Mutant: only a new report, not a refreshed one, is looked at.
GossipFailingOnce(n, m) ==
  LET reports == [report[n] EXCEPT ![m] = 0]
      marks == MarksAsFailing(n, reports) /\ report[n][m] > ReportValidity IN
  /\ report' = [report EXCEPT ![n] = reports]
  /\ flag' = [flag EXCEPT ![n] = IF marks THEN "fail" ELSE @]
  /\ failAge' = [failAge EXCEPT ![n] = IF marks THEN 0 ELSE @]
  /\ IF marks THEN SendFail(n) ELSE UNCHANGED failPackets

\* The gossip section of a PING or PONG of master m lists Target with a failure
\* flag: n adds or refreshes the report and looks whether it is time to mark
\* Target, in which case it broadcasts a FAIL packet.
GossipFailing(n, m) ==
  LET reports == [report[n] EXCEPT ![m] = 0]
      marks == MarksAsFailing(n, reports) IN
  /\ report' = [report EXCEPT ![n] = reports]
  /\ flag' = [flag EXCEPT ![n] = IF marks THEN "fail" ELSE @]
  /\ failAge' = [failAge EXCEPT ![n] = IF marks THEN 0 ELSE @]
  /\ IF marks THEN SendFail(n) ELSE UNCHANGED failPackets

\* The gossip lists Target without a failure flag: the report of m is deleted.
GossipFine(n, m) ==
  /\ report' = [report EXCEPT ![n][m] = NoReport]
  /\ UNCHANGED <<flag, failAge, failPackets>>

\* clusterProcessGossipSection at n of a packet of master m; the entries of a
\* replica are not looked at.
Gossip(n, m) ==
  /\ n # m
  /\ \/ Failing(m) /\ GossipFailing(n, m)
     \/ ~Failing(m) /\ GossipFine(n, m)
  /\ UNCHANGED <<reach, changes, silent>>

\* A FAIL packet is obeyed, unless Target is FAIL already.
ProcessFail(n) ==
  /\ \E p \in failPackets : p[2] = n /\ failPackets' = failPackets \ {p}
  /\ flag' = [flag EXCEPT ![n] = "fail"]
  /\ silent' = [silent EXCEPT ![n] = 0]
  /\ failAge' = [failAge EXCEPT ![n] = IF flag[n] = "fail" THEN @ ELSE 0]
  /\ UNCHANGED <<reach, changes, report>>

\* The link it was queued on is freed.
LoseFail ==
  /\ \E p \in failPackets : failPackets' = failPackets \ {p}
  /\ UNCHANGED <<reach, changes, flag, silent, report, failAge>>

Step ==
  \/ ReachChange
  \/ LoseFail
  \/ \E n \in Observers : \/ Suspect(n)
                          \/ Pong(n)
                          \/ HearData(n)
                          \/ ProcessFail(n)
                          \/ \E m \in Masters : Gossip(n, m)

Next == Tick \/ Step

Spec == Init /\ [][Next]_vars

(***************************************************************************)
(* Time goes on, clusterCron runs, the peers that answer are heard and     *)
(* gossip keeps flowing. Nothing is said about FAIL packets: each may be   *)
(* lost or wait for ever.                                                  *)
(***************************************************************************)
Fairness ==
  /\ WF_vars(Tick)
  /\ \A n \in Observers : /\ WF_vars(Suspect(n))
                          /\ WF_vars(Pong(n))
                          /\ \A m \in Masters : WF_vars(Gossip(n, m))

FairSpec == Spec /\ Fairness
-----------------------------------------------------------------------------
(***************************************************************************)
(* Type correctness of the flags, the ages and the packets.                *)
(***************************************************************************)
TypeOK ==
  /\ reach \subseteq Observers
  /\ changes \in 0..MaxChanges
  /\ flag \in [Observers -> {"ok", "pfail", "fail"}]
  /\ silent \in [Observers -> 0..(NodeTimeout + 1)]
  /\ report \in [Observers -> [Masters -> 0..NoReport]]
  /\ failAge \in [Observers -> 0..(UndoTime + 1)]
  /\ failPackets \subseteq Observers \X Observers

(***************************************************************************)
(* A Target that answers nobody any more is FAIL for everybody in the end, *)
(* even if every FAIL packet is lost (clusterProcessGossipSection calls    *)
(* markNodeAsFailingIfNeeded for refreshed reports as well).               *)
(***************************************************************************)
DeadIsDetected == <>[](reach = {}) => <>[](\A n \in Observers : flag[n] = "fail")

(***************************************************************************)
(* A Target that answers everybody again is FAIL for nobody in the end:    *)
(* the FAIL flags, which are gossiped as failure reports themselves, do    *)
(* not keep each other alive (clearNodeFailureIfNeeded).                   *)
(***************************************************************************)
FailIsUndone == <>[](reach = Observers) => <>[](\A n \in Observers : flag[n] = "ok")

(***************************************************************************)
(* "Either we reach the majority and eventually the FAIL state will        *)
(* propagate to all the cluster" (markNodeAsFailingIfNeeded): if a         *)
(* majority of the serving masters keeps Target FAIL, everybody does.      *)
(***************************************************************************)
FailPropagates ==
  <>[](Cardinality({ m \in Serving : flag[m] = "fail" }) >= needed_quorum)
    => <>(\A n \in Observers : flag[n] = "fail")
=============================================================================
