------------------------- MODULE ClusterFailHistory -------------------------
(***************************************************************************)
(* ClusterFailDetect with a history variable: how long ago each master     *)
(* last had Target as PFAIL or FAIL. It tells what the failure reports an  *)
(* observer counts really stand for.                                       *)
(***************************************************************************)
EXTENDS ClusterFailDetect

VARIABLE suspected   \* suspected[m]: ticks since m last had Target as failing

hvars == <<reach, changes, flag, silent, report, failAge, failPackets, suspected>>

HInit == Init /\ suspected = [m \in Masters |-> NoReport]

HTick ==
  /\ Tick
  /\ suspected' = [m \in Masters |-> IF Failing(m) THEN 0
                                     ELSE Older(suspected[m], ReportValidity)]

HStep ==
  /\ Step
  /\ suspected' = [m \in Masters |-> IF flag'[m] # "ok" THEN 0 ELSE suspected[m]]

HNext == HTick \/ HStep

HSpec == HInit /\ [][HNext]_hvars

HFairSpec == HSpec /\ Fairness
-----------------------------------------------------------------------------
(***************************************************************************)
(* Whoever finds Target failing by counting reports, instead of by a FAIL  *)
(* packet, does so when a majority of the serving masters had Target as    *)
(* PFAIL or FAIL within the validity of a report, however reports are      *)
(* added, refreshed, deleted and left to expire: "the majority of the      *)
(* masters signaled the node is down recently" (markNodeAsFailingIfNeeded).*)
(***************************************************************************)
FailPacketProcessed(n) == \E p \in failPackets \ failPackets' : p[2] = n
RecentSuspects == { m \in Serving : suspected[m] <= ReportValidity }
MajorityBehindFail ==
  [][\A n \in Observers :
       flag[n] # "fail" /\ flag'[n] = "fail" /\ ~FailPacketProcessed(n) =>
         Cardinality(RecentSuspects) >= needed_quorum]_hvars
=============================================================================
