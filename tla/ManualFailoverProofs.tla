------------------------ MODULE ManualFailoverProofs ------------------------
(***************************************************************************)
(* Theorems about ManualFailover, for any number of replicas, any timeout  *)
(* and any bounds. Types and the pause need no assumption; that no write   *)
(* is lost needs Patient attempts and Timely clocks.                       *)
(***************************************************************************)
EXTENDS ManualFailover, TLAPS

\* Clients are paused in an attempt only, and the attempt has a replica.
PauseInv ==
  /\ InAttempt(Master) => mf_slave # None
  /\ ~InAttempt(Master) => pause = 0

\* The pause outlasts the attempt of the master by one timeout.
LongPause == InAttempt(Master) => pause = mf_end[Master] + MfTimeout

\* The new master is announced by a winner only.
PongsOfWinner == \A p \in net : p.type = "pong" => winner # None

\* The master is ahead of its replicas and of what clients were answered.
MasterAhead == acked <= offset[Master] /\ \A r \in Replicas : offset[r] <=
    offset[Master]

\* An attempt with the consent of the master that has not run out.
Live(r) == r \in graceful /\ mf_end[r] > 1

\* What such an attempt may rely on before somebody takes over: the master gives up
\* later than the replica, and until then its offset stands still.
LiveInv(r) ==
  /\ InAttempt(Master) => mf_end[r] <= mf_end[Master]
  /\ \A p \in net : p.type = "paused" /\ p.to = r =>
       InAttempt(Master) /\ p.offset = offset[Master]
  /\ mf_offset[r] # -1 => InAttempt(Master) /\ mf_offset[r] = offset[Master]
  /\ r \in mf_can_start => InAttempt(Master) /\ offset[r] = offset[Master]
AttemptInv == winner = None => \A r \in Replicas : Live(r) => LiveInv(r)

\* After a graceful takeover the old master is paused until it hears of it.
TakeoverInv ==
  winner # None /\ winner \in graceful =>
    /\ acked <= offset[winner]
    /\ Master \in follows \/ (Pong(winner, Master) \in net /\ mf_end[Master] > 1)

\* The inductive invariant.
IInv ==
  /\ TypeOK /\ PauseInv /\ LongPause /\ PongsOfWinner /\ MasterAhead
  /\ AttemptInv /\ TakeoverInv
-----------------------------------------------------------------------------
\* The disjuncts of Next, for the proofs that go through them one by one.
LEMMA NextCases ==
  ASSUME Next
  PROVE  \/ ClientWrite \/ ReplicationPing \/ LosePacket \/ Tick
         \/ \E r \in Replicas :
              \/ Replicate(r) \/ ClusterFailover(r) \/ ClusterFailoverForce(r)
              \/ ClusterFailoverTakeover(r) \/ ReceiveMfStart(r) \/ SendPing(r)
              \/ ReceivePaused(r) \/ HandleManualFailover(r) \/ AskVotes(r)
              \/ VotesArrive(r) \/ TakeOver(r)
         \/ \E n \in Nodes : ReceivePong(n) \/ CheckTimeout(n)
  BY DEF Next, ReplicaStep

\* The initial state is well typed.
LEMMA InitType == Init => TypeOK
  BY MasterAssumption, TimeoutAssumption, BoundAssumption
  DEF Init, TypeOK, Nodes, PauseMult

\* Every step keeps the types.
LEMMA TypeStep == TypeOK /\ [Next]_vars => TypeOK'
<1> SUFFICES ASSUME TypeOK, [Next]_vars PROVE TypeOK'
  OBVIOUS
<1> USE MasterAssumption, TimeoutAssumption, BoundAssumption DEF Nodes, PauseMult
<1>1. CASE UNCHANGED vars
  BY <1>1 DEF vars, TypeOK
<1>2. CASE ClientWrite
  BY <1>2 DEF TypeOK, ClientWrite, mfVars, roleVars
<1>3. CASE ReplicationPing
  BY <1>3 DEF TypeOK, ReplicationPing, mfVars, roleVars
<1>4. CASE LosePacket
  BY <1>4 DEF TypeOK, LosePacket, streamVars, mfVars, roleVars
<1>5. CASE Tick
  BY <1>5 DEF TypeOK, Tick, Counting, streamVars, roleVars
<1>6. ASSUME NEW r \in Replicas, Replicate(r) PROVE TypeOK'
  BY <1>6 DEF TypeOK, Replicate, mfVars, roleVars
<1>7. ASSUME NEW r \in Replicas, ClusterFailover(r) PROVE TypeOK'
  BY <1>7 DEF TypeOK, ClusterFailover, MayTry, ResetReplica, MfStart, streamVars
<1>8. ASSUME NEW r \in Replicas, ClusterFailoverForce(r) PROVE TypeOK'
  BY <1>8 DEF TypeOK, ClusterFailoverForce, MayTry, streamVars
<1>9. ASSUME NEW r \in Replicas, ClusterFailoverTakeover(r) PROVE TypeOK'
  BY <1>9
  DEF TypeOK, ClusterFailoverTakeover, MayTry, ReplaceYourMaster, Pong, Reset,
      ResetReplica, ResetMaster, streamVars
<1>10. ASSUME NEW r \in Replicas, ReceiveMfStart(r) PROVE TypeOK'
  BY <1>10 DEF TypeOK, ReceiveMfStart, PauseEnd, Paused, streamVars, roleVars
<1>11. ASSUME NEW r \in Replicas, SendPing(r) PROVE TypeOK'
  BY <1>11 DEF TypeOK, SendPing, Paused, streamVars, mfVars, roleVars
<1>12. ASSUME NEW r \in Replicas, ReceivePaused(r) PROVE TypeOK'
  BY <1>12 DEF TypeOK, ReceivePaused, streamVars, roleVars
<1>13. ASSUME NEW r \in Replicas, HandleManualFailover(r) PROVE TypeOK'
  BY <1>13 DEF TypeOK, HandleManualFailover, streamVars, roleVars
<1>14. ASSUME NEW r \in Replicas, AskVotes(r) PROVE TypeOK'
  BY <1>14 DEF TypeOK, AskVotes, streamVars, mfVars
<1>15. ASSUME NEW r \in Replicas, VotesArrive(r) PROVE TypeOK'
  BY <1>15 DEF TypeOK, VotesArrive, streamVars, mfVars
<1>16. ASSUME NEW r \in Replicas, TakeOver(r) PROVE TypeOK'
  BY <1>16
  DEF TypeOK, TakeOver, ReplaceYourMaster, Pong, Reset, ResetReplica, ResetMaster,
      streamVars
<1>17. ASSUME NEW n \in Nodes, ReceivePong(n) PROVE TypeOK'
  BY <1>17 DEF TypeOK, ReceivePong, Reset, ResetReplica, ResetMaster, streamVars
<1>18. ASSUME NEW n \in Nodes, CheckTimeout(n) PROVE TypeOK'
  BY <1>18
  DEF TypeOK, CheckTimeout, Reset, ResetReplica, ResetMaster, streamVars, roleVars
<1> QED
  BY <1>1, <1>2, <1>3, <1>4, <1>5, <1>6, <1>7, <1>8, <1>9, <1>10, <1>11, <1>12,
      <1>13, <1>14, <1>15, <1>16, <1>17, <1>18, NextCases

-----------------------------------------------------------------------------
(* The parts of the invariant, one lemma each.                             *)

\* resetManualFailover unpauses, and nothing else ends an attempt of the master.
LEMMA PauseStep == TypeOK /\ PauseInv /\ [Next]_vars => PauseInv'
<1> SUFFICES ASSUME TypeOK, PauseInv, [Next]_vars PROVE PauseInv'
  OBVIOUS
<1> USE MasterAssumption, TimeoutAssumption, BoundAssumption DEF Nodes, PauseMult
<1>1. CASE UNCHANGED vars
  BY <1>1 DEF vars, TypeOK, PauseInv, InAttempt
<1>2. CASE ClientWrite
  BY <1>2 DEF TypeOK, PauseInv, InAttempt, ClientWrite, mfVars, roleVars
<1>3. CASE ReplicationPing
  BY <1>3 DEF TypeOK, PauseInv, InAttempt, ReplicationPing, mfVars, roleVars
<1>4. CASE LosePacket
  BY <1>4 DEF TypeOK, PauseInv, InAttempt, LosePacket, streamVars, mfVars, roleVars
<1>5. CASE Tick
  BY <1>5 DEF TypeOK, PauseInv, InAttempt, Tick, Counting, streamVars, roleVars
<1>6. ASSUME NEW r \in Replicas, Replicate(r) PROVE PauseInv'
  BY <1>6 DEF TypeOK, PauseInv, InAttempt, Replicate, mfVars, roleVars
<1>7. ASSUME NEW r \in Replicas, ClusterFailover(r) PROVE PauseInv'
  BY <1>7
  DEF TypeOK, PauseInv, InAttempt, ClusterFailover, MayTry, ResetReplica, MfStart,
      streamVars
<1>8. ASSUME NEW r \in Replicas, ClusterFailoverForce(r) PROVE PauseInv'
  BY <1>8 DEF TypeOK, PauseInv, InAttempt, ClusterFailoverForce, MayTry, streamVars
<1>9. ASSUME NEW r \in Replicas, ClusterFailoverTakeover(r) PROVE PauseInv'
  BY <1>9
  DEF TypeOK, PauseInv, InAttempt, ClusterFailoverTakeover, MayTry,
      ReplaceYourMaster, Pong, Reset, ResetReplica, ResetMaster, streamVars
<1>10. ASSUME NEW r \in Replicas, ReceiveMfStart(r) PROVE PauseInv'
  BY <1>10
  DEF TypeOK, PauseInv, InAttempt, ReceiveMfStart, PauseEnd, Paused, streamVars,
      roleVars
<1>11. ASSUME NEW r \in Replicas, SendPing(r) PROVE PauseInv'
  BY <1>11
  DEF TypeOK, PauseInv, InAttempt, SendPing, Paused, streamVars, mfVars, roleVars
<1>12. ASSUME NEW r \in Replicas, ReceivePaused(r) PROVE PauseInv'
  BY <1>12 DEF TypeOK, PauseInv, InAttempt, ReceivePaused, streamVars, roleVars
<1>13. ASSUME NEW r \in Replicas, HandleManualFailover(r) PROVE PauseInv'
  BY <1>13 DEF TypeOK, PauseInv, InAttempt, HandleManualFailover, streamVars, roleVars
<1>14. ASSUME NEW r \in Replicas, AskVotes(r) PROVE PauseInv'
  BY <1>14 DEF TypeOK, PauseInv, InAttempt, AskVotes, streamVars, mfVars
<1>15. ASSUME NEW r \in Replicas, VotesArrive(r) PROVE PauseInv'
  BY <1>15 DEF TypeOK, PauseInv, InAttempt, VotesArrive, streamVars, mfVars
<1>16. ASSUME NEW r \in Replicas, TakeOver(r) PROVE PauseInv'
  BY <1>16
  DEF TypeOK, PauseInv, InAttempt, TakeOver, ReplaceYourMaster, Pong, Reset,
      ResetReplica, ResetMaster, streamVars
<1>17. ASSUME NEW n \in Nodes, ReceivePong(n) PROVE PauseInv'
  BY <1>17
  DEF TypeOK, PauseInv, InAttempt, ReceivePong, Reset, ResetReplica, ResetMaster,
      streamVars
<1>18. ASSUME NEW n \in Nodes, CheckTimeout(n) PROVE PauseInv'
  BY <1>18
  DEF TypeOK, PauseInv, InAttempt, CheckTimeout, Reset, ResetReplica, ResetMaster,
      streamVars, roleVars
<1> QED
  BY <1>1, <1>2, <1>3, <1>4, <1>5, <1>6, <1>7, <1>8, <1>9, <1>10, <1>11, <1>12,
      <1>13, <1>14, <1>15, <1>16, <1>17, <1>18, NextCases

\* Replicas follow the stream, they do not add to it.
LEMMA AheadStep == TypeOK /\ MasterAhead /\ [Next]_vars => MasterAhead'
<1> SUFFICES ASSUME TypeOK, MasterAhead, [Next]_vars PROVE MasterAhead'
  OBVIOUS
<1> USE MasterAssumption, TimeoutAssumption, BoundAssumption DEF Nodes, PauseMult
<1>1. CASE UNCHANGED vars
  BY <1>1 DEF vars, TypeOK, MasterAhead
<1>2. CASE ClientWrite
  BY <1>2 DEF TypeOK, MasterAhead, ClientWrite, mfVars, roleVars
<1>3. CASE ReplicationPing
  BY <1>3 DEF TypeOK, MasterAhead, ReplicationPing, mfVars, roleVars
<1>4. CASE LosePacket
  BY <1>4 DEF TypeOK, MasterAhead, LosePacket, streamVars, mfVars, roleVars
<1>5. CASE Tick
  BY <1>5 DEF TypeOK, MasterAhead, Tick, Counting, streamVars, roleVars
<1>6. ASSUME NEW r \in Replicas, Replicate(r) PROVE MasterAhead'
  BY <1>6 DEF TypeOK, MasterAhead, Replicate, mfVars, roleVars
<1>7. ASSUME NEW r \in Replicas, ClusterFailover(r) PROVE MasterAhead'
  BY <1>7
  DEF TypeOK, MasterAhead, ClusterFailover, MayTry, ResetReplica, MfStart,
      streamVars
<1>8. ASSUME NEW r \in Replicas, ClusterFailoverForce(r) PROVE MasterAhead'
  BY <1>8 DEF TypeOK, MasterAhead, ClusterFailoverForce, MayTry, streamVars
<1>9. ASSUME NEW r \in Replicas, ClusterFailoverTakeover(r) PROVE MasterAhead'
  BY <1>9
  DEF TypeOK, MasterAhead, ClusterFailoverTakeover, MayTry, ReplaceYourMaster, Pong,
      Reset, ResetReplica, ResetMaster, streamVars
<1>10. ASSUME NEW r \in Replicas, ReceiveMfStart(r) PROVE MasterAhead'
  BY <1>10
  DEF TypeOK, MasterAhead, ReceiveMfStart, PauseEnd, Paused, streamVars, roleVars
<1>11. ASSUME NEW r \in Replicas, SendPing(r) PROVE MasterAhead'
  BY <1>11 DEF TypeOK, MasterAhead, SendPing, Paused, streamVars, mfVars, roleVars
<1>12. ASSUME NEW r \in Replicas, ReceivePaused(r) PROVE MasterAhead'
  BY <1>12 DEF TypeOK, MasterAhead, ReceivePaused, streamVars, roleVars
<1>13. ASSUME NEW r \in Replicas, HandleManualFailover(r) PROVE MasterAhead'
  BY <1>13 DEF TypeOK, MasterAhead, HandleManualFailover, streamVars, roleVars
<1>14. ASSUME NEW r \in Replicas, AskVotes(r) PROVE MasterAhead'
  BY <1>14 DEF TypeOK, MasterAhead, AskVotes, streamVars, mfVars
<1>15. ASSUME NEW r \in Replicas, VotesArrive(r) PROVE MasterAhead'
  BY <1>15 DEF TypeOK, MasterAhead, VotesArrive, streamVars, mfVars
<1>16. ASSUME NEW r \in Replicas, TakeOver(r) PROVE MasterAhead'
  BY <1>16
  DEF TypeOK, MasterAhead, TakeOver, ReplaceYourMaster, Pong, Reset, ResetReplica,
      ResetMaster, streamVars
<1>17. ASSUME NEW n \in Nodes, ReceivePong(n) PROVE MasterAhead'
  BY <1>17
  DEF TypeOK, MasterAhead, ReceivePong, Reset, ResetReplica, ResetMaster, streamVars
<1>18. ASSUME NEW n \in Nodes, CheckTimeout(n) PROVE MasterAhead'
  BY <1>18
  DEF TypeOK, MasterAhead, CheckTimeout, Reset, ResetReplica, ResetMaster,
      streamVars, roleVars
<1> QED
  BY <1>1, <1>2, <1>3, <1>4, <1>5, <1>6, <1>7, <1>8, <1>9, <1>10, <1>11, <1>12,
      <1>13, <1>14, <1>15, <1>16, <1>17, <1>18, NextCases

\* Only a takeover is announced.
LEMMA PongStep == TypeOK /\ PongsOfWinner /\ [Next]_vars => PongsOfWinner'
<1> SUFFICES ASSUME TypeOK, PongsOfWinner, [Next]_vars PROVE PongsOfWinner'
  OBVIOUS
<1> USE MasterAssumption, TimeoutAssumption, BoundAssumption DEF Nodes, PauseMult
<1>1. CASE UNCHANGED vars
  BY <1>1 DEF vars, TypeOK, PongsOfWinner
<1>2. CASE ClientWrite
  BY <1>2 DEF TypeOK, PongsOfWinner, ClientWrite, mfVars, roleVars
<1>3. CASE ReplicationPing
  BY <1>3 DEF TypeOK, PongsOfWinner, ReplicationPing, mfVars, roleVars
<1>4. CASE LosePacket
  BY <1>4 DEF TypeOK, PongsOfWinner, LosePacket, streamVars, mfVars, roleVars
<1>5. CASE Tick
  BY <1>5 DEF TypeOK, PongsOfWinner, Tick, Counting, streamVars, roleVars
<1>6. ASSUME NEW r \in Replicas, Replicate(r) PROVE PongsOfWinner'
  BY <1>6 DEF TypeOK, PongsOfWinner, Replicate, mfVars, roleVars
<1>7. ASSUME NEW r \in Replicas, ClusterFailover(r) PROVE PongsOfWinner'
  BY <1>7
  DEF TypeOK, PongsOfWinner, ClusterFailover, MayTry, ResetReplica, MfStart,
      streamVars
<1>8. ASSUME NEW r \in Replicas, ClusterFailoverForce(r) PROVE PongsOfWinner'
  BY <1>8 DEF TypeOK, PongsOfWinner, ClusterFailoverForce, MayTry, streamVars
<1>9. ASSUME NEW r \in Replicas, ClusterFailoverTakeover(r) PROVE PongsOfWinner'
  BY <1>9
  DEF TypeOK, PongsOfWinner, ClusterFailoverTakeover, MayTry, ReplaceYourMaster,
      Pong, Reset, ResetReplica, ResetMaster, streamVars
<1>10. ASSUME NEW r \in Replicas, ReceiveMfStart(r) PROVE PongsOfWinner'
  BY <1>10
  DEF TypeOK, PongsOfWinner, ReceiveMfStart, PauseEnd, Paused, streamVars, roleVars
<1>11. ASSUME NEW r \in Replicas, SendPing(r) PROVE PongsOfWinner'
  BY <1>11 DEF TypeOK, PongsOfWinner, SendPing, Paused, streamVars, mfVars, roleVars
<1>12. ASSUME NEW r \in Replicas, ReceivePaused(r) PROVE PongsOfWinner'
  BY <1>12 DEF TypeOK, PongsOfWinner, ReceivePaused, streamVars, roleVars
<1>13. ASSUME NEW r \in Replicas, HandleManualFailover(r) PROVE PongsOfWinner'
  BY <1>13 DEF TypeOK, PongsOfWinner, HandleManualFailover, streamVars, roleVars
<1>14. ASSUME NEW r \in Replicas, AskVotes(r) PROVE PongsOfWinner'
  BY <1>14 DEF TypeOK, PongsOfWinner, AskVotes, streamVars, mfVars
<1>15. ASSUME NEW r \in Replicas, VotesArrive(r) PROVE PongsOfWinner'
  BY <1>15 DEF TypeOK, PongsOfWinner, VotesArrive, streamVars, mfVars
<1>16. ASSUME NEW r \in Replicas, TakeOver(r) PROVE PongsOfWinner'
  BY <1>16
  DEF TypeOK, PongsOfWinner, TakeOver, ReplaceYourMaster, Pong, Reset, ResetReplica,
      ResetMaster, streamVars
<1>17. ASSUME NEW n \in Nodes, ReceivePong(n) PROVE PongsOfWinner'
  BY <1>17
  DEF TypeOK, PongsOfWinner, ReceivePong, Reset, ResetReplica, ResetMaster,
      streamVars
<1>18. ASSUME NEW n \in Nodes, CheckTimeout(n) PROVE PongsOfWinner'
  BY <1>18
  DEF TypeOK, PongsOfWinner, CheckTimeout, Reset, ResetReplica, ResetMaster,
      streamVars, roleVars
<1> QED
  BY <1>1, <1>2, <1>3, <1>4, <1>5, <1>6, <1>7, <1>8, <1>9, <1>10, <1>11, <1>12,
      <1>13, <1>14, <1>15, <1>16, <1>17, <1>18, NextCases

\* Pause and attempt of the master are set together and run down together.
LEMMA LongPauseStep ==
  Timely /\ TypeOK /\ PauseInv /\ LongPause /\ [Next]_vars
    => LongPause'
<1> SUFFICES ASSUME Timely, TypeOK, PauseInv, LongPause, [Next]_vars PROVE LongPause'
  OBVIOUS
<1> USE MasterAssumption, TimeoutAssumption, BoundAssumption DEF Nodes, PauseMult
<1>1. CASE UNCHANGED vars
  BY <1>1 DEF vars, TypeOK, PauseInv, LongPause, InAttempt
<1>2. CASE ClientWrite
  BY <1>2 DEF TypeOK, PauseInv, LongPause, InAttempt, ClientWrite, mfVars, roleVars
<1>3. CASE ReplicationPing
  BY <1>3
  DEF TypeOK, PauseInv, LongPause, InAttempt, ReplicationPing, mfVars, roleVars
<1>4. CASE LosePacket
  BY <1>4
  DEF TypeOK, PauseInv, LongPause, InAttempt, LosePacket, streamVars, mfVars,
      roleVars
<1>5. CASE Tick
  BY <1>5
  DEF TypeOK, PauseInv, LongPause, InAttempt, Tick, Counting, streamVars, roleVars,
      TimesOut, Expired
<1>6. ASSUME NEW r \in Replicas, Replicate(r) PROVE LongPause'
  BY <1>6 DEF TypeOK, PauseInv, LongPause, InAttempt, Replicate, mfVars, roleVars
<1>7. ASSUME NEW r \in Replicas, ClusterFailover(r) PROVE LongPause'
  BY <1>7
  DEF TypeOK, PauseInv, LongPause, InAttempt, ClusterFailover, MayTry, ResetReplica,
      MfStart, streamVars
<1>8. ASSUME NEW r \in Replicas, ClusterFailoverForce(r) PROVE LongPause'
  BY <1>8
  DEF TypeOK, PauseInv, LongPause, InAttempt, ClusterFailoverForce, MayTry,
      streamVars
<1>9. ASSUME NEW r \in Replicas, ClusterFailoverTakeover(r) PROVE LongPause'
  BY <1>9
  DEF TypeOK, PauseInv, LongPause, InAttempt, ClusterFailoverTakeover, MayTry,
      ReplaceYourMaster, Pong, Reset, ResetReplica, ResetMaster, streamVars
<1>10. ASSUME NEW r \in Replicas, ReceiveMfStart(r) PROVE LongPause'
  BY <1>10
  DEF TypeOK, PauseInv, LongPause, InAttempt, ReceiveMfStart, PauseEnd, Paused,
      streamVars, roleVars
<1>11. ASSUME NEW r \in Replicas, SendPing(r) PROVE LongPause'
  BY <1>11
  DEF TypeOK, PauseInv, LongPause, InAttempt, SendPing, Paused, streamVars, mfVars,
      roleVars
<1>12. ASSUME NEW r \in Replicas, ReceivePaused(r) PROVE LongPause'
  BY <1>12
  DEF TypeOK, PauseInv, LongPause, InAttempt, ReceivePaused, streamVars, roleVars
<1>13. ASSUME NEW r \in Replicas, HandleManualFailover(r) PROVE LongPause'
  BY <1>13
  DEF TypeOK, PauseInv, LongPause, InAttempt, HandleManualFailover, streamVars,
      roleVars
<1>14. ASSUME NEW r \in Replicas, AskVotes(r) PROVE LongPause'
  BY <1>14 DEF TypeOK, PauseInv, LongPause, InAttempt, AskVotes, streamVars, mfVars
<1>15. ASSUME NEW r \in Replicas, VotesArrive(r) PROVE LongPause'
  BY <1>15 DEF TypeOK, PauseInv, LongPause, InAttempt, VotesArrive, streamVars, mfVars
<1>16. ASSUME NEW r \in Replicas, TakeOver(r) PROVE LongPause'
  BY <1>16
  DEF TypeOK, PauseInv, LongPause, InAttempt, TakeOver, ReplaceYourMaster, Pong,
      Reset, ResetReplica, ResetMaster, streamVars
<1>17. ASSUME NEW n \in Nodes, ReceivePong(n) PROVE LongPause'
  BY <1>17
  DEF TypeOK, PauseInv, LongPause, InAttempt, ReceivePong, Reset, ResetReplica,
      ResetMaster, streamVars
<1>18. ASSUME NEW n \in Nodes, CheckTimeout(n) PROVE LongPause'
  BY <1>18
  DEF TypeOK, PauseInv, LongPause, InAttempt, CheckTimeout, Reset, ResetReplica,
      ResetMaster, streamVars, roleVars
<1> QED
  BY <1>1, <1>2, <1>3, <1>4, <1>5, <1>6, <1>7, <1>8, <1>9, <1>10, <1>11, <1>12,
      <1>13, <1>14, <1>15, <1>16, <1>17, <1>18, NextCases

\* As long as an attempt is live, the master is paused, so its offset stands still.
LEMMA AttemptStep ==
  Patient /\ Timely /\ TypeOK /\ PauseInv /\ LongPause /\ PongsOfWinner
    /\ MasterAhead /\ AttemptInv /\ [Next]_vars
    => AttemptInv'
<1> SUFFICES ASSUME Patient, Timely, TypeOK, PauseInv, LongPause, PongsOfWinner,
    MasterAhead, AttemptInv, [Next]_vars PROVE AttemptInv'
  OBVIOUS
<1> USE MasterAssumption, TimeoutAssumption, BoundAssumption DEF Nodes, PauseMult
<1>1. CASE UNCHANGED vars
  BY <1>1
  DEF vars, TypeOK, PauseInv, LongPause, PongsOfWinner, MasterAhead, AttemptInv,
      LiveInv, Live, InAttempt
<1>2. CASE ClientWrite
  BY <1>2
  DEF TypeOK, PauseInv, LongPause, PongsOfWinner, MasterAhead, AttemptInv, LiveInv,
      Live, InAttempt, ClientWrite, mfVars, roleVars, IsPaused
<1>3. CASE ReplicationPing
  BY <1>3
  DEF TypeOK, PauseInv, LongPause, PongsOfWinner, MasterAhead, AttemptInv, LiveInv,
      Live, InAttempt, ReplicationPing, mfVars, roleVars, PingsStream, IsPaused
<1>4. CASE LosePacket
  BY <1>4
  DEF TypeOK, PauseInv, LongPause, PongsOfWinner, MasterAhead, AttemptInv, LiveInv,
      Live, InAttempt, LosePacket, streamVars, mfVars, roleVars
<1>5. CASE Tick
  BY <1>5
  DEF TypeOK, PauseInv, LongPause, PongsOfWinner, MasterAhead, AttemptInv, LiveInv,
      Live, InAttempt, Tick, Counting, streamVars, roleVars, TimesOut, Expired
<1>6. ASSUME NEW r \in Replicas, Replicate(r) PROVE AttemptInv'
  BY <1>6
  DEF TypeOK, PauseInv, LongPause, PongsOfWinner, MasterAhead, AttemptInv, LiveInv,
      Live, InAttempt, Replicate, mfVars, roleVars
<1>7. ASSUME NEW r \in Replicas, ClusterFailover(r) PROVE AttemptInv'
  BY <1>7
  DEF TypeOK, PauseInv, LongPause, PongsOfWinner, MasterAhead, AttemptInv, LiveInv,
      Live, InAttempt, ClusterFailover, MayTry, ResetReplica, MfStart, streamVars,
      Quiet
<1>8. ASSUME NEW r \in Replicas, ClusterFailoverForce(r) PROVE AttemptInv'
  BY <1>8
  DEF TypeOK, PauseInv, LongPause, PongsOfWinner, MasterAhead, AttemptInv, LiveInv,
      Live, InAttempt, ClusterFailoverForce, MayTry, streamVars
<1>9. ASSUME NEW r \in Replicas, ClusterFailoverTakeover(r) PROVE AttemptInv'
  BY <1>9
  DEF TypeOK, PauseInv, LongPause, PongsOfWinner, MasterAhead, AttemptInv, LiveInv,
      Live, InAttempt, ClusterFailoverTakeover, MayTry, ReplaceYourMaster, Pong,
      Reset, ResetReplica, ResetMaster, streamVars
<1>10. ASSUME NEW r \in Replicas, ReceiveMfStart(r) PROVE AttemptInv'
  BY <1>10
  DEF TypeOK, PauseInv, LongPause, PongsOfWinner, MasterAhead, AttemptInv, LiveInv,
      Live, InAttempt, ReceiveMfStart, PauseEnd, Paused, streamVars, roleVars
<1>11. ASSUME NEW r \in Replicas, SendPing(r) PROVE AttemptInv'
  BY <1>11
  DEF TypeOK, PauseInv, LongPause, PongsOfWinner, MasterAhead, AttemptInv, LiveInv,
      Live, InAttempt, SendPing, Paused, streamVars, mfVars, roleVars
<1>12. ASSUME NEW r \in Replicas, ReceivePaused(r) PROVE AttemptInv'
  BY <1>12
  DEF TypeOK, PauseInv, LongPause, PongsOfWinner, MasterAhead, AttemptInv, LiveInv,
      Live, InAttempt, ReceivePaused, streamVars, roleVars
<1>13. ASSUME NEW r \in Replicas, HandleManualFailover(r) PROVE AttemptInv'
  BY <1>13
  DEF TypeOK, PauseInv, LongPause, PongsOfWinner, MasterAhead, AttemptInv, LiveInv,
      Live, InAttempt, HandleManualFailover, streamVars, roleVars, CaughtUp
<1>14. ASSUME NEW r \in Replicas, AskVotes(r) PROVE AttemptInv'
  BY <1>14
  DEF TypeOK, PauseInv, LongPause, PongsOfWinner, MasterAhead, AttemptInv, LiveInv,
      Live, InAttempt, AskVotes, streamVars, mfVars
<1>15. ASSUME NEW r \in Replicas, VotesArrive(r) PROVE AttemptInv'
  BY <1>15
  DEF TypeOK, PauseInv, LongPause, PongsOfWinner, MasterAhead, AttemptInv, LiveInv,
      Live, InAttempt, VotesArrive, streamVars, mfVars
<1>16. ASSUME NEW r \in Replicas, TakeOver(r) PROVE AttemptInv'
  BY <1>16
  DEF TypeOK, PauseInv, LongPause, PongsOfWinner, MasterAhead, AttemptInv, LiveInv,
      Live, InAttempt, TakeOver, ReplaceYourMaster, Pong, Reset, ResetReplica,
      ResetMaster, streamVars
<1>17. ASSUME NEW n \in Nodes, ReceivePong(n) PROVE AttemptInv'
  BY <1>17
  DEF TypeOK, PauseInv, LongPause, PongsOfWinner, MasterAhead, AttemptInv, LiveInv,
      Live, InAttempt, ReceivePong, Reset, ResetReplica, ResetMaster, streamVars
<1>18. ASSUME NEW n \in Nodes, CheckTimeout(n) PROVE AttemptInv'
  BY <1>18
  DEF TypeOK, PauseInv, LongPause, PongsOfWinner, MasterAhead, AttemptInv, LiveInv,
      Live, InAttempt, CheckTimeout, Reset, ResetReplica, ResetMaster, streamVars,
      roleVars, TimesOut, Expired
<1> QED
  BY <1>1, <1>2, <1>3, <1>4, <1>5, <1>6, <1>7, <1>8, <1>9, <1>10, <1>11, <1>12,
      <1>13, <1>14, <1>15, <1>16, <1>17, <1>18, NextCases

\* The takeover happens at that offset, and no write is answered behind it.
LEMMA TakeoverStep ==
  Patient /\ Timely /\ TypeOK /\ PauseInv /\ LongPause /\ PongsOfWinner
    /\ MasterAhead /\ AttemptInv /\ TakeoverInv /\ [Next]_vars
    => TakeoverInv'
<1> SUFFICES ASSUME Patient, Timely, TypeOK, PauseInv, LongPause, PongsOfWinner,
    MasterAhead, AttemptInv, TakeoverInv, [Next]_vars PROVE TakeoverInv'
  OBVIOUS
<1> USE MasterAssumption, TimeoutAssumption, BoundAssumption DEF Nodes, PauseMult
<1>1. CASE UNCHANGED vars
  BY <1>1
  DEF vars, TypeOK, PauseInv, LongPause, PongsOfWinner, MasterAhead, AttemptInv,
      LiveInv, Live, InAttempt, TakeoverInv
<1>2. CASE ClientWrite
  BY <1>2
  DEF TypeOK, PauseInv, LongPause, PongsOfWinner, MasterAhead, AttemptInv, LiveInv,
      Live, InAttempt, TakeoverInv, ClientWrite, mfVars, roleVars, IsPaused,
      IsMaster, Pong
<1>3. CASE ReplicationPing
  BY <1>3
  DEF TypeOK, PauseInv, LongPause, PongsOfWinner, MasterAhead, AttemptInv, LiveInv,
      Live, InAttempt, TakeoverInv, ReplicationPing, mfVars, roleVars
<1>4. CASE LosePacket
  BY <1>4
  DEF TypeOK, PauseInv, LongPause, PongsOfWinner, MasterAhead, AttemptInv, LiveInv,
      Live, InAttempt, TakeoverInv, LosePacket, streamVars, mfVars, roleVars, Pong
<1>5. CASE Tick
  BY <1>5
  DEF TypeOK, PauseInv, LongPause, PongsOfWinner, MasterAhead, AttemptInv, LiveInv,
      Live, InAttempt, TakeoverInv, Tick, Counting, streamVars, roleVars, Pong
<1>6. ASSUME NEW r \in Replicas, Replicate(r) PROVE TakeoverInv'
  BY <1>6
  DEF TypeOK, PauseInv, LongPause, PongsOfWinner, MasterAhead, AttemptInv, LiveInv,
      Live, InAttempt, TakeoverInv, Replicate, mfVars, roleVars, IsSlave, Pong
<1>7. ASSUME NEW r \in Replicas, ClusterFailover(r) PROVE TakeoverInv'
  BY <1>7
  DEF TypeOK, PauseInv, LongPause, PongsOfWinner, MasterAhead, AttemptInv, LiveInv,
      Live, InAttempt, TakeoverInv, ClusterFailover, MayTry, ResetReplica, MfStart,
      streamVars
<1>8. ASSUME NEW r \in Replicas, ClusterFailoverForce(r) PROVE TakeoverInv'
  BY <1>8
  DEF TypeOK, PauseInv, LongPause, PongsOfWinner, MasterAhead, AttemptInv, LiveInv,
      Live, InAttempt, TakeoverInv, ClusterFailoverForce, MayTry, streamVars
<1>9. ASSUME NEW r \in Replicas, ClusterFailoverTakeover(r) PROVE TakeoverInv'
  BY <1>9
  DEF TypeOK, PauseInv, LongPause, PongsOfWinner, MasterAhead, AttemptInv, LiveInv,
      Live, InAttempt, TakeoverInv, ClusterFailoverTakeover, MayTry,
      ReplaceYourMaster, Pong, Reset, ResetReplica, ResetMaster, streamVars
<1>10. ASSUME NEW r \in Replicas, ReceiveMfStart(r) PROVE TakeoverInv'
  BY <1>10
  DEF TypeOK, PauseInv, LongPause, PongsOfWinner, MasterAhead, AttemptInv, LiveInv,
      Live, InAttempt, TakeoverInv, ReceiveMfStart, PauseEnd, Paused, streamVars,
      roleVars, MfStart, IsMaster, Pong
<1>11. ASSUME NEW r \in Replicas, SendPing(r) PROVE TakeoverInv'
  BY <1>11
  DEF TypeOK, PauseInv, LongPause, PongsOfWinner, MasterAhead, AttemptInv, LiveInv,
      Live, InAttempt, TakeoverInv, SendPing, Paused, streamVars, mfVars, roleVars
<1>12. ASSUME NEW r \in Replicas, ReceivePaused(r) PROVE TakeoverInv'
  BY <1>12
  DEF TypeOK, PauseInv, LongPause, PongsOfWinner, MasterAhead, AttemptInv, LiveInv,
      Live, InAttempt, TakeoverInv, ReceivePaused, streamVars, roleVars, Pong
<1>13. ASSUME NEW r \in Replicas, HandleManualFailover(r) PROVE TakeoverInv'
  BY <1>13
  DEF TypeOK, PauseInv, LongPause, PongsOfWinner, MasterAhead, AttemptInv, LiveInv,
      Live, InAttempt, TakeoverInv, HandleManualFailover, streamVars, roleVars
<1>14. ASSUME NEW r \in Replicas, AskVotes(r) PROVE TakeoverInv'
  BY <1>14
  DEF TypeOK, PauseInv, LongPause, PongsOfWinner, MasterAhead, AttemptInv, LiveInv,
      Live, InAttempt, TakeoverInv, AskVotes, streamVars, mfVars
<1>15. ASSUME NEW r \in Replicas, VotesArrive(r) PROVE TakeoverInv'
  BY <1>15
  DEF TypeOK, PauseInv, LongPause, PongsOfWinner, MasterAhead, AttemptInv, LiveInv,
      Live, InAttempt, TakeoverInv, VotesArrive, streamVars, mfVars
<1>16. ASSUME NEW r \in Replicas, TakeOver(r) PROVE TakeoverInv'
  BY <1>16
  DEF TypeOK, PauseInv, LongPause, PongsOfWinner, MasterAhead, AttemptInv, LiveInv,
      Live, InAttempt, TakeoverInv, TakeOver, ReplaceYourMaster, Pong, Reset,
      ResetReplica, ResetMaster, streamVars, MayFailOver, Expired
<1>17. ASSUME NEW n \in Nodes, ReceivePong(n) PROVE TakeoverInv'
  BY <1>17
  DEF TypeOK, PauseInv, LongPause, PongsOfWinner, MasterAhead, AttemptInv, LiveInv,
      Live, InAttempt, TakeoverInv, ReceivePong, Reset, ResetReplica, ResetMaster,
      streamVars, Pong
<1>18. ASSUME NEW n \in Nodes, CheckTimeout(n) PROVE TakeoverInv'
  BY <1>18
  DEF TypeOK, PauseInv, LongPause, PongsOfWinner, MasterAhead, AttemptInv, LiveInv,
      Live, InAttempt, TakeoverInv, CheckTimeout, Reset, ResetReplica, ResetMaster,
      streamVars, roleVars, TimesOut, Expired, Pong
<1> QED
  BY <1>1, <1>2, <1>3, <1>4, <1>5, <1>6, <1>7, <1>8, <1>9, <1>10, <1>11, <1>12,
      <1>13, <1>14, <1>15, <1>16, <1>17, <1>18, NextCases

-----------------------------------------------------------------------------
\* The initial state satisfies the invariant, every step keeps it.
LEMMA InitIInv == Init => IInv
  BY InitType, MasterAssumption, TimeoutAssumption
  DEF Init, IInv, PauseInv, LongPause, PongsOfWinner, MasterAhead, AttemptInv, TakeoverInv,
      Live, InAttempt, Nodes

LEMMA StepIInv == Patient /\ Timely /\ IInv /\ [Next]_vars => IInv'
  BY TypeStep, PauseStep, LongPauseStep, PongStep, AheadStep, AttemptStep, TakeoverStep
  DEF IInv

(***************************************************************************)
(* Every reachable state is well typed, for any replicas, timeout and      *)
(* delays.                                                                 *)
(***************************************************************************)
THEOREM TypeCorrect == Spec => []TypeOK
  BY InitType, TypeStep, PTL DEF Spec

(***************************************************************************)
(* Whatever is late or lost, the clients of the master are paused for an   *)
(* attempt only (resetManualFailover, manualFailoverCheckTimeout).         *)
(***************************************************************************)
THEOREM PauseHasAttempt == Spec => []PausedForAttempt
<1>1. Init => TypeOK /\ PauseInv
  BY InitIInv DEF IInv
<1>2. TypeOK /\ PauseInv /\ [Next]_vars => (TypeOK /\ PauseInv)'
  BY TypeStep, PauseStep
<1>3. TypeOK /\ PauseInv => PausedForAttempt
  BY DEF TypeOK, PauseInv, PausedForAttempt, IsPaused
<1> QED
  BY <1>1, <1>2, <1>3, PTL DEF Spec

(***************************************************************************)
(* A replica that waits for the offset at which its master has paused does *)
(* not run past it, if attempts are patient and clocks timely              *)
(* (replicationCron, clusterHandleManualFailover).                         *)
(***************************************************************************)
THEOREM GoalStaysAhead == Patient /\ Timely => (Spec => []NeverPast)
<1> SUFFICES ASSUME Patient, Timely PROVE Spec => []NeverPast
  OBVIOUS
<1>1. IInv => NeverPast
  BY MasterAssumption
  DEF IInv, TypeOK, MasterAhead, AttemptInv, LiveInv, Live, NeverPast, InAttempt, Expired, Nodes
<1> QED
  BY <1>1, InitIInv, StepIInv, PTL DEF Spec

(***************************************************************************)
(* A graceful manual failover loses no acknowledged write, for any number  *)
(* of replicas, any timeout and whatever packets are lost, if attempts are *)
(* patient and clocks timely (clusterHandleManualFailover, pauseActions).  *)
(***************************************************************************)
THEOREM NothingLost == Patient /\ Timely => (Spec => []NoDataLoss)
<1> SUFFICES ASSUME Patient, Timely PROVE Spec => []NoDataLoss
  OBVIOUS
<1>1. IInv => NoDataLoss
  BY DEF IInv, TakeoverInv, NoDataLoss
<1> QED
  BY <1>1, InitIInv, StepIInv, PTL DEF Spec
=============================================================================
