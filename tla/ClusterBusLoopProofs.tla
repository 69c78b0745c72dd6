------------------------ MODULE ClusterBusLoopProofs ------------------------
(***************************************************************************)
(* Theorems about ClusterBusLoop, for any peers, any load and any bounds:  *)
(* nothing that is promised is forgotten, and a node that is under no load *)
(* keeps the promise of DurableVoter.                                      *)
(***************************************************************************)
EXTENDS ClusterBusLoop, SequenceTheorems, TLAPS

VoteEpochs == 1..MaxEpoch

\* The queues are sequences; nobody asks for a vote in epoch 0; a socket that is
\* reported readable has a request.
QueueInv ==
  /\ inq \in [Peers -> Seq(VoteEpochs)]
  /\ outq \in [Peers -> Seq(Packets)]
  /\ \A p \in readable : inq[p] # <<>>

\* The epochs of a configuration are in order: it has no vote after
\* lastVoteEpoch and one vote in an epoch.
Ordered(c) ==
  /\ c.lastVoteEpoch <= c.currentEpoch /\ c.configEpoch <= c.currentEpoch
  /\ c.votes \subseteq Peers \X VoteEpochs
  /\ \A v \in c.votes : v[2] <= c.lastVoteEpoch
  /\ \A v, w \in c.votes : v[2] = w[2] => v = w

\* Memory is ahead of the disk, by votes in later epochs.
Ahead ==
  /\ disk.votes \subseteq mem.votes
  /\ disk.configEpoch <= mem.configEpoch
  /\ \A v \in mem.votes \ disk.votes : disk.lastVoteEpoch < v[2]
  /\ disk.lastVoteEpoch <= mem.lastVoteEpoch

\* What a packet for p says is covered by a configuration.
Covered(p, m, c) ==
  /\ m[1] = "AUTH_ACK" => <<p, m[2]>> \in c.votes
  /\ m[1] = "PONG" => m[2] <= c.configEpoch
QueueCovered == \A p \in Peers : \A i \in 1..Len(outq[p]) : Covered(p, outq[p][i], mem)

\* Without load, sockets are written in rounds that begin with everything saved.
CalmRounds ==
  load = {} =>
    /\ ~blocked
    /\ loop = "poll" => ~todo
    /\ loop = "events" /\ writable # {} => ~todo /\ readable = {} /\ ~client
WireCovered == load = {} => \A w \in wire : Covered(w[1], w[2], disk)

\* The inductive invariant.
IInv ==
  /\ TypeOK /\ QueueInv /\ Ordered(mem) /\ Ordered(disk) /\ Ahead /\ SaveStaysPending
  /\ QueueCovered /\ CalmRounds /\ WireCovered
-----------------------------------------------------------------------------
\* The disjuncts of Next, for the proofs that go through them one by one.
LEMMA NextCases ==
  ASSUME Next
  PROVE  \/ \E p \in Peers : PeerRequests(p) \/ ReadHandler(p) \/ WriteHandler(p)
         \/ BeforeSleep \/ Poll \/ ClientSetSlot \/ ClientOther \/ EnterBlocked
         \/ EndIteration \/ CrashRestart
  BY DEF Next

\* The epoch that a read handler finds at the head of a socket.
LEMMA HeadRequest ==
  ASSUME QueueInv, TypeOK, NEW p \in readable
  PROVE  Head(inq[p]) \in VoteEpochs
<1>1. p \in Peers /\ inq[p] \in Seq(VoteEpochs) /\ inq[p] # <<>>
  BY DEF QueueInv, TypeOK
<1> QED
  BY <1>1, HeadTailProperties

\* A read handler drops what the socket held, gives a vote in an epoch after
\* all it has voted in, or learns an epoch.
LEMMA ReadCases ==
  ASSUME TypeOK, QueueInv, Ordered(mem), NEW p \in Peers, ReadHandler(p)
  PROVE  \/ UNCHANGED <<mem, todo, outq>>
         \/ \E e \in VoteEpochs :
              /\ mem.currentEpoch <= e /\ mem.lastVoteEpoch < e
              /\ mem' = [mem EXCEPT !.currentEpoch = e, !.lastVoteEpoch = e,
                                    !.votes = @ \cup {<<p, e>>}]
              /\ todo' = TRUE
              /\ outq' = [outq EXCEPT ![p] = Append(@, Packet("AUTH_ACK", e))]
         \/ /\ \E e \in VoteEpochs : mem' = [mem EXCEPT !.currentEpoch = Larger(@, e)]
            /\ UNCHANGED <<todo, outq>>
<1> USE BoundAssumption DEF Epochs
<1>1. CASE UNCHANGED <<mem, todo, outq>>
  BY <1>1
<1>2. CASE ReadRequest(p, Head(inq[p]))
  <2> DEFINE e == Head(inq[p])
  <2>1. e \in VoteEpochs
    BY HeadRequest DEF ReadHandler
  <2> HIDE DEF e
  <2>2. CASE MayVote(e)
    <3>1. mem.currentEpoch <= e /\ mem.lastVoteEpoch < e /\ Larger(mem.currentEpoch, e) = e
      BY <2>1, <2>2 DEF MayVote, Larger, TypeOK, Configs, Ordered, VoteEpochs
    <3> QED
      BY <1>2, <2>1, <2>2, <3>1 DEF ReadRequest, TypeOK, Configs, e
  <2>3. CASE ~MayVote(e)
    BY <1>2, <2>1, <2>3 DEF ReadRequest, e
  <2> QED
    BY <2>2, <2>3
<1> QED
  BY <1>1, <1>2 DEF ReadHandler

\* The packets of the node.
LEMMA PacketType ==
  \A e \in Epochs : Packet("AUTH_ACK", e) \in Packets /\ Packet("PONG", e) \in Packets
  BY DEF Packets

\* A packet is queued.
LEMMA AppendPacket ==
  ASSUME NEW q \in Seq(Packets), NEW m \in Packets
  PROVE  /\ Append(q, m) \in Seq(Packets)
         /\ Len(Append(q, m)) = Len(q) + 1
         /\ \A i \in 1..Len(Append(q, m)) :
              Append(q, m)[i] = IF i <= Len(q) THEN q[i] ELSE m
  BY AppendProperties

\* The configEpoch that SETSLOT takes is greater than all the node knows.
LEMMA BumpType ==
  ASSUME TypeOK, ClientSetSlot
  PROVE  BumpConfigEpoch.configEpoch = mem.currentEpoch + 1 /\ mem.currentEpoch + 1 \in Epochs
  BY BoundAssumption
  DEF TypeOK, ClientSetSlot, BumpConfigEpoch, EpochBound, Configs, Epochs

\* What a write handler leaves in a queue was there before.
LEMMA RestOfQueue ==
  ASSUME QueueInv, NEW p \in Peers, NEW n \in 0..Len(outq[p])
  PROVE  /\ SubSeq(outq[p], n + 1, Len(outq[p])) \in Seq(Packets)
         /\ Len(SubSeq(outq[p], n + 1, Len(outq[p]))) = Len(outq[p]) - n
         /\ \A i \in 1..(Len(outq[p]) - n) :
              SubSeq(outq[p], n + 1, Len(outq[p]))[i] = outq[p][i + n]
<1> DEFINE q == outq[p]
<1>1. q \in Seq(Packets) /\ Len(q) \in Nat
  BY DEF QueueInv
<1>2. \A i \in (n + 1)..Len(q) : q[i] \in Packets
  BY <1>1
<1> HIDE DEF q
<1>3. /\ SubSeq(q, n + 1, Len(q)) \in Seq(Packets)
      /\ Len(SubSeq(q, n + 1, Len(q))) = IF n + 1 <= Len(q) THEN Len(q) - (n + 1) + 1 ELSE 0
      /\ \A i \in 1..(Len(q) - (n + 1) + 1) : SubSeq(q, n + 1, Len(q))[i] = q[(n + 1) + i - 1]
  BY <1>1, <1>2, SubSeqProperties, n \in Int, n + 1 \in Int
<1> QED
  BY <1>1, <1>3 DEF q

\* The types of all but the queues.
StateType ==
  /\ load \in Loads
  /\ loop \in {"sleep", "poll", "events"}
  /\ blocked \in BOOLEAN /\ client \in BOOLEAN /\ todo \in BOOLEAN
  /\ readable \subseteq Peers /\ writable \subseteq Peers
  /\ mem \in Configs /\ disk \in Configs
  /\ wire \subseteq Peers \X Packets
  /\ crashes \in 0..MaxCrashes

\* Requests arrive and are read in order, packets are queued and leave in order.
LEMMA QueueStep == TypeOK /\ QueueInv /\ Ordered(mem) /\ [Next]_vars => QueueInv'
<1> SUFFICES ASSUME TypeOK, QueueInv, Ordered(mem), [Next]_vars PROVE QueueInv'
  OBVIOUS
<1> USE BoundAssumption DEF Epochs
<1>1. CASE UNCHANGED vars
  BY <1>1 DEF vars, TypeOK, QueueInv
<1>2. ASSUME NEW p \in Peers, PeerRequests(p) PROVE QueueInv'
  <2>1. PICK e \in 1..EpochBound : inq' = [inq EXCEPT ![p] = Append(@, e)]
    BY <1>2 DEF PeerRequests
  <2>2. e \in VoteEpochs
    BY <2>1 DEF EpochBound, VoteEpochs
  <2>3. inq[p] \in Seq(VoteEpochs)
    BY DEF QueueInv
  <2>4. Append(inq[p], e) \in Seq(VoteEpochs) /\ Append(inq[p], e) # <<>>
    BY <2>2, <2>3, AppendProperties
  <2> QED
    BY <1>2, <2>1, <2>4 DEF QueueInv, PeerRequests, TypeOK
<1>3. ASSUME NEW p \in Peers, ReadHandler(p) PROVE QueueInv'
  <2>1. outq' \in [Peers -> Seq(Packets)]
    <3>1. CASE UNCHANGED outq
      BY <3>1 DEF QueueInv
    <3>2. ASSUME NEW e \in VoteEpochs,
                 outq' = [outq EXCEPT ![p] = Append(@, Packet("AUTH_ACK", e))]
          PROVE  outq' \in [Peers -> Seq(Packets)]
      <4>1. Packet("AUTH_ACK", e) \in Packets /\ outq[p] \in Seq(Packets)
        BY PacketType DEF VoteEpochs, QueueInv
      <4>2. Append(outq[p], Packet("AUTH_ACK", e)) \in Seq(Packets)
        BY <4>1, AppendPacket
      <4> QED
        BY <3>2, <4>2 DEF QueueInv
    <3> QED
      BY <1>3, <3>1, <3>2, ReadCases
  <2>2. inq' \in [Peers -> Seq(VoteEpochs)]
    <3>1. inq[p] \in Seq(VoteEpochs) /\ inq[p] # <<>>
      BY <1>3 DEF QueueInv, ReadHandler
    <3>2. Tail(inq[p]) \in Seq(VoteEpochs) /\ <<>> \in Seq(VoteEpochs)
      BY <3>1, HeadTailProperties
    <3> QED
      BY <1>3, <3>1, <3>2 DEF QueueInv, ReadHandler
  <2>3. \A q \in readable' : inq'[q] # <<>>
    <3>1. inq[p] \in Seq(VoteEpochs) /\ inq[p] # <<>> /\ Len(inq[p]) \in Nat
      BY <1>3 DEF QueueInv, ReadHandler
    <3>2. Len(inq[p]) # 1 => Tail(inq[p]) # <<>>
      <4>1. Len(Tail(inq[p])) = Len(inq[p]) - 1
        BY <3>1, HeadTailProperties
      <4>2. Len(<<>>) = 0
        BY EmptySeq
      <4>3. Tail(inq[p]) = <<>> => Len(Tail(inq[p])) = 0
        BY <4>2, Zenon
      <4> QED
        BY <3>1, <4>1, <4>3
    <3> QED
      BY <1>3, <3>1, <3>2 DEF QueueInv, ReadHandler, TypeOK
  <2> QED
    BY <2>1, <2>2, <2>3 DEF QueueInv
<1>4. ASSUME NEW p \in Peers, WriteHandler(p) PROVE QueueInv'
  <2>1. PICK n \in 0..Len(outq[p]) :
          \/ outq' = [outq EXCEPT ![p] = SubSeq(@, n + 1, Len(@))]
          \/ outq' = [outq EXCEPT ![p] = <<>>]
    BY <1>4 DEF WriteHandler
  <2>2. SubSeq(outq[p], n + 1, Len(outq[p])) \in Seq(Packets) /\ <<>> \in Seq(Packets)
    BY RestOfQueue
  <2>3. outq' \in [Peers -> Seq(Packets)]
    BY <2>1, <2>2 DEF QueueInv
  <2> QED
    BY <1>4, <2>3 DEF QueueInv, WriteHandler
<1>5. CASE BeforeSleep
  BY <1>5 DEF TypeOK, QueueInv, BeforeSleep
<1>6. CASE Poll
  BY <1>6 DEF TypeOK, QueueInv, Poll
<1>7. CASE ClientSetSlot
  <2> DEFINE m == Packet("PONG", BumpConfigEpoch.configEpoch)
  <2>1. m \in Packets
    BY <1>7, BumpType, PacketType
  <2>2. outq' = [q \in Peers |-> Append(outq[q], m)]
    BY <1>7 DEF ClientSetSlot
  <2> HIDE DEF m
  <2>3. \A q \in Peers : Append(outq[q], m) \in Seq(Packets)
    BY <2>1, AppendPacket DEF QueueInv
  <2>4. outq' \in [Peers -> Seq(Packets)]
    BY <2>2, <2>3
  <2> QED
    BY <1>7, <2>4 DEF QueueInv, ClientSetSlot
<1>8. CASE ClientOther
  BY <1>8 DEF TypeOK, QueueInv, ClientOther
<1>9. CASE EnterBlocked
  BY <1>9 DEF TypeOK, QueueInv, EnterBlocked
<1>10. CASE EndIteration
  <2> DEFINE m == Packet("PONG", mem.configEpoch)
  <2>1. m \in Packets
    BY PacketType DEF TypeOK, Configs
  <2>2. outq' = outq \/ \E q \in Peers : outq' = [outq EXCEPT ![q] = Append(@, m)]
    BY <1>10 DEF EndIteration
  <2> HIDE DEF m
  <2>3. \A q \in Peers : Append(outq[q], m) \in Seq(Packets)
    BY <2>1, AppendPacket DEF QueueInv
  <2>4. outq' \in [Peers -> Seq(Packets)]
    BY <2>2, <2>3 DEF QueueInv
  <2> QED
    BY <1>10, <2>4 DEF QueueInv, EndIteration
<1>11. CASE CrashRestart
  BY <1>11 DEF TypeOK, QueueInv, CrashRestart, LoadConfig
<1> QED
  BY <1>1, <1>2, <1>3, <1>4, <1>5, <1>6, <1>7, <1>8, <1>9, <1>10, <1>11, NextCases

\* A vote is given in an epoch after all votes before it; a crash falls back to
\* the disk, where epochs are in order too.
LEMMA OrderedMemStep ==
  TypeOK /\ QueueInv /\ Ordered(mem) /\ Ordered(disk) /\ [Next]_vars
    => Ordered(mem)'
<1> SUFFICES ASSUME TypeOK, QueueInv, Ordered(mem), Ordered(disk), [Next]_vars PROVE
             Ordered(mem)'
  OBVIOUS
<1> USE BoundAssumption DEF Epochs
<1>1. CASE UNCHANGED vars
  BY <1>1 DEF vars, TypeOK, Configs, Ordered, VoteEpochs
<1>2. ASSUME NEW p \in Peers, PeerRequests(p) PROVE Ordered(mem)'
  BY <1>2 DEF TypeOK, Configs, Ordered, VoteEpochs, PeerRequests, EpochBound
<1>3. ASSUME NEW p \in Peers, ReadHandler(p) PROVE Ordered(mem)'
  <2>1. CASE mem' = mem
    BY <1>3, <2>1 DEF TypeOK, Configs, Ordered, VoteEpochs, ReadHandler
  <2>2. ASSUME NEW e \in VoteEpochs, mem.currentEpoch <= e, mem.lastVoteEpoch < e,
               mem' = [mem EXCEPT !.currentEpoch = e, !.lastVoteEpoch = e,
                                  !.votes = @ \cup {<<p, e>>}]
        PROVE  Ordered(mem)'
    BY <1>3, <2>2 DEF TypeOK, Configs, Ordered, VoteEpochs, ReadHandler
  <2>3. ASSUME NEW e \in VoteEpochs, mem' = [mem EXCEPT !.currentEpoch = Larger(@, e)]
        PROVE  Ordered(mem)'
    BY <1>3, <2>3 DEF TypeOK, Configs, Ordered, VoteEpochs, Larger, ReadHandler
  <2> QED
    BY <1>3, <2>1, <2>2, <2>3, ReadCases
<1>4. ASSUME NEW p \in Peers, WriteHandler(p) PROVE Ordered(mem)'
  BY <1>4 DEF TypeOK, Configs, Ordered, VoteEpochs, WriteHandler
<1>5. CASE BeforeSleep
  BY <1>5 DEF TypeOK, Configs, Ordered, VoteEpochs, BeforeSleep
<1>6. CASE Poll
  BY <1>6 DEF TypeOK, Configs, Ordered, VoteEpochs, Poll
<1>7. CASE ClientSetSlot
  BY <1>7
  DEF TypeOK, Configs, Ordered, VoteEpochs, ClientSetSlot, BumpConfigEpoch,
      EpochBound, Packet
<1>8. CASE ClientOther
  BY <1>8 DEF TypeOK, Configs, Ordered, VoteEpochs, ClientOther
<1>9. CASE EnterBlocked
  BY <1>9 DEF TypeOK, Configs, Ordered, VoteEpochs, EnterBlocked
<1>10. CASE EndIteration
  BY <1>10 DEF TypeOK, Configs, Ordered, VoteEpochs, EndIteration, Packet
<1>11. CASE CrashRestart
  BY <1>11 DEF TypeOK, Configs, Ordered, VoteEpochs, CrashRestart, LoadConfig
<1> QED
  BY <1>1, <1>2, <1>3, <1>4, <1>5, <1>6, <1>7, <1>8, <1>9, <1>10, <1>11, NextCases

\* A save copies memory.
LEMMA OrderedDiskStep ==
  Ordered(mem) /\ Ordered(disk) /\ [Next]_vars
    => Ordered(disk)'
<1> SUFFICES ASSUME Ordered(mem), Ordered(disk), [Next]_vars PROVE Ordered(disk)'
  OBVIOUS
<1> USE BoundAssumption DEF Epochs
<1>1. CASE UNCHANGED vars
  BY <1>1 DEF vars, Ordered
<1>2. ASSUME NEW p \in Peers, PeerRequests(p) PROVE Ordered(disk)'
  BY <1>2 DEF Ordered, PeerRequests, EpochBound
<1>3. ASSUME NEW p \in Peers, ReadHandler(p) PROVE Ordered(disk)'
  BY <1>3 DEF Ordered, ReadHandler, ReadRequest, MayVote, Larger, Packet
<1>4. ASSUME NEW p \in Peers, WriteHandler(p) PROVE Ordered(disk)'
  BY <1>4 DEF Ordered, WriteHandler
<1>5. CASE BeforeSleep
  BY <1>5 DEF Ordered, BeforeSleep
<1>6. CASE Poll
  BY <1>6 DEF Ordered, Poll
<1>7. CASE ClientSetSlot
  BY <1>7 DEF Ordered, ClientSetSlot, BumpConfigEpoch, EpochBound, Packet
<1>8. CASE ClientOther
  BY <1>8 DEF Ordered, ClientOther
<1>9. CASE EnterBlocked
  BY <1>9 DEF Ordered, EnterBlocked
<1>10. CASE EndIteration
  BY <1>10 DEF Ordered, EndIteration, Packet
<1>11. CASE CrashRestart
  BY <1>11 DEF Ordered, CrashRestart, LoadConfig
<1> QED
  BY <1>1, <1>2, <1>3, <1>4, <1>5, <1>6, <1>7, <1>8, <1>9, <1>10, <1>11, NextCases

\* Whatever changes a promise asks for a save.
LEMMA SaveStep == TypeOK /\ SaveStaysPending /\ [Next]_vars => SaveStaysPending'
<1> SUFFICES ASSUME TypeOK, SaveStaysPending, [Next]_vars PROVE SaveStaysPending'
  OBVIOUS
<1> USE BoundAssumption DEF Epochs
<1>1. CASE UNCHANGED vars
  BY <1>1 DEF vars, TypeOK, Configs, SaveStaysPending
<1>2. ASSUME NEW p \in Peers, PeerRequests(p) PROVE SaveStaysPending'
  BY <1>2 DEF TypeOK, Configs, SaveStaysPending, PeerRequests, EpochBound
<1>3. ASSUME NEW p \in Peers, ReadHandler(p) PROVE SaveStaysPending'
  BY <1>3
  DEF TypeOK, Configs, SaveStaysPending, ReadHandler, ReadRequest, MayVote, Larger,
      Packet
<1>4. ASSUME NEW p \in Peers, WriteHandler(p) PROVE SaveStaysPending'
  BY <1>4 DEF TypeOK, Configs, SaveStaysPending, WriteHandler
<1>5. CASE BeforeSleep
  BY <1>5 DEF TypeOK, Configs, SaveStaysPending, BeforeSleep
<1>6. CASE Poll
  BY <1>6 DEF TypeOK, Configs, SaveStaysPending, Poll
<1>7. CASE ClientSetSlot
  BY <1>7
  DEF TypeOK, Configs, SaveStaysPending, ClientSetSlot, BumpConfigEpoch, EpochBound,
      Packet
<1>8. CASE ClientOther
  BY <1>8 DEF TypeOK, Configs, SaveStaysPending, ClientOther
<1>9. CASE EnterBlocked
  BY <1>9 DEF TypeOK, Configs, SaveStaysPending, EnterBlocked
<1>10. CASE EndIteration
  BY <1>10 DEF TypeOK, Configs, SaveStaysPending, EndIteration, Packet
<1>11. CASE CrashRestart
  BY <1>11 DEF TypeOK, Configs, SaveStaysPending, CrashRestart, LoadConfig
<1> QED
  BY <1>1, <1>2, <1>3, <1>4, <1>5, <1>6, <1>7, <1>8, <1>9, <1>10, <1>11, NextCases

\* What memory has and the disk has not is of later epochs.
LEMMA AheadStep ==
  TypeOK /\ QueueInv /\ Ordered(mem) /\ Ahead /\ [Next]_vars
    => Ahead'
<1> SUFFICES ASSUME TypeOK, QueueInv, Ordered(mem), Ahead, [Next]_vars PROVE Ahead'
  OBVIOUS
<1> USE BoundAssumption DEF Epochs
<1>1. CASE UNCHANGED vars
  BY <1>1 DEF vars, TypeOK, Configs, Ordered, Ahead
<1>2. ASSUME NEW p \in Peers, PeerRequests(p) PROVE Ahead'
  BY <1>2 DEF TypeOK, Configs, Ordered, Ahead, PeerRequests, EpochBound
<1>3. ASSUME NEW p \in Peers, ReadHandler(p) PROVE Ahead'
  <2>1. CASE mem' = mem
    BY <1>3, <2>1 DEF TypeOK, Configs, Ordered, VoteEpochs, Ahead, ReadHandler
  <2>2. ASSUME NEW e \in VoteEpochs, mem.currentEpoch <= e, mem.lastVoteEpoch < e,
               mem' = [mem EXCEPT !.currentEpoch = e, !.lastVoteEpoch = e,
                                  !.votes = @ \cup {<<p, e>>}]
        PROVE  Ahead'
    BY <1>3, <2>2 DEF TypeOK, Configs, Ordered, VoteEpochs, Ahead, ReadHandler
  <2>3. ASSUME NEW e \in VoteEpochs, mem' = [mem EXCEPT !.currentEpoch = Larger(@, e)]
        PROVE  Ahead'
    BY <1>3, <2>3 DEF TypeOK, Configs, Ordered, VoteEpochs, Ahead, Larger, ReadHandler
  <2> QED
    BY <1>3, <2>1, <2>2, <2>3, ReadCases
<1>4. ASSUME NEW p \in Peers, WriteHandler(p) PROVE Ahead'
  BY <1>4 DEF TypeOK, Configs, Ordered, Ahead, WriteHandler
<1>5. CASE BeforeSleep
  BY <1>5 DEF TypeOK, Configs, Ordered, Ahead, BeforeSleep
<1>6. CASE Poll
  BY <1>6 DEF TypeOK, Configs, Ordered, Ahead, Poll
<1>7. CASE ClientSetSlot
  BY <1>7
  DEF TypeOK, Configs, Ordered, Ahead, ClientSetSlot, BumpConfigEpoch, EpochBound,
      Packet
<1>8. CASE ClientOther
  BY <1>8 DEF TypeOK, Configs, Ordered, Ahead, ClientOther
<1>9. CASE EnterBlocked
  BY <1>9 DEF TypeOK, Configs, Ordered, Ahead, EnterBlocked
<1>10. CASE EndIteration
  BY <1>10 DEF TypeOK, Configs, Ordered, Ahead, EndIteration, Packet
<1>11. CASE CrashRestart
  BY <1>11 DEF TypeOK, Configs, Ordered, Ahead, CrashRestart, LoadConfig
<1> QED
  BY <1>1, <1>2, <1>3, <1>4, <1>5, <1>6, <1>7, <1>8, <1>9, <1>10, <1>11, NextCases

\* Without load, a round that writes has begun with a save and reads nothing.
LEMMA CalmStep == TypeOK /\ CalmRounds /\ [Next]_vars => CalmRounds'
<1> SUFFICES ASSUME TypeOK, CalmRounds, [Next]_vars PROVE CalmRounds'
  OBVIOUS
<1> USE BoundAssumption DEF Epochs
<1>1. CASE UNCHANGED vars
  BY <1>1 DEF vars, TypeOK, CalmRounds
<1>2. ASSUME NEW p \in Peers, PeerRequests(p) PROVE CalmRounds'
  BY <1>2 DEF TypeOK, CalmRounds, PeerRequests, EpochBound
<1>3. ASSUME NEW p \in Peers, ReadHandler(p) PROVE CalmRounds'
  BY <1>3 DEF TypeOK, CalmRounds, ReadHandler, ReadRequest, MayVote, Larger, Packet
<1>4. ASSUME NEW p \in Peers, WriteHandler(p) PROVE CalmRounds'
  BY <1>4 DEF TypeOK, CalmRounds, WriteHandler
<1>5. CASE BeforeSleep
  BY <1>5 DEF TypeOK, CalmRounds, BeforeSleep
<1>6. CASE Poll
  BY <1>6 DEF TypeOK, CalmRounds, Poll
<1>7. CASE ClientSetSlot
  BY <1>7 DEF TypeOK, CalmRounds, ClientSetSlot, BumpConfigEpoch, EpochBound, Packet
<1>8. CASE ClientOther
  BY <1>8 DEF TypeOK, CalmRounds, ClientOther
<1>9. CASE EnterBlocked
  BY <1>9 DEF TypeOK, CalmRounds, EnterBlocked
<1>10. CASE EndIteration
  BY <1>10 DEF TypeOK, CalmRounds, EndIteration, Packet
<1>11. CASE CrashRestart
  BY <1>11 DEF TypeOK, CalmRounds, CrashRestart, LoadConfig
<1> QED
  BY <1>1, <1>2, <1>3, <1>4, <1>5, <1>6, <1>7, <1>8, <1>9, <1>10, <1>11, NextCases

\* What is covered stays covered when votes are added and the configEpoch grows.
LEMMA CoveredGrows ==
  ASSUME NEW p, NEW m, NEW c, NEW d, Covered(p, m, c), c.votes \subseteq d.votes,
         m[2] \in Nat, c.configEpoch \in Nat, d.configEpoch \in Nat,
         c.configEpoch <= d.configEpoch
  PROVE  Covered(p, m, d)
  BY DEF Covered

\* A packet has an epoch.
LEMMA PacketEpoch ==
  ASSUME NEW m \in Packets
  PROVE  /\ m[2] \in Epochs /\ m[1] \in {"AUTH_ACK", "PONG"}
         /\ m = <<m[1], m[2]>>
  BY DEF Packets, Packet

\* Packets that were queued before stay covered.
LEMMA OldCovered ==
  ASSUME TypeOK, QueueInv, QueueCovered, mem.votes \subseteq mem'.votes,
         mem'.configEpoch \in Nat, mem.configEpoch <= mem'.configEpoch
  PROVE  \A p \in Peers : \A i \in 1..Len(outq[p]) : Covered(p, outq[p][i], mem')
<1> SUFFICES ASSUME NEW p \in Peers, NEW i \in 1..Len(outq[p])
             PROVE  Covered(p, outq[p][i], mem')
  OBVIOUS
<1>1. outq[p][i] \in Packets /\ Covered(p, outq[p][i], mem)
  BY DEF QueueInv, QueueCovered
<1>2. outq[p][i][2] \in Nat /\ mem.configEpoch \in Nat
  BY <1>1, PacketEpoch, BoundAssumption DEF Epochs, TypeOK, Configs
<1> QED
  BY <1>1, <1>2, CoveredGrows

\* A queue to which a covered packet is added.
LEMMA NewCovered ==
  ASSUME QueueInv, NEW q \in Peers, NEW m \in Packets, Covered(q, m, mem'),
         \A i \in 1..Len(outq[q]) : Covered(q, outq[q][i], mem'),
         outq'[q] = Append(outq[q], m)
  PROVE  \A i \in 1..Len(outq'[q]) : Covered(q, outq'[q][i], mem')
<1>1. outq[q] \in Seq(Packets) /\ Len(outq[q]) \in Nat
  BY DEF QueueInv
<1>2. /\ Len(outq'[q]) = Len(outq[q]) + 1
      /\ \A i \in 1..Len(outq'[q]) : outq'[q][i] = IF i <= Len(outq[q]) THEN outq[q][i] ELSE m
  BY <1>1, AppendPacket
<1> QED
  BY <1>1, <1>2

\* What is queued, memory has.
LEMMA CoveredStep ==
  TypeOK /\ QueueInv /\ Ordered(mem) /\ QueueCovered /\ [Next]_vars
    => QueueCovered'
<1> SUFFICES ASSUME TypeOK, QueueInv, Ordered(mem), QueueCovered, [Next]_vars PROVE
             QueueCovered'
  OBVIOUS
<1> USE BoundAssumption DEF Epochs
<1>1. CASE UNCHANGED vars
  BY <1>1 DEF vars, QueueCovered
<1>2. ASSUME NEW p \in Peers, PeerRequests(p) PROVE QueueCovered'
  BY <1>2 DEF QueueCovered, PeerRequests, EpochBound
<1>3. ASSUME NEW p \in Peers, ReadHandler(p) PROVE QueueCovered'
  <2>1. CASE UNCHANGED <<mem, outq>>
    BY <2>1 DEF QueueCovered
  <2>2. ASSUME NEW e \in VoteEpochs,
               mem' = [mem EXCEPT !.currentEpoch = e, !.lastVoteEpoch = e,
                                  !.votes = @ \cup {<<p, e>>}],
               outq' = [outq EXCEPT ![p] = Append(@, Packet("AUTH_ACK", e))]
        PROVE  QueueCovered'
    <3>1. mem.votes \subseteq mem'.votes /\ <<p, e>> \in mem'.votes
          /\ mem.configEpoch = mem'.configEpoch /\ mem.configEpoch \in Nat
      BY <2>2 DEF TypeOK, Configs
    <3>2. \A q \in Peers : \A i \in 1..Len(outq[q]) : Covered(q, outq[q][i], mem')
      BY <3>1, OldCovered
    <3>3. Covered(p, Packet("AUTH_ACK", e), mem')
      BY <3>1 DEF Covered, Packet
    <3>4. Packet("AUTH_ACK", e) \in Packets
      BY PacketType DEF VoteEpochs
    <3>5. /\ outq'[p] = Append(outq[p], Packet("AUTH_ACK", e))
          /\ \A q \in Peers \ {p} : outq'[q] = outq[q]
      BY <2>2 DEF QueueInv
    <3>6. \A i \in 1..Len(outq'[p]) : Covered(p, outq'[p][i], mem')
      BY <3>2, <3>3, <3>4, <3>5, NewCovered
    <3> QED
      BY <3>2, <3>5, <3>6 DEF QueueCovered
  <2>3. ASSUME NEW e \in VoteEpochs, mem' = [mem EXCEPT !.currentEpoch = Larger(@, e)],
               UNCHANGED outq
        PROVE  QueueCovered'
    <3>1. mem.votes = mem'.votes /\ mem.configEpoch = mem'.configEpoch
      BY <2>3 DEF TypeOK, Configs
    <3> QED
      BY <2>3, <3>1 DEF QueueCovered, Covered
  <2> QED
    BY <1>3, <2>1, <2>2, <2>3, ReadCases
<1>4. ASSUME NEW p \in Peers, WriteHandler(p) PROVE QueueCovered'
  <2>1. PICK n \in 0..Len(outq[p]) :
          \/ outq' = [outq EXCEPT ![p] = SubSeq(@, n + 1, Len(@))]
          \/ outq' = [outq EXCEPT ![p] = <<>>]
    BY <1>4 DEF WriteHandler
  <2>2. Len(outq[p]) \in Nat
    BY DEF QueueInv
  <2>3. \A i \in 1..(Len(outq[p]) - n) : Covered(p, outq[p][i + n], mem)
    BY <2>2 DEF QueueCovered
  <2>4. \A i \in 1..Len(outq'[p]) : Covered(p, outq'[p][i], mem)
    <3>1. CASE outq' = [outq EXCEPT ![p] = <<>>]
      BY <3>1 DEF QueueInv
    <3>2. CASE outq' = [outq EXCEPT ![p] = SubSeq(@, n + 1, Len(@))]
      <4>1. outq'[p] = SubSeq(outq[p], n + 1, Len(outq[p]))
        BY <3>2 DEF QueueInv
      <4>2. Len(outq'[p]) = Len(outq[p]) - n
            /\ \A i \in 1..(Len(outq[p]) - n) : outq'[p][i] = outq[p][i + n]
        BY <4>1, RestOfQueue
      <4> QED
        BY <2>3, <4>2
    <3> QED
      BY <2>1, <3>1, <3>2
  <2>5. \A q \in Peers \ {p} : outq'[q] = outq[q]
    BY <2>1 DEF QueueInv
  <2>6. mem' = mem
    BY <1>4 DEF WriteHandler
  <2> QED
    BY <2>4, <2>5, <2>6 DEF QueueCovered
<1>5. CASE BeforeSleep
  BY <1>5 DEF QueueCovered, BeforeSleep
<1>6. CASE Poll
  BY <1>6 DEF QueueCovered, Poll
<1>7. CASE ClientSetSlot
  <2> DEFINE m == Packet("PONG", BumpConfigEpoch.configEpoch)
  <2>1. /\ mem' = BumpConfigEpoch
        /\ outq' = [q \in Peers |-> Append(outq[q], m)]
    BY <1>7 DEF ClientSetSlot
  <2>2. mem'.votes = mem.votes /\ mem.configEpoch <= mem'.configEpoch
        /\ mem'.configEpoch \in Epochs
    <3>1. mem'.configEpoch = mem.currentEpoch + 1 /\ mem.currentEpoch + 1 \in Epochs
      BY <1>7, <2>1, BumpType
    <3>2. mem'.votes = mem.votes
      BY <2>1 DEF BumpConfigEpoch, TypeOK, Configs
    <3> QED
      BY <3>1, <3>2 DEF Ordered, TypeOK, Configs
  <2>3. m \in Packets /\ \A q \in Peers : Covered(q, m, mem')
    <3>1. m \in Packets
      BY <2>1, <2>2, PacketType
    <3>2. m[1] = "PONG" /\ m[2] = mem'.configEpoch
      BY <2>1 DEF Packet
    <3> HIDE DEF m
    <3> QED
      BY <2>2, <3>1, <3>2 DEF Covered
  <2>4. \A q \in Peers : \A i \in 1..Len(outq[q]) : Covered(q, outq[q][i], mem')
    BY <2>2, OldCovered
  <2> HIDE DEF m
  <2>5. ASSUME NEW q \in Peers PROVE \A i \in 1..Len(outq'[q]) : Covered(q, outq'[q][i], mem')
    <3>1. outq'[q] = Append(outq[q], m)
      BY <2>1
    <3> QED
      BY <2>3, <2>4, <3>1, NewCovered
  <2> QED
    BY <2>5 DEF QueueCovered
<1>8. CASE ClientOther
  BY <1>8 DEF QueueCovered, ClientOther
<1>9. CASE EnterBlocked
  BY <1>9 DEF QueueCovered, EnterBlocked
<1>10. CASE EndIteration
  <2> DEFINE m == Packet("PONG", mem.configEpoch)
  <2>1. m \in Packets /\ \A q \in Peers : Covered(q, m, mem)
    <3>1. mem.configEpoch \in Epochs /\ m \in Packets
      BY PacketType DEF TypeOK, Configs
    <3>2. m[1] = "PONG" /\ m[2] = mem.configEpoch
      BY DEF Packet
    <3> HIDE DEF m
    <3> QED
      BY <3>1, <3>2 DEF Covered
  <2>2. mem' = mem /\ (outq' = outq \/ \E q \in Peers : outq' = [outq EXCEPT ![q] = Append(@, m)])
    BY <1>10 DEF EndIteration
  <2> HIDE DEF m
  <2>3. ASSUME NEW q \in Peers, outq' = [outq EXCEPT ![q] = Append(@, m)] PROVE QueueCovered'
    <3>1. outq'[q] = Append(outq[q], m) /\ \A r \in Peers \ {q} : outq'[r] = outq[r]
      BY <2>3 DEF QueueInv
    <3>2. \A r \in Peers : \A i \in 1..Len(outq[r]) : Covered(r, outq[r][i], mem')
      BY <2>2 DEF QueueCovered
    <3>3. \A i \in 1..Len(outq'[q]) : Covered(q, outq'[q][i], mem')
      BY <2>1, <2>2, <3>1, <3>2, NewCovered
    <3> QED
      BY <3>1, <3>2, <3>3 DEF QueueCovered
  <2> QED
    BY <2>2, <2>3 DEF QueueCovered
<1>11. CASE CrashRestart
  BY <1>11 DEF QueueCovered, CrashRestart
<1> QED
  BY <1>1, <1>2, <1>3, <1>4, <1>5, <1>6, <1>7, <1>8, <1>9, <1>10, <1>11, NextCases

\* Every step keeps the types of all but the queues.
LEMMA StateTypeStep == TypeOK /\ QueueInv /\ Ordered(mem) /\ [Next]_vars => StateType'
<1> SUFFICES ASSUME TypeOK, QueueInv, Ordered(mem), [Next]_vars PROVE StateType'
  OBVIOUS
<1> USE BoundAssumption DEF Epochs
<1>1. CASE UNCHANGED vars
  BY <1>1 DEF vars, TypeOK, StateType
<1>2. ASSUME NEW p \in Peers, PeerRequests(p) PROVE StateType'
  BY <1>2 DEF TypeOK, StateType, PeerRequests, EpochBound
<1>3. ASSUME NEW p \in Peers, ReadHandler(p) PROVE StateType'
  <2>1. mem' \in Configs /\ todo' \in BOOLEAN
    <3>1. CASE UNCHANGED <<mem, todo>>
      BY <3>1 DEF TypeOK
    <3>2. ASSUME NEW e \in VoteEpochs, todo' = TRUE,
                 mem' = [mem EXCEPT !.currentEpoch = e, !.lastVoteEpoch = e,
                                    !.votes = @ \cup {<<p, e>>}]
          PROVE  mem' \in Configs /\ todo' \in BOOLEAN
      <4>1. e \in Epochs /\ <<p, e>> \in Peers \X Epochs
        BY DEF VoteEpochs
      <4>2. mem \in Configs /\ mem.votes \cup {<<p, e>>} \in SUBSET (Peers \X Epochs)
        BY <4>1 DEF TypeOK, Configs
      <4> HIDE DEF Epochs
      <4> QED
        BY <3>2, <4>1, <4>2 DEF Configs
    <3>3. ASSUME NEW e \in VoteEpochs, todo' = todo, mem' = [mem EXCEPT !.currentEpoch = Larger(@, e)]
          PROVE  mem' \in Configs /\ todo' \in BOOLEAN
      BY <3>3 DEF TypeOK, Configs, VoteEpochs, Larger
    <3> QED
      BY <1>3, <3>1, <3>2, <3>3, ReadCases
  <2> QED
    BY <1>3, <2>1 DEF TypeOK, StateType, ReadHandler
<1>4. ASSUME NEW p \in Peers, WriteHandler(p) PROVE StateType'
  <2>1. outq[p] \in Seq(Packets) /\ Len(outq[p]) \in Nat
    BY DEF QueueInv
  <2>2. \A i \in 1..Len(outq[p]) : outq[p][i] \in Packets
    BY <2>1
  <2>3. PICK n \in 0..Len(outq[p]) : wire' = wire \cup { <<p, outq[p][i]>> : i \in 1..n }
    BY <1>4 DEF WriteHandler
  <2>4. wire' \subseteq Peers \X Packets
    BY <2>1, <2>2, <2>3 DEF TypeOK
  <2> QED
    BY <1>4, <2>4 DEF TypeOK, StateType, WriteHandler
<1>5. CASE BeforeSleep
  BY <1>5 DEF TypeOK, StateType, BeforeSleep
<1>6. CASE Poll
  BY <1>6 DEF TypeOK, StateType, Poll
<1>7. CASE ClientSetSlot
  <2>1. mem.currentEpoch + 1 \in Epochs
    BY <1>7, BumpType
  <2>2. mem' \in Configs
    BY <1>7, <2>1 DEF TypeOK, Configs, ClientSetSlot, BumpConfigEpoch
  <2> QED
    BY <1>7, <2>2 DEF TypeOK, StateType, ClientSetSlot
<1>8. CASE ClientOther
  BY <1>8 DEF TypeOK, StateType, ClientOther
<1>9. CASE EnterBlocked
  BY <1>9 DEF TypeOK, StateType, EnterBlocked
<1>10. CASE EndIteration
  BY <1>10 DEF TypeOK, StateType, EndIteration, Packet
<1>11. CASE CrashRestart
  <2>1. crashes' \in 0..MaxCrashes
    BY <1>11 DEF TypeOK, CrashRestart
  <2>2. /\ mem' = disk /\ disk' = disk /\ wire' = wire /\ load' = load /\ loop' = "sleep"
        /\ blocked' = FALSE /\ todo' = FALSE /\ client' = FALSE
        /\ readable' = {} /\ writable' = {}
    BY <1>11 DEF CrashRestart, LoadConfig
  <2> QED
    BY <2>1, <2>2 DEF TypeOK, StateType
<1> QED
  BY <1>1, <1>2, <1>3, <1>4, <1>5, <1>6, <1>7, <1>8, <1>9, <1>10, <1>11, NextCases

\* Every step keeps the types.
LEMMA TypeStep == TypeOK /\ QueueInv /\ Ordered(mem) /\ [Next]_vars => TypeOK'
<1> SUFFICES ASSUME TypeOK, QueueInv, Ordered(mem), [Next]_vars PROVE TypeOK'
  OBVIOUS
<1>1. StateType' /\ QueueInv'
  BY QueueStep, StateTypeStep
<1>2. \A p \in Peers : inq'[p] \in Seq(VoteEpochs) /\ outq'[p] \in Seq(Packets)
  BY <1>1 DEF QueueInv
<1>3. \A p \in Peers : /\ \A i \in DOMAIN inq'[p] : inq'[p][i] \in VoteEpochs
                     /\ \A i \in DOMAIN outq'[p] : outq'[p][i] \in Packets
  BY <1>2, LenProperties, ElementOfSeq
<1>4. VoteEpochs \subseteq Epochs
  BY BoundAssumption DEF VoteEpochs, Epochs
<1> QED
  BY <1>1, <1>3, <1>4 DEF TypeOK, StateType

\* What a write handler sends without load is on disk.
LEMMA SentCovered ==
  ASSUME TypeOK, QueueInv, SaveStaysPending, QueueCovered, CalmRounds, load = {},
         NEW p \in Peers, WriteHandler(p), NEW i \in 1..Len(outq[p])
  PROVE  Covered(p, outq[p][i], disk)
<1>1. Covered(p, outq[p][i], mem)
  BY DEF QueueCovered
<1>2. ~todo
  BY DEF CalmRounds, WriteHandler
<1>3. disk.votes = mem.votes /\ disk.configEpoch = mem.configEpoch
  BY <1>2 DEF SaveStaysPending
<1> QED
  BY <1>1, <1>3 DEF Covered

\* Without load, what has left is on disk, and a save takes nothing back.
LEMMA WireStep ==
  TypeOK /\ QueueInv /\ Ordered(disk) /\ Ahead /\ SaveStaysPending /\ QueueCovered
  /\ CalmRounds /\ WireCovered /\ [Next]_vars
    => WireCovered'
<1> SUFFICES ASSUME TypeOK, QueueInv, Ordered(disk), Ahead, SaveStaysPending,
             QueueCovered, CalmRounds, WireCovered, [Next]_vars PROVE WireCovered'
  OBVIOUS
<1> USE BoundAssumption DEF Epochs
<1>1. CASE UNCHANGED vars
  BY <1>1 DEF vars, WireCovered
<1>2. ASSUME NEW p \in Peers, PeerRequests(p) PROVE WireCovered'
  BY <1>2 DEF WireCovered, PeerRequests, EpochBound
<1>3. ASSUME NEW p \in Peers, ReadHandler(p) PROVE WireCovered'
  BY <1>3 DEF WireCovered, ReadHandler, ReadRequest, MayVote, Larger, Packet
<1>4. ASSUME NEW p \in Peers, WriteHandler(p) PROVE WireCovered'
  <2> SUFFICES ASSUME load = {} PROVE \A w \in wire' : Covered(w[1], w[2], disk)
    BY <1>4 DEF WireCovered, WriteHandler
  <2>1. PICK n \in 0..Len(outq[p]) : wire' = wire \cup { <<p, outq[p][i]>> : i \in 1..n }
    BY <1>4 DEF WriteHandler
  <2>2. Len(outq[p]) \in Nat
    BY DEF QueueInv
  <2>3. \A i \in 1..n : Covered(p, outq[p][i], disk)
    BY <1>4, <2>2, SentCovered
  <2> QED
    BY <2>1, <2>3 DEF WireCovered
<1>5. CASE BeforeSleep
  <2> SUFFICES ASSUME load = {}, NEW w \in wire PROVE Covered(w[1], w[2], disk')
    BY <1>5 DEF WireCovered, BeforeSleep
  <2>1. Covered(w[1], w[2], disk) /\ w[2] \in Packets
    BY DEF WireCovered, TypeOK
  <2>2. w[2][2] \in Nat
    BY <2>1, PacketEpoch
  <2>3. disk' = disk \/ disk' = mem
    BY <1>5 DEF BeforeSleep
  <2>4. /\ disk.votes \subseteq mem.votes /\ disk.configEpoch <= mem.configEpoch
        /\ disk.configEpoch \in Nat /\ mem.configEpoch \in Nat
    BY DEF Ahead, TypeOK, Configs
  <2>5. Covered(w[1], w[2], mem)
    BY <2>1, <2>2, <2>4, CoveredGrows
  <2> QED
    BY <2>1, <2>3, <2>5
<1>6. CASE Poll
  BY <1>6 DEF WireCovered, Poll
<1>7. CASE ClientSetSlot
  BY <1>7 DEF WireCovered, ClientSetSlot, BumpConfigEpoch, EpochBound, Packet
<1>8. CASE ClientOther
  BY <1>8 DEF WireCovered, ClientOther
<1>9. CASE EnterBlocked
  BY <1>9 DEF WireCovered, EnterBlocked
<1>10. CASE EndIteration
  BY <1>10 DEF WireCovered, EndIteration, Packet
<1>11. CASE CrashRestart
  BY <1>11 DEF WireCovered, CrashRestart, LoadConfig
<1> QED
  BY <1>1, <1>2, <1>3, <1>4, <1>5, <1>6, <1>7, <1>8, <1>9, <1>10, <1>11, NextCases

\* The initial state satisfies the invariant.
LEMMA InitInv == Init => IInv
<1> SUFFICES ASSUME Init PROVE IInv
  OBVIOUS
<1> USE BoundAssumption, LoadAssumption DEF Init, FirstConfig, Epochs
<1>1. QueueInv
  <2>1. <<>> \in Seq(VoteEpochs) /\ <<>> \in Seq(Packets)
    BY EmptySeq
  <2> QED
    BY <2>1 DEF QueueInv
<1>2. TypeOK
  <2>1. FirstConfig \in Configs
    BY DEF Configs
  <2>2. \A p \in Peers : inq[p] \in Seq(VoteEpochs) /\ outq[p] \in Seq(Packets)
    BY <1>1 DEF QueueInv
  <2>3. \A p \in Peers : /\ \A i \in DOMAIN inq[p] : inq[p][i] \in VoteEpochs
                       /\ \A i \in DOMAIN outq[p] : outq[p][i] \in Packets
    BY <2>2, LenProperties, ElementOfSeq
  <2>4. VoteEpochs \subseteq Epochs
    BY DEF VoteEpochs
  <2>5. StateType
    <3>1. /\ load \in Loads /\ loop = "sleep" /\ wire = {} /\ crashes = 0
          /\ blocked = FALSE /\ client = FALSE /\ todo = FALSE
          /\ readable = {} /\ writable = {} /\ mem \in Configs /\ disk \in Configs
      BY <2>1
    <3>2. crashes \in 0..MaxCrashes /\ wire \subseteq Peers \X Packets
      BY <3>1
    <3> HIDE DEF Init, FirstConfig
    <3> HIDE LoadAssumption
    <3> QED
      BY <3>1, <3>2, Zenon DEF StateType
  <2> HIDE DEF Init
  <2> QED
    BY <2>3, <2>4, <2>5 DEF TypeOK, StateType
<1>3. Ordered(mem) /\ Ordered(disk) /\ Ahead /\ SaveStaysPending
  BY DEF Ordered, Ahead, SaveStaysPending
<1>4. QueueCovered /\ CalmRounds /\ WireCovered
  BY DEF QueueCovered, CalmRounds, WireCovered
<1> QED
  BY <1>1, <1>2, <1>3, <1>4 DEF IInv

\* Every step keeps the invariant.
LEMMA NextInv == IInv /\ [Next]_vars => IInv'
  BY TypeStep, QueueStep, OrderedMemStep, OrderedDiskStep, AheadStep, SaveStep, CoveredStep,
     CalmStep, WireStep
  DEF IInv

(***************************************************************************)
(* Types, queues and both copies of the configuration are as declared, for *)
(* any peers, any load and any number of crashes.                          *)
(***************************************************************************)
THEOREM TypeCorrect == Spec => []TypeOK
<1>1. IInv => TypeOK
  BY DEF IInv
<1> QED
  BY <1>1, InitInv, NextInv, PTL DEF Spec

(***************************************************************************)
(* clusterDoBeforeSleep and clusterBeforeSleep: what is not on disk yet is *)
(* still to be saved, under any load.                                      *)
(***************************************************************************)
THEOREM NothingForgotten == Spec => []SaveStaysPending
<1>1. IInv => SaveStaysPending
  BY DEF IInv
<1> QED
  BY <1>1, InitInv, NextInv, PTL DEF Spec

(***************************************************************************)
(* clusterSendFailoverAuthIfNeeded: without load, the AUTH_ACKs of a node  *)
(* never give two candidates a vote in one epoch, however often it crashes.*)
(***************************************************************************)
THEOREM SingleVoteOnWire == Spec => []CalmVotesOnce
<1>1. IInv => CalmVotesOnce
  <2> SUFFICES ASSUME IInv, load = {}, NEW v \in wire, NEW w \in wire,
                      v[2][1] = "AUTH_ACK", v[2] = w[2]
               PROVE  v[1] = w[1]
    BY DEF CalmVotesOnce, OneVoteOnWire
  <2>1. <<v[1], v[2][2]>> \in disk.votes /\ <<w[1], v[2][2]>> \in disk.votes
    BY DEF IInv, WireCovered, Covered
  <2>2. \A a, b \in disk.votes : a[2] = b[2] => a = b
    BY DEF IInv, Ordered
  <2> QED
    BY <2>1, <2>2
<1> QED
  BY <1>1, InitInv, NextInv, PTL DEF Spec

\* A save records votes in later epochs only.
LEMMA SavePersists ==
  ASSUME IInv, BeforeSleep, todo, ~blocked PROVE Durable!Persist
<1> DEFINE new == mem.votes \ disk.votes
<1>1. disk' = mem /\ load' = load /\ wire' = wire
  BY DEF BeforeSleep
<1>2. new \in SUBSET (Peers \X (1..MaxEpoch))
  BY DEF IInv, Ordered, VoteEpochs
<1>3. \A v \in new : \A b \in disk.votes : b[2] < v[2]
  <2> SUFFICES ASSUME NEW v \in new, NEW b \in disk.votes PROVE b[2] < v[2]
    OBVIOUS
  <2>1. b[2] <= disk.lastVoteEpoch /\ disk.lastVoteEpoch < v[2]
    BY DEF IInv, Ordered, Ahead
  <2>2. b[2] \in Nat /\ v[2] \in Nat /\ disk.lastVoteEpoch \in Nat
    BY BoundAssumption DEF IInv, Ordered, VoteEpochs, TypeOK, Configs, Epochs
  <2> QED
    BY <2>1, <2>2
<1>4. \A v, w \in new : v[2] = w[2] => v = w
  BY DEF IInv, Ordered
<1>5. disk'.votes = disk.votes \cup new
  BY <1>1 DEF IInv, Ahead
<1>6. disk'.configEpoch \in disk.configEpoch..MaxEpoch
  BY <1>1, BoundAssumption DEF IInv, Ahead, TypeOK, Configs, Epochs
<1> HIDE DEF new
<1>7. \E S \in SUBSET (Peers \X (1..MaxEpoch)) :
        /\ \A v \in S : /\ \A b \in disk.votes : b[2] < v[2]
                       /\ \A w \in S : v[2] = w[2] => v = w
        /\ disk'.votes = disk.votes \cup S
  BY <1>2, <1>3, <1>4, <1>5
<1> QED
  BY <1>1, <1>6, <1>7 DEF Durable!Persist

\* Packets that leave without load say what is on disk.
LEMMA WriteSends ==
  ASSUME IInv, load = {}, NEW p \in Peers, WriteHandler(p) PROVE Durable!Send
<1>1. PICK n \in 0..Len(outq[p]) : wire' = wire \cup { <<p, outq[p][i]>> : i \in 1..n }
  BY DEF WriteHandler
<1>2. load' = load /\ disk' = disk
  BY DEF WriteHandler
<1> DEFINE packets == { <<p, outq[p][i]>> : i \in 1..n }
<1>3. Len(outq[p]) \in Nat /\ \A i \in 1..n : outq[p][i] \in Packets
  BY DEF IInv, QueueInv
<1>4. \A i \in 1..n : Covered(p, outq[p][i], disk)
  BY <1>3, SentCovered DEF IInv
<1>5. \A i \in 1..n : /\ outq[p][i] = <<outq[p][i][1], outq[p][i][2]>>
                    /\ outq[p][i][1] \in {"AUTH_ACK", "PONG"} /\ outq[p][i][2] \in 0..MaxEpoch
  BY <1>3, PacketEpoch DEF Epochs
<1>6. \A i \in 1..n : outq[p][i][1] = "AUTH_ACK" => outq[p][i][2] \in 1..MaxEpoch
  BY <1>4 DEF Covered, IInv, Ordered, VoteEpochs
<1>7. ASSUME NEW i \in 1..n
      PROVE  outq[p][i] \in {"AUTH_ACK"} \X (1..MaxEpoch) \cup {"PONG"} \X (0..MaxEpoch)
  <2>1. PICK a, b : outq[p][i] = <<a, b>> /\ a \in {"AUTH_ACK", "PONG"} /\ b \in 0..MaxEpoch
                    /\ (a = "AUTH_ACK" => b \in 1..MaxEpoch)
    BY <1>5, <1>6
  <2>2. <<a, b>> \in {"AUTH_ACK"} \X (1..MaxEpoch) \cup {"PONG"} \X (0..MaxEpoch)
    BY <2>1
  <2> QED
    BY <2>1, <2>2
<1>8. packets \in SUBSET ({p} \X ({"AUTH_ACK"} \X (1..MaxEpoch) \cup {"PONG"} \X (0..MaxEpoch)))
  BY <1>7
<1>9. /\ \A m \in packets : m[2][1] = "AUTH_ACK" => <<p, m[2][2]>> \in disk.votes
      /\ \A m \in packets : m[2][1] = "PONG" => m[2][2] <= disk.configEpoch
  <2>1. ASSUME NEW m \in packets
        PROVE  /\ m[2][1] = "AUTH_ACK" => <<p, m[2][2]>> \in disk.votes
               /\ m[2][1] = "PONG" => m[2][2] <= disk.configEpoch
    <3>1. PICK i \in 1..n : m = <<p, outq[p][i]>>
      OBVIOUS
    <3>2. m[2] = outq[p][i]
      BY <3>1
    <3> QED
      BY <1>4, <3>2 DEF Covered
  <2> QED
    BY <2>1
<1> QED
  BY <1>1, <1>2, <1>8, <1>9 DEF Durable!Send

\* Every step is a step of DurableVoter or leaves its state alone.
LEMMA StepDurable == IInv /\ [Next]_vars => [Durable!Next]_(Durable!Promise)
<1> SUFFICES ASSUME IInv, [Next]_vars PROVE Durable!Next \/ UNCHANGED Durable!Promise
  OBVIOUS
<1>1. CASE UNCHANGED vars
  BY <1>1 DEF vars, Durable!Promise
<1>2. ASSUME NEW p \in Peers, WriteHandler(p)
      PROVE  Durable!Next \/ UNCHANGED Durable!Promise
  <2>1. CASE load = {}
    BY <1>2, <2>1, WriteSends DEF Durable!Next
  <2>2. CASE load # {}
    BY <1>2, <2>2 DEF WriteHandler, Durable!Promise
  <2> QED
    BY <2>1, <2>2
<1>3. CASE BeforeSleep
  <2>1. CASE todo /\ ~blocked
    BY <1>3, <2>1, SavePersists DEF Durable!Next
  <2>2. CASE ~(todo /\ ~blocked)
    BY <1>3, <2>2 DEF BeforeSleep, Durable!Promise
  <2> QED
    BY <2>1, <2>2
<1>4. ASSUME NEW p \in Peers, PeerRequests(p) \/ ReadHandler(p)
      PROVE  UNCHANGED Durable!Promise
  BY <1>4 DEF PeerRequests, ReadHandler, Durable!Promise
<1>5. CASE Poll \/ ClientSetSlot \/ ClientOther \/ EnterBlocked \/ EndIteration \/ CrashRestart
  BY <1>5
  DEF Poll, ClientSetSlot, ClientOther, EnterBlocked, EndIteration, CrashRestart,
              Durable!Promise
<1> QED
  BY <1>1, <1>2, <1>3, <1>4, <1>5, NextCases

(***************************************************************************)
(* The event loop implements DurableVoter: what a packet says is on disk   *)
(* first (without load), votes are saved in ever greater epochs, and       *)
(* nothing is taken back, for any peers and any number of crashes.         *)
(***************************************************************************)
THEOREM KeepsPromise == Spec => ImplementsDurableVoter
<1>1. Init => Durable!Init
  BY DEF Init, FirstConfig, Durable!Init
<1> QED
  BY <1>1, InitInv, NextInv, StepDurable, PTL
  DEF Spec, ImplementsDurableVoter, Durable!Spec
=============================================================================
