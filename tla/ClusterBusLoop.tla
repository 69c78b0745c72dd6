--------------------------- MODULE ClusterBusLoop ---------------------------
(***************************************************************************)
(* One cluster node seen from inside its event loop (ae.c): beforeSleep    *)
(* saves nodes.conf, the poll reports which sockets are readable and which *)
(* are writable, and the handlers run one after the other until the next   *)
(* beforeSleep. A vote or a new configEpoch is written to memory and       *)
(* queued on a link by a read handler; CLUSTER_TODO_SAVE_CONFIG asks the   *)
(* next clusterBeforeSleep to save it. The question is whether a packet    *)
(* can reach the wire before the save.                                     *)
(*                                                                         *)
(* A request of peer p arrives on the inbound link of p, the answer leaves *)
(* on node->link, another connection: the write barrier of                 *)
(* clusterSendMessage, which orders the two handlers of one connection,    *)
(* says nothing about them.                                                *)
(***************************************************************************)
EXTENDS Naturals, Sequences

CONSTANTS
  Peers,         \* other nodes, candidates in an election
  MaxEpoch,      \* bound on the epochs
  MaxLoadEpoch,  \* the same for a node under load
  MaxQueue,      \* bound on the requests in a socket and on the pings in a queue
  MaxCrashes,    \* bound on the crashes of the node
  Loads          \* the kinds of load the node may be under; see load

ASSUME BoundAssumption == MaxEpoch \in Nat /\ MaxLoadEpoch \in 0..MaxEpoch
                          /\ MaxQueue \in Nat /\ MaxCrashes \in Nat
ASSUME LoadAssumption == Loads \subseteq SUBSET {"overlap", "scripts"}

VARIABLES
  load,       \* "overlap": a poll may report readable and writable sockets together;
              \* "scripts": a slow script may serve events from inside a handler
  loop,       \* "sleep": beforeSleep is next; "poll"; "events": handlers run
  blocked,    \* ProcessingEventsWhileBlocked
  readable,   \* inbound links the poll reported and not handled yet
  client,     \* a client with a command, reported and not handled yet
  writable,   \* links reported writable and not handled yet
  todo,       \* CLUSTER_TODO_SAVE_CONFIG is set
  mem,        \* the epochs in memory; votes is the history they stand for
  disk,       \* the same, as nodes.conf holds them
  inq,        \* inq[p]: epochs of the AUTH_REQUESTs p has sent and not read yet
  outq,       \* outq[p]: send_msg_queue of node->link of p
  wire,       \* packets that left
  crashes

vars == <<load, loop, blocked, readable, client, writable, todo, mem, disk, inq, outq,
          wire, crashes>>

Epochs == 0..MaxEpoch
EpochBound == IF load = {} THEN MaxEpoch ELSE MaxLoadEpoch
Packet(type, epoch) == <<type, epoch>>
Packets == { Packet(t, e) : t \in {"AUTH_ACK", "PONG"}, e \in Epochs }
Configs == [currentEpoch : Epochs, lastVoteEpoch : Epochs, configEpoch : Epochs,
            votes : SUBSET (Peers \X Epochs)]
FirstConfig == [currentEpoch |-> 0, lastVoteEpoch |-> 0, configEpoch |-> 0, votes |-> {}]
Larger(a, b) == IF a < b THEN b ELSE a

Init ==
  /\ load \in Loads
  /\ loop = "sleep" /\ blocked = FALSE /\ todo = FALSE
  /\ readable = {} /\ client = FALSE /\ writable = {}
  /\ mem = FirstConfig /\ disk = FirstConfig
  /\ inq = [p \in Peers |-> <<>>]
  /\ outq = [p \in Peers |-> <<>>]
  /\ wire = {}
  /\ crashes = 0

\* A peer asks for a vote: the request waits in the socket.
PeerRequests(p) ==
  /\ Len(inq[p]) < MaxQueue
  /\ \E e \in 1..EpochBound : inq' = [inq EXCEPT ![p] = Append(@, e)]
  /\ UNCHANGED <<load, loop, blocked, readable, client, writable, todo, mem, disk, outq, wire,
                 crashes>>

\* Mutant: the flag is cleared and nothing is written.
BeforeSleepNoSave ==
  /\ loop = "sleep"
  /\ loop' = "poll"
  /\ todo' = (todo /\ blocked)
  /\ UNCHANGED <<load, blocked, readable, client, writable, mem, disk, inq, outq, wire, crashes>>

\* Mutant: the flag is cleared even if beforeSleep returns early.
BeforeSleepClearsFirst ==
  /\ loop = "sleep"
  /\ loop' = "poll"
  /\ disk' = IF todo /\ ~blocked THEN mem ELSE disk
  /\ todo' = FALSE
  /\ UNCHANGED <<load, blocked, readable, client, writable, mem, inq, outq, wire, crashes>>

\* beforeSleep: clusterBeforeSleep saves the configuration if it was asked for.
\* Called from processEventsWhileBlocked it returns before that. The node is a master:
\* the failover handlers clusterBeforeSleep runs before the save are those of a replica,
\* whose requests may leave with an epoch that is not saved yet (ClusterElection has it:
\* RequestAuth saves nothing, and CrashRestart may come back with an older epoch).
BeforeSleep ==
  /\ loop = "sleep"
  /\ loop' = "poll"
  /\ IF blocked
     THEN UNCHANGED <<todo, disk>>
     ELSE /\ disk' = IF todo THEN mem ELSE disk
          /\ todo' = FALSE
  /\ UNCHANGED <<load, blocked, readable, client, writable, mem, inq, outq, wire, crashes>>

\* aeApiPoll: any of the sockets with data and of the links with a write handler.
Poll ==
  /\ loop = "poll"
  /\ readable' \in SUBSET { p \in Peers : inq[p] # <<>> }
  /\ writable' \in SUBSET { p \in Peers : outq[p] # <<>> }
  /\ client' \in BOOLEAN
  /\ "overlap" \notin load => writable' = {} \/ (readable' = {} /\ ~client')
  /\ loop' = "events"
  /\ UNCHANGED <<load, blocked, todo, mem, disk, inq, outq, wire, crashes>>

\* What clusterSendFailoverAuthIfNeeded asks of the epochs of a request.
MayVote(e) ==
  /\ e >= mem.currentEpoch
  /\ mem.lastVoteEpoch # Larger(mem.currentEpoch, e)

\* An AUTH_REQUEST is processed: the header raises currentEpoch; a vote is
\* recorded, a save is asked for and the AUTH_ACK is queued on node->link.
ReadRequest(p, e) ==
  LET raised == [mem EXCEPT !.currentEpoch = Larger(@, e)] IN
  \/ /\ MayVote(e)
     /\ mem' = [raised EXCEPT !.lastVoteEpoch = e, !.votes = @ \cup {<<p, e>>}]
     /\ todo' = TRUE
     /\ outq' = [outq EXCEPT ![p] = Append(@, Packet("AUTH_ACK", e))]
  \/ /\ ~MayVote(e)
     /\ mem' = raised
     /\ UNCHANGED <<todo, outq>>

\* clusterReadHandler takes one request from the socket. It returns when the
\* socket is drained, or frees the link with what it held on an I/O error.
ReadHandler(p) ==
  /\ loop = "events" /\ p \in readable
  /\ \/ /\ ReadRequest(p, Head(inq[p]))
        /\ inq' = [inq EXCEPT ![p] = Tail(@)]
        /\ readable' = IF Len(inq[p]) = 1 THEN readable \ {p} ELSE readable
     \/ /\ inq' = [inq EXCEPT ![p] = <<>>]
        /\ readable' = readable \ {p}
        /\ UNCHANGED <<mem, todo, outq>>
  /\ UNCHANGED <<load, loop, blocked, client, writable, disk, wire, crashes>>

\* clusterWriteHandler: the first packets of the queue go out, in order; on an
\* I/O error the link is freed and the rest of the queue is dropped.
WriteHandler(p) ==
  /\ loop = "events" /\ p \in writable
  /\ \E n \in 0..Len(outq[p]) :
       /\ wire' = wire \cup { <<p, outq[p][i]>> : i \in 1..n }
       /\ \/ outq' = [outq EXCEPT ![p] = SubSeq(@, n + 1, Len(@))]
          \/ outq' = [outq EXCEPT ![p] = <<>>]
  /\ writable' = writable \ {p}
  /\ UNCHANGED <<load, loop, blocked, readable, client, todo, mem, disk, inq, crashes>>

\* Mutant: the epoch is incremented once more on its way into configEpoch.
BumpTwice ==
  [mem EXCEPT !.currentEpoch = @ + 1, !.configEpoch = mem.currentEpoch + 2]

\* clusterBumpConfigEpochWithoutConsensus, when another node has the greatest
\* configEpoch.
BumpConfigEpoch ==
  [mem EXCEPT !.currentEpoch = @ + 1, !.configEpoch = mem.currentEpoch + 1]

\* CLUSTER SETSLOT NODE closes an import: the node takes a new configEpoch
\* without consensus, asks for a save and sends a PONG to everyone.
ClientSetSlot ==
  /\ loop = "events" /\ client /\ ~blocked
  /\ mem.currentEpoch < EpochBound
  /\ mem' = BumpConfigEpoch
  /\ todo' = TRUE
  /\ outq' = [p \in Peers |-> Append(outq[p], Packet("PONG", BumpConfigEpoch.configEpoch))]
  /\ client' = FALSE
  /\ UNCHANGED <<load, loop, blocked, readable, writable, disk, inq, wire, crashes>>

\* A client command without effect on the epochs.
ClientOther ==
  /\ loop = "events" /\ client
  /\ client' = FALSE
  /\ UNCHANGED <<load, loop, blocked, readable, writable, todo, mem, disk, inq, outq, wire,
                 crashes>>

\* The command is a script past its time limit: its handler serves events with
\* processEventsWhileBlocked, which polls anew into the same array.
EnterBlocked ==
  /\ "scripts" \in load
  /\ loop = "events" /\ client /\ ~blocked
  /\ blocked' = TRUE
  /\ client' = FALSE
  /\ loop' = "sleep"
  /\ UNCHANGED <<load, readable, writable, todo, mem, disk, inq, outq, wire, crashes>>

\* All reported events are handled. Inside a script the next round follows, or
\* the script goes on to its end; otherwise clusterCron may ping a peer and the
\* loop starts over.
EndIteration ==
  /\ loop = "events" /\ readable = {} /\ writable = {} /\ ~client
  /\ IF blocked
     THEN /\ \/ loop' = "sleep" /\ UNCHANGED blocked
             \/ blocked' = FALSE /\ UNCHANGED loop
          /\ UNCHANGED outq
     ELSE /\ loop' = "sleep"
          /\ \/ UNCHANGED outq
             \/ \E p \in Peers :
                  /\ Len(outq[p]) < MaxQueue
                  /\ outq' = [outq EXCEPT ![p] = Append(@, Packet("PONG", mem.configEpoch))]
          /\ UNCHANGED blocked
  /\ UNCHANGED <<load, readable, client, writable, todo, mem, disk, inq, wire, crashes>>

\* Mutant: lastVoteEpoch is not read back from the "vars" line.
LoadConfigNoVote == [disk EXCEPT !.lastVoteEpoch = 0]

\* clusterLoadConfig: what a restarted process starts from.
LoadConfig == disk

\* The process dies at any point between two handlers and comes back from
\* nodes.conf; its connections and queues are gone.
CrashRestart ==
  /\ crashes < MaxCrashes
  /\ crashes' = crashes + 1
  /\ mem' = LoadConfig
  /\ loop' = "sleep" /\ blocked' = FALSE /\ todo' = FALSE
  /\ readable' = {} /\ client' = FALSE /\ writable' = {}
  /\ inq' = [p \in Peers |-> <<>>]
  /\ outq' = [p \in Peers |-> <<>>]
  /\ UNCHANGED <<load, disk, wire>>

Next ==
  \/ \E p \in Peers : \/ PeerRequests(p)
                      \/ ReadHandler(p)
                      \/ WriteHandler(p)
  \/ BeforeSleep
  \/ Poll
  \/ ClientSetSlot
  \/ ClientOther
  \/ EnterBlocked
  \/ EndIteration
  \/ CrashRestart

Spec == Init /\ [][Next]_vars
-----------------------------------------------------------------------------
(***************************************************************************)
(* Type correctness of the loop, the two copies of the configuration and   *)
(* the queues.                                                             *)
(***************************************************************************)
TypeOK ==
  /\ load \in Loads
  /\ loop \in {"sleep", "poll", "events"}
  /\ blocked \in BOOLEAN /\ client \in BOOLEAN /\ todo \in BOOLEAN
  /\ readable \subseteq Peers /\ writable \subseteq Peers
  /\ mem \in Configs /\ disk \in Configs
  /\ \A p \in Peers : /\ \A i \in DOMAIN inq[p] : inq[p][i] \in Epochs
                      /\ \A i \in DOMAIN outq[p] : outq[p][i] \in Packets
  /\ wire \subseteq Peers \X Packets
  /\ crashes \in 0..MaxCrashes

(***************************************************************************)
(* No packet shows a configEpoch that a crash could still take back:       *)
(* "Persist the configuration on disk before sending packets with the new  *)
(* configuration" (clusterBumpConfigEpochWithoutConsensus).                *)
(***************************************************************************)
PersistBeforeSend ==
  \A w \in wire : w[2][1] = "PONG" => w[2][2] <= disk.configEpoch

(***************************************************************************)
(* The AUTH_ACKs that left the node, before and after its crashes, never   *)
(* give two candidates a vote in one epoch ("I already voted for this      *)
(* epoch?", clusterSendFailoverAuthIfNeeded).                              *)
(***************************************************************************)
OneVoteOnWire ==
  \A v, w \in wire :
    v[2][1] = "AUTH_ACK" /\ v[2] = w[2] => v[1] = w[1]

(***************************************************************************)
(* The same for a node that is under no load: neither a poll that reports  *)
(* both kinds of sockets nor a script past its time limit comes between a  *)
(* vote and the clusterBeforeSleep that saves it.                          *)
(***************************************************************************)
CalmVotesOnce == load = {} => OneVoteOnWire

(***************************************************************************)
(* A vote or a configEpoch that is not on disk yet is never forgotten: a   *)
(* save is still pending, however scripts, polls and handlers interleave   *)
(* (clusterDoBeforeSleep, clusterBeforeSleep).                             *)
(***************************************************************************)
SaveStaysPending ==
  todo \/ /\ disk.votes = mem.votes
          /\ disk.lastVoteEpoch = mem.lastVoteEpoch
          /\ disk.configEpoch = mem.configEpoch

(***************************************************************************)
(* The node keeps the promise of DurableVoter: what nodes.conf holds plays *)
(* the part of the durable state. Under load the half of the promise that  *)
(* is about the disk is kept, the half about the packets is not claimed.   *)
(***************************************************************************)
Durable == INSTANCE DurableVoter
             WITH ballots <- disk.votes, config <- disk.configEpoch,
                  wire <- IF load = {} THEN wire ELSE {}
ImplementsDurableVoter == Durable!Spec
=============================================================================
