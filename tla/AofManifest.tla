----------------------------- MODULE AofManifest -----------------------------
(***************************************************************************)
(* The multi part append only file (aof.c): a BASE file, INCR files and    *)
(* the manifest that lists them, through rewrites, AOF switched off and on *)
(* at run time, failing system calls, and crashes between any two steps    *)
(* that change the disk. appendfsync is "always": a flush is a write and   *)
(* an fsync, and a power failure may cut it short.                         *)
(*                                                                         *)
(* The dataset is the sequence of writes that made it; the file of a       *)
(* rewrite holds the dataset of the fork. Operations on the directory and  *)
(* the atomic replacement of the manifest are on disk when they return;    *)
(* the call that replaces the manifest may still report a failure then.    *)
(***************************************************************************)
EXTENDS Naturals, Sequences, SequencesExt

CONSTANTS
  MaxWrites,    \* bound on the writes of clients
  MaxRewrites,  \* bound on the rewrites that are asked for
  MaxSwitches,  \* bound on the times AOF is switched off
  MaxFaults,    \* bound on failing calls and crashes
  OffRewrites,  \* BGREWRITEAOF may run while AOF is off
  DirSyncFails  \* the fsync of the directory may fail once the manifest is replaced

ASSUME BoundAssumption ==
  /\ {MaxWrites, MaxRewrites, MaxSwitches, MaxFaults} \subseteq Nat
  /\ OffRewrites \in BOOLEAN /\ DirSyncFails \in BOOLEAN

VARIABLES
  up,        \* the server runs
  aof,       \* aof_state: "off", "on" or "wait" (AOF_WAIT_REWRITE)
  db,        \* the dataset; of a server that is down, its last one
  acked,     \* the writes clients have been told are safe
  buf,       \* aof_buf
  fd,        \* the file aof_fd writes to, or NoFd
  am,        \* aof_manifest in memory
  child,     \* the rewrite child and the dataset it saves, or NoChild
  disk,      \* the AOF directory: files, manifest, and an AOF of an old version
  writes, rewrites, switches, faults

vars == <<up, aof, db, acked, buf, fd, am, child, disk, writes, rewrites, switches, faults>>
bounds == <<writes, rewrites, switches, faults>>

\* File names carry their sequence number. An upgraded AOF keeps its name.
Base(k) == <<"base", k>>
Incr(k) == <<"incr", k>>
OldName == <<"old", 1>>
NoBase == <<"base", 0>>
TempIncr == <<"temp", 0>>
NoFd == <<"none", 0>>
Unlinked == <<"unlinked", 0>>

File(data) == [data |-> data, torn |-> FALSE]
NoFile == [data |-> <<>>, torn |-> TRUE]
NoChild == [saves |-> FALSE, data |-> <<>>]
Child == [saves |-> TRUE, data |-> db]
NoManifest == [base |-> NoBase, incr |-> <<>>, hist |-> {}, bseq |-> 0, iseq |-> 0]

\* The server has never been started, or was of a version with a single AOF.
Init ==
  /\ up = FALSE /\ aof = "on" /\ buf = <<>> /\ fd = NoFd
  /\ am = NoManifest /\ child = NoChild
  /\ db \in {<<>>, <<0>>} /\ acked = db
  /\ disk = [files |-> <<>>, am |-> NoManifest,
             old |-> IF db = <<>> THEN NoFile ELSE File(db)]
  /\ writes = 0 /\ rewrites = 0 /\ switches = 0 /\ faults = 0

Fault == faults < MaxFaults /\ faults' = faults + 1

\* What a step leaves on disk.
Put(d, name, f) ==
  [d EXCEPT !.files = [n \in DOMAIN @ \cup {name} |-> IF n = name THEN f ELSE @[n]]]
Unlink(d, names) ==
  [d EXCEPT !.files = [n \in DOMAIN @ \ names |-> @[n]]]
Rename(d, from, to) == Unlink(Put(d, to, d.files[from]), {from})
Persist(d, m) == [d EXCEPT !.am = m]

\* What writeAofManifestFile may leave on disk when it fails: the manifest as it was,
\* or the new one, when rename(2) was done and only the fsync of the directory failed.
FailedPersist(d, m) == {d} \cup (IF DirSyncFails THEN {Persist(d, m)} ELSE {})

\* aofLoadManifestFromFile: the sequence numbers are those of the listed files.
Read(m) ==
  [m EXCEPT !.bseq = m.base[2], !.iseq = IF m.incr = <<>> THEN 0 ELSE Last(m.incr)[2]]
-----------------------------------------------------------------------------
(* Writing.                                                                *)

\* call and feedAppendOnlyFile.
Write ==
  /\ up /\ writes < MaxWrites
  /\ writes' = writes + 1
  /\ db' = Append(db, writes + 1)
  /\ buf' = IF aof = "on" \/ (aof = "wait" /\ child # NoChild)
            THEN Append(buf, writes + 1) ELSE buf
  /\ UNCHANGED <<up, aof, acked, fd, am, child, disk, rewrites, switches, faults>>

\* flushAppendOnlyFile: the buffer is in the file, if the file still has a name.
Flushed ==
  IF buf = <<>> \/ fd \notin DOMAIN disk.files THEN disk
  ELSE [disk EXCEPT !.files[fd].data = @ \o buf]
AckedByFlush == IF aof = "on" THEN db ELSE acked

\* beforeSleep flushes the buffer before the replies are sent.
Flush ==
  /\ up /\ aof # "off" /\ buf # <<>>
  /\ disk' = Flushed /\ buf' = <<>>
  /\ acked' = AckedByFlush
  /\ UNCHANGED <<up, aof, db, fd, am, child, bounds>>
-----------------------------------------------------------------------------
(* Crashes.                                                                *)

\* The server is gone and has left d behind.
CrashWith(d) ==
  /\ Fault
  /\ up' = FALSE /\ disk' = d
  /\ aof' = "on" /\ buf' = <<>> /\ fd' = NoFd /\ am' = NoManifest /\ child' = NoChild
  /\ UNCHANGED <<db, acked, writes, rewrites, switches>>

Crash == up /\ CrashWith(disk)

\* The power fails, or a write fails and the server exits: a part of the buffer is
\* in the file, the last record of it cut short.
CrashInFlush ==
  /\ up /\ aof # "off" /\ buf # <<>> /\ fd \in DOMAIN disk.files
  /\ \E n \in 0..Len(buf), torn \in BOOLEAN :
       /\ torn => n < Len(buf)
       /\ CrashWith([disk EXCEPT !.files[fd] =
                       [data |-> @.data \o SubSeq(buf, 1, n), torn |-> torn]])
-----------------------------------------------------------------------------
(* Starting a rewrite.                                                     *)

\* Mutant: the new INCR file is opened without O_TRUNC.
NewIncrKept(d, name) == IF name \in DOMAIN d.files THEN d ELSE Put(d, name, File(<<>>))

\* openNewIncrAofForAppend creates the file it goes on with.
NewIncr(d, name) == Put(d, name, File(<<>>))

\* getNewIncrAofName.
NextIncr(m) == Incr(m.iseq + 1)
WithNewIncr(m) == [m EXCEPT !.incr = Append(@, NextIncr(m)), !.iseq = @ + 1]

\* flushAppendOnlyFile and openNewIncrAofForAppend in AOF state s: the steps that
\* change the disk, what it is after a failure, and the manifest and the file the
\* server goes on with after a success.
Opening(s) ==
  CASE s = "on" ->
         LET created == NewIncr(Flushed, NextIncr(am)) IN
         [steps |-> <<Flushed, created, Persist(created, WithNewIncr(am))>>,
          failed |-> {Flushed} \cup FailedPersist(created, WithNewIncr(am)),
          am |-> WithNewIncr(am), fd |-> NextIncr(am)]
    [] s = "wait" ->
         [steps |-> <<Flushed, NewIncr(Flushed, TempIncr)>>, failed |-> {Flushed},
          am |-> am, fd |-> TempIncr]
    [] s = "off" -> [steps |-> <<Flushed>>, failed |-> {}, am |-> am, fd |-> fd]

\* Mutant: the manifest in memory and the file are exchanged before the new manifest is
\* on disk, and not changed back when a call fails.
ForkFailsKept(s) ==
  /\ Fault /\ child' = NoChild
  /\ disk' \in {Last(Opening(s).steps)} \cup Opening(s).failed
  /\ am' = Opening(s).am /\ fd' = Opening(s).fd

\* rewriteAppendOnlyFileBackground: it forks, or a call fails and what was done
\* before stays on disk, the server going on as if it had not been done; when only
\* the fork fails the new file stays open.
Forks(s) ==
  /\ disk' = Last(Opening(s).steps)
  /\ am' = Opening(s).am /\ fd' = Opening(s).fd
  /\ child' = Child
  /\ UNCHANGED faults
ForkFails(s) ==
  /\ Fault /\ child' = NoChild
  /\ \/ /\ disk' = Last(Opening(s).steps)
        /\ am' = Opening(s).am /\ fd' = Opening(s).fd
     \/ /\ disk' \in Opening(s).failed
        /\ UNCHANGED <<am, fd>>

\* Mutant: a failed first rewrite is not scheduled again.
RewriteDueOnce == child = NoChild /\ aof = "on" /\ rewrites < MaxRewrites

\* BGREWRITEAOF or the growth of the file asks for a rewrite; while AOF waits for
\* its first one, aof_rewrite_scheduled is set.
RewriteDue ==
  /\ child = NoChild
  /\ aof = "wait" \/ (rewrites < MaxRewrites /\ (aof = "off" => OffRewrites))

Rewrite ==
  /\ up /\ RewriteDue
  /\ rewrites' = IF aof = "wait" THEN rewrites ELSE rewrites + 1
  /\ Forks(aof) \/ ForkFails(aof)
  /\ buf' = <<>> /\ acked' = AckedByFlush
  /\ UNCHANGED <<up, aof, db, writes, switches>>

RewriteCrash ==
  /\ up /\ RewriteDue
  /\ \E d \in ToSet(Opening(aof).steps) : CrashWith(d)

\* CONFIG SET appendonly no.
StopAppendOnly ==
  /\ up /\ aof # "off" /\ switches < MaxSwitches
  /\ switches' = switches + 1
  /\ disk' = Flushed /\ acked' = AckedByFlush
  /\ aof' = "off" /\ fd' = NoFd /\ buf' = <<>> /\ child' = NoChild
  /\ UNCHANGED <<up, db, am, writes, rewrites, faults>>

\* CONFIG SET appendonly yes: the rewrite is started, a rewrite that was started
\* with AOF off being killed first, or put off because another child is busy.
StartAppendOnly ==
  /\ up /\ aof = "off"
  /\ \/ Forks("wait") /\ aof' = "wait"
     \/ ForkFails("wait") /\ aof' = "off"
     \/ child = NoChild /\ aof' = "wait" /\ UNCHANGED <<am, fd, child, disk, faults>>
  /\ UNCHANGED <<up, db, acked, buf, writes, rewrites, switches>>
-----------------------------------------------------------------------------
(* The end of a rewrite: backgroundRewriteDoneHandler.                     *)

\* getNewBaseFileNameAndMarkPreAsHistory.
WithNewBase(m) ==
  [m EXCEPT !.base = Base(m.bseq + 1), !.bseq = @ + 1, !.hist = @ \cup ({m.base} \ {NoBase})]

\* Mutant: the INCR file that is being written becomes history as well.
RewrittenAll(m) == [m EXCEPT !.incr = <<>>, !.hist = @ \cup ToSet(m.incr)]

\* markRewrittenIncrAofAsHistory: all INCR files but the one that is open.
Rewritten(m) ==
  LET kept == IF fd = NoFd \/ m.incr = <<>> THEN <<>> ELSE <<Last(m.incr)>> IN
  [m EXCEPT !.incr = kept, !.hist = @ \cup (ToSet(m.incr) \ ToSet(kept))]

NoHistory(m) == [m EXCEPT !.hist = {}]
NewManifest ==
  Rewritten(IF aof = "wait" THEN WithNewIncr(WithNewBase(am)) ELSE WithNewBase(am))

\* The renames.
BaseRenamed == Put(disk, Base(am.bseq + 1), File(child.data))
AllRenamed ==
  IF aof = "wait" THEN Rename(BaseRenamed, TempIncr, NextIncr(am)) ELSE BaseRenamed

\* Mutant: the history files are deleted before the manifest is replaced.
CommitStepsEager ==
  LET deleted == Unlink(AllRenamed, NewManifest.hist) IN
  <<deleted, Persist(deleted, NewManifest), Persist(deleted, NoHistory(NewManifest))>>

\* persistAofManifest, then aofDelHistoryFiles.
CommitSteps ==
  LET persisted == Persist(AllRenamed, NewManifest)
      deleted == Unlink(persisted, NewManifest.hist) IN
  <<persisted, deleted, Persist(deleted, NoHistory(NewManifest))>>

\* The last write of the manifest may fail: nobody minds.
RewriteDone ==
  /\ up /\ child # NoChild
  /\ \/ disk' = CommitSteps[3] /\ UNCHANGED faults
     \/ disk' \in FailedPersist(CommitSteps[2], NoHistory(NewManifest)) /\ Fault
  /\ am' = NoHistory(NewManifest)
  /\ fd' = IF aof = "wait" THEN NextIncr(am) ELSE fd
  /\ aof' = IF aof = "wait" THEN "on" ELSE aof
  /\ child' = NoChild
  /\ UNCHANGED <<up, db, acked, buf, writes, rewrites, switches>>

\* The child or a call of the handler fails: what was renamed is unlinked again, even
\* if the manifest that lists it is on disk. A server that waits for its first rewrite
\* drops the file it has written so far.
RewriteFails ==
  LET new == {Base(am.bseq + 1)} \cup (IF aof = "wait" THEN {NextIncr(am)} ELSE {})
      dropped == IF aof = "wait" THEN {TempIncr} ELSE {} IN
  /\ up /\ child # NoChild /\ Fault
  /\ \E d \in {disk, Unlink(BaseRenamed, {Base(am.bseq + 1)})} \cup
              { Unlink(e, new) : e \in FailedPersist(AllRenamed, NewManifest) } :
       disk' = Unlink(d, dropped)
  /\ buf' = IF aof = "wait" THEN <<>> ELSE buf
  /\ fd' = IF aof = "wait" THEN Unlinked ELSE fd
  /\ child' = NoChild
  /\ UNCHANGED <<up, aof, db, acked, am, writes, rewrites, switches>>

RewriteDoneCrash ==
  /\ up /\ child # NoChild
  /\ \E d \in {BaseRenamed, AllRenamed} \cup ToSet(CommitSteps) : CrashWith(d)
-----------------------------------------------------------------------------
(* Starting the server, with appendonly yes.                               *)

\* aofUpgradePrepare: an AOF of an old version is listed first and moved then.
NeedsUpgrade ==
  /\ disk.old # NoFile /\ disk.am.incr = <<>>
  /\ \/ disk.am.base = NoBase
     \/ disk.am.base = OldName /\ OldName \notin DOMAIN disk.files
UpgradeSteps ==
  LET listed == Persist(disk, [NoManifest EXCEPT !.base = OldName, !.bseq = 1])
      moved == [Put(listed, OldName, disk.old) EXCEPT !.old = NoFile] IN
  IF NeedsUpgrade THEN <<listed, moved>> ELSE <<disk>>

\* loadAppendOnlyFiles.
Listed(m) == (IF m.base = NoBase THEN <<>> ELSE <<m.base>>) \o m.incr
Loads(d) ==
  /\ ToSet(Listed(d.am)) \subseteq DOMAIN d.files
  /\ \A i \in DOMAIN Listed(d.am) :
       d.files[Listed(d.am)[i]].torn => i = Len(Listed(d.am))
Loaded(d) == FlattenSeq([i \in DOMAIN Listed(d.am) |-> d.files[Listed(d.am)[i]].data])
Truncated(d) ==
  IF Listed(d.am) = <<>> THEN d
  ELSE [d EXCEPT !.files[Last(Listed(d.am))].torn = FALSE]

\* aofOpenIfNeededOnServerStart creates a BASE file for an empty dataset, opens the
\* last INCR file or a new one to append to it, and persists the manifest;
\* aofDelHistoryFiles follows.
StartManifest(m) ==
  LET based == IF Listed(m) = <<>> THEN WithNewBase(m) ELSE m IN
  IF based.incr = <<>> THEN WithNewIncr(based) ELSE based
StartSteps ==
  LET d == Truncated(Last(UpgradeSteps))
      m == StartManifest(Read(d.am))
      based == IF m.base \in DOMAIN d.files THEN d ELSE Put(d, m.base, File(<<>>))
      opened == IF Last(m.incr) \in DOMAIN based.files THEN based
                ELSE Put(based, Last(m.incr), File(<<>>))
      persisted == Persist(opened, m)
      deleted == Unlink(persisted, m.hist) IN
  <<d, based, opened, persisted, deleted, Persist(deleted, NoHistory(m))>>

Start ==
  /\ ~up /\ Loads(Last(UpgradeSteps))
  /\ up' = TRUE /\ aof' = "on"
  /\ db' = Loaded(Last(UpgradeSteps))
  /\ am' = NoHistory(StartSteps[4].am)
  /\ fd' = LET name == Last(StartSteps[4].am.incr) IN
           IF name \in StartSteps[4].am.hist THEN Unlinked ELSE name
  /\ \/ disk' = StartSteps[6] /\ UNCHANGED faults
     \/ /\ disk' \in FailedPersist(StartSteps[5], am') /\ StartSteps[4].am.hist # {}
        /\ Fault
  /\ UNCHANGED <<acked, buf, child, writes, rewrites, switches>>

\* A crash, or a call that fails and makes the server exit.
StartCrash ==
  /\ ~up
  /\ \E d \in ToSet(UpgradeSteps) \cup
              (IF Loads(Last(UpgradeSteps)) THEN ToSet(StartSteps) ELSE {}) : CrashWith(d)

Next ==
  \/ Write \/ Flush
  \/ Rewrite \/ StopAppendOnly \/ StartAppendOnly \/ RewriteDone \/ RewriteFails \/ Start
  \/ Crash \/ CrashInFlush \/ RewriteCrash \/ RewriteDoneCrash \/ StartCrash

Spec == Init /\ [][Next]_vars

(***************************************************************************)
(* serverCron starts the rewrite that is due, a child comes to an end.     *)
(***************************************************************************)
FairSpec == Spec /\ WF_vars(Rewrite) /\ WF_vars(RewriteDone \/ RewriteFails)
-----------------------------------------------------------------------------
(***************************************************************************)
(* Type correctness; a server whose AOF is on writes to the last file of   *)
(* its manifest.                                                           *)
(***************************************************************************)
TypeOK ==
  /\ up \in BOOLEAN /\ aof \in {"off", "on", "wait"}
  /\ up /\ aof = "on" => am.incr # <<>> /\ fd = Last(am.incr)
  /\ aof = "off" => buf = <<>>
  /\ writes \in 0..MaxWrites /\ rewrites \in 0..MaxRewrites
  /\ switches \in 0..MaxSwitches /\ faults \in 0..MaxFaults

(***************************************************************************)
(* Whatever a crash leaves behind can be loaded: the manifest lists no     *)
(* file that is gone and no file but the last is truncated                 *)
(* (loadAppendOnlyFiles takes both for fatal errors). It is stated for     *)
(* DirSyncFails = FALSE: where the fsync of the directory may fail,        *)
(* RewriteFails unlinks files the manifest on disk lists.                  *)
(***************************************************************************)
Loadable == Loads(Last(UpgradeSteps))

(***************************************************************************)
(* A restart brings back a prefix of what the server had, with every       *)
(* acknowledged write in it: no write is lost, replayed twice or out of    *)
(* order, wherever the crash fell (backgroundRewriteDoneHandler,           *)
(* openNewIncrAofForAppend, aofOpenIfNeededOnServerStart).                 *)
(***************************************************************************)
RestartKeeps ==
  [][~up /\ up' => IsPrefix(acked, db') /\ IsPrefix(db', db)]_vars

(***************************************************************************)
(* AOF that is to be switched on is on in the end, unless it is switched   *)
(* off again or the server stops (the rewrite is scheduled anew after a    *)
(* failure).                                                               *)
(***************************************************************************)
TurnsOn == aof = "wait" ~> aof # "wait"

(***************************************************************************)
(* The server writes to a file the manifest on disk lists: when it starts  *)
(* it is to "open the last opened INCR type AOF for writing, if not,       *)
(* create a new one" (aofOpenIfNeededOnServerStart).                       *)
(***************************************************************************)
WritesToListedFile ==
  up /\ aof = "on" => fd \in DOMAIN disk.files /\ fd \in ToSet(disk.am.incr)

(***************************************************************************)
(* A running server has in memory the manifest that is on disk, history    *)
(* apart. For the start of a rewrite it is the comment of                  *)
(* openNewIncrAofForAppend that says so: the new INCR file and the         *)
(* manifest on disk are changed both or not at all, "if any step fails,    *)
(* the entire operation will rollback". It holds for DirSyncFails = FALSE; *)
(* where the fsync of the directory may fail, Rewrite violates it.         *)
(***************************************************************************)
RollsBack == up => am = NoHistory(disk.am)
=============================================================================
