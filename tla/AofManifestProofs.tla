------------------------- MODULE AofManifestProofs -------------------------
(***************************************************************************)
(* Theorems about AofManifest, for any bounds, of a server that does not   *)
(* rewrite its AOF while AOF is off (OffRewrites; with such rewrites the   *)
(* properties are false) and on which no call of persistAofManifest fails  *)
(* after the manifest was replaced (DirSyncFails; where the fsync of the   *)
(* directory fails, the manifest on disk lists files that are unlinked     *)
(* then). Every other call may fail.                                       *)
(*                                                                         *)
(* The proof looks at two sets of names of a directory: the files that are *)
(* there, and those of them that do not end in a record cut short. The     *)
(* invariant says which of them the manifest may list, in a directory a    *)
(* crash leaves behind and in the one a server runs on. Every step that    *)
(* changes the disk is shown to keep it; the crashes follow at once, since *)
(* a handler interrupted after any of its steps has left such a directory. *)
(***************************************************************************)
EXTENDS AofManifest, SequenceTheorems, TLAPS

\* The names of the files in a directory, and of those that are not cut short.
Have(d) == DOMAIN d.files
Whole(d) == { n \in Have(d) : ~d.files[n].torn }

IsFile(f) == f = [x \in {"data", "torn"} |-> f[x]] /\ f.torn \in BOOLEAN
IsDisk(d) ==
  /\ d = [files |-> d.files, am |-> d.am, old |-> d.old]
  /\ d.files = [n \in DOMAIN d.files |-> d.files[n]]
  /\ \A n \in DOMAIN d.files : IsFile(d.files[n])

\* The files a manifest lists, history apart.
Files(m) == {m.base} \cup ToSet(m.incr)

\* A manifest of a server that has been started: a BASE file with the number bseq, INCR files
\* of which the last has the number iseq and the others a smaller one, and no listed file in
\* the history.
IsBase(n, k) == (n = OldName /\ k = 1) \/ (n = Base(k) /\ k > 0)
Older(n, k) == \E j \in 0..k : n = Incr(j) /\ j < k
Fields == {"base", "incr", "hist", "bseq", "iseq"}
IsRecord(m) == m = [f \in Fields |-> m[f]]
IsManifest(m) ==
  /\ IsRecord(m)
  /\ m.bseq \in Nat /\ m.iseq \in Nat
  /\ IsBase(m.base, m.bseq)
  /\ m.incr \in Seq(ToSet(m.incr))
  /\ m.incr # <<>> /\ Last(m.incr) = Incr(m.iseq)
  /\ \A i \in 1..(Len(m.incr) - 1) : Older(m.incr[i], m.iseq)
  /\ m.hist \cap ToSet(m.incr) = {} /\ m.base \notin m.hist

\* The files of the manifest are there, and only the last may be cut short.
Complete(d) ==
  /\ IsManifest(d.am)
  /\ d.am.base \in Whole(d)
  /\ ToSet(d.am.incr) \subseteq Have(d)
  /\ \A i \in 1..(Len(d.am.incr) - 1) : d.am.incr[i] \in Whole(d)

\* No start has come as far as its manifest; an AOF of an old version may be listed.
Upgraded == [NoManifest EXCEPT !.base = OldName, !.bseq = 1]
Unstarted(d) ==
  /\ Whole(d) = Have(d)
  /\ d.am = NoManifest \/ (d.am = Upgraded /\ (OldName \in Have(d) \/ d.old # NoFile))

OldKept(d) == d.old = NoFile \/ (IsFile(d.old) /\ ~d.old.torn)

\* A directory a crash may leave behind.
LeftBehind(d) == IsDisk(d) /\ OldKept(d) /\ (Complete(d) \/ Unstarted(d))

\* A directory that is ready to be loaded: the upgrade, if one was needed, is done.
Ready(d) ==
  \/ Complete(d)
  \/ Whole(d) = Have(d) /\ (d.am = NoManifest \/ (d.am = Upgraded /\ OldName \in Have(d)))

\* A directory on which a server runs with the manifest m in memory: it is the one on disk
\* without the history, and the last file is not cut short either.
Usable(d, m) ==
  /\ IsDisk(d) /\ OldKept(d)
  /\ Complete(d) /\ m = NoHistory(d.am) /\ Last(m.incr) \in Whole(d)

\* What aof_fd may be: the last file of the manifest, or nothing the manifest lists. A first
\* rewrite that is under way has its temporary INCR file.
Appends ==
  /\ aof = "on" => fd = Last(am.incr)
  /\ aof # "on" => fd \in {NoFd, TempIncr, Unlinked}
  /\ aof = "off" => child = NoChild
  /\ aof = "wait" /\ child # NoChild => fd = TempIncr /\ TempIncr \in Whole(disk)

Types ==
  /\ up \in BOOLEAN /\ aof \in {"off", "on", "wait"}
  /\ aof = "off" => buf = <<>>
  /\ writes \in 0..MaxWrites /\ rewrites \in 0..MaxRewrites
  /\ switches \in 0..MaxSwitches /\ faults \in 0..MaxFaults
Runs == up => Usable(disk, am) /\ Appends
Stopped == ~up => aof = "on" /\ child = NoChild /\ LeftBehind(disk)

\* The inductive invariant.
IInv == Types /\ Runs /\ Stopped
-----------------------------------------------------------------------------
(* Names, files and what the steps do to a directory.                      *)

\* The names of files are different.
LEMMA NameFacts ==
  /\ \A j, k \in Nat : Base(j) = Base(k) => j = k
  /\ \A j, k \in Nat : Incr(j) = Incr(k) => j = k
  /\ \A j, k \in Nat : Base(j) # Incr(k)
  /\ \A k \in Nat : Incr(k) \notin {OldName, TempIncr, NoFd, Unlinked}
  /\ \A k \in Nat : Base(k) \notin {OldName, TempIncr, NoFd, Unlinked}
  /\ OldName \notin {TempIncr, NoFd, Unlinked, NoBase}
  /\ TempIncr \notin {NoFd, Unlinked} /\ NoFd # Unlinked
  /\ Incr(1)[2] = 1
  /\ NoBase = Base(0)
BY DEF Base, Incr, OldName, TempIncr, NoFd, Unlinked, NoBase

\* A new file is not cut short.
LEMMA FileFacts ==
  /\ \A x : IsFile(File(x)) /\ ~File(x).torn
  /\ NoFile.torn
  /\ IsFile(NoFile)
BY DEF IsFile, File, NoFile

\* Put: a file that is not cut short is added to both sets.
LEMMA PutWhole ==
  ASSUME NEW d, NEW n, NEW f, IsDisk(d), IsFile(f), ~f.torn
  PROVE  /\ IsDisk(Put(d, n, f)) /\ Put(d, n, f).am = d.am /\ Put(d, n, f).old = d.old
         /\ Have(Put(d, n, f)) = Have(d) \cup {n}
         /\ Whole(Put(d, n, f)) = Whole(d) \cup {n}
         /\ Put(d, n, f).files[n] = f
<1> DEFINE e == Put(d, n, f)
<1>1. e.am = d.am /\ e.old = d.old
      /\ e.files = [k \in DOMAIN d.files \cup {n} |-> IF k = n THEN f ELSE d.files[k]]
      /\ e = [files |-> e.files, am |-> e.am, old |-> e.old]
  BY DEF IsDisk, Put
<1> HIDE DEF e
<1>2. DOMAIN e.files = DOMAIN d.files \cup {n}
  BY <1>1
<1>3. \A k \in DOMAIN e.files : e.files[k] = IF k = n THEN f ELSE d.files[k]
  BY <1>1
<1>4. e.files = [k \in DOMAIN e.files |-> e.files[k]]
  BY <1>1
<1>5. \A k \in DOMAIN e.files : IsFile(e.files[k])
  BY <1>2, <1>3 DEF IsDisk
<1>6. IsDisk(e)
  BY <1>1, <1>4, <1>5 DEF IsDisk
<1>7. Whole(e) = Whole(d) \cup {n}
  BY <1>2, <1>3 DEF Whole, Have
<1> QED
  BY <1>1, <1>2, <1>3, <1>6, <1>7 DEF Have, e

\* Unlink: names are taken from both sets.
LEMMA UnlinkWhole ==
  ASSUME NEW d, NEW N, IsDisk(d)
  PROVE  /\ IsDisk(Unlink(d, N)) /\ Unlink(d, N).am = d.am /\ Unlink(d, N).old = d.old
         /\ Have(Unlink(d, N)) = Have(d) \ N
         /\ Whole(Unlink(d, N)) = Whole(d) \ N
<1> DEFINE e == Unlink(d, N)
<1>1. e.am = d.am /\ e.old = d.old /\ e.files = [k \in DOMAIN d.files \ N |-> d.files[k]]
      /\ e = [files |-> e.files, am |-> e.am, old |-> e.old]
  BY DEF IsDisk, Unlink
<1> HIDE DEF e
<1>2. DOMAIN e.files = DOMAIN d.files \ N
  BY <1>1
<1>3. \A k \in DOMAIN e.files : e.files[k] = d.files[k]
  BY <1>1
<1>4. e.files = [k \in DOMAIN e.files |-> e.files[k]]
  BY <1>1
<1>5. IsDisk(e)
  BY <1>1, <1>2, <1>3, <1>4 DEF IsDisk
<1>6. Whole(e) = Whole(d) \ N
  BY <1>2, <1>3 DEF Whole, Have
<1> QED
  BY <1>1, <1>2, <1>5, <1>6 DEF Have, e

\* Persist: the files stay.
LEMMA PersistWhole ==
  ASSUME NEW d, NEW m, IsDisk(d)
  PROVE  /\ IsDisk(Persist(d, m)) /\ Persist(d, m).am = m /\ Persist(d, m).old = d.old
         /\ Have(Persist(d, m)) = Have(d) /\ Whole(Persist(d, m)) = Whole(d)
<1> DEFINE e == Persist(d, m)
<1>1. e.am = m /\ e.old = d.old /\ e.files = d.files
      /\ e = [files |-> e.files, am |-> e.am, old |-> e.old]
  BY DEF IsDisk, Persist
<1> HIDE DEF e
<1>2. IsDisk(e) /\ Have(e) = Have(d) /\ Whole(e) = Whole(d)
  BY <1>1 DEF IsDisk, Have, Whole
<1> QED
  BY <1>1, <1>2 DEF e

\* A manifest that could not be persisted is not on disk, if the fsync of the directory does
\* not fail.
LEMMA NothingReplaced ==
  ASSUME DirSyncFails = FALSE
  PROVE  \A d, m : FailedPersist(d, m) = {d}
BY DEF FailedPersist

\* Rename: a file is there under its new name only.
LEMMA RenameWhole ==
  ASSUME NEW d, NEW from, NEW to, IsDisk(d), from \in Whole(d), to # from
  PROVE  /\ IsDisk(Rename(d, from, to)) /\ Rename(d, from, to).am = d.am
         /\ Rename(d, from, to).old = d.old
         /\ Have(Rename(d, from, to)) = (Have(d) \cup {to}) \ {from}
         /\ Whole(Rename(d, from, to)) = (Whole(d) \cup {to}) \ {from}
<1>1. IsFile(d.files[from]) /\ ~d.files[from].torn
  BY DEF IsDisk, Whole, Have
<1> DEFINE e == Put(d, to, d.files[from])
<1>2. IsDisk(e) /\ e.am = d.am /\ e.old = d.old
      /\ Have(e) = Have(d) \cup {to} /\ Whole(e) = Whole(d) \cup {to}
  BY <1>1, PutWhole
<1>3. Rename(d, from, to) = Unlink(e, {from})
  BY DEF Rename
<1> HIDE DEF e
<1> QED
  BY <1>2, <1>3, UnlinkWhole

\* A change of one file leaves the others as they are.
LEMMA FileChange ==
  ASSUME NEW d, NEW n, NEW f, IsDisk(d), n \in Have(d), IsFile(f)
  PROVE  LET e == [d EXCEPT !.files[n] = f] IN
         /\ IsDisk(e) /\ e.am = d.am /\ e.old = d.old /\ Have(e) = Have(d)
         /\ Whole(e) \ {n} = Whole(d) \ {n}
         /\ (n \in Whole(e)) = ~f.torn
<1> DEFINE e == [d EXCEPT !.files[n] = f]
<1>1. e.am = d.am /\ e.old = d.old /\ e.files = [d.files EXCEPT ![n] = f]
      /\ e = [files |-> e.files, am |-> e.am, old |-> e.old]
  BY DEF IsDisk
<1> HIDE DEF e
<1>2. DOMAIN e.files = DOMAIN d.files
  BY <1>1 DEF IsDisk
<1>3. \A k \in DOMAIN e.files : e.files[k] = IF k = n THEN f ELSE d.files[k]
  BY <1>1 DEF IsDisk
<1>4. e.files = [k \in DOMAIN e.files |-> e.files[k]]
  BY <1>1 DEF IsDisk
<1>5. \A k \in DOMAIN e.files : IsFile(e.files[k])
  BY <1>2, <1>3 DEF IsDisk
<1>6. IsDisk(e)
  BY <1>1, <1>4, <1>5 DEF IsDisk
<1>7. Have(e) = Have(d)
  BY <1>2 DEF Have
<1>8. Whole(e) \ {n} = Whole(d) \ {n}
  BY <1>2, <1>3 DEF Whole, Have
<1>9. (n \in Whole(e)) = ~f.torn
  BY <1>2, <1>3 DEF Whole, Have, IsFile
<1> QED
  BY <1>1, <1>6, <1>7, <1>8, <1>9 DEF e

-----------------------------------------------------------------------------
(* Manifests.                                                              *)

\* What the sequence numbers of a manifest are for: the next names are new ones, and the
\* last INCR file is listed once (getNewBaseFileNameAndMarkPreAsHistory, getNewIncrAofName).
LEMMA ManifestFacts ==
  ASSUME NEW m, IsManifest(m)
  PROVE  /\ Len(m.incr) \in Nat \ {0} /\ m.incr \in Seq(ToSet(m.incr))
         /\ Last(m.incr) = m.incr[Len(m.incr)] /\ Last(m.incr) \in ToSet(m.incr)
         /\ ToSet(m.incr) = { m.incr[i] : i \in 1..Len(m.incr) }
         /\ \A i \in 1..(Len(m.incr) - 1) : m.incr[i] # Last(m.incr)
         /\ m.base # Last(m.incr) /\ m.base \notin ToSet(m.incr)
         /\ Base(m.bseq + 1) \notin Files(m) /\ Incr(m.iseq + 1) \notin Files(m)
         /\ {TempIncr, NoFd, Unlinked, NoBase} \cap Files(m) = {}
<1>1. m.incr \in Seq(ToSet(m.incr)) /\ m.incr # <<>> /\ Last(m.incr) = Incr(m.iseq)
  BY DEF IsManifest
<1>2. Len(m.incr) \in Nat \ {0} /\ DOMAIN m.incr = 1..Len(m.incr)
  BY <1>1
<1>3. Last(m.incr) = m.incr[Len(m.incr)]
  BY DEF Last
<1>4. ToSet(m.incr) = { m.incr[i] : i \in 1..Len(m.incr) }
  BY <1>2 DEF ToSet
<1>5. Last(m.incr) \in ToSet(m.incr)
  BY <1>2, <1>3, <1>4
<1>6. m.bseq \in Nat /\ m.iseq \in Nat /\ IsBase(m.base, m.bseq)
  BY DEF IsManifest
<1>7. \A i \in 1..(Len(m.incr) - 1) : \E j \in Nat : m.incr[i] = Incr(j) /\ j < m.iseq
  <2>1. \A i \in 1..(Len(m.incr) - 1) : Older(m.incr[i], m.iseq)
    BY DEF IsManifest
  <2>2. 0..m.iseq \subseteq Nat
    BY <1>6
  <2> QED
    BY <2>1, <2>2, Zenon DEF Older
<1>8. \A i \in 1..(Len(m.incr) - 1) : m.incr[i] # Last(m.incr)
  BY <1>1, <1>6, <1>7, NameFacts
<1>9. \A i \in 1..Len(m.incr) : i \in 1..(Len(m.incr) - 1) \/ i = Len(m.incr)
  BY <1>2
<1>10. \A n \in ToSet(m.incr) : \E j \in Nat : n = Incr(j) /\ j < m.iseq + 1
  <2> SUFFICES ASSUME NEW i \in 1..Len(m.incr)
               PROVE  \E j \in Nat : m.incr[i] = Incr(j) /\ j < m.iseq + 1
    BY <1>4
  <2>1. CASE i \in 1..(Len(m.incr) - 1)
    <3>1. PICK j \in Nat : m.incr[i] = Incr(j) /\ j < m.iseq
      BY <2>1, <1>7
    <3> QED
      BY <3>1, <1>6
  <2>2. CASE i = Len(m.incr)
    <3>1. m.incr[i] = Incr(m.iseq)
      BY <2>2, <1>1, <1>3
    <3>2. m.iseq < m.iseq + 1
      BY <1>6
    <3> QED
      BY <3>1, <3>2, <1>6
  <2> QED
    BY <1>9, <2>1, <2>2
<1>11. /\ m.base \notin ToSet(m.incr) /\ m.base \notin {TempIncr, NoFd, Unlinked, NoBase}
       /\ m.base # Base(m.bseq + 1) /\ m.base # Incr(m.iseq + 1)
  <2>1. CASE m.base = OldName
    BY <2>1, <1>6, <1>10, NameFacts
  <2>2. CASE m.base = Base(m.bseq) /\ m.bseq > 0
    BY <2>2, <1>6, <1>10, NameFacts
  <2> QED
    BY <2>1, <2>2, <1>6 DEF IsBase
<1>12. /\ Base(m.bseq + 1) \notin ToSet(m.incr) /\ Incr(m.iseq + 1) \notin ToSet(m.incr)
       /\ {TempIncr, NoFd, Unlinked, NoBase} \cap ToSet(m.incr) = {}
  BY <1>6, <1>10, NameFacts
<1> QED
  BY <1>1, <1>2, <1>3, <1>4, <1>5, <1>8, <1>11, <1>12 DEF Files

\* The fields WithNewIncr changes.
LEMMA WithNewIncrFields ==
  ASSUME NEW m, IsRecord(m)
  PROVE  LET n == WithNewIncr(m) IN
         /\ IsRecord(n) /\ n.base = m.base /\ n.incr = Append(m.incr, NextIncr(m))
         /\ n.hist = m.hist /\ n.bseq = m.bseq /\ n.iseq = m.iseq + 1
BY DEF IsRecord, WithNewIncr, Fields

\* The fields WithNewBase changes.
LEMMA WithNewBaseFields ==
  ASSUME NEW m, IsRecord(m)
  PROVE  LET n == WithNewBase(m) IN
         /\ IsRecord(n) /\ n.base = Base(m.bseq + 1) /\ n.incr = m.incr
         /\ n.hist = m.hist \cup ({m.base} \ {NoBase}) /\ n.bseq = m.bseq + 1
         /\ n.iseq = m.iseq
BY DEF IsRecord, WithNewBase, Fields

\* Manifests with the same fields are the same.
LEMMA SameRecord ==
  ASSUME NEW m, IsRecord(m), NEW n, IsRecord(n),
         n.base = m.base, n.incr = m.incr, n.hist = m.hist, n.bseq = m.bseq, n.iseq = m.iseq
  PROVE  m = n
BY DEF IsRecord, Fields

\* The field NoHistory changes.
LEMMA NoHistoryFields ==
  ASSUME NEW m, IsRecord(m)
  PROVE  LET n == NoHistory(m) IN
         /\ IsRecord(n) /\ n.base = m.base /\ n.incr = m.incr /\ n.hist = {}
         /\ n.bseq = m.bseq /\ n.iseq = m.iseq
         /\ m.hist = {} => n = m
<1> DEFINE n == NoHistory(m)
<1>1. IsRecord(n) /\ n.base = m.base /\ n.incr = m.incr /\ n.hist = {}
      /\ n.bseq = m.bseq /\ n.iseq = m.iseq
  BY DEF IsRecord, NoHistory, Fields
<1> HIDE DEF n
<1>2. m.hist = {} => n = m
  BY <1>1, SameRecord
<1> QED
  BY <1>1, <1>2 DEF n

\* A manifest without its history is a manifest.
LEMMA NoHistoryManifest ==
  ASSUME NEW m, IsManifest(m)
  PROVE  LET n == NoHistory(m) IN
         /\ n.base = m.base /\ n.incr = m.incr /\ n.hist = {}
         /\ n.bseq = m.bseq /\ n.iseq = m.iseq /\ IsManifest(n) /\ NoHistory(n) = n
<1> DEFINE n == NoHistory(m)
<1>1. IsRecord(m)
  BY DEF IsManifest
<1>2. IsRecord(n) /\ n.base = m.base /\ n.incr = m.incr /\ n.hist = {}
      /\ n.bseq = m.bseq /\ n.iseq = m.iseq
  BY <1>1, NoHistoryFields
<1> HIDE DEF n
<1>3. NoHistory(n) = n
  BY <1>2, NoHistoryFields
<1>4. IsManifest(n)
  BY <1>2 DEF IsManifest
<1> QED
  BY <1>2, <1>3, <1>4 DEF n

\* A manifest with a new INCR file is a manifest (getNewIncrAofName).
LEMMA NewIncrManifest ==
  ASSUME NEW m, IsManifest(m), NextIncr(m) \notin m.hist
  PROVE  LET n == WithNewIncr(m) IN
         /\ IsManifest(n) /\ n.base = m.base /\ n.hist = m.hist /\ n.bseq = m.bseq
         /\ n.iseq = m.iseq + 1
         /\ Last(n.incr) = NextIncr(m)
         /\ ToSet(n.incr) = ToSet(m.incr) \cup {NextIncr(m)}
         /\ \A i \in 1..(Len(n.incr) - 1) : n.incr[i] \in ToSet(m.incr)
<1> DEFINE n == WithNewIncr(m)
<1>1. IsRecord(m)
  BY DEF IsManifest
<1>2. n.base = m.base /\ n.incr = Append(m.incr, Incr(m.iseq + 1)) /\ n.hist = m.hist
      /\ n.bseq = m.bseq /\ n.iseq = m.iseq + 1 /\ IsRecord(n)
  BY <1>1, WithNewIncrFields DEF NextIncr
<1> HIDE DEF n
<1>3. Len(m.incr) \in Nat \ {0} /\ m.incr \in Seq(ToSet(m.incr)) 
      /\ ToSet(m.incr) = { m.incr[i] : i \in 1..Len(m.incr) }
      /\ Last(m.incr) = m.incr[Len(m.incr)]
  BY ManifestFacts
<1> DEFINE k == Len(m.incr)
           x == Incr(m.iseq + 1)
           S == ToSet(m.incr) \cup {x}
<1>4. n.incr \in Seq(S) /\ Len(n.incr) = k + 1 /\ n.incr[k + 1] = x
      /\ \A i \in 1..k : n.incr[i] = m.incr[i]
  <2>1. m.incr \in Seq(S) /\ x \in S
    BY <1>3
  <2> HIDE DEF S, x
  <2> QED
    BY <1>2, <2>1, <1>3 DEF x
<1>5. k \in Nat \ {0} /\ (k + 1) - 1 = k
  BY <1>3
<1>6. DOMAIN n.incr = 1..(k + 1)
  BY <1>4, <1>5
<1> HIDE DEF k
<1>7. ToSet(n.incr) = S
  <2>1. ToSet(n.incr) = { n.incr[i] : i \in 1..(k + 1) }
    BY <1>6 DEF ToSet
  <2>2. \A i \in 1..(k + 1) : i = k + 1 \/ i \in 1..k
    BY <1>5
  <2>3. 1..k \subseteq 1..(k + 1) /\ k + 1 \in 1..(k + 1)
    BY <1>5
  <2>4. ToSet(m.incr) = { m.incr[i] : i \in 1..k }
    BY <1>3 DEF k
  <2> QED
    BY <2>1, <2>2, <2>3, <2>4, <1>4
<1>8. Last(n.incr) = x
  BY <1>4 DEF Last
<1>9. n.incr # <<>>
  BY <1>4, <1>5
<1>10. \A i \in 1..(Len(n.incr) - 1) : n.incr[i] \in ToSet(m.incr)
  BY <1>3, <1>4, <1>5 DEF k
<1>11. m.iseq \in Nat /\ m.bseq \in Nat /\ IsBase(m.base, m.bseq)
  BY DEF IsManifest
<1>12. \A i \in 1..(Len(n.incr) - 1) : Older(n.incr[i], n.iseq)
  <2> SUFFICES ASSUME NEW i \in 1..k PROVE Older(m.incr[i], m.iseq + 1)
    BY <1>2, <1>4, <1>5
  <2>1. CASE i = k
    <3>1. m.incr[i] = Incr(m.iseq)
      BY <2>1, <1>3 DEF IsManifest, k
    <3> QED
      BY <3>1, <1>11 DEF Older
  <2>2. CASE i # k
    <3>1. i \in 1..(Len(m.incr) - 1)
      BY <2>2, <1>5 DEF k
    <3>2. PICK j \in 0..m.iseq : m.incr[i] = Incr(j) /\ j < m.iseq
      BY <3>1 DEF IsManifest, Older
    <3>3. j \in 0..(m.iseq + 1) /\ j < m.iseq + 1
      BY <1>11
    <3> QED
      BY <3>2, <3>3 DEF Older
  <2> QED
    BY <2>1, <2>2
<1>13. IsManifest(n)
  <2>1. Last(n.incr) = Incr(n.iseq) /\ n.iseq \in Nat /\ n.incr \in Seq(ToSet(n.incr))
    BY <1>2, <1>4, <1>7, <1>8, <1>11
  <2>2. n.hist \cap ToSet(n.incr) = {} /\ n.base \notin n.hist
    BY <1>2, <1>7 DEF IsManifest, NextIncr
  <2> QED
    BY <1>2, <1>9, <1>11, <1>12, <2>1, <2>2 DEF IsManifest
<1> QED
  BY <1>2, <1>7, <1>8, <1>10, <1>13 DEF n, NextIncr

\* A manifest with a new BASE file is a manifest, its former BASE file history
\* (getNewBaseFileNameAndMarkPreAsHistory).
LEMMA NewBaseManifest ==
  ASSUME NEW m, IsManifest(m), m.hist = {}
  PROVE  LET n == WithNewBase(m) IN
         /\ n.base = Base(m.bseq + 1) /\ n.incr = m.incr /\ n.hist = {m.base}
         /\ n.bseq = m.bseq + 1 /\ n.iseq = m.iseq
         /\ IsManifest(n)
<1> DEFINE n == WithNewBase(m)
<1>1. m.base # NoBase /\ m.base \notin ToSet(m.incr) /\ Base(m.bseq + 1) # m.base
  BY ManifestFacts DEF Files
<1>2. IsRecord(m)
  BY DEF IsManifest
<1>3. m.hist \cup ({m.base} \ {NoBase}) = {m.base}
  BY <1>1
<1>4. n.base = Base(m.bseq + 1) /\ n.incr = m.incr /\ n.hist = {m.base} /\ n.bseq = m.bseq + 1
      /\ n.iseq = m.iseq /\ IsRecord(n)
  BY <1>2, <1>3, WithNewBaseFields
<1> HIDE DEF n
<1>6. m.bseq \in Nat /\ m.bseq + 1 \in Nat /\ m.bseq + 1 > 0
  BY DEF IsManifest
<1>7. IsBase(n.base, n.bseq) /\ n.bseq \in Nat
  BY <1>4, <1>6 DEF IsBase
<1>8. n.hist \cap ToSet(n.incr) = {} /\ n.base \notin n.hist
  BY <1>1, <1>4
<1>9. IsManifest(n)
  BY <1>4, <1>7, <1>8 DEF IsManifest
<1> QED
  BY <1>4, <1>9 DEF n

\* Sequences of one or two elements.
LEMMA TupleFacts ==
  ASSUME NEW a, NEW b
  PROVE  /\ ToSet(<<a>>) = {a} /\ Last(<<a>>) = a
         /\ ToSet(<<a, b>>) = {a, b} /\ Last(<<a, b>>) = b
<1>1. DOMAIN <<a>> = {1} /\ DOMAIN <<a, b>> = {1, 2}
  OBVIOUS
<1>2. ToSet(<<a>>) = {a}
  BY <1>1 DEF ToSet
<1>3. ToSet(<<a, b>>) = {a, b}
  BY <1>1 DEF ToSet
<1>4. Last(<<a>>) = a /\ Last(<<a, b>>) = b
  BY DEF Last
<1> QED
  BY <1>2, <1>3, <1>4

\* Sequences of three elements.
LEMMA ThreeTuple ==
  ASSUME NEW a, NEW b, NEW c
  PROVE  ToSet(<<a, b, c>>) = {a, b, c} /\ Last(<<a, b, c>>) = c
<1>1. DOMAIN <<a, b, c>> = {1, 2, 3}
  OBVIOUS
<1>2. ToSet(<<a, b, c>>) = {a, b, c}
  BY <1>1 DEF ToSet
<1>3. Last(<<a, b, c>>) = c
  BY DEF Last
<1> QED
  BY <1>2, <1>3

\* Of the INCR files only the last remains (markRewrittenIncrAofAsHistory).
LEMMA RewrittenManifest ==
  ASSUME NEW m, IsManifest(m), fd # NoFd
  PROVE  LET n == Rewritten(m) IN
         /\ IsManifest(n) /\ n.base = m.base /\ n.incr = <<Last(m.incr)>>
<1> DEFINE n == Rewritten(m)
           x == Last(m.incr)
<1>1. IsRecord(m) /\ m.incr # <<>>
  BY DEF IsManifest
<1>2. n = [m EXCEPT !.incr = <<x>>, !.hist = m.hist \cup (ToSet(m.incr) \ ToSet(<<x>>))]
  BY <1>1 DEF Rewritten
<1>3. ToSet(<<x>>) = {x} /\ Last(<<x>>) = x
  BY TupleFacts
<1> HIDE DEF n
<1>4. /\ IsRecord(n) /\ n.base = m.base /\ n.incr = <<x>>
      /\ n.hist = m.hist \cup (ToSet(m.incr) \ {x}) /\ n.bseq = m.bseq /\ n.iseq = m.iseq
  BY <1>1, <1>2, <1>3 DEF IsRecord, Fields
<1>5. x \in ToSet(m.incr) /\ m.base \notin ToSet(m.incr)
  BY ManifestFacts
<1>6. n.hist \cap ToSet(n.incr) = {} /\ n.base \notin n.hist
  BY <1>3, <1>4, <1>5 DEF IsManifest
<1>7. n.incr \in Seq(ToSet(n.incr)) /\ n.incr # <<>> /\ Len(n.incr) = 1 /\ Last(n.incr) = x
  BY <1>3, <1>4
<1>8. \A i \in 1..(Len(n.incr) - 1) : Older(n.incr[i], n.iseq)
  BY <1>7
<1>9. IsManifest(n)
  BY <1>4, <1>6, <1>7, <1>8 DEF IsManifest
<1> QED
  BY <1>4, <1>9 DEF n

\* The manifest a rewrite ends with.
LEMMA NewManifestFacts ==
  ASSUME IsManifest(am), am.hist = {}, fd # NoFd
  PROVE  /\ IsManifest(NewManifest) /\ NewManifest.base = Base(am.bseq + 1)
         /\ NewManifest.incr = <<IF aof = "wait" THEN NextIncr(am) ELSE Last(am.incr)>>
<1> DEFINE b == WithNewBase(am)
<1>1. /\ b.base = Base(am.bseq + 1) /\ b.incr = am.incr /\ b.hist = {am.base}
      /\ b.iseq = am.iseq /\ IsManifest(b)
  BY NewBaseManifest
<1>2. NextIncr(b) = NextIncr(am) /\ NextIncr(am) # am.base
  BY <1>1, ManifestFacts DEF NextIncr, Files
<1> HIDE DEF b
<1>3. CASE aof = "wait"
  <2> DEFINE i == WithNewIncr(b)
  <2>1. IsManifest(i) /\ i.base = b.base /\ Last(i.incr) = NextIncr(am)
    BY <1>1, <1>2, NewIncrManifest
  <2>2. NewManifest = Rewritten(i)
    BY <1>3 DEF NewManifest, b
  <2> HIDE DEF i
  <2> QED
    BY <1>1, <1>3, <2>1, <2>2, RewrittenManifest
<1>4. CASE aof # "wait"
  <2>1. NewManifest = Rewritten(b)
    BY <1>4 DEF NewManifest, b
  <2> QED
    BY <1>1, <1>4, <2>1, RewrittenManifest
<1> QED
  BY <1>3, <1>4

-----------------------------------------------------------------------------
(* Directories that can be loaded, and those a server runs on.             *)

\* A directory stays complete as long as nothing but the end of the last listed file changes.
LEMMA CompleteKept ==
  ASSUME NEW d, NEW e, Complete(d), e.am = d.am,
         Have(d) \cap Files(d.am) \subseteq Have(e),
         (Whole(d) \cap Files(d.am)) \ {Last(d.am.incr)} \subseteq Whole(e)
  PROVE  Complete(e)
<1> DEFINE m == d.am
<1>1. IsManifest(m)
  BY DEF Complete
<1>2. m.base # Last(m.incr) /\ (\A i \in 1..(Len(m.incr) - 1) : m.incr[i] # Last(m.incr))
      /\ ToSet(m.incr) = { m.incr[i] : i \in 1..Len(m.incr) } /\ Len(m.incr) \in Nat
  BY <1>1, ManifestFacts
<1>3. \A i \in 1..(Len(m.incr) - 1) : m.incr[i] \in ToSet(m.incr)
  <2>1. 1..(Len(m.incr) - 1) \subseteq 1..Len(m.incr)
    BY <1>2
  <2> QED
    BY <2>1, <1>2
<1>4. m.base \in Whole(e)
  BY <1>2 DEF Complete, Files
<1>5. ToSet(m.incr) \subseteq Have(e)
  BY DEF Complete, Files
<1>6. \A i \in 1..(Len(m.incr) - 1) : m.incr[i] \in Whole(e)
  BY <1>2, <1>3 DEF Complete, Files
<1> QED
  BY <1>1, <1>4, <1>5, <1>6 DEF Complete

\* loadAppendOnlyFiles loads a complete directory.
LEMMA CompleteLoads ==
  ASSUME NEW d, Complete(d)
  PROVE  Loads(d)
<1> DEFINE m == d.am
           k == Len(m.incr)
<1>1. IsManifest(m)
  BY DEF Complete
<1>2. /\ m.base # NoBase /\ k \in Nat \ {0} /\ m.incr \in Seq(ToSet(m.incr))
      /\ ToSet(m.incr) = { m.incr[i] : i \in 1..k }
  BY <1>1, ManifestFacts DEF Files
<1> DEFINE l == Listed(m)
<1>3. l = <<m.base>> \o m.incr
  BY <1>2 DEF Listed
<1> HIDE DEF l
<1>4. Len(l) = k + 1 /\ DOMAIN l = 1..(k + 1) /\ l[1] = m.base
      /\ \A i \in 2..(k + 1) : l[i] = m.incr[i - 1]
  <2>1. <<m.base>> \in Seq({m.base} \cup ToSet(m.incr))
        /\ m.incr \in Seq({m.base} \cup ToSet(m.incr)) /\ Len(<<m.base>>) = 1
    BY <1>2
  <2> QED
    BY <1>2, <1>3, <2>1
<1>5. \A i \in 1..(k + 1) : i = 1 \/ (i \in 2..(k + 1) /\ i - 1 \in 1..k)
  BY <1>2
<1>6. \A i \in 2..(k + 1) : i # k + 1 => i - 1 \in 1..(k - 1)
  BY <1>2
<1>7. ToSet(l) \subseteq Have(d)
  <2>1. \A i \in 1..(k + 1) : l[i] \in Have(d)
    BY <1>2, <1>4, <1>5 DEF Complete, Whole
  <2> QED
    BY <2>1, <1>4 DEF ToSet
<1>8. \A i \in DOMAIN l : d.files[l[i]].torn => i = Len(l)
  <2> SUFFICES ASSUME NEW i \in 1..(k + 1), i # k + 1
               PROVE  ~d.files[l[i]].torn
    BY <1>4
  <2>1. l[i] \in Whole(d)
    BY <1>4, <1>5, <1>6 DEF Complete
  <2> QED
    BY <2>1 DEF Whole
<1> QED
  BY <1>7, <1>8 DEF Loads, l, Have

\* What a running server may rely on.
LEMMA UsableFacts ==
  ASSUME NEW d, NEW m, Usable(d, m)
  PROVE  /\ IsManifest(m) /\ m.hist = {} /\ m.base = d.am.base /\ m.incr = d.am.incr
         /\ Files(d.am) = Files(m) /\ IsManifest(d.am) /\ LeftBehind(d) /\ IsDisk(d)
         /\ m.base \in Whole(d) /\ ToSet(m.incr) \subseteq Whole(d)
<1>1. IsManifest(d.am) /\ m = NoHistory(d.am)
  BY DEF Usable, Complete
<1>2. IsManifest(m) /\ m.hist = {} /\ m.base = d.am.base /\ m.incr = d.am.incr
  BY <1>1, NoHistoryManifest
<1>3. ToSet(m.incr) \subseteq Whole(d)
  <2>1. /\ Len(m.incr) \in Nat \ {0} /\ ToSet(m.incr) = { m.incr[i] : i \in 1..Len(m.incr) }
        /\ Last(m.incr) = m.incr[Len(m.incr)]
    BY <1>2, ManifestFacts
  <2>2. \A i \in 1..Len(m.incr) : i = Len(m.incr) \/ i \in 1..(Len(m.incr) - 1)
    BY <2>1
  <2> QED
    BY <1>2, <2>1, <2>2 DEF Usable, Complete
<1> QED
  BY <1>1, <1>2, <1>3 DEF Usable, Complete, Files, LeftBehind

\* A directory stays usable as long as the listed files are not touched.
LEMMA UsableKept ==
  ASSUME NEW d, NEW m, NEW e, Usable(d, m), IsDisk(e), e.am = d.am, e.old = d.old,
         Whole(d) \cap Files(m) \subseteq Whole(e)
  PROVE  Usable(e, m)
<1>1. /\ Files(d.am) = Files(m) /\ m.base \in Whole(d) /\ ToSet(m.incr) \subseteq Whole(d)
      /\ IsManifest(m)
  BY UsableFacts
<1>2. Files(m) \subseteq Whole(e) /\ Whole(e) \subseteq Have(e)
  BY <1>1 DEF Files, Whole
<1>3. Complete(e)
  BY <1>1, <1>2, CompleteKept DEF Usable
<1>4. Last(m.incr) \in Whole(e)
  BY <1>1, <1>2, ManifestFacts DEF Files
<1> QED
  BY <1>3, <1>4 DEF Usable, OldKept

\* A new file does no harm.
LEMMA UsablePut ==
  ASSUME NEW d, NEW m, NEW n, NEW f, Usable(d, m), IsFile(f), ~f.torn
  PROVE  /\ Usable(Put(d, n, f), m) /\ Put(d, n, f).am = d.am
         /\ Whole(Put(d, n, f)) = Whole(d) \cup {n}
<1> DEFINE e == Put(d, n, f)
<1>1. IsDisk(e) /\ e.am = d.am /\ e.old = d.old /\ Whole(e) = Whole(d) \cup {n}
  BY UsableFacts, PutWhole
<1> HIDE DEF e
<1>2. Usable(e, m)
  BY <1>1, UsableKept
<1> QED
  BY <1>1, <1>2 DEF e

\* A file that is not listed may be unlinked.
LEMMA UsableUnlink ==
  ASSUME NEW d, NEW m, NEW N, Usable(d, m), N \cap Files(m) = {}
  PROVE  /\ Usable(Unlink(d, N), m) /\ Unlink(d, N).am = d.am
         /\ Whole(Unlink(d, N)) = Whole(d) \ N
<1> DEFINE e == Unlink(d, N)
<1>1. IsDisk(e) /\ e.am = d.am /\ e.old = d.old /\ Whole(e) = Whole(d) \ N
  BY UsableFacts, UnlinkWhole
<1> HIDE DEF e
<1>2. Usable(e, m)
  BY <1>1, UsableKept
<1> QED
  BY <1>1, <1>2 DEF e

\* The manifest may be replaced by one all of whose files are there.
LEMMA UsablePersist ==
  ASSUME NEW d, NEW m, IsDisk(d), OldKept(d), IsManifest(m), Files(m) \subseteq Whole(d)
  PROVE  Usable(Persist(d, m), NoHistory(m)) /\ Persist(d, m).am = m
         /\ Whole(Persist(d, m)) = Whole(d)
<1> DEFINE e == Persist(d, m)
<1>1. /\ IsDisk(e) /\ e.am = m /\ e.old = d.old /\ Whole(e) = Whole(d) /\ Have(e) = Have(d)
  BY PersistWhole
<1> HIDE DEF e
<1>2. /\ ToSet(m.incr) = { m.incr[i] : i \in 1..Len(m.incr) } /\ Len(m.incr) \in Nat
      /\ Last(m.incr) \in ToSet(m.incr)
  BY ManifestFacts
<1>3. \A i \in 1..(Len(m.incr) - 1) : m.incr[i] \in ToSet(m.incr)
  <2>1. 1..(Len(m.incr) - 1) \subseteq 1..Len(m.incr)
    BY <1>2
  <2> QED
    BY <2>1, <1>2
<1>4. Complete(e)
  BY <1>1, <1>3 DEF Complete, Files, Whole
<1>5. NoHistory(m).incr = m.incr
  BY NoHistoryManifest
<1>6. Usable(e, NoHistory(m))
  BY <1>1, <1>2, <1>4, <1>5 DEF Usable, OldKept, Files
<1> QED
  BY <1>1, <1>6 DEF e

\* A flush (flushAppendOnlyFile) only makes a file longer.
LEMMA FlushedUsable ==
  ASSUME Usable(disk, am)
  PROVE  Usable(Flushed, am) /\ Flushed.am = disk.am /\ Whole(Flushed) = Whole(disk)
<1>1. CASE buf = <<>> \/ fd \notin DOMAIN disk.files
  BY <1>1 DEF Flushed
<1>2. CASE ~(buf = <<>> \/ fd \notin DOMAIN disk.files)
  <2> DEFINE f == [disk.files[fd] EXCEPT !.data = @ \o buf]
             e == [disk EXCEPT !.files[fd] = f]
  <2>1. Flushed = e
    BY <1>2 DEF Flushed
  <2>2. IsDisk(disk) /\ fd \in Have(disk) /\ IsFile(disk.files[fd])
    BY <1>2, UsableFacts DEF Have, IsDisk
  <2>3. IsFile(f) /\ f.torn = disk.files[fd].torn
    BY <2>2 DEF IsFile
  <2> HIDE DEF f
  <2>4. IsDisk(e) /\ e.am = disk.am /\ e.old = disk.old
        /\ Whole(e) \ {fd} = Whole(disk) \ {fd} /\ (fd \in Whole(e)) = ~f.torn
    BY <2>2, <2>3, FileChange
  <2> HIDE DEF e
  <2>5. Whole(e) = Whole(disk)
    <3>1. fd \in Whole(disk) <=> ~f.torn
      BY <2>2, <2>3 DEF Whole
    <3>2. fd \in Whole(disk) <=> fd \in Whole(e)
      BY <3>1, <2>4
    <3> QED
      BY <3>2, <2>4
  <2>6. Usable(e, am)
    BY <2>4, <2>5, UsableKept
  <2> QED
    BY <2>1, <2>4, <2>5, <2>6
<1> QED
  BY <1>1, <1>2

-----------------------------------------------------------------------------
(* Rewrites.                                                               *)

\* The start of a rewrite (openNewIncrAofForAppend), AOF being on: the server can go on, or stop,
\* after each of the steps.
LEMMA OpeningOn ==
  ASSUME DirSyncFails = FALSE, Usable(disk, am)
  PROVE  LET o == Opening("on") IN
         /\ Usable(Last(o.steps), o.am) /\ o.fd = Last(o.am.incr)
         /\ \A d \in o.failed : Usable(d, am)
         /\ \A d \in ToSet(o.steps) : LeftBehind(d)
<1> DEFINE created == NewIncr(Flushed, NextIncr(am))
           n == WithNewIncr(am)
           last == Persist(created, n)
           o == Opening("on")
<1>1. /\ o.steps = <<Flushed, created, last>> /\ o.am = n /\ o.fd = NextIncr(am)
      /\ o.failed = {Flushed} \cup FailedPersist(created, n)
  BY DEF Opening
<1>2. Usable(Flushed, am)
  BY FlushedUsable
<1>3. Usable(created, am) /\ Whole(created) = Whole(Flushed) \cup {NextIncr(am)}
  <2>1. IsFile(File(<<>>)) /\ ~File(<<>>).torn
    BY FileFacts
  <2> DEFINE f == File(<<>>)
  <2>2. \A x : NewIncr(Flushed, x) = Put(Flushed, x, f)
    BY DEF NewIncr
  <2> HIDE DEF f
  <2> QED
    BY <1>2, <2>1, <2>2, UsablePut DEF f
<1>4. IsManifest(am) /\ am.hist = {} /\ am.base \in Whole(Flushed)
      /\ ToSet(am.incr) \subseteq Whole(Flushed)
  BY <1>2, UsableFacts
<1>5. /\ IsManifest(n) /\ n.hist = {} /\ Last(n.incr) = NextIncr(am) /\ n.base = am.base
      /\ ToSet(n.incr) = ToSet(am.incr) \cup {NextIncr(am)}
  BY <1>4, NewIncrManifest
<1>6. NoHistory(n) = n
  BY <1>5, NoHistoryFields DEF IsManifest
<1>7. IsDisk(created) /\ OldKept(created)
  BY <1>3 DEF Usable
<1>8. Files(n) \subseteq Whole(created)
  BY <1>3, <1>4, <1>5 DEF Files
<1> HIDE DEF created, n, o
<1>9. Usable(last, n)
  BY <1>5, <1>6, <1>7, <1>8, UsablePersist
<1> HIDE DEF last
<1>10. LeftBehind(Flushed) /\ LeftBehind(created) /\ LeftBehind(last)
  BY <1>2, <1>3, <1>9, UsableFacts
<1>11. /\ ToSet(o.steps) = {Flushed, created, last} /\ Last(o.steps) = last
       /\ o.failed = {Flushed, created}
  <2>1. LET t == <<Flushed, created, last>> IN
        ToSet(t) = {Flushed, created, last} /\ Last(t) = last
    BY ThreeTuple
  <2>2. FailedPersist(created, n) = {created}
    BY NothingReplaced
  <2> QED
    BY <1>1, <2>1, <2>2
<1> QED
  BY <1>1, <1>2, <1>3, <1>5, <1>9, <1>10, <1>11 DEF o

\* The start of the first rewrite after AOF was switched on.
LEMMA OpeningWait ==
  ASSUME Usable(disk, am)
  PROVE  LET o == Opening("wait") IN
         /\ Usable(Last(o.steps), o.am) /\ o.am = am /\ o.fd = TempIncr
         /\ TempIncr \in Whole(Last(o.steps))
         /\ \A d \in o.failed : Usable(d, am)
         /\ \A d \in ToSet(o.steps) : LeftBehind(d)
<1> DEFINE created == NewIncr(Flushed, TempIncr)
           o == Opening("wait")
<1>1. o.steps = <<Flushed, created>> /\ o.am = am /\ o.fd = TempIncr /\ o.failed = {Flushed}
  BY DEF Opening
<1>2. Usable(Flushed, am)
  BY FlushedUsable
<1>3. Usable(created, am) /\ Whole(created) = Whole(Flushed) \cup {TempIncr}
  <2>1. IsFile(File(<<>>)) /\ ~File(<<>>).torn
    BY FileFacts
  <2> DEFINE f == File(<<>>)
  <2>2. \A n : NewIncr(Flushed, n) = Put(Flushed, n, f)
    BY DEF NewIncr
  <2> HIDE DEF f
  <2> QED
    BY <1>2, <2>1, <2>2, UsablePut DEF f
<1> HIDE DEF created, o
<1>4. LeftBehind(Flushed) /\ LeftBehind(created)
  BY <1>2, <1>3, UsableFacts
<1>5. ToSet(o.steps) = {Flushed, created} /\ Last(o.steps) = created
  <2>1. LET t == <<Flushed, created>> IN
        ToSet(t) = {Flushed, created} /\ Last(t) = created
    BY TupleFacts
  <2> QED
    BY <1>1, <2>1
<1> QED
  BY <1>1, <1>2, <1>3, <1>4, <1>5 DEF o

\* The renames of backgroundRewriteDoneHandler leave the listed files alone.
LEMMA RenamesUsable ==
  ASSUME Usable(disk, am), aof = "wait" => TempIncr \in Whole(disk)
  PROVE  /\ Usable(BaseRenamed, am) /\ Usable(AllRenamed, am)
         /\ Base(am.bseq + 1) \in Whole(AllRenamed)
         /\ aof = "wait" => NextIncr(am) \in Whole(AllRenamed)
         /\ Files(am) \subseteq Whole(AllRenamed)
<1>1. Usable(BaseRenamed, am) /\ Whole(BaseRenamed) = Whole(disk) \cup {Base(am.bseq + 1)}
  <2>1. IsFile(File(child.data)) /\ ~File(child.data).torn
    BY FileFacts
  <2> QED
    BY <2>1, UsablePut DEF BaseRenamed
<1>2. IsManifest(am) /\ am.bseq \in Nat /\ am.iseq \in Nat
  BY UsableFacts DEF IsManifest
<1>3. /\ TempIncr # Base(am.bseq + 1) /\ TempIncr # NextIncr(am)
  <2>1. am.bseq + 1 \in Nat /\ am.iseq + 1 \in Nat
    BY <1>2
  <2> QED
    BY <2>1, NameFacts DEF NextIncr
<1>4. TempIncr \notin Files(am)
  BY <1>2, ManifestFacts
<1>5. CASE aof = "wait"
  <2> DEFINE e == Rename(BaseRenamed, TempIncr, NextIncr(am))
  <2>1. AllRenamed = e
    BY <1>5 DEF AllRenamed
  <2>2. IsDisk(BaseRenamed) /\ TempIncr \in Whole(BaseRenamed)
    BY <1>1, <1>5 DEF Usable
  <2>3. IsDisk(e) /\ e.am = BaseRenamed.am /\ e.old = BaseRenamed.old
        /\ Whole(e) = (Whole(BaseRenamed) \cup {NextIncr(am)}) \ {TempIncr}
    BY <2>2, <1>3, RenameWhole
  <2> HIDE DEF e
  <2>4. Usable(e, am)
    BY <1>1, <1>4, <2>3, UsableKept
  <2>5. Files(am) \subseteq Whole(e)
    BY <2>4, UsableFacts DEF Files
  <2> QED
    BY <1>1, <1>3, <2>1, <2>3, <2>4, <2>5
<1>6. CASE aof # "wait"
  <2>1. AllRenamed = BaseRenamed
    BY <1>6 DEF AllRenamed
  <2>2. Files(am) \subseteq Whole(BaseRenamed)
    BY <1>1, UsableFacts DEF Files
  <2> QED
    BY <1>1, <1>6, <2>1, <2>2
<1> QED
  BY <1>1, <1>5, <1>6

\* After persistAofManifest the server can go on with the new manifest, and stop after each of
\* the steps that follow.
LEMMA CommitUsable ==
  ASSUME Usable(disk, am), fd # NoFd, aof = "wait" => TempIncr \in Whole(disk)
  PROVE  /\ \A d \in ToSet(CommitSteps) : Usable(d, NoHistory(NewManifest))
         /\ CommitSteps[2] \in ToSet(CommitSteps) /\ CommitSteps[3] \in ToSet(CommitSteps)
         /\ Last(NoHistory(NewManifest).incr)
              = IF aof = "wait" THEN NextIncr(am) ELSE Last(am.incr)
<1> DEFINE m == NewManifest
           h == NoHistory(m)
           x == IF aof = "wait" THEN NextIncr(am) ELSE Last(am.incr)
           persisted == Persist(AllRenamed, m)
           deleted == Unlink(persisted, m.hist)
           final == Persist(deleted, h)
<1>1. CommitSteps = <<persisted, deleted, final>>
  BY DEF CommitSteps
<1>2. IsManifest(am) /\ am.hist = {}
  BY UsableFacts
<1>3. IsManifest(m) /\ m.base = Base(am.bseq + 1) /\ m.incr = <<x>>
  BY <1>2, NewManifestFacts
<1>4. ToSet(m.incr) = {x} /\ Last(m.incr) = x
  BY <1>3, TupleFacts
<1>5. /\ Usable(AllRenamed, am) /\ Base(am.bseq + 1) \in Whole(AllRenamed)
      /\ aof = "wait" => NextIncr(am) \in Whole(AllRenamed)
      /\ Files(am) \subseteq Whole(AllRenamed)
  BY RenamesUsable
<1>6. Last(am.incr) \in Files(am)
  BY <1>2, ManifestFacts DEF Files
<1>7. x \in Whole(AllRenamed)
  BY <1>5, <1>6
<1> HIDE DEF x, m
<1>8. Files(m) \subseteq Whole(AllRenamed)
  BY <1>3, <1>4, <1>5, <1>7 DEF Files
<1>9. IsDisk(AllRenamed) /\ OldKept(AllRenamed)
  BY <1>5 DEF Usable
<1>10. Usable(persisted, h)
  BY <1>3, <1>8, <1>9, UsablePersist
<1>11. h.base = m.base /\ h.incr = m.incr /\ h.hist = {} /\ IsManifest(h) /\ NoHistory(h) = h
  BY <1>3, NoHistoryManifest
<1>12. m.hist \cap Files(h) = {} /\ Files(h) = Files(m)
  BY <1>3, <1>11 DEF Files, IsManifest
<1> HIDE DEF persisted, h
<1>13. Usable(deleted, h)
  BY <1>10, <1>12, UsableUnlink
<1> HIDE DEF deleted
<1>14. Usable(final, h)
  <2>1. IsDisk(deleted) /\ OldKept(deleted)
    BY <1>13 DEF Usable
  <2>2. Files(h) \subseteq Whole(deleted)
    BY <1>13, UsableFacts DEF Files
  <2> QED
    BY <1>11, <2>1, <2>2, UsablePersist
<1> HIDE DEF final
<1>15. ToSet(CommitSteps) = {persisted, deleted, final}
  <2>1. ToSet(<<persisted, deleted, final>>) = {persisted, deleted, final}
    BY ThreeTuple
  <2> QED
    BY <1>1, <2>1
<1>16. CommitSteps[2] = deleted /\ CommitSteps[3] = final
  BY <1>1
<1> QED
  BY <1>4, <1>10, <1>11, <1>13, <1>14, <1>15, <1>16 DEF h, m, x

-----------------------------------------------------------------------------
(* The start of the server.                                                *)

\* The fields of the manifests before the first start.
LEMMA FirstManifests ==
  /\ IsRecord(NoManifest) /\ IsRecord(Upgraded)
  /\ NoManifest.base = NoBase /\ NoManifest.incr = <<>> /\ NoManifest.hist = {}
  /\ NoManifest.bseq = 0 /\ NoManifest.iseq = 0
  /\ Upgraded.base = OldName /\ Upgraded.incr = <<>> /\ Upgraded.hist = {}
  /\ Upgraded.bseq = 1 /\ Upgraded.iseq = 0
BY DEF IsRecord, Fields, NoManifest, Upgraded

\* aofUpgradePrepare: each of its steps may be the last, and the directory is ready after all.
LEMMA UpgradeFacts ==
  ASSUME LeftBehind(disk)
  PROVE  /\ IsDisk(Last(UpgradeSteps)) /\ OldKept(Last(UpgradeSteps)) /\ Ready(Last(UpgradeSteps))
         /\ \A d \in ToSet(UpgradeSteps) : LeftBehind(d)
<1>1. CASE NeedsUpgrade
  <2> DEFINE listed == Persist(disk, Upgraded)
             put == Put(listed, OldName, disk.old)
             moved == [put EXCEPT !.old = NoFile]
  <2>1. UpgradeSteps = <<listed, moved>>
    BY <1>1 DEF UpgradeSteps, Upgraded
  <2>2. IsDisk(disk) /\ Unstarted(disk) /\ IsFile(disk.old) /\ ~disk.old.torn /\ disk.old # NoFile
    BY <1>1 DEF NeedsUpgrade, LeftBehind, Complete, IsManifest, OldKept
  <2>3. IsDisk(listed) /\ listed.am = Upgraded /\ listed.old = disk.old
        /\ Have(listed) = Have(disk) /\ Whole(listed) = Whole(disk)
    BY <2>2, PersistWhole
  <2> HIDE DEF listed
  <2>4. LeftBehind(listed)
    BY <2>2, <2>3 DEF LeftBehind, OldKept, Unstarted
  <2>5. IsDisk(put) /\ put.am = Upgraded /\ Have(put) = Have(disk) \cup {OldName}
        /\ Whole(put) = Whole(disk) \cup {OldName}
    BY <2>2, <2>3, PutWhole
  <2> HIDE DEF put
  <2>6. moved = [files |-> put.files, am |-> put.am, old |-> NoFile]
    BY <2>5 DEF IsDisk
  <2> HIDE DEF moved
  <2>7. moved.files = put.files /\ moved.am = Upgraded /\ moved.old = NoFile
    BY <2>5, <2>6
  <2>8. IsDisk(moved) /\ Have(moved) = Have(put) /\ Whole(moved) = Whole(put)
    BY <2>5, <2>6, <2>7 DEF IsDisk, Have, Whole
  <2>9. Ready(moved) /\ LeftBehind(moved)
    BY <2>2, <2>5, <2>7, <2>8 DEF Ready, LeftBehind, OldKept, Unstarted
  <2>10. ToSet(<<listed, moved>>) = {listed, moved} /\ Last(<<listed, moved>>) = moved
    BY TupleFacts
  <2> QED
    BY <2>1, <2>4, <2>9, <2>10 DEF LeftBehind
<1>2. CASE ~NeedsUpgrade
  <2>1. UpgradeSteps = <<disk>>
    BY <1>2 DEF UpgradeSteps
  <2>2. ToSet(<<disk>>) = {disk} /\ Last(<<disk>>) = disk
    BY TupleFacts
  <2>3. disk.am = Upgraded /\ disk.old # NoFile => OldName \in Have(disk)
    BY <1>2, FirstManifests DEF NeedsUpgrade, Have
  <2>4. Ready(disk)
    BY <2>3 DEF Ready, LeftBehind, Unstarted
  <2> QED
    BY <2>1, <2>2, <2>4 DEF LeftBehind
<1> QED
  BY <1>1, <1>2

\* A directory that is ready can be loaded.
LEMMA ReadyLoads ==
  ASSUME NEW d, Ready(d)
  PROVE  Loads(d)
<1>1. CASE Complete(d)
  BY <1>1, CompleteLoads
<1>2. CASE d.am = NoManifest
  <2>1. Listed(d.am) = <<>>
    BY <1>2, FirstManifests DEF Listed
  <2> QED
    BY <2>1 DEF Loads, ToSet
<1>3. CASE d.am = Upgraded /\ OldName \in Have(d)
  <2>1. Listed(d.am) = <<OldName>>
    BY <1>3, FirstManifests, NameFacts DEF Listed
  <2>2. ToSet(<<OldName>>) = {OldName}
    BY TupleFacts
  <2>3. \A i \in DOMAIN <<OldName>> : i = Len(<<OldName>>)
    OBVIOUS
  <2> QED
    BY <1>3, <2>1, <2>2, <2>3 DEF Loads, Have
<1> QED
  BY <1>1, <1>2, <1>3 DEF Ready

\* loadAppendOnlyFiles cuts off what was not written to the end.
LEMMA TruncatedReady ==
  ASSUME NEW e, IsDisk(e), OldKept(e), Ready(e)
  PROVE  LET d == Truncated(e) IN
         /\ IsDisk(d) /\ OldKept(d) /\ d.am = e.am /\ Have(d) = Have(e)
         /\ Ready(d) /\ Complete(d) = Complete(e)
         /\ Complete(e) => Last(d.am.incr) \in Whole(d)
<1> DEFINE d == Truncated(e)
           l == Listed(e.am)
           x == Last(l)
           f == [e.files[x] EXCEPT !.torn = FALSE]
           t == [e EXCEPT !.files[x] = f]
<1>1. Complete(e) => l # <<>> /\ x = Last(e.am.incr) /\ x \in Have(e)
  <2> SUFFICES ASSUME Complete(e)
               PROVE  l # <<>> /\ x = Last(e.am.incr) /\ x \in Have(e)
    OBVIOUS
  <2> DEFINE m == e.am
             k == Len(m.incr)
             S == {m.base} \cup ToSet(m.incr)
  <2>1. IsManifest(m) /\ ToSet(m.incr) \subseteq Have(e)
    BY DEF Complete
  <2>2. /\ m.base # NoBase /\ k \in Nat \ {0} /\ m.incr \in Seq(ToSet(m.incr))
        /\ Last(m.incr) = m.incr[k] /\ Last(m.incr) \in ToSet(m.incr)
    BY <2>1, ManifestFacts DEF Files
  <2>3. l = <<m.base>> \o m.incr
    BY <2>2 DEF Listed
  <2>4. <<m.base>> \in Seq(S) /\ m.incr \in Seq(S) /\ Len(<<m.base>>) = 1
    BY <2>2
  <2> HIDE DEF l, S
  <2>5. Len(l) = k + 1 /\ l[k + 1] = m.incr[k]
    BY <2>2, <2>3, <2>4
  <2>6. l # <<>>
    BY <2>2, <2>5
  <2>7. x = m.incr[k]
    BY <2>5 DEF Last
  <2> QED
    BY <2>1, <2>2, <2>6, <2>7
<1>2. CASE l = <<>>
  <2>1. d = e /\ ~Complete(e)
    BY <1>1, <1>2 DEF Truncated
  <2> QED
    BY <2>1
<1>3. CASE l # <<>>
  <2>1. d = t
    BY <1>3 DEF Truncated
  <2>2. x \in Have(e)
    <3>1. CASE Complete(e)
      BY <3>1, <1>1
    <3>2. CASE e.am = NoManifest
      BY <3>2, <1>3, FirstManifests DEF Listed
    <3>3. CASE e.am = Upgraded /\ OldName \in Have(e)
      <4>1. l = <<OldName>>
        BY <3>3, FirstManifests, NameFacts DEF Listed
      <4> QED
        BY <3>3, <4>1, TupleFacts
    <3> QED
      BY <3>1, <3>2, <3>3 DEF Ready
  <2>3. IsFile(e.files[x])
    BY <2>2 DEF IsDisk, Have
  <2> HIDE DEF x
  <2>4. IsFile(f) /\ ~f.torn
    BY <2>3 DEF IsFile
  <2> HIDE DEF f
  <2>5. /\ IsDisk(t) /\ t.am = e.am /\ t.old = e.old /\ Have(t) = Have(e)
        /\ Whole(t) \ {x} = Whole(e) \ {x} /\ (x \in Whole(t)) = ~f.torn
    BY <2>2, <2>4, FileChange
  <2> HIDE DEF t
  <2>6. x \in Whole(t) /\ Whole(e) \subseteq Whole(t)
    BY <2>4, <2>5
  <2>7. Complete(e) => Complete(t)
    BY <2>5, <2>6, CompleteKept
  <2>8. ~Complete(e) => Ready(t) /\ ~Complete(t)
    <3> SUFFICES ASSUME ~Complete(e) PROVE Ready(t) /\ ~Complete(t)
      OBVIOUS
    <3>1. Whole(t) = Have(t)
      BY <2>5, <2>6 DEF Ready, Whole
    <3>2. t.am.incr = <<>>
      BY <2>5, FirstManifests DEF Ready
    <3> QED
      BY <3>1, <3>2, <2>5 DEF Ready, Complete, IsManifest
  <2> QED
    BY <1>1, <2>1, <2>5, <2>6, <2>7, <2>8 DEF Ready, OldKept, Complete
<1> QED
  BY <1>2, <1>3

\* The fields Read changes.
LEMMA ReadFields ==
  ASSUME NEW m, IsRecord(m)
  PROVE  LET n == Read(m) IN
         /\ IsRecord(n) /\ n.base = m.base /\ n.incr = m.incr /\ n.hist = m.hist
         /\ n.bseq = m.base[2] /\ n.iseq = IF m.incr = <<>> THEN 0 ELSE Last(m.incr)[2]
BY DEF IsRecord, Read, Fields

\* aofLoadManifestFromFile finds the sequence numbers the manifest had.
LEMMA ReadSame ==
  /\ \A m : IsManifest(m) => Read(m) = m
  /\ Read(NoManifest) = NoManifest /\ Read(Upgraded) = Upgraded
<1>1. /\ \A k : Base(k)[2] = k /\ Incr(k)[2] = k
      /\ OldName[2] = 1 /\ NoBase[2] = 0
  BY DEF Base, Incr, OldName, NoBase
<1>2. ASSUME NEW m, IsManifest(m) PROVE Read(m) = m
  <2>1. IsRecord(m) /\ m.base[2] = m.bseq /\ m.incr # <<>> /\ Last(m.incr)[2] = m.iseq
    <3>1. IsRecord(m) /\ m.incr # <<>> /\ Last(m.incr) = Incr(m.iseq) /\ IsBase(m.base, m.bseq)
      BY <1>2 DEF IsManifest
    <3>2. m.base[2] = m.bseq
      <4>1. CASE m.base = OldName /\ m.bseq = 1
        BY <4>1, <1>1, Zenon
      <4>2. CASE m.base = Base(m.bseq)
        BY <4>2, <1>1, Zenon
      <4> QED
        BY <3>1, <4>1, <4>2 DEF IsBase
    <3>3. Last(m.incr)[2] = m.iseq
      BY <1>1, <3>1, Zenon
    <3> QED
      BY <3>1, <3>2, <3>3
  <2> DEFINE n == Read(m)
  <2>2. /\ IsRecord(n) /\ n.base = m.base /\ n.incr = m.incr /\ n.hist = m.hist
        /\ n.bseq = m.bseq /\ n.iseq = m.iseq
    BY <2>1, ReadFields
  <2> HIDE DEF n
  <2> QED
    BY <2>1, <2>2, SameRecord DEF n
<1>3. Read(NoManifest) = NoManifest
  <2> DEFINE n == Read(NoManifest)
  <2>1. /\ IsRecord(n) /\ n.base = NoBase /\ n.incr = <<>> /\ n.hist = {}
        /\ n.bseq = 0 /\ n.iseq = 0
    BY <1>1, FirstManifests, ReadFields
  <2> HIDE DEF n
  <2> QED
    BY <2>1, FirstManifests, SameRecord DEF n
<1>4. Read(Upgraded) = Upgraded
  <2> DEFINE n == Read(Upgraded)
  <2>1. /\ IsRecord(n) /\ n.base = OldName /\ n.incr = <<>> /\ n.hist = {}
        /\ n.bseq = 1 /\ n.iseq = 0
    BY <1>1, FirstManifests, ReadFields
  <2> HIDE DEF n
  <2> QED
    BY <2>1, FirstManifests, SameRecord DEF n
<1> QED
  BY <1>2, <1>3, <1>4

\* The manifest of the first start.
LEMMA FirstIncr ==
  ASSUME NEW m, IsRecord(m), m.incr = <<>>, m.hist = {}, m.iseq = 0,
         IsBase(m.base, m.bseq), m.bseq \in Nat
  PROVE  LET n == WithNewIncr(m) IN
         IsManifest(n) /\ n.base = m.base /\ n.incr = <<Incr(1)>> /\ n.hist = {}
<1> DEFINE n == WithNewIncr(m)
<1>1. NextIncr(m) = Incr(1)
  BY DEF NextIncr
<1>2. /\ IsRecord(n) /\ n.base = m.base /\ n.incr = Append(<<>>, Incr(1)) /\ n.hist = {}
      /\ n.bseq = m.bseq /\ n.iseq = 1
  BY <1>1, WithNewIncrFields
<1> HIDE DEF n
<1>3. n.incr = <<Incr(1)>>
  BY <1>2
<1>4. ToSet(<<Incr(1)>>) = {Incr(1)} /\ Last(<<Incr(1)>>) = Incr(1)
  BY TupleFacts
<1>5. n.incr \in Seq(ToSet(n.incr)) /\ n.incr # <<>> /\ Last(n.incr) = Incr(n.iseq)
      /\ Len(n.incr) = 1
  BY <1>2, <1>3, <1>4
<1>6. \A i \in 1..(Len(n.incr) - 1) : Older(n.incr[i], n.iseq)
  BY <1>5
<1>7. IsManifest(n)
  BY <1>2, <1>5, <1>6 DEF IsManifest
<1> QED
  BY <1>2, <1>3, <1>7 DEF n

\* aofOpenIfNeededOnServerStart keeps the manifest, or makes the first one.
LEMMA StartManifestFacts ==
  ASSUME NEW d, Ready(d)
  PROVE  LET m == StartManifest(Read(d.am)) IN
         /\ IsManifest(m)
         /\ Complete(d) => m = d.am
         /\ ~Complete(d) => m.incr = <<Incr(1)>> /\ m.hist = {}
<1> DEFINE r == Read(d.am)
           m == StartManifest(r)
<1>1. CASE Complete(d)
  <2>1. IsManifest(d.am) /\ r = d.am
    BY <1>1, ReadSame DEF Complete
  <2>2. d.am.incr # <<>> /\ d.am.base # NoBase
    BY <2>1, ManifestFacts DEF IsManifest, Files
  <2>3. Listed(d.am) # <<>>
    <3>1. /\ Len(d.am.incr) \in Nat /\ d.am.incr \in Seq(ToSet(d.am.incr))
      BY <2>1, ManifestFacts
    <3>2. Listed(d.am) = <<d.am.base>> \o d.am.incr
      BY <2>2 DEF Listed
    <3>3. <<d.am.base>> \in Seq({d.am.base} \cup ToSet(d.am.incr))
          /\ d.am.incr \in Seq({d.am.base} \cup ToSet(d.am.incr)) /\ Len(<<d.am.base>>) = 1
      BY <3>1
    <3>4. Len(Listed(d.am)) = 1 + Len(d.am.incr)
      BY <3>2, <3>3
    <3> QED
      BY <3>1, <3>4
  <2>4. m = d.am
    BY <2>1, <2>2, <2>3 DEF StartManifest
  <2> QED
    BY <1>1, <2>1, <2>4
<1>2. CASE ~Complete(d) /\ d.am = NoManifest
  <2> DEFINE b == WithNewBase(NoManifest)
  <2>1. Listed(NoManifest) = <<>>
    BY FirstManifests DEF Listed
  <2>2. /\ IsRecord(b) /\ b.base = Base(1) /\ b.incr = <<>> /\ b.hist = {} /\ b.bseq = 1
        /\ b.iseq = 0
    BY FirstManifests, WithNewBaseFields
  <2>3. r = NoManifest
    BY <1>2, ReadSame
  <2>4. m = WithNewIncr(b)
    BY <2>1, <2>2, <2>3 DEF StartManifest
  <2> HIDE DEF b
  <2>5. IsBase(b.base, b.bseq)
    BY <2>2 DEF IsBase
  <2> QED
    BY <1>2, <2>2, <2>4, <2>5, FirstIncr
<1>3. CASE ~Complete(d) /\ d.am = Upgraded
  <2>1. Listed(Upgraded) = <<OldName>>
    BY FirstManifests, NameFacts DEF Listed
  <2>2. r = Upgraded
    BY <1>3, ReadSame
  <2>3. m = WithNewIncr(Upgraded)
    <3>1. Listed(r) # <<>> /\ r.incr = <<>>
      <4>1. <<OldName>> # <<>>
        OBVIOUS
      <4> QED
        BY <2>1, <2>2, <4>1, FirstManifests, Zenon
    <3> QED
      BY <2>2, <3>1 DEF StartManifest
  <2>4. IsBase(Upgraded.base, Upgraded.bseq)
    BY FirstManifests DEF IsBase
  <2> QED
    BY <1>3, <2>3, <2>4, FirstManifests, FirstIncr
<1> QED
  BY <1>1, <1>2, <1>3 DEF Ready

\* Sequences of six elements.
LEMMA SixTuple ==
  ASSUME NEW a, NEW b, NEW c, NEW d, NEW e, NEW f
  PROVE  LET t == <<a, b, c, d, e, f>> IN
         /\ \A x \in ToSet(t) : x \in {a, b, c, d, e, f}
         /\ t[4] = d /\ t[5] = e /\ t[6] = f
<1>1. DOMAIN <<a, b, c, d, e, f>> = {1, 2, 3, 4, 5, 6}
  OBVIOUS
<1> QED
  BY <1>1 DEF ToSet

\* A file that is created if it is not there.
LEMMA Ensured ==
  ASSUME NEW d, NEW n, IsDisk(d), OldKept(d), Complete(d) \/ Unstarted(d),
         Complete(d) => n \in Whole(d), NEW e,
         e = IF n \in DOMAIN d.files THEN d ELSE Put(d, n, File(<<>>))
  PROVE  /\ LeftBehind(e) /\ e.am = d.am /\ n \in Whole(e) /\ Whole(d) \subseteq Whole(e)
         /\ Complete(d) => e = d
         /\ Unstarted(d) => Unstarted(e)
<1>1. CASE n \in DOMAIN d.files
  <2>1. e = d
    BY <1>1
  <2>2. n \in Whole(d)
    BY <1>1 DEF Unstarted, Have
  <2> QED
    BY <2>1, <2>2 DEF LeftBehind
<1>2. CASE n \notin DOMAIN d.files
  <2>1. ~Complete(d) /\ Unstarted(d)
    BY <1>2 DEF Whole, Have
  <2>2. IsFile(File(<<>>)) /\ ~File(<<>>).torn
    BY FileFacts
  <2>3. /\ IsDisk(e) /\ e.am = d.am /\ e.old = d.old /\ Have(e) = Have(d) \cup {n}
        /\ Whole(e) = Whole(d) \cup {n}
    BY <1>2, <2>2, PutWhole
  <2>4. Unstarted(e)
    BY <2>1, <2>3 DEF Unstarted
  <2> QED
    BY <2>1, <2>3, <2>4 DEF LeftBehind, OldKept
<1> QED
  BY <1>1, <1>2

\* The start of the server: each of its steps may be the last, and the server runs after all.
LEMMA StartFacts ==
  ASSUME LeftBehind(disk)
  PROVE  LET m == StartSteps[4].am IN
         /\ Usable(StartSteps[5], NoHistory(m)) /\ Usable(StartSteps[6], NoHistory(m))
         /\ Last(m.incr) \notin m.hist /\ Last(NoHistory(m).incr) = Last(m.incr)
         /\ \A d \in ToSet(StartSteps) : LeftBehind(d)
<1> DEFINE u == Last(UpgradeSteps)
           d == Truncated(u)
           m == StartManifest(Read(d.am))
           h == NoHistory(m)
           based == IF m.base \in DOMAIN d.files THEN d ELSE Put(d, m.base, File(<<>>))
           opened == IF Last(m.incr) \in DOMAIN based.files THEN based
                     ELSE Put(based, Last(m.incr), File(<<>>))
           persisted == Persist(opened, m)
           deleted == Unlink(persisted, m.hist)
           final == Persist(deleted, h)
<1>1. StartSteps = <<d, based, opened, persisted, deleted, final>>
  BY DEF StartSteps
<1>2. IsDisk(u) /\ OldKept(u) /\ Ready(u)
  BY UpgradeFacts
<1> HIDE DEF u
<1>3. /\ IsDisk(d) /\ OldKept(d) /\ Ready(d)
      /\ Complete(d) => Last(d.am.incr) \in Whole(d)
  BY <1>2, TruncatedReady
<1> HIDE DEF d
<1>4. /\ IsManifest(m) /\ (Complete(d) => m = d.am)
      /\ (~Complete(d) => m.incr = <<Incr(1)>> /\ m.hist = {})
  BY <1>3, StartManifestFacts
<1> HIDE DEF m
<1>5. Complete(d) \/ Unstarted(d)
  BY <1>3 DEF Ready, Unstarted
<1>6. LeftBehind(d)
  BY <1>3, <1>5 DEF LeftBehind
<1>7. Complete(d) => m.base \in Whole(d) /\ Last(m.incr) \in Whole(d)
  BY <1>3, <1>4 DEF Complete
<1>8. /\ LeftBehind(based) /\ m.base \in Whole(based) /\ Whole(d) \subseteq Whole(based)
      /\ (Complete(d) => based = d) /\ (Unstarted(d) => Unstarted(based))
  BY <1>3, <1>5, <1>7, Ensured
<1>9. ~(Complete(based) /\ Unstarted(based)) /\ ~(Complete(d) /\ Unstarted(d))
  BY FirstManifests DEF Complete, Unstarted, IsManifest
<1>10. Complete(based) => Last(m.incr) \in Whole(based)
  BY <1>5, <1>7, <1>8, <1>9
<1> HIDE DEF based
<1>11. /\ LeftBehind(opened) /\ Last(m.incr) \in Whole(opened)
       /\ Whole(based) \subseteq Whole(opened) /\ (Complete(based) => opened = based)
  BY <1>8, <1>10, Ensured DEF LeftBehind
<1> HIDE DEF opened
<1>12. Files(m) \subseteq Whole(opened)
  <2>1. CASE Complete(d)
    <3>1. opened = d /\ m = d.am /\ ToSet(m.incr) = { m.incr[i] : i \in 1..Len(m.incr) }
          /\ Len(m.incr) \in Nat \ {0} /\ Last(m.incr) = m.incr[Len(m.incr)]
      BY <2>1, <1>4, <1>8, <1>11, ManifestFacts
    <3>2. \A i \in 1..Len(m.incr) : i = Len(m.incr) \/ i \in 1..(Len(m.incr) - 1)
      BY <3>1
    <3>3. ToSet(m.incr) \subseteq Whole(d)
      BY <2>1, <3>1, <3>2, <1>7 DEF Complete
    <3> QED
      BY <2>1, <3>1, <3>3, <1>7 DEF Files
  <2>2. CASE ~Complete(d)
    <3>1. ToSet(m.incr) = {Last(m.incr)}
      <4>1. ToSet(<<Incr(1)>>) = {Incr(1)} /\ Last(<<Incr(1)>>) = Incr(1)
        BY TupleFacts
      <4> QED
        BY <2>2, <1>4, <4>1
    <3> QED
      BY <3>1, <1>8, <1>11 DEF Files
  <2> QED
    BY <2>1, <2>2
<1>13. IsDisk(opened) /\ OldKept(opened)
  BY <1>11 DEF LeftBehind
<1>14. Usable(persisted, h) /\ persisted.am = m
  BY <1>4, <1>12, <1>13, UsablePersist
<1> HIDE DEF persisted
<1>15. h.base = m.base /\ h.incr = m.incr /\ h.hist = {} /\ IsManifest(h) /\ NoHistory(h) = h
  BY <1>4, NoHistoryManifest
<1>16. m.hist \cap Files(h) = {}
  BY <1>4, <1>15 DEF Files, IsManifest
<1> HIDE DEF h
<1>17. Usable(deleted, h)
  BY <1>14, <1>16, UsableUnlink
<1> HIDE DEF deleted
<1>18. Usable(final, h)
  <2>1. IsDisk(deleted) /\ OldKept(deleted)
    BY <1>17 DEF Usable
  <2>2. Files(h) \subseteq Whole(deleted)
    BY <1>17, UsableFacts DEF Files
  <2> QED
    BY <1>15, <2>1, <2>2, UsablePersist
<1> HIDE DEF final
<1>19. LeftBehind(persisted) /\ LeftBehind(deleted) /\ LeftBehind(final)
  BY <1>14, <1>17, <1>18, UsableFacts
<1>20. /\ \A x \in ToSet(StartSteps) : x \in {d, based, opened, persisted, deleted, final}
       /\ StartSteps[4] = persisted /\ StartSteps[5] = deleted /\ StartSteps[6] = final
  <2>1. LET t == <<d, based, opened, persisted, deleted, final>> IN
        /\ \A x \in ToSet(t) : x \in {d, based, opened, persisted, deleted, final}
        /\ t[4] = persisted /\ t[5] = deleted /\ t[6] = final
    BY SixTuple
  <2> QED
    BY <1>1, <2>1
<1>21. \A x \in ToSet(StartSteps) : LeftBehind(x)
  BY <1>6, <1>8, <1>11, <1>19, <1>20
<1>22. Last(m.incr) \notin m.hist /\ Last(h.incr) = Last(m.incr)
  BY <1>4, <1>15, ManifestFacts DEF IsManifest
<1> QED
  BY <1>14, <1>17, <1>18, <1>20, <1>21, <1>22 DEF h

-----------------------------------------------------------------------------
(* The steps.                                                              *)

\* The bounds are numbers.
LEMMA Bounds ==
  MaxWrites \in Nat /\ MaxRewrites \in Nat /\ MaxSwitches \in Nat /\ MaxFaults \in Nat
BY BoundAssumption

\* The invariant holds at the beginning.
LEMMA InitInv == Init => IInv
<1> SUFFICES ASSUME Init PROVE IInv
  OBVIOUS
<1>1. Types
  <2>1. writes \in 0..MaxWrites /\ rewrites \in 0..MaxRewrites
        /\ switches \in 0..MaxSwitches /\ faults \in 0..MaxFaults
    BY Bounds DEF Init
  <2> QED
    BY <2>1 DEF Init, Types
<1>2. IsDisk(disk)
  BY DEF Init, IsDisk
<1>3. OldKept(disk)
  <2>1. IsFile(File(db)) /\ ~File(db).torn
    BY FileFacts
  <2> QED
    BY <2>1 DEF Init, OldKept
<1>4. Unstarted(disk)
  <2>1. disk.files = <<>> /\ disk.am = NoManifest
    BY DEF Init
  <2>2. Have(disk) = {}
    BY <2>1 DEF Have
  <2> QED
    BY <2>1, <2>2 DEF Unstarted, Whole
<1> QED
  BY <1>1, <1>2, <1>3, <1>4 DEF Init, IInv, Runs, Stopped, LeftBehind

\* A crash, whatever it leaves behind.
LEMMA CrashStep ==
  ASSUME Types, NEW d, LeftBehind(d), CrashWith(d)
  PROVE  IInv'
<1>1. Types'
  <2>1. faults' \in 0..MaxFaults
    BY Bounds DEF Types, CrashWith, Fault
  <2> QED
    BY <2>1 DEF Types, CrashWith
<1>2. ~up' /\ aof' = "on" /\ child' = NoChild /\ LeftBehind(disk')
  BY DEF CrashWith, NoChild
<1>3. Stopped' /\ Runs'
  BY <1>2 DEF Stopped, Runs
<1> QED
  BY <1>1, <1>3 DEF IInv

\* The invariant for a server that runs.
LEMMA UpFacts ==
  ASSUME IInv, up
  PROVE  Types /\ Usable(disk, am) /\ Appends /\ aof \in {"off", "on", "wait"}
BY DEF IInv, Runs, Types

\* The invariant after a step of a server that goes on running.
LEMMA StaysUp ==
  ASSUME up', Types', Usable(disk', am'), Appends'
  PROVE  IInv'
BY DEF IInv, Runs, Stopped

\* The invariant is kept by Write.
LEMMA WriteStep ==
  ASSUME IInv, Write
  PROVE  IInv'
<1>1. Types /\ Usable(disk, am) /\ Appends /\ up
  BY UpFacts DEF Write
<1>2. Types'
  BY <1>1, Bounds DEF Types, Write
<1>3. UNCHANGED <<disk, am, aof, fd, child, up>>
  BY DEF Write
<1>4. Appends'
  BY <1>1, <1>3 DEF Appends
<1> QED
  BY <1>1, <1>2, <1>3, <1>4, StaysUp

\* The invariant is kept by Flush.
LEMMA FlushStep ==
  ASSUME IInv, Flush
  PROVE  IInv'
<1>1. Types /\ Usable(disk, am) /\ Appends /\ up
  BY UpFacts DEF Flush
<1>2. Types'
  BY <1>1 DEF Types, Flush, bounds
<1>3. UNCHANGED <<am, aof, fd, child, up>> /\ disk' = Flushed
  BY DEF Flush
<1>4. Usable(Flushed, am) /\ Whole(Flushed) = Whole(disk)
  BY <1>1, FlushedUsable
<1>5. Appends'
  BY <1>1, <1>3, <1>4 DEF Appends
<1> QED
  BY <1>1, <1>2, <1>3, <1>4, <1>5, StaysUp

\* The invariant is kept by Rewrite.
LEMMA RewriteStep ==
  ASSUME OffRewrites = FALSE, DirSyncFails = FALSE, IInv, Rewrite
  PROVE  IInv'
<1> DEFINE o == Opening(aof)
<1>1. Types /\ Usable(disk, am) /\ Appends /\ up /\ aof \in {"on", "wait"}
  BY UpFacts DEF Rewrite, RewriteDue
<1>2. Types'
  <2>1. faults' \in 0..MaxFaults
    BY <1>1, Bounds DEF Rewrite, Forks, ForkFails, Fault, Types
  <2>2. rewrites' \in 0..MaxRewrites
    BY <1>1, Bounds DEF Rewrite, RewriteDue, Types
  <2> QED
    BY <1>1, <2>1, <2>2 DEF Types, Rewrite
<1>3. up' = up /\ aof' = aof
  BY DEF Rewrite
<1>4. /\ Usable(Last(o.steps), o.am)
      /\ \A d \in o.failed : Usable(d, am)
      /\ aof = "on" => o.fd = Last(o.am.incr)
      /\ aof = "wait" => o.fd = TempIncr /\ TempIncr \in Whole(Last(o.steps))
  <2>1. CASE aof = "on"
    BY <1>1, <2>1, OpeningOn
  <2>2. CASE aof = "wait"
    BY <1>1, <2>2, OpeningWait
  <2> QED
    BY <1>1, <2>1, <2>2
<1> HIDE DEF o
<1>5. CASE disk' = Last(o.steps) /\ am' = o.am /\ fd' = o.fd
  <2>1. Appends'
    BY <1>1, <1>3, <1>4, <1>5 DEF Appends
  <2> QED
    BY <1>1, <1>2, <1>3, <1>4, <1>5, <2>1, StaysUp
<1>6. CASE disk' \in o.failed /\ am' = am /\ fd' = fd /\ child' = NoChild
  <2>1. Appends'
    BY <1>1, <1>3, <1>6 DEF Appends, NoChild
  <2> QED
    BY <1>1, <1>2, <1>3, <1>4, <1>6, <2>1, StaysUp
<1> QED
  BY <1>5, <1>6 DEF Rewrite, Forks, ForkFails, o

\* The invariant is kept by RewriteCrash.
LEMMA RewriteCrashStep ==
  ASSUME OffRewrites = FALSE, DirSyncFails = FALSE, IInv, RewriteCrash
  PROVE  IInv'
<1>1. Types /\ Usable(disk, am) /\ aof \in {"on", "wait"}
  BY UpFacts DEF RewriteCrash, RewriteDue
<1>2. PICK d \in ToSet(Opening(aof).steps) : CrashWith(d)
  BY DEF RewriteCrash
<1>3. LeftBehind(d)
  <2>1. CASE aof = "on"
    BY <1>1, <1>2, <2>1, OpeningOn
  <2>2. CASE aof = "wait"
    BY <1>1, <1>2, <2>2, OpeningWait
  <2> QED
    BY <1>1, <2>1, <2>2
<1> QED
  BY <1>1, <1>2, <1>3, CrashStep

\* The invariant is kept by StopAppendOnly.
LEMMA StopStep ==
  ASSUME IInv, StopAppendOnly
  PROVE  IInv'
<1>1. Types /\ Usable(disk, am) /\ Appends /\ up
  BY UpFacts DEF StopAppendOnly
<1>2. Types'
  BY <1>1, Bounds DEF Types, StopAppendOnly
<1>3. up' /\ am' = am /\ disk' = Flushed /\ aof' = "off" /\ fd' = NoFd /\ child' = NoChild
  BY <1>1 DEF StopAppendOnly
<1>4. Usable(Flushed, am)
  BY <1>1, FlushedUsable
<1>5. Appends'
  BY <1>3 DEF Appends, NoChild, NoFd
<1> QED
  BY <1>2, <1>3, <1>4, <1>5, StaysUp

\* The invariant is kept by StartAppendOnly.
LEMMA StartAofStep ==
  ASSUME IInv, StartAppendOnly
  PROVE  IInv'
<1> DEFINE o == Opening("wait")
<1>1. Types /\ Usable(disk, am) /\ Appends /\ up /\ aof = "off"
  BY UpFacts DEF StartAppendOnly
<1>2. up' = up /\ aof' \in {"off", "wait"} /\ buf' = buf
  BY DEF StartAppendOnly
<1>3. Types'
  <2>1. faults' \in 0..MaxFaults
    BY <1>1, Bounds DEF StartAppendOnly, Forks, ForkFails, Fault, Types
  <2>2. buf = <<>>
    BY <1>1 DEF Types
  <2> QED
    BY <1>1, <1>2, <2>1, <2>2 DEF Types, StartAppendOnly
<1>4. /\ Usable(Last(o.steps), o.am) /\ o.am = am /\ o.fd = TempIncr
      /\ TempIncr \in Whole(Last(o.steps))
      /\ \A d \in o.failed : Usable(d, am)
  BY <1>1, OpeningWait
<1> HIDE DEF o
<1>5. CASE Forks("wait") /\ aof' = "wait"
  <2>1. disk' = Last(o.steps) /\ am' = o.am /\ fd' = TempIncr
    BY <1>4, <1>5 DEF Forks, o
  <2>2. Appends'
    BY <1>4, <1>5, <2>1 DEF Appends, TempIncr
  <2> QED
    BY <1>1, <1>2, <1>3, <1>4, <2>1, <2>2, StaysUp
<1>6. CASE ForkFails("wait") /\ aof' = "off"
  <2>1. /\ child' = NoChild
        /\ \/ disk' = Last(o.steps) /\ am' = o.am /\ fd' = TempIncr
           \/ disk' \in o.failed /\ am' = am /\ fd' = fd
    BY <1>4, <1>6 DEF ForkFails, o
  <2>2. Usable(disk', am')
    BY <1>4, <2>1
  <2>3. fd' \in {NoFd, TempIncr, Unlinked}
    BY <1>1, <2>1 DEF Appends
  <2>4. Appends'
    BY <1>6, <2>1, <2>3 DEF Appends, NoChild, NoFd, TempIncr, Unlinked
  <2> QED
    BY <1>1, <1>2, <1>3, <2>2, <2>4, StaysUp
<1>7. CASE child = NoChild /\ aof' = "wait" /\ UNCHANGED <<am, fd, child, disk, faults>>
  <2>1. Appends'
    BY <1>1, <1>7 DEF Appends, NoChild, NoFd, TempIncr, Unlinked
  <2> QED
    BY <1>1, <1>2, <1>3, <1>7, <2>1, StaysUp
<1> QED
  BY <1>5, <1>6, <1>7 DEF StartAppendOnly

\* A rewrite is under way: AOF is not off and a file is open.
LEMMA RewriteFacts ==
  ASSUME IInv, up, child # NoChild
  PROVE  /\ aof \in {"on", "wait"} /\ fd # NoFd
         /\ aof = "wait" => TempIncr \in Whole(disk)
<1>1. Usable(disk, am) /\ Appends /\ aof \in {"off", "on", "wait"}
  BY UpFacts
<1>2. Last(am.incr) # NoFd
  BY <1>1, UsableFacts, ManifestFacts DEF Files
<1> QED
  BY <1>1, <1>2, NameFacts DEF Appends

\* The invariant is kept by RewriteDone.
LEMMA RewriteDoneStep ==
  ASSUME DirSyncFails = FALSE, IInv, RewriteDone
  PROVE  IInv'
<1> DEFINE n == NoHistory(NewManifest)
<1>1. Types /\ Usable(disk, am) /\ up /\ child # NoChild
  BY UpFacts DEF RewriteDone
<1>2. aof \in {"on", "wait"} /\ fd # NoFd /\ (aof = "wait" => TempIncr \in Whole(disk))
  BY <1>1, RewriteFacts
<1>3. Types'
  <2>1. faults' \in 0..MaxFaults
    BY <1>1, Bounds DEF RewriteDone, Fault, Types
  <2> QED
    BY <1>1, <1>2, <2>1 DEF Types, RewriteDone
<1>4. /\ Usable(CommitSteps[2], n) /\ Usable(CommitSteps[3], n)
      /\ Last(n.incr) = IF aof = "wait" THEN NextIncr(am) ELSE Last(am.incr)
  BY <1>1, <1>2, CommitUsable
<1>5. /\ disk' \in {CommitSteps[2], CommitSteps[3]} /\ am' = n /\ aof' = "on" /\ up'
      /\ fd' = IF aof = "wait" THEN NextIncr(am) ELSE fd
  <2>1. FailedPersist(CommitSteps[2], NoHistory(NewManifest)) = {CommitSteps[2]}
    BY NothingReplaced
  <2> QED
    BY <1>1, <1>2, <2>1 DEF RewriteDone
<1> HIDE DEF n
<1>6. aof = "on" => fd = Last(am.incr)
  BY <1>1, UpFacts DEF Appends
<1>7. Appends'
  BY <1>2, <1>4, <1>5, <1>6 DEF Appends
<1> QED
  BY <1>3, <1>4, <1>5, <1>7, StaysUp

\* The invariant is kept by RewriteFails.
LEMMA RewriteFailsStep ==
  ASSUME DirSyncFails = FALSE, IInv, RewriteFails
  PROVE  IInv'
<1> DEFINE new == {Base(am.bseq + 1)} \cup (IF aof = "wait" THEN {NextIncr(am)} ELSE {})
           dropped == IF aof = "wait" THEN {TempIncr} ELSE {}
           D == {disk, Unlink(BaseRenamed, {Base(am.bseq + 1)}), Unlink(AllRenamed, new)}
<1>1. Types /\ Usable(disk, am) /\ up /\ child # NoChild
  BY UpFacts DEF RewriteFails
<1>2. aof \in {"on", "wait"} /\ fd # NoFd /\ (aof = "wait" => TempIncr \in Whole(disk))
  BY <1>1, RewriteFacts
<1>3. Types'
  BY <1>1, <1>2, Bounds DEF RewriteFails, Fault, Types
<1>4. IsManifest(am)
  BY <1>1, UsableFacts
<1>5. new \cap Files(am) = {} /\ dropped \cap Files(am) = {}
      /\ {Base(am.bseq + 1)} \cap Files(am) = {}
  BY <1>4, ManifestFacts DEF NextIncr
<1>6. Usable(BaseRenamed, am) /\ Usable(AllRenamed, am)
  BY <1>1, <1>2, RenamesUsable
<1> HIDE DEF new, dropped
<1>7. \A d \in D : Usable(d, am)
  <2>1. Usable(Unlink(BaseRenamed, {Base(am.bseq + 1)}), am)
    BY <1>5, <1>6, UsableUnlink
  <2>2. Usable(Unlink(AllRenamed, new), am)
    BY <1>5, <1>6, UsableUnlink
  <2> QED
    BY <1>1, <2>1, <2>2
<1>8. PICK d \in D : disk' = Unlink(d, dropped)
  <2>1. { Unlink(e, new) : e \in FailedPersist(AllRenamed, NewManifest) }
          = {Unlink(AllRenamed, new)}
    <3>1. FailedPersist(AllRenamed, NewManifest) = {AllRenamed}
      BY NothingReplaced
    <3> QED
      BY <3>1
  <2> QED
    BY <2>1 DEF RewriteFails, new, dropped
<1> HIDE DEF D
<1>9. Usable(disk', am)
  BY <1>5, <1>7, <1>8, UsableUnlink
<1>10. up' /\ am' = am /\ aof' = aof /\ child' = NoChild
       /\ fd' = IF aof = "wait" THEN Unlinked ELSE fd
  BY <1>1 DEF RewriteFails
<1>11. aof = "on" => fd = Last(am.incr)
  BY <1>1, UpFacts DEF Appends
<1>12. Appends'
  BY <1>2, <1>10, <1>11 DEF Appends, NoChild, Unlinked
<1> QED
  BY <1>3, <1>9, <1>10, <1>12, StaysUp

\* The invariant is kept by RewriteDoneCrash.
LEMMA RewriteDoneCrashStep ==
  ASSUME IInv, RewriteDoneCrash
  PROVE  IInv'
<1>1. Types /\ Usable(disk, am) /\ up /\ child # NoChild
  BY UpFacts DEF RewriteDoneCrash
<1>2. fd # NoFd /\ (aof = "wait" => TempIncr \in Whole(disk))
  BY <1>1, RewriteFacts
<1>3. Usable(BaseRenamed, am) /\ Usable(AllRenamed, am)
      /\ \A d \in ToSet(CommitSteps) : Usable(d, NoHistory(NewManifest))
  BY <1>1, <1>2, RenamesUsable, CommitUsable
<1>4. PICK d \in {BaseRenamed, AllRenamed} \cup ToSet(CommitSteps) : CrashWith(d)
  BY DEF RewriteDoneCrash
<1>5. LeftBehind(d)
  BY <1>3, <1>4, UsableFacts
<1> QED
  BY <1>1, <1>4, <1>5, CrashStep

\* The invariant is kept by Start.
LEMMA StartStep ==
  ASSUME DirSyncFails = FALSE, IInv, Start
  PROVE  IInv'
<1> DEFINE m == StartSteps[4].am
<1>1. Types /\ LeftBehind(disk) /\ ~up /\ aof = "on" /\ child = NoChild
  BY DEF IInv, Stopped, Start
<1>2. /\ Usable(StartSteps[5], NoHistory(m)) /\ Usable(StartSteps[6], NoHistory(m))
      /\ Last(m.incr) \notin m.hist /\ Last(NoHistory(m).incr) = Last(m.incr)
  BY <1>1, StartFacts
<1>3. Types'
  <2>1. faults' \in 0..MaxFaults
    BY <1>1, Bounds DEF Start, Fault, Types
  <2> QED
    BY <1>1, <2>1 DEF Types, Start
<1>4. /\ up' /\ aof' = "on" /\ am' = NoHistory(m)
      /\ fd' = IF Last(m.incr) \in m.hist THEN Unlinked ELSE Last(m.incr)
      /\ disk' \in {StartSteps[5], StartSteps[6]}
  <2>1. FailedPersist(StartSteps[5], am') = {StartSteps[5]}
    BY NothingReplaced
  <2> QED
    BY <2>1 DEF Start
<1> HIDE DEF m
<1>5. Appends'
  BY <1>2, <1>4 DEF Appends
<1> QED
  BY <1>2, <1>3, <1>4, <1>5, StaysUp

\* The invariant is kept by StartCrash.
LEMMA StartCrashStep ==
  ASSUME IInv, StartCrash
  PROVE  IInv'
<1>1. Types /\ LeftBehind(disk)
  BY DEF IInv, Stopped, StartCrash
<1>2. PICK d \in ToSet(UpgradeSteps) \cup
                 (IF Loads(Last(UpgradeSteps)) THEN ToSet(StartSteps) ELSE {}) : CrashWith(d)
  BY DEF StartCrash
<1>3. LeftBehind(d)
  BY <1>1, <1>2, UpgradeFacts, StartFacts
<1> QED
  BY <1>1, <1>2, <1>3, CrashStep

\* The invariant is kept by CrashInFlush.
LEMMA CrashInFlushStep ==
  ASSUME IInv, CrashInFlush
  PROVE  IInv'
<1>1. Types /\ Usable(disk, am) /\ Appends /\ up /\ aof \in {"on", "wait"} /\ fd \in Have(disk)
  BY UpFacts DEF CrashInFlush, Have
<1>2. PICK n \in 0..Len(buf), torn \in BOOLEAN :
        CrashWith([disk EXCEPT !.files[fd] =
                     [data |-> @.data \o SubSeq(buf, 1, n), torn |-> torn]])
  BY DEF CrashInFlush
<1> DEFINE f == [data |-> disk.files[fd].data \o SubSeq(buf, 1, n), torn |-> torn]
           e == [disk EXCEPT !.files[fd] = f]
<1>3. CrashWith(e)
  BY <1>2
<1>4. IsFile(f)
  BY DEF IsFile
<1> HIDE DEF f
<1>5. IsDisk(disk) /\ OldKept(disk) /\ Complete(disk)
  BY <1>1 DEF Usable
<1>6. /\ IsDisk(e) /\ e.am = disk.am /\ e.old = disk.old /\ Have(e) = Have(disk)
      /\ Whole(e) \ {fd} = Whole(disk) \ {fd}
  BY <1>1, <1>4, <1>5, FileChange
<1> HIDE DEF e
<1>7. IsManifest(am) /\ am.incr = disk.am.incr /\ Files(disk.am) = Files(am)
  BY <1>1, UsableFacts
<1>8. fd = Last(disk.am.incr) \/ fd \notin Files(disk.am)
  BY <1>1, <1>7, ManifestFacts DEF Appends
<1>9. Complete(e)
  BY <1>5, <1>6, <1>8, CompleteKept
<1>10. LeftBehind(e)
  BY <1>5, <1>6, <1>9 DEF LeftBehind, OldKept
<1> QED
  BY <1>1, <1>3, <1>10, CrashStep

\* The invariant is kept by a stuttering step.
LEMMA StutterStep ==
  ASSUME IInv, UNCHANGED vars
  PROVE  IInv'
<1>1. UNCHANGED <<up, aof, buf, fd, am, child, disk, writes, rewrites, switches, faults>>
  BY DEF vars
<1> QED
  BY <1>1 DEF IInv, Types, Runs, Stopped, Appends

-----------------------------------------------------------------------------
(***************************************************************************)
(* The invariant holds in every reachable state: the manifest on disk lists *)
(* files that are there, of which only the last may be cut short, and the  *)
(* server has this manifest in memory and appends to its last file, whatever *)
(* call but the fsync of the directory fails and wherever a crash          *)
(* interrupts a rewrite, an upgrade or a start                             *)
(* (backgroundRewriteDoneHandler, rewriteAppendOnlyFileBackground,         *)
(* aofUpgradePrepare, aofOpenIfNeededOnServerStart).                       *)
(***************************************************************************)
THEOREM Inductive ==
  ASSUME OffRewrites = FALSE, DirSyncFails = FALSE
  PROVE  Spec => []IInv
<1>1. ASSUME IInv, [Next]_vars PROVE IInv'
  <2>1. CASE Crash
    <3>1. Types /\ Usable(disk, am) /\ CrashWith(disk)
      BY <1>1, <2>1, UpFacts DEF Crash
    <3> QED
      BY <3>1, UsableFacts, CrashStep
  <2> QED
    BY <1>1, <2>1, WriteStep, FlushStep, RewriteStep, StopStep, StartAofStep, RewriteDoneStep,
       RewriteFailsStep, StartStep, CrashInFlushStep, RewriteCrashStep, RewriteDoneCrashStep,
       StartCrashStep, StutterStep DEF Next
<1> QED
  BY <1>1, InitInv, PTL DEF Spec

(***************************************************************************)
(* Type correctness: the variables have their types, and a server whose AOF *)
(* is on writes to the last file of its manifest (aof_fd).                 *)
(***************************************************************************)
THEOREM TypeCorrect ==
  ASSUME OffRewrites = FALSE, DirSyncFails = FALSE
  PROVE  Spec => []TypeOK
<1>1. IInv => TypeOK
  <2> SUFFICES ASSUME IInv PROVE TypeOK
    OBVIOUS
  <2>1. up /\ aof = "on" => am.incr # <<>> /\ fd = Last(am.incr)
    <3> SUFFICES ASSUME up, aof = "on" PROVE am.incr # <<>> /\ fd = Last(am.incr)
      OBVIOUS
    <3>1. Usable(disk, am) /\ fd = Last(am.incr)
      BY UpFacts DEF Appends
    <3> QED
      BY <3>1, UsableFacts DEF IsManifest
  <2> QED
    BY <2>1 DEF TypeOK, IInv, Types
<1> QED
  BY <1>1, Inductive, PTL

(***************************************************************************)
(* Whatever a crash leaves behind can be loaded: the manifest lists no     *)
(* file that is gone and no file but the last is truncated, which          *)
(* loadAppendOnlyFiles takes for fatal errors. It rests on the assumption  *)
(* that fsyncFileDir does not fail once writeAofManifestFile has renamed   *)
(* the manifest, after which the two may part.                             *)
(***************************************************************************)
THEOREM AlwaysLoadable ==
  ASSUME OffRewrites = FALSE, DirSyncFails = FALSE
  PROVE  Spec => []Loadable
<1>1. IInv => Loadable
  <2> SUFFICES ASSUME IInv PROVE Loadable
    OBVIOUS
  <2>1. LeftBehind(disk)
    BY UsableFacts DEF IInv, Runs, Stopped, Types
  <2>2. Ready(Last(UpgradeSteps))
    BY <2>1, UpgradeFacts
  <2> QED
    BY <2>2, ReadyLoads DEF Loadable
<1> QED
  BY <1>1, Inductive, PTL

(***************************************************************************)
(* A server whose AOF is on writes to a file the manifest on disk lists    *)
(* (aofOpenIfNeededOnServerStart). The run aof_off_rewrite shows that      *)
(* rewrites made while AOF is off break it.                                *)
(***************************************************************************)
THEOREM WritesListed ==
  ASSUME OffRewrites = FALSE, DirSyncFails = FALSE
  PROVE  Spec => []WritesToListedFile
<1>1. IInv => WritesToListedFile
  <2> SUFFICES ASSUME IInv, up, aof = "on"
               PROVE  fd \in DOMAIN disk.files /\ fd \in ToSet(disk.am.incr)
    BY DEF WritesToListedFile
  <2>1. Usable(disk, am) /\ fd = Last(am.incr)
    BY UpFacts DEF Appends
  <2>2. IsManifest(am) /\ am.incr = disk.am.incr /\ ToSet(am.incr) \subseteq Whole(disk)
    BY <2>1, UsableFacts
  <2>3. fd \in ToSet(am.incr)
    BY <2>1, <2>2, ManifestFacts
  <2> QED
    BY <2>2, <2>3 DEF Whole, Have
<1> QED
  BY <1>1, Inductive, PTL

(***************************************************************************)
(* A running server has in memory the manifest that is on disk, history    *)
(* apart: what fails is rolled back (openNewIncrAofForAppend,              *)
(* backgroundRewriteDoneHandler). A failing fsync of the directory, which  *)
(* DirSyncFails lets happen, breaks it.                                    *)
(***************************************************************************)
THEOREM ManifestKept ==
  ASSUME OffRewrites = FALSE, DirSyncFails = FALSE
  PROVE  Spec => []RollsBack
<1>1. IInv => RollsBack
  BY UpFacts DEF RollsBack, Usable
<1> QED
  BY <1>1, Inductive, PTL
=============================================================================
