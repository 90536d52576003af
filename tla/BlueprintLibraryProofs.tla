----------------------- MODULE BlueprintLibraryProofs -----------------------
(***************************************************************************)
(* What editors of a blueprint and the jobs made from it may rely on,       *)
(* proved for any editors, jobs, files and number of scans.                 *)
(*                                                                         *)
(* Edits.  The directory in place is the last version, and the holder of    *)
(* the lock has staged one file's change of it (TreeSound, EditsSound).     *)
(*                                                                         *)
(* Snapshots.  Copies are numbered as they are published.  What the second  *)
(* scan meets is never older than what the first met; if both met the same, *)
(* every file was looked at in one and the same copy.  A file is read       *)
(* between two looks, so only the last one read can come from the next      *)
(* copy; and as an edit changes one file, the result is that copy or the    *)
(* next (ScanSound).                                                        *)
(*                                                                         *)
(* Launches.  An entry a job has validated is not replaced while the job    *)
(* copies it, because only what does not match is (EntriesSound).           *)
(***************************************************************************)
EXTENDS BlueprintLibrary, WellFoundedInduction, TLAPS

Trees == [Files -> Contents]
Index == 1 .. Len(FileOrder)
Copies == [files : Trees, gen : Nat]

EditPcs == {"idle", "posted", "staged", "away", "in", "fallen", "saved", "refused", "dead"}
JobPcs == {"idle"} \cup Resolving \cup Launching \cup Over

Scans ==
  [pos : {0} \cup Index, listed : SUBSET Files, inventory : [Files -> Nat], files : Trees]

EditLocals == [pc : EditPcs, seen : Trees, users : BOOLEAN, stage : Trees]

JobLocals ==
  [pc : JobPcs, prompt : BOOLEAN, attempt : Nat, pass : {1, 2}, scan : Scans,
   before : [Files -> Nat], source : Trees, later : Trees]

EditTypes ==
  /\ tree \in Copies \cup {NoTree}
  /\ backup \in [Editors -> Copies \cup {NoTree}]
  /\ edit \in [Editors -> EditLocals]
  /\ libLock \in Editors \cup {Nobody}
  /\ versions \in Seq(Trees) /\ Len(versions) >= 1
  /\ uses \in BOOLEAN /\ trouble \in 0 .. MaxTrouble

JobTypes ==
  /\ job \in [Jobs -> JobLocals]
  /\ valid \cup damaged \subseteq Trees

-----------------------------------------------------------------------------
(* Edits *)

Newest == [files |-> latest, gen |-> Len(versions)]

\* The directory in place is the last version.
TreeSound == tree # NoTree => tree = Newest

\* One file changes from a version to the next.
OneFileApart(s, t) == \E g \in Files : \A f \in Files \ {g} : s[f] = t[f]

VersionsSound == \A i \in 1 .. (Len(versions) - 1) : OneFileApart(versions[i], versions[i + 1])

\* The holder of the lock, what it has staged, and where the blueprint is meanwhile.
EditSound(e) ==
  /\ edit[e].pc \in {"staged", "away", "in", "fallen"} <=> libLock = e
  /\ edit[e].pc \in {"staged", "away", "fallen"} =>
       /\ edit[e].seen = latest
       /\ \A f \in Files \ {EditFile[e]} : edit[e].stage[f] = latest[f]
  /\ edit[e].pc = "staged" => tree # NoTree
  /\ edit[e].pc \in {"away", "fallen"} => tree = NoTree /\ backup[e] = Newest
  /\ edit[e].pc = "fallen" => trouble >= 1

EditsSound == \A e \in Editors : EditSound(e)

EditInv == EditTypes /\ TreeSound /\ VersionsSound /\ EditsSound

\* Every rename that is to put a backup back works.
RestoresWork == \A e \in Editors : edit[e].pc = "fallen" /\ edit'[e].pc = "in" => tree' # NoTree

\* Nothing is lost, and whoever cleans up has put the blueprint in its place.
Kept == NothingLost /\ \A e \in Editors : edit[e].pc = "in" => tree # NoTree

-----------------------------------------------------------------------------
(* Entries of the cache *)

\* A job that has compiled its source finds a valid entry until it has copied it; an
\* entry is built by one job at a time, and is not there while it is.
EntriesSound ==
  /\ valid \cap damaged = {}
  /\ \A j \in Jobs :
       /\ job[j].pc \notin {"rest", "partial"}
       /\ job[j].pc \in Launching \/ (job[j].pc \in Captures /\ job[j].source # NoFiles) =>
            job[j].source \in valid
       /\ job[j].pc = "build" => job[j].source \notin valid \cup damaged
       /\ \A k \in Jobs :
            job[j].pc = "build" /\ job[k].pc = "build" /\ job[j].source = job[k].source =>
              j = k

-----------------------------------------------------------------------------
(* Scans *)

Scanning == {"stat", "read", "compare"}

\* The positions a scan has to visit, has looked at, and has read.
Listed(s) == {i \in Index : FileOrder[i] \in s.listed}
Done(s) == {i \in Listed(s) : s.pos = 0 \/ i < s.pos}
Looked(s, pc) == {i \in Listed(s) : i \in Done(s) \/ (i = s.pos /\ pc = "read")}

Met(s, i) == s.inventory[FileOrder[i]]

\* The position of a scan, and what it has filled in.
ScanShaped(s, pc) ==
  /\ s.pos # 0 => s.pos \in Listed(s)
  /\ s.pos = 0 <=> pc = "compare"
  /\ \A i \in Index : Met(s, i) <= Len(versions)
  /\ \A i \in Index : Met(s, i) # 0 <=> i \in Looked(s, pc)
  /\ \A i \in Index : i \notin Done(s) => s.files[FileOrder[i]] = NoFile
  /\ pc = "read" => Len(versions) <= Met(s, s.pos) + 1

\* What a scan met is not older than what the scan before it met, or than copy n.
NotOlder(s, n) == \A i \in Index : Met(s, i) # 0 => n <= Met(s, i)

\* The names were listed from one copy, after what the scan before met and before
\* anything this one met.
ListedAt(s, before) ==
  \E y \in 1 .. Len(versions) :
    /\ s.listed = {f \in Files : versions[y][f] # NoFile}
    /\ \A h \in Index : before[FileOrder[h]] <= y
    /\ NotOlder(s, y)

\* What was read at position i comes from the copy that was looked at or the next,
\* and that was there before any later look.
ReadFrom(s, i, pc) ==
  \E x \in 1 .. Len(versions) :
    /\ Met(s, i) <= x /\ x <= Met(s, i) + 1
    /\ s.files[FileOrder[i]] = versions[x][FileOrder[i]]
    /\ \A k \in Looked(s, pc) : i < k => x <= Met(s, k)

ScanSound(r) ==
  /\ ScanShaped(r.scan, r.pc)
  /\ ListedAt(r.scan, r.before)
  /\ \A i \in Done(r.scan) : ReadFrom(r.scan, i, r.pc)

\* A second capture starts from a version that holds the source.
AfterSource(r) ==
  r.source # NoFiles =>
    \E n \in 1 .. Len(versions) : versions[n] = r.source /\ NotOlder(r.scan, n)

SnapshotSound(r) ==
  r.source # NoFiles =>
    \E i \in 1 .. Len(versions) :
      /\ versions[i] = r.source
      /\ r.later # NoFiles => \E k \in i .. Len(versions) : versions[k] = r.later

JobSound(r) ==
  /\ r.pc \in Scanning => ScanSound(r)
  /\ r.pc \notin Scanning => r.scan = Scan
  /\ r.pc \notin Captures => r.before = Scan.inventory
  /\ \A i \in Index : r.before[FileOrder[i]] <= Len(versions)
  /\ AfterSource(r)
  /\ SnapshotSound(r)

ScansSound == \A j \in Jobs : JobSound(job[j])

JobInv == JobTypes /\ EntriesSound /\ ScansSound

-----------------------------------------------------------------------------
(* Facts about the data *)

\* Positions name files, each file has a position, and no two have the same.
LEMMA FileFacts ==
  /\ Len(FileOrder) \in Nat
  /\ \A i \in Index : FileOrder[i] \in Files
  /\ \A f \in Files : \E i \in Index : f = FileOrder[i]
  /\ \A i, k \in Index : FileOrder[i] = FileOrder[k] => i = k
BY LibraryAssumption DEF Files, Index

\* A directory is a record, which NoTree is not.
LEMMA CopyIsTree == NoTree \notin Copies
BY LibraryAssumption DEF Copies, Trees

\* Contents of files are contents.
LEMMA NoFilesTyped ==
  /\ NoFiles \in Trees
  /\ \A f \in Files : NoFiles[f] = NoFile
  /\ \A e \in Editors : e \in Contents
BY DEF NoFiles, Trees, Contents

\* The version in place is one of the versions.
LEMMA LatestTyped ==
  ASSUME EditTypes
  PROVE  /\ latest \in Trees /\ Len(versions) \in Nat /\ Newest \in Copies
         /\ \A i \in 1 .. Len(versions) : versions[i] \in Trees
         /\ Newest.files = latest /\ Newest.gen = Len(versions)
<1>1. Len(versions) \in Nat /\ \A i \in 1 .. Len(versions) : versions[i] \in Trees
  BY DEF EditTypes
<1>2. latest \in Trees
  BY <1>1 DEF EditTypes, latest
<1> QED BY <1>1, <1>2 DEF Newest, Copies

-----------------------------------------------------------------------------
(* Edits *)

\* The first states.
LEMMA InitEdits == Init => EditInv /\ Kept
<1> SUFFICES ASSUME Init PROVE EditInv /\ Kept
  OBVIOUS
<1>1. [f \in Files |-> Original] \in Trees /\ NoFiles \in Trees
  BY NoFilesTyped DEF Trees, Contents
<1>2. tree = [files |-> [f \in Files |-> Original], gen |-> 1] /\ tree \in Copies
  BY <1>1 DEF Init, Copies
<1>3. Len(versions) = 1 /\ versions[1] = tree.files /\ versions \in Seq(Trees)
  BY <1>1, <1>2 DEF Init
<1>4. EditTypes
  BY <1>1, <1>2, <1>3, LibraryAssumption DEF Init, EditTypes, IdleEdit, EditLocals, EditPcs
<1>5. TreeSound
  BY <1>2, <1>3 DEF TreeSound, Newest, latest
<1>6. VersionsSound
  BY <1>3 DEF VersionsSound
<1>7. EditsSound
  BY LibraryAssumption DEF Init, EditsSound, EditSound, IdleEdit
<1>8. Kept
  BY <1>2, <1>3, CopyIsTree DEF Kept, NothingLost, latest, Init, IdleEdit
<1> QED BY <1>4, <1>5, <1>6, <1>7, <1>8 DEF EditInv

\* A step that publishes nothing.
LEMMA VersionsStay ==
  ASSUME UNCHANGED versions
  PROVE  /\ latest' = latest /\ Newest' = Newest /\ Len(versions)' = Len(versions)
         /\ VersionsSound => VersionsSound'
BY DEF latest, Newest, VersionsSound, OneFileApart

\* What an edit does to its own locals.
LEMMA TurnMoves ==
  ASSUME EditTypes, NEW e \in Editors, NEW next \in EditLocals, Turn(e, next)
  PROVE  /\ edit' \in [Editors -> EditLocals] /\ edit'[e] = next
         /\ \A d \in Editors : d # e => edit'[d] = edit[d]
BY DEF EditTypes, Turn

\* The steps that publish nothing: the invariant asks for the types, the directory,
\* and the edit that moved.
LEMMA QuietEdit ==
  ASSUME EditInv, NEW e \in Editors, UNCHANGED <<versions, uses>>,
         edit' \in [Editors -> EditLocals], \A d \in Editors : d # e => edit'[d] = edit[d],
         tree' \in Copies \cup {NoTree}, TreeSound', EditSound(e)',
         backup' \in [Editors -> Copies \cup {NoTree}],
         trouble' \in 0 .. MaxTrouble, trouble' >= trouble,
         \/ tree' = tree /\ backup' = backup
         \/ /\ libLock = e
            /\ \A d \in Editors : d # e => backup'[d] = backup[d],
         \/ libLock' = libLock
         \/ libLock = e /\ libLock' = Nobody
         \/ libLock = Nobody /\ libLock' = e
  PROVE  EditInv'
<1>1. latest' = latest /\ Newest' = Newest /\ VersionsSound'
  BY VersionsStay DEF EditInv
<1>2. EditTypes'
  BY DEF EditInv, EditTypes
<1>3. ASSUME NEW d \in Editors, d # e PROVE EditSound(d)'
  <2>1. edit'[d] = edit[d] /\ EditSound(d)
    BY <1>3 DEF EditInv, EditsSound
  <2>2. libLock' = d <=> libLock = d
    BY <1>3, LibraryAssumption
  <2>3. libLock = e => edit[d].pc \notin {"staged", "away", "in", "fallen"}
    BY <1>3, <2>1 DEF EditSound
  <2>4. trouble \in Nat /\ trouble' \in Nat
    BY LibraryAssumption DEF EditInv, EditTypes
  <2> QED BY <1>1, <1>3, <2>1, <2>2, <2>3, <2>4 DEF EditSound
<1> QED BY <1>1, <1>2, <1>3 DEF EditInv, EditsSound

\* A page is submitted.
LEMMA PostStep ==
  ASSUME EditInv, NEW e \in Editors, Post(e)
  PROVE  EditInv'
<1>1. PICK i \in 1 .. Len(versions) :
        Turn(e, [IdleEdit EXCEPT !.pc = "posted", !.seen = versions[i], !.users = HasUsers(e)])
  BY DEF Post
<1>2. UNCHANGED <<tree, backup, libLock, versions, uses, trouble>> /\ edit[e].pc = "idle"
  BY DEF Post
<1> DEFINE next == [IdleEdit EXCEPT !.pc = "posted", !.seen = versions[i], !.users = HasUsers(e)]
<1>3. next \in EditLocals /\ next.pc = "posted"
  BY LatestTyped, NoFilesTyped DEF IdleEdit, EditLocals, EditPcs, HasUsers, EditInv, EditTypes
<1> HIDE DEF next
<1>4. /\ edit' \in [Editors -> EditLocals] /\ edit'[e] = next
      /\ \A d \in Editors : d # e => edit'[d] = edit[d]
  BY <1>1, <1>3, TurnMoves DEF EditInv, next
<1>5. EditSound(e)'
  BY <1>2, <1>3, <1>4 DEF EditInv, EditsSound, EditSound
<1>6. TreeSound'
  BY <1>2, VersionsStay DEF EditInv, TreeSound
<1>7. /\ tree \in Copies \cup {NoTree} /\ backup \in [Editors -> Copies \cup {NoTree}]
      /\ trouble \in 0 .. MaxTrouble /\ MaxTrouble \in Nat
  BY LibraryAssumption DEF EditInv, EditTypes
<1> QED BY <1>2, <1>4, <1>5, <1>6, <1>7, QuietEdit

\* An edit ends without the lock, or before it published anything, with its locals
\* back to idle ones.
LEMMA IdleEditTyped ==
  ASSUME NEW pc \in EditPcs
  PROVE  [IdleEdit EXCEPT !.pc = pc] \in EditLocals /\ [IdleEdit EXCEPT !.pc = pc].pc = pc
BY NoFilesTyped DEF IdleEdit, EditLocals

\* The lock is taken and the new directory staged, or the edit is refused.
LEMMA LockAndStageStep ==
  ASSUME EditInv, NEW e \in Editors, LockAndStage(e)
  PROVE  EditInv'
<1>1. /\ edit[e].pc = "posted" /\ libLock = Nobody
      /\ UNCHANGED <<tree, backup, versions, uses, trouble>>
  BY DEF LockAndStage
<1>2. /\ tree \in Copies \cup {NoTree} /\ backup \in [Editors -> Copies \cup {NoTree}]
      /\ trouble \in 0 .. MaxTrouble /\ MaxTrouble \in Nat /\ edit[e] \in EditLocals
  BY LibraryAssumption DEF EditInv, EditTypes
<1>3. TreeSound' /\ latest' = latest
  BY <1>1, VersionsStay DEF EditInv, TreeSound
<1>4. CASE Fresh(e) /\ libLock' = e /\ Turn(e, [edit[e] EXCEPT !.pc = "staged", !.stage = Staged(e)])
  <2>1. tree # NoTree /\ tree.files = edit[e].seen
    BY <1>4 DEF Fresh
  <2>2. tree.files = latest /\ tree.files \in Trees
    BY <1>2, <2>1, LatestTyped DEF EditInv, TreeSound, Copies
  <2>3. PICK t \in Trees : t = Staged(e)
    BY <2>2, NoFilesTyped, LibraryAssumption DEF Staged, StagedDelete, Trees, Contents
  <2>4. \A f \in Files \ {EditFile[e]} : t[f] = tree.files[f]
    BY <2>2, <2>3 DEF Staged, StagedDelete, Trees
  <2> DEFINE next == [edit[e] EXCEPT !.pc = "staged", !.stage = t]
  <2>5. next \in EditLocals /\ next.pc = "staged" /\ next.seen = edit[e].seen /\ next.stage = t
    BY <1>2 DEF EditLocals, EditPcs
  <2>6. Turn(e, next)
    BY <1>4, <2>3
  <2> HIDE DEF next
  <2>7. /\ edit' \in [Editors -> EditLocals] /\ edit'[e] = next
        /\ \A d \in Editors : d # e => edit'[d] = edit[d]
    BY <2>5, <2>6, TurnMoves DEF EditInv
  <2>8. EditSound(e)'
    BY <1>1, <1>3, <1>4, <2>1, <2>2, <2>4, <2>5, <2>7 DEF EditSound
  <2> QED BY <1>1, <1>2, <1>3, <1>4, <2>7, <2>8, QuietEdit
<1>5. CASE UNCHANGED libLock /\ Turn(e, [IdleEdit EXCEPT !.pc = "refused"])
  <2> DEFINE next == [IdleEdit EXCEPT !.pc = "refused"]
  <2>1. next \in EditLocals /\ next.pc = "refused"
    BY IdleEditTyped DEF EditPcs
  <2> HIDE DEF next
  <2>2. /\ edit' \in [Editors -> EditLocals] /\ edit'[e] = next
        /\ \A d \in Editors : d # e => edit'[d] = edit[d]
    BY <1>5, <2>1, TurnMoves DEF EditInv, next
  <2>3. EditSound(e)'
    BY <1>1, <1>5, <2>1, <2>2, LibraryAssumption DEF EditSound
  <2> QED BY <1>1, <1>2, <1>3, <1>5, <2>2, <2>3, QuietEdit
<1> QED BY <1>4, <1>5 DEF LockAndStage

\* The locals of an edit that goes on to another step.
LEMMA EditGoesOn ==
  ASSUME EditTypes, NEW e \in Editors, NEW pc \in EditPcs, Turn(e, [edit[e] EXCEPT !.pc = pc])
  PROVE  /\ edit' \in [Editors -> EditLocals]
         /\ edit'[e].pc = pc /\ edit'[e].seen = edit[e].seen /\ edit'[e].stage = edit[e].stage
         /\ \A d \in Editors : d # e => edit'[d] = edit[d]
<1> DEFINE next == [edit[e] EXCEPT !.pc = pc]
<1>1. /\ next \in EditLocals /\ next.pc = pc /\ next.seen = edit[e].seen
      /\ next.stage = edit[e].stage
  BY DEF EditTypes, EditLocals
<1> HIDE DEF next
<1> QED BY <1>1, TurnMoves DEF next

\* The directory goes to the backup.
LEMMA MoveAwayStep ==
  ASSUME EditInv, NEW e \in Editors, MoveAway(e)
  PROVE  EditInv'
<1>1. /\ edit[e].pc = "staged" /\ tree' = NoTree /\ backup' = [backup EXCEPT ![e] = tree]
      /\ UNCHANGED <<libLock, versions, uses, trouble>>
  BY DEF MoveAway
<1>2. EditTypes /\ EditSound(e)
  BY DEF EditInv, EditsSound
<1>3. /\ edit' \in [Editors -> EditLocals]
      /\ edit'[e].pc = "away" /\ edit'[e].seen = edit[e].seen /\ edit'[e].stage = edit[e].stage
      /\ \A d \in Editors : d # e => edit'[d] = edit[d]
  BY <1>2, EditGoesOn DEF MoveAway, EditPcs
<1>4. tree = Newest /\ libLock = e
  BY <1>1, <1>2 DEF EditSound, EditInv, TreeSound
<1>5. /\ backup' \in [Editors -> Copies \cup {NoTree}] /\ backup'[e] = Newest
      /\ \A d \in Editors : d # e => backup'[d] = backup[d]
  BY <1>1, <1>2, <1>4, LatestTyped DEF EditTypes
<1>6. TreeSound'
  BY <1>1 DEF TreeSound
<1>7. EditSound(e)'
  BY <1>1, <1>2, <1>3, <1>4, <1>5, VersionsStay DEF EditSound
<1>8. trouble \in 0 .. MaxTrouble /\ MaxTrouble \in Nat
  BY <1>2, LibraryAssumption DEF EditTypes
<1> QED BY <1>1, <1>3, <1>4, <1>5, <1>6, <1>7, <1>8, QuietEdit

\* What a publication does to the versions.
LEMMA Published ==
  ASSUME EditInv, NEW e \in Editors, MoveIn(e)
  PROVE  /\ edit[e].stage \in Trees /\ versions' \in Seq(Trees)
         /\ Len(versions') = Len(versions) + 1
         /\ \A i \in 1 .. Len(versions) : versions'[i] = versions[i]
         /\ versions'[Len(versions) + 1] = edit[e].stage
         /\ latest' = edit[e].stage
         /\ edit[e].seen = latest
         /\ \A f \in Files \ {EditFile[e]} : edit[e].stage[f] = latest[f]
<1>1. edit[e].stage \in Trees /\ versions \in Seq(Trees) /\ Len(versions) \in Nat
  BY DEF EditInv, EditTypes, EditLocals
<1>2. versions' = Append(versions, edit[e].stage)
  BY DEF MoveIn
<1>3. /\ versions' \in Seq(Trees) /\ Len(versions') = Len(versions) + 1
      /\ \A i \in 1 .. Len(versions) : versions'[i] = versions[i]
      /\ versions'[Len(versions) + 1] = edit[e].stage
  BY <1>1, <1>2
<1>4. latest' = edit[e].stage
  BY <1>3 DEF latest
<1>5. edit[e].seen = latest /\ \A f \in Files \ {EditFile[e]} : edit[e].stage[f] = latest[f]
  BY DEF MoveIn, EditInv, EditsSound, EditSound
<1> QED BY <1>1, <1>3, <1>4, <1>5

\* The stage takes the place of the directory.
LEMMA MoveInStep ==
  ASSUME EditInv, NEW e \in Editors, MoveIn(e)
  PROVE  EditInv'
<1>1. /\ edit[e].pc = "away"
      /\ tree' = [files |-> edit[e].stage, gen |-> Len(versions) + 1]
      /\ UNCHANGED <<backup, libLock, uses, trouble>>
  BY DEF MoveIn
<1>2. EditTypes /\ EditSound(e) /\ Len(versions) \in Nat
  BY DEF EditInv, EditsSound, EditTypes
<1>3. /\ edit' \in [Editors -> EditLocals] /\ edit'[e].pc = "in"
      /\ \A d \in Editors : d # e => edit'[d] = edit[d]
  BY <1>2, EditGoesOn DEF MoveIn, EditPcs
<1>4. EditTypes'
  BY <1>1, <1>2, <1>3, Published DEF EditTypes, Copies
<1>5. TreeSound'
  BY <1>1, Published DEF TreeSound, Newest
<1>6. VersionsSound'
  <2> SUFFICES ASSUME NEW i \in 1 .. (Len(versions') - 1)
               PROVE  OneFileApart(versions'[i], versions'[i + 1])
    BY DEF VersionsSound, OneFileApart
  <2>1. CASE i = Len(versions)
    <3>1. versions'[i] = latest /\ versions'[i + 1] = edit[e].stage
      BY <1>2, <2>1, Published DEF latest, EditTypes
    <3>2. EditFile[e] \in Files
      BY LibraryAssumption
    <3> QED BY <3>1, <3>2, Published DEF OneFileApart
  <2>2. CASE i # Len(versions)
    <3>1. i \in 1 .. (Len(versions) - 1) /\ i + 1 \in 1 .. Len(versions)
          /\ i \in 1 .. Len(versions)
      BY <1>2, <2>2, Published
    <3>2. versions'[i] = versions[i] /\ versions'[i + 1] = versions[i + 1]
      BY <3>1, Published
    <3> QED BY <3>1, <3>2 DEF EditInv, VersionsSound
  <2> QED BY <2>1, <2>2
<1>7. EditsSound'
  <2> SUFFICES ASSUME NEW d \in Editors PROVE EditSound(d)'
    BY DEF EditsSound
  <2>1. CASE d = e
    BY <1>1, <1>2, <1>3, <2>1 DEF EditSound
  <2>2. CASE d # e
    <3>1. edit'[d] = edit[d] /\ libLock' = libLock
      BY <1>1, <1>3, <2>2
    <3>2. edit[d].pc \notin {"staged", "away", "in", "fallen"} /\ libLock # d
      BY <1>1, <1>2, <2>2 DEF EditInv, EditsSound, EditSound
    <3> QED BY <3>1, <3>2 DEF EditSound
  <2> QED BY <2>1, <2>2
<1> QED BY <1>4, <1>5, <1>6, <1>7 DEF EditInv

\* Trouble is counted.
LEMMA TroubleCounts ==
  ASSUME EditTypes, Trouble
  PROVE  trouble' \in 0 .. MaxTrouble /\ trouble' = trouble + 1 /\ trouble \in Nat
BY LibraryAssumption DEF EditTypes, Trouble

\* A rename fails.
LEMMA RenameFailsStep ==
  ASSUME EditInv, NEW e \in Editors, RenameFails(e)
  PROVE  EditInv'
<1>1. /\ edit[e].pc \in {"staged", "away"} /\ Trouble
      /\ UNCHANGED <<tree, backup, libLock, versions, uses>>
  BY DEF RenameFails
<1>2. EditTypes /\ EditSound(e)
  BY DEF EditInv, EditsSound
<1>3. PICK pc \in {"in", "fallen"} :
        /\ pc = IF edit[e].pc = "staged" THEN "in" ELSE "fallen"
        /\ Turn(e, [edit[e] EXCEPT !.pc = pc])
  BY DEF RenameFails
<1>4. /\ edit' \in [Editors -> EditLocals]
      /\ edit'[e].pc = pc /\ edit'[e].seen = edit[e].seen /\ edit'[e].stage = edit[e].stage
      /\ \A d \in Editors : d # e => edit'[d] = edit[d]
  BY <1>2, <1>3, EditGoesOn DEF EditPcs
<1>5. EditSound(e)'
  BY <1>1, <1>2, <1>3, <1>4, VersionsStay, TroubleCounts DEF EditSound
<1>6. TreeSound'
  BY <1>1, VersionsStay DEF EditInv, TreeSound
<1>7. /\ tree \in Copies \cup {NoTree} /\ backup \in [Editors -> Copies \cup {NoTree}]
      /\ trouble' \in 0 .. MaxTrouble /\ trouble' >= trouble
  BY <1>1, <1>2, TroubleCounts DEF EditTypes
<1> QED BY <1>1, <1>4, <1>5, <1>6, <1>7, QuietEdit

\* The backup is put back, or that fails too.
LEMMA RestoreStep ==
  ASSUME EditInv, NEW e \in Editors, Restore(e)
  PROVE  EditInv'
<1>1. /\ edit[e].pc = "fallen" /\ UNCHANGED <<libLock, versions, uses>>
      /\ \/ tree' = backup[e] /\ backup' = [backup EXCEPT ![e] = NoTree] /\ UNCHANGED trouble
         \/ Trouble /\ UNCHANGED <<tree, backup>>
  BY DEF Restore
<1>2. EditTypes /\ EditSound(e) /\ MaxTrouble \in Nat
  BY LibraryAssumption DEF EditInv, EditsSound
<1>3. /\ edit' \in [Editors -> EditLocals] /\ edit'[e].pc = "in"
      /\ \A d \in Editors : d # e => edit'[d] = edit[d]
  BY <1>2, EditGoesOn DEF Restore, EditPcs
<1>4. backup[e] = Newest /\ libLock = e /\ Newest \in Copies
  BY <1>1, <1>2, LatestTyped DEF EditSound
<1>5. EditSound(e)'
  BY <1>1, <1>3, <1>4 DEF EditSound
<1>6. TreeSound'
  BY <1>1, <1>4, VersionsStay DEF EditInv, TreeSound
<1>7. /\ tree' \in Copies \cup {NoTree} /\ backup' \in [Editors -> Copies \cup {NoTree}]
      /\ \A d \in Editors : d # e => backup'[d] = backup[d]
  BY <1>1, <1>2, <1>4 DEF EditTypes
<1>8. trouble' \in 0 .. MaxTrouble /\ trouble' >= trouble
  BY <1>1, <1>2, TroubleCounts DEF EditTypes
<1> QED BY <1>1, <1>3, <1>4, <1>5, <1>6, <1>7, <1>8, QuietEdit

\* The backup is removed and the lock released.
LEMMA CleanUpStep ==
  ASSUME EditInv, NEW e \in Editors, CleanUp(e)
  PROVE  EditInv'
<1>1. /\ edit[e].pc = "in" /\ backup' = [backup EXCEPT ![e] = NoTree] /\ libLock' = Nobody
      /\ UNCHANGED <<tree, versions, uses, trouble>>
  BY DEF CleanUp
<1>2. EditTypes /\ EditSound(e) /\ MaxTrouble \in Nat
  BY LibraryAssumption DEF EditInv, EditsSound
<1>3. PICK pc \in {"saved", "refused"} : Turn(e, [IdleEdit EXCEPT !.pc = pc])
  BY DEF CleanUp
<1> DEFINE next == [IdleEdit EXCEPT !.pc = pc]
<1>4. next \in EditLocals /\ next.pc = pc
  BY IdleEditTyped DEF EditPcs
<1> HIDE DEF next
<1>5. /\ edit' \in [Editors -> EditLocals] /\ edit'[e] = next
      /\ \A d \in Editors : d # e => edit'[d] = edit[d]
  BY <1>2, <1>3, <1>4, TurnMoves DEF next
<1>6. EditSound(e)' /\ libLock = e
  BY <1>1, <1>2, <1>4, <1>5, LibraryAssumption DEF EditSound
<1>7. TreeSound'
  BY <1>1, VersionsStay DEF EditInv, TreeSound
<1>8. /\ tree \in Copies \cup {NoTree} /\ backup' \in [Editors -> Copies \cup {NoTree}]
      /\ \A d \in Editors : d # e => backup'[d] = backup[d]
      /\ trouble \in 0 .. MaxTrouble
  BY <1>1, <1>2 DEF EditTypes
<1> QED BY <1>1, <1>2, <1>5, <1>6, <1>7, <1>8, QuietEdit

\* The process of an edit dies.
LEMMA EditorDiesStep ==
  ASSUME EditInv, NEW e \in Editors, EditorDies(e)
  PROVE  EditInv'
<1>1. /\ edit[e].pc \in {"posted", "staged", "away", "in", "fallen"} /\ Trouble
      /\ Turn(e, [IdleEdit EXCEPT !.pc = "dead"])
      /\ libLock' = IF libLock = e THEN Nobody ELSE libLock
      /\ UNCHANGED <<tree, backup, versions, uses>>
  BY DEF EditorDies
<1>2. EditTypes /\ EditSound(e) /\ MaxTrouble \in Nat
  BY LibraryAssumption DEF EditInv, EditsSound
<1> DEFINE next == [IdleEdit EXCEPT !.pc = "dead"]
<1>3. next \in EditLocals /\ next.pc = "dead"
  BY IdleEditTyped DEF EditPcs
<1> HIDE DEF next
<1>4. /\ edit' \in [Editors -> EditLocals] /\ edit'[e] = next
      /\ \A d \in Editors : d # e => edit'[d] = edit[d]
  BY <1>1, <1>2, <1>3, TurnMoves DEF next
<1>5. EditSound(e)'
  BY <1>1, <1>3, <1>4, LibraryAssumption DEF EditSound
<1>6. TreeSound'
  BY <1>1, VersionsStay DEF EditInv, TreeSound
<1>7. /\ tree \in Copies \cup {NoTree} /\ backup \in [Editors -> Copies \cup {NoTree}]
      /\ trouble' \in 0 .. MaxTrouble /\ trouble' >= trouble
  BY <1>1, <1>2, TroubleCounts DEF EditTypes
<1> QED BY <1>1, <1>2, <1>4, <1>5, <1>6, <1>7, QuietEdit

\* Whatever does not touch the edits: the steps of jobs, of the cache, and of who
\* names the prompt.
LEMMA EditsUntouched ==
  ASSUME EditInv, UNCHANGED editVars, uses' \in BOOLEAN, trouble' \in 0 .. MaxTrouble,
         trouble' >= trouble
  PROVE  EditInv'
<1>1. UNCHANGED <<tree, backup, edit, libLock, versions>>
  BY DEF editVars
<1>2. EditTypes'
  BY <1>1 DEF EditInv, EditTypes
<1>3. TreeSound' /\ VersionsSound'
  BY <1>1, VersionsStay DEF EditInv, TreeSound
<1>4. EditsSound'
  <2>1. trouble \in Nat /\ trouble' \in Nat
    BY LibraryAssumption DEF EditInv, EditTypes
  <2> QED BY <1>1, <2>1, VersionsStay DEF EditInv, EditsSound, EditSound
<1> QED BY <1>2, <1>3, <1>4 DEF EditInv

-----------------------------------------------------------------------------
(* Jobs: their locals *)

\* The locals of a job that has not begun, and of a scan that has not.
LEMMA IdleJobIs ==
  /\ Scan \in Scans /\ Scan.pos = 0 /\ Scan.listed = {}
  /\ \A f \in Files : Scan.inventory[f] = 0
  /\ Scan.files = NoFiles /\ Scan.inventory \in [Files -> Nat]
  /\ IdleJob \in JobLocals
  /\ IdleJob.scan = Scan /\ IdleJob.before = Scan.inventory
  /\ IdleJob.source = NoFiles /\ IdleJob.later = NoFiles
<1>1. /\ Scan \in Scans /\ Scan.pos = 0 /\ Scan.listed = {}
      /\ \A f \in Files : Scan.inventory[f] = 0
      /\ Scan.files = NoFiles /\ Scan.inventory \in [Files -> Nat]
  BY NoFilesTyped DEF Scan, Scans
<1>2. /\ IdleJob \in JobLocals
      /\ IdleJob.scan = Scan /\ IdleJob.before = Scan.inventory
      /\ IdleJob.source = NoFiles /\ IdleJob.later = NoFiles
  BY <1>1, NoFilesTyped DEF IdleJob, JobLocals, JobPcs
<1> QED BY <1>1, <1>2

\* What a job does to its own locals.
LEMMA StepMoves ==
  ASSUME JobTypes, NEW j \in Jobs, NEW next \in JobLocals, Step(j, next)
  PROVE  /\ job' \in [Jobs -> JobLocals] /\ job'[j] = next
         /\ \A k \in Jobs : k # j => job'[k] = job[k]
BY DEF JobTypes, Step

\* While nothing is published, what is known of a job's locals stays true.
LEMMA SoundStays ==
  ASSUME UNCHANGED versions
  PROVE  \A r : JobSound(r) => JobSound(r)'
<1> SUFFICES ASSUME NEW r, JobSound(r) PROVE JobSound(r)'
  OBVIOUS
<1>1. ScanSound(r) => ScanSound(r)'
  BY DEF ScanSound, ScanShaped, ListedAt, ReadFrom, NotOlder, Met, Listed, Done, Looked
<1>2. AfterSource(r)' /\ SnapshotSound(r)'
  BY DEF JobSound, AfterSource, SnapshotSound, NotOlder, Met
<1> QED BY <1>1, <1>2 DEF JobSound

\* The steps of a job that leave the cache alone and do not take the lock of an
\* entry: what matters is where the job arrives.
LEMMA Advances ==
  ASSUME JobInv, NEW j \in Jobs, NEW next \in JobLocals, Step(j, next), JobSound(next),
         UNCHANGED <<versions, valid, damaged>>,
         next.pc \notin {"rest", "partial", "build"},
         next.pc \in Launching \/ (next.pc \in Captures /\ next.source # NoFiles) =>
           next.source \in valid
  PROVE  JobInv'
<1>1. /\ job' \in [Jobs -> JobLocals] /\ job'[j] = next
      /\ \A k \in Jobs : k # j => job'[k] = job[k]
  BY StepMoves DEF JobInv
<1>2. JobTypes'
  BY <1>1 DEF JobInv, JobTypes
<1>3. EntriesSound'
  BY <1>1 DEF JobInv, EntriesSound
<1>4. ScansSound'
  <2> SUFFICES ASSUME NEW k \in Jobs PROVE JobSound(job[k])'
    BY DEF ScansSound
  <2>1. PICK r : r = job'[k]
    OBVIOUS
  <2>2. JobSound(r)
    BY <1>1, <2>1 DEF JobInv, ScansSound
  <2> QED BY <2>1, <2>2, SoundStays
<1> QED BY <1>2, <1>3, <1>4 DEF JobInv

\* Locals of a job that is not in the middle of a scan.
LEMMA RestingSound ==
  ASSUME EditTypes, NEW r \in JobLocals, r.pc \notin Scanning, r.scan = Scan,
         r.pc \notin Captures => r.before = Scan.inventory,
         \A f \in Files : r.before[f] <= Len(versions), SnapshotSound(r)
  PROVE  JobSound(r)
<1>1. \A i \in Index : Met(r.scan, i) = 0
  BY IdleJobIs, FileFacts DEF Met
<1>2. AfterSource(r)
  BY <1>1 DEF AfterSource, SnapshotSound, NotOlder
<1> QED BY <1>2, FileFacts DEF JobSound

\* No version is met before the first.
LEMMA NothingMet ==
  ASSUME EditTypes
  PROVE  \A f \in Files : Scan.inventory[f] <= Len(versions)
BY IdleJobIs DEF EditTypes

\* A job that ends without a source.
LEMMA Failed ==
  ASSUME EditTypes, NEW pc \in JobPcs \ Scanning, NEW prompt \in BOOLEAN,
         NEW next, next = [IdleJob EXCEPT !.pc = pc, !.prompt = prompt]
  PROVE  next \in JobLocals /\ JobSound(next) /\ next.pc = pc /\ next.source = NoFiles
<1>1. /\ next \in JobLocals /\ next.pc = pc /\ next.source = NoFiles
      /\ next.scan = Scan /\ next.before = Scan.inventory
  BY IdleJobIs DEF JobLocals
<1>2. SnapshotSound(next)
  BY <1>1 DEF SnapshotSound
<1> QED BY <1>1, <1>2, NothingMet, RestingSound

\* A job that fails or whose process dies, anywhere.
LEMMA FailStep ==
  ASSUME EditTypes, JobInv, NEW j \in Jobs, Fail(j), UNCHANGED <<versions, valid, damaged>>
  PROVE  JobInv'
<1> DEFINE next == [IdleJob EXCEPT !.pc = "failed"]
<1>1. /\ next \in JobLocals /\ next.pc = "failed" /\ next.source = NoFiles
      /\ next.scan = Scan /\ next.before = Scan.inventory
  BY IdleJobIs DEF JobLocals, JobPcs, Over
<1>2. Step(j, next)
  BY DEF Fail
<1> HIDE DEF next
<1>3. JobSound(next)
  BY <1>1, NothingMet, RestingSound DEF SnapshotSound, Scanning
<1> QED BY <1>1, <1>2, <1>3, Advances DEF Launching

\* A resolution begins.
LEMMA ResolveStep ==
  ASSUME EditTypes, JobInv, NEW j \in Jobs, Resolve(j)
  PROVE  JobInv'
<1>1. PICK p \in BOOLEAN : Step(j, [IdleJob EXCEPT !.pc = "list", !.prompt = p])
  <2>1. (uses /\ j \in PromptJobs) \in BOOLEAN
    BY DEF EditTypes
  <2> QED BY <2>1 DEF Resolve
<1>2. UNCHANGED <<versions, valid, damaged>>
  BY DEF Resolve, Untouched, editVars
<1> DEFINE next == [IdleJob EXCEPT !.pc = "list", !.prompt = p]
<1>3. "list" \in JobPcs \ Scanning
  BY DEF JobPcs, Resolving, Captures, Scanning
<1>4. next \in JobLocals /\ JobSound(next) /\ next.pc = "list" /\ next.source = NoFiles
  BY <1>3, Failed
<1> HIDE DEF next
<1> QED BY <1>1, <1>2, <1>4, Advances DEF Launching, next

-----------------------------------------------------------------------------
(* Jobs: the scans *)

\* A nonempty set of numbers has a least element.
LEMMA LeastExists ==
  ASSUME NEW S \in SUBSET Nat, S # {}
  PROVE  \E x \in S : \A y \in S : x <= y
<1> DEFINE R == OpToRel(<, Nat)
<1>1. IsWellFoundedOn(R, Nat)
  BY NatLessThanWellFounded
<1>2. \A x, y \in Nat : x < y => <<x, y>> \in R
  BY DEF OpToRel
<1> HIDE DEF R
<1>3. PICK x \in S : \A y \in S : ~(<<y, x>> \in R)
  BY <1>1, WFMin
<1>4. \A y \in S : ~(y < x)
  BY <1>2, <1>3
<1> QED BY <1>4

\* The next position of a scan is the least listed one after its own, or 0.
LEMMA NextFileIs ==
  ASSUME NEW s \in Scans
  PROVE  /\ NextFile(s) \in {0} \cup Index
         /\ NextFile(s) = 0 => \A i \in Listed(s) : i <= s.pos
         /\ NextFile(s) # 0 => /\ NextFile(s) \in Listed(s) /\ NextFile(s) > s.pos
                               /\ \A i \in Listed(s) : i > s.pos => NextFile(s) <= i
<1> DEFINE left == {i \in (s.pos + 1)..Len(FileOrder) : FileOrder[i] \in s.listed}
<1>0. s.pos \in Nat /\ Len(FileOrder) \in Nat
  BY FileFacts DEF Scans, Index
<1>1. left \subseteq Nat /\ left \subseteq Listed(s) /\ \A i \in left : i > s.pos
  BY <1>0 DEF Listed, Index
<1>2. \A i \in Listed(s) : i > s.pos => i \in left
  BY <1>0 DEF Listed, Index
<1>3. NextFile(s) = IF left = {} THEN 0 ELSE CHOOSE i \in left : \A k \in left : i <= k
  BY DEF NextFile
<1> HIDE DEF left
<1>4. CASE left = {}
  <2>1. NextFile(s) = 0
    BY <1>3, <1>4
  <2>2. \A i \in Listed(s) : i \in Nat
    BY <1>0 DEF Listed, Index
  <2> QED BY <1>0, <1>2, <1>4, <2>1, <2>2
<1>5. CASE left # {}
  <2>1. \E i \in left : \A k \in left : i <= k
    BY <1>1, <1>5, LeastExists
  <2>2. NextFile(s) \in left /\ \A k \in left : NextFile(s) <= k
    BY <1>3, <1>5, <2>1
  <2>3. NextFile(s) \in Index
    BY <1>1, <2>2 DEF Listed
  <2> QED BY <1>0, <1>1, <1>2, <2>2, <2>3 DEF Index
<1> QED BY <1>4, <1>5

\* A scan that has read up to its position goes on to the next name: the state of
\* a scan between two files, before Advance.
BetweenFiles(s, before) ==
  /\ \A i \in Index : Met(s, i) <= Len(versions)
  /\ \A i \in Index : Met(s, i) # 0 <=> i \in Listed(s) /\ i <= s.pos
  /\ \A i \in Index : ~(i \in Listed(s) /\ i <= s.pos) => s.files[FileOrder[i]] = NoFile
  /\ ListedAt(s, before)
  /\ \A i \in Listed(s) : i <= s.pos =>
       \E x \in 1 .. Len(versions) :
         /\ Met(s, i) <= x /\ x <= Met(s, i) + 1
         /\ s.files[FileOrder[i]] = versions[x][FileOrder[i]]
         /\ \A k \in Listed(s) : i < k /\ k <= s.pos => x <= Met(s, k)

\* The locals of a job that advances.
AdvanceTo(r, s) ==
  [r EXCEPT !.scan = [s EXCEPT !.pos = NextFile(s)],
            !.pc = IF NextFile(s) = 0 THEN "compare" ELSE "stat"]

\* Advance keeps a scan sound.
LEMMA AdvanceSound ==
  ASSUME EditTypes, NEW r \in JobLocals, NEW s \in Scans, BetweenFiles(s, r.before),
         \A i \in Index : r.before[FileOrder[i]] <= Len(versions),
         r.source # NoFiles =>
           \E n \in 1 .. Len(versions) : versions[n] = r.source /\ NotOlder(s, n),
         SnapshotSound(r)
  PROVE  /\ AdvanceTo(r, s) \in JobLocals /\ JobSound(AdvanceTo(r, s))
         /\ AdvanceTo(r, s).pc \in {"stat", "compare"}
         /\ AdvanceTo(r, s).source = r.source
<1> DEFINE next == AdvanceTo(r, s)
           p == NextFile(s)
           t == [s EXCEPT !.pos = p]
<1>1. /\ t \in Scans /\ t.pos = p /\ t.listed = s.listed /\ t.inventory = s.inventory
      /\ t.files = s.files
  BY NextFileIs DEF Scans
<1>2. /\ Listed(t) = Listed(s) /\ \A i \in Index : Met(t, i) = Met(s, i)
      /\ \A n : NotOlder(t, n) <=> NotOlder(s, n)
  BY <1>1 DEF Listed, Met, NotOlder
<1> HIDE DEF t
<1>3. /\ next \in JobLocals /\ next.scan = t /\ next.before = r.before
      /\ next.source = r.source /\ next.later = r.later
      /\ next.pc = (IF p = 0 THEN "compare" ELSE "stat")
  BY <1>1 DEF AdvanceTo, t, JobLocals, JobPcs, Resolving, Captures
<1> HIDE DEF next
<1>4. Listed(s) \subseteq Index /\ Index \subseteq Nat /\ s.pos \in Nat /\ 0 \notin Index
  BY FileFacts DEF Listed, Index, Scans
<1>5. /\ p = 0 => \A i \in Listed(s) : i <= s.pos
      /\ p # 0 => /\ p \in Listed(s) /\ p > s.pos
                  /\ \A i \in Listed(s) : i > s.pos => p <= i
      /\ p \in Nat
  <2>1. p \in {0} \cup Index
    BY NextFileIs
  <2>2. p = 0 => \A i \in Listed(s) : i <= s.pos
    BY NextFileIs
  <2>3. p # 0 => /\ p \in Listed(s) /\ p > s.pos
                 /\ \A i \in Listed(s) : i > s.pos => p <= i
    BY NextFileIs
  <2> HIDE DEF p
  <2> QED BY <1>4, <2>1, <2>2, <2>3
<1> HIDE DEF p
<1>6. Done(t) = {i \in Listed(s) : i <= s.pos}
  <2>1. \A i : i \in Done(t) <=> i \in Listed(s) /\ (p = 0 \/ i < p)
    BY <1>1, <1>2 DEF Done
  <2>2. \A i \in Listed(s) : (p = 0 \/ i < p) <=> i <= s.pos
    <3> SUFFICES ASSUME NEW i \in Listed(s) PROVE (p = 0 \/ i < p) <=> i <= s.pos
      OBVIOUS
    <3>1. i \in Nat /\ s.pos \in Nat /\ p \in Nat
      BY <1>4, <1>5
    <3>2. CASE p = 0
      BY <1>5, <3>2
    <3>3. CASE p # 0
      <4>1. p > s.pos /\ (i > s.pos => p <= i)
        BY <1>5, <3>3
      <4> QED BY <3>1, <3>3, <4>1
    <3> QED BY <3>2, <3>3
  <2>3. \A i : i \in Done(t) <=> i \in {k \in Listed(s) : k <= s.pos}
    BY <2>1, <2>2
  <2> QED BY <2>3
<1>7. Looked(t, next.pc) = Done(t)
  BY <1>2, <1>3 DEF Looked, Done
<1>8. ScanShaped(t, next.pc)
  BY <1>1, <1>2, <1>3, <1>4, <1>5, <1>6, <1>7 DEF ScanShaped, BetweenFiles
<1>9. ListedAt(t, next.before)
  BY <1>1, <1>2, <1>3 DEF BetweenFiles, ListedAt
<1>10. ASSUME NEW i \in Done(t) PROVE ReadFrom(t, i, next.pc)
  BY <1>1, <1>2, <1>4, <1>6, <1>7 DEF BetweenFiles, ReadFrom
<1>11. AfterSource(next) /\ SnapshotSound(next)
  BY <1>2, <1>3 DEF AfterSource, SnapshotSound
<1>12. next.pc \in Scanning /\ next.pc \in Captures
  BY <1>3 DEF Scanning, Captures
<1>13. \A i \in Index : next.before[FileOrder[i]] <= Len(versions)
  BY <1>3
<1>14. JobSound(next)
  BY <1>3, <1>8, <1>9, <1>10, <1>11, <1>12, <1>13 DEF JobSound, ScanSound
<1> QED BY <1>3, <1>14 DEF next

\* The names are listed.
LEMMA ListStep ==
  ASSUME EditInv, JobInv, NEW j \in Jobs, List(j)
  PROVE  JobInv'
<1>1. job[j].pc = "list" /\ UNCHANGED <<versions, valid, damaged>> /\ EditTypes
  BY DEF List, Untouched, editVars, EditInv
<1>2. CASE tree = NoTree
  BY <1>1, <1>2, FailStep DEF List
<1>3. CASE tree # NoTree
  <2> PICK r \in JobLocals : r = job[j]
    BY DEF JobInv, JobTypes
  <2>1. JobSound(r) /\ r.pc = "list"
    BY <1>1 DEF JobInv, ScansSound
  <2> DEFINE s == [Scan EXCEPT !.listed = {f \in Files : Present(f)}]
             N == Len(versions)
  <2>2. tree = Newest /\ N \in 1 .. N /\ versions[N] = latest
    BY <1>1, <1>3 DEF EditInv, TreeSound, EditTypes, latest
  <2>3. /\ s \in Scans /\ s.pos = 0 /\ s.listed = {f \in Files : versions[N][f] # NoFile}
        /\ s.inventory = Scan.inventory /\ s.files = NoFiles
    BY <1>1, <1>3, <2>2, IdleJobIs, LatestTyped DEF Scans, Present
  <2> HIDE DEF s, N
  <2>4. \A i \in Index : Met(s, i) = 0 /\ s.files[FileOrder[i]] = NoFile /\ i > 0
    BY <2>3, IdleJobIs, FileFacts, NoFilesTyped DEF Met, Index
  <2>5. \A n : NotOlder(s, n)
    BY <2>4 DEF NotOlder
  <2>6. \A i \in Index : r.before[FileOrder[i]] <= N
    BY <2>1 DEF JobSound, N
  <2>7. ListedAt(s, r.before)
    BY <2>2, <2>3, <2>5, <2>6 DEF ListedAt, N
  <2>8. BetweenFiles(s, r.before)
    <3>1. N \in Nat
      BY <1>1 DEF EditTypes, N
    <3>2. \A i \in Index : ~(i <= s.pos)
      BY <2>3, FileFacts DEF Index
    <3> QED BY <2>3, <2>4, <2>7, <3>1, <3>2 DEF BetweenFiles, Listed, N
  <2>9. r.source # NoFiles =>
          \E n \in 1 .. Len(versions) : versions[n] = r.source /\ NotOlder(s, n)
    BY <2>1, <2>5 DEF JobSound, AfterSource
  <2> DEFINE next == AdvanceTo(r, s)
  <2>10. Step(j, next)
    BY <1>3 DEF List, Advance, AdvanceTo, s
  <2>11. /\ next \in JobLocals /\ JobSound(next) /\ next.pc \in {"stat", "compare"}
         /\ next.source = r.source
    <3>1. SnapshotSound(r) /\ \A i \in Index : r.before[FileOrder[i]] <= Len(versions)
      BY <2>1 DEF JobSound
    <3> QED BY <1>1, <2>3, <2>8, <2>9, <3>1, AdvanceSound
  <2> HIDE DEF next
  <2>12. r.source # NoFiles => r.source \in valid
    BY <2>1 DEF JobInv, EntriesSound, Captures
  <2> QED BY <1>1, <2>10, <2>11, <2>12, Advances DEF Launching
<1> QED BY <1>2, <1>3

\* The next file is looked at.
LEMMA StatStep ==
  ASSUME EditInv, JobInv, NEW j \in Jobs, Stat(j)
  PROVE  JobInv'
<1>1. job[j].pc = "stat" /\ UNCHANGED <<versions, valid, damaged>> /\ EditTypes
  BY DEF Stat, Untouched, editVars, EditInv
<1>2. CASE ~Present(Current(j))
  BY <1>1, <1>2, FailStep DEF Stat
<1>3. CASE Present(Current(j))
  <2> PICK r \in JobLocals : r = job[j]
    BY DEF JobInv, JobTypes
  <2>1. JobSound(r) /\ r.pc = "stat"
    BY <1>1 DEF JobInv, ScansSound
  <2> DEFINE N == Len(versions)
  <2>2. tree = Newest /\ N \in Nat /\ N >= 1
    BY <1>1, <1>3 DEF EditInv, TreeSound, EditTypes, Present
  <2> PICK p : p = r.scan.pos
    OBVIOUS
  <2> PICK s \in Scans : s = r.scan
    BY DEF JobLocals
  <2>3. /\ p \in Listed(s) /\ p # 0 /\ ScanShaped(s, "stat") /\ ListedAt(s, r.before)
        /\ \A i \in Done(s) : ReadFrom(s, i, "stat")
    BY <2>1 DEF JobSound, ScanSound, ScanShaped, Scanning
  <2> PICK f \in Files : f = FileOrder[p]
    BY <2>3, FileFacts DEF Listed
  <2> DEFINE t == [s EXCEPT !.inventory = [s.inventory EXCEPT ![f] = N]]
             next == [r EXCEPT !.pc = "read", !.scan = t]
  <2>4. Step(j, next)
    <3>1. tree.gen = N /\ Current(j) = f
      BY <1>1, <2>2, LatestTyped DEF Current
    <3>2. next = [job[j] EXCEPT !.pc = "read", !.scan.inventory[Current(j)] = tree.gen]
      BY <3>1
    <3> QED BY <1>3, <3>2 DEF Stat
  <2>5. /\ t \in Scans /\ t.pos = p /\ t.listed = s.listed /\ t.files = s.files
        /\ t.inventory = [s.inventory EXCEPT ![f] = N]
    BY <2>2 DEF Scans
  <2> HIDE DEF t
  <2>6. /\ next \in JobLocals /\ next.pc = "read" /\ next.scan = t /\ next.before = r.before
        /\ next.source = r.source /\ next.later = r.later
    BY <2>5 DEF JobLocals, JobPcs, Resolving, Captures
  <2> HIDE DEF next, N
  <2>7. /\ Listed(t) = Listed(s) /\ Done(t) = Done(s)
        /\ Looked(t, "read") = Looked(s, "stat") \cup {p} /\ p \notin Looked(s, "stat")
    BY <2>3, <2>5, FileFacts DEF Listed, Done, Looked, Index
  <2>8. /\ Met(t, p) = N
        /\ \A i \in Index : i # p => Met(t, i) = Met(s, i)
        /\ Met(s, p) = 0
    <3>1. s.inventory \in [Files -> Nat] /\ p \in Index
      BY <2>3 DEF Scans, Listed
    <3>2. \A i \in Index : i # p => FileOrder[i] # f
      BY <3>1, FileFacts
    <3> QED BY <2>3, <2>5, <2>7, <3>1, <3>2, FileFacts DEF Met, ScanShaped
  <2>9. ScanShaped(t, "read")
    BY <2>2, <2>3, <2>5, <2>7, <2>8 DEF ScanShaped, N
  <2>10. ASSUME NEW n, n <= N, NotOlder(s, n) PROVE NotOlder(t, n)
    BY <2>8, <2>10 DEF NotOlder
  <2>11. ListedAt(t, r.before)
    <3>1. PICK y \in 1 .. N : /\ s.listed = {g \in Files : versions[y][g] # NoFile}
                              /\ \A h \in Index : r.before[FileOrder[h]] <= y
                              /\ NotOlder(s, y)
      BY <2>3 DEF ListedAt, N
    <3>2. NotOlder(t, y)
      BY <2>2, <2>10, <3>1
    <3> QED BY <2>5, <3>1, <3>2 DEF ListedAt, N
  <2>12. ASSUME NEW i \in Done(t) PROVE ReadFrom(t, i, "read")
    <3>1. PICK x \in 1 .. N :
            /\ Met(s, i) <= x /\ x <= Met(s, i) + 1
            /\ s.files[FileOrder[i]] = versions[x][FileOrder[i]]
            /\ \A k \in Looked(s, "stat") : i < k => x <= Met(s, k)
      BY <2>3, <2>7, <2>12 DEF ReadFrom, N
    <3>2. i # p /\ i \in Index /\ Met(t, i) = Met(s, i)
      BY <2>3, <2>5, <2>7, <2>8, <2>12, FileFacts DEF Done, Listed, Index
    <3>3. \A k \in Looked(t, "read") : i < k => x <= Met(t, k)
      BY <2>2, <2>7, <2>8, <3>1 DEF Looked, Listed
    <3> QED BY <2>5, <3>1, <3>2, <3>3 DEF ReadFrom, N
  <2>13. AfterSource(next)
    <3> SUFFICES ASSUME r.source # NoFiles
                 PROVE  \E n \in 1 .. N : versions[n] = r.source /\ NotOlder(t, n)
      BY <2>6 DEF AfterSource, N
    <3>1. PICK n \in 1 .. N : versions[n] = r.source /\ NotOlder(s, n)
      BY <2>1 DEF JobSound, AfterSource, N
    <3> QED BY <2>2, <2>10, <3>1
  <2>14. SnapshotSound(next) /\ \A i \in Index : next.before[FileOrder[i]] <= N
    BY <2>1, <2>6 DEF JobSound, SnapshotSound, N
  <2>15. JobSound(next)
    BY <2>6, <2>9, <2>11, <2>12, <2>13, <2>14 DEF JobSound, ScanSound, Scanning, Captures, N
  <2>16. r.source # NoFiles => r.source \in valid
    BY <2>1 DEF JobInv, EntriesSound, Captures
  <2> QED BY <1>1, <2>4, <2>6, <2>15, <2>16, Advances DEF Launching
<1> QED BY <1>2, <1>3

\* The file is read: from the copy that was looked at, or the next.
LEMMA ReadStep ==
  ASSUME EditInv, JobInv, NEW j \in Jobs, Read(j)
  PROVE  JobInv'
<1>1. job[j].pc = "read" /\ UNCHANGED <<versions, valid, damaged>> /\ EditTypes
  BY DEF Read, Untouched, editVars, EditInv
<1>2. CASE ~Present(Current(j))
  BY <1>1, <1>2, FailStep DEF Read
<1>3. CASE Present(Current(j))
  <2> PICK r \in JobLocals : r = job[j]
    BY DEF JobInv, JobTypes
  <2>1. JobSound(r) /\ r.pc = "read"
    BY <1>1 DEF JobInv, ScansSound
  <2> DEFINE N == Len(versions)
  <2>2. tree.files = latest /\ N \in Nat /\ N \in 1 .. N /\ versions[N] = latest
    BY <1>1, <1>3, LatestTyped DEF EditInv, TreeSound, EditTypes, Present, latest
  <2> PICK s \in Scans : s = r.scan
    BY DEF JobLocals
  <2> PICK p : p = s.pos
    OBVIOUS
  <2>3. /\ p \in Listed(s) /\ p # 0 /\ ScanShaped(s, "read") /\ ListedAt(s, r.before)
        /\ \A i \in Done(s) : ReadFrom(s, i, "read")
    BY <2>1 DEF JobSound, ScanSound, ScanShaped, Scanning
  <2> PICK f \in Files : f = FileOrder[p]
    BY <2>3, FileFacts DEF Listed
  <2> DEFINE t == [s EXCEPT !.files = [s.files EXCEPT ![f] = latest[f]]]
             next == AdvanceTo(r, t)
  <2>4. Step(j, next)
    <3>1. Current(j) = f
      BY <1>1 DEF Current
    <3>2. t = [job[j].scan EXCEPT !.files[Current(j)] = tree.files[Current(j)]]
      BY <2>2, <3>1
    <3> HIDE DEF t
    <3> QED BY <1>3, <3>2 DEF Read, Advance, AdvanceTo
  <2>5. /\ t \in Scans /\ t.pos = p /\ t.listed = s.listed /\ t.inventory = s.inventory
        /\ t.files = [s.files EXCEPT ![f] = latest[f]]
    BY <1>1, LatestTyped DEF Scans, Trees
  <2> HIDE DEF t, N
  <2>6. Listed(t) = Listed(s) /\ \A i \in Index : Met(t, i) = Met(s, i)
    BY <2>5 DEF Listed, Met
  <2>7. /\ Listed(s) \subseteq Index /\ Index \subseteq Nat /\ p \in Index
        /\ \A i \in Index : i # p => FileOrder[i] # f
        /\ p \in Nat /\ \A i \in Listed(s) : i \in Nat
    BY <2>3, FileFacts DEF Listed, Index
  <2>8. /\ Done(s) = {i \in Listed(s) : i < p}
        /\ Looked(s, "read") = {i \in Listed(s) : i <= p}
    <3>1. Done(s) = {i \in Listed(s) : i < p}
      BY <2>3 DEF Done
    <3>2. \A i : i \in Looked(s, "read") <=> i \in Listed(s) /\ (i \in Done(s) \/ i = p)
      BY DEF Looked
    <3>3. \A i \in Listed(s) : i <= p <=> (i < p \/ i = p)
      BY <2>7
    <3>4. \A i : i \in Looked(s, "read") <=> i \in {k \in Listed(s) : k <= p}
      BY <3>1, <3>2, <3>3
    <3> QED BY <3>1, <3>4
  <2>9. /\ t.files[f] = versions[N][f]
        /\ \A i \in Index : i # p => t.files[FileOrder[i]] = s.files[FileOrder[i]]
    BY <2>2, <2>5, <2>7, FileFacts DEF Scans, Trees
  <2>10. /\ \A i \in Index : Met(s, i) <= N
         /\ \A i \in Index : Met(s, i) # 0 <=> i \in Listed(s) /\ i <= p
         /\ \A i \in Index : ~(i \in Listed(s) /\ i < p) => s.files[FileOrder[i]] = NoFile
         /\ N <= Met(s, p) + 1
    BY <2>3, <2>8 DEF ScanShaped, N
  <2>11. \A i \in Index : ~(i \in Listed(t) /\ i <= t.pos) => t.files[FileOrder[i]] = NoFile
    <3> SUFFICES ASSUME NEW i \in Index, ~(i \in Listed(t) /\ i <= t.pos)
                 PROVE  t.files[FileOrder[i]] = NoFile
      OBVIOUS
    <3>1. ~(i \in Listed(s) /\ i <= p)
      BY <2>5, <2>6
    <3>2. i # p
      BY <2>3, <2>7, <3>1
    <3>3. ~(i \in Listed(s) /\ i < p)
      BY <2>7, <3>1
    <3> QED BY <2>9, <2>10, <3>2, <3>3
  <2>12. ListedAt(t, r.before) /\ \A n : NotOlder(t, n) <=> NotOlder(s, n)
    BY <2>3, <2>5, <2>6 DEF ListedAt, NotOlder
  <2>13. ASSUME NEW i \in Listed(t), i <= t.pos
         PROVE  \E x \in 1 .. N :
                  /\ Met(t, i) <= x /\ x <= Met(t, i) + 1
                  /\ t.files[FileOrder[i]] = versions[x][FileOrder[i]]
                  /\ \A k \in Listed(t) : i < k /\ k <= t.pos => x <= Met(t, k)
    <3>1. CASE i = p
      <4>1. \A k \in Listed(t) : ~(i < k /\ k <= t.pos)
        <5>1. t.pos = p /\ Listed(t) = Listed(s) /\ \A k \in Listed(s) : ~(p < k /\ k <= p)
          BY <2>5, <2>6, <2>7
        <5> QED BY <3>1, <5>1
      <4>2. Met(t, i) <= N /\ N <= Met(t, i) + 1
        BY <2>6, <2>7, <2>10, <3>1
      <4> QED BY <2>2, <2>9, <3>1, <4>1, <4>2
    <3>2. CASE i # p
      <4>1. i \in Done(s) /\ i \in Index
        <5>1. i \in Listed(s) /\ i <= p
          BY <2>5, <2>6, <2>13
        <5>2. i < p
          BY <2>7, <3>2, <5>1
        <5> QED BY <2>7, <2>8, <5>1, <5>2
      <4>2. PICK x \in 1 .. N :
              /\ Met(s, i) <= x /\ x <= Met(s, i) + 1
              /\ s.files[FileOrder[i]] = versions[x][FileOrder[i]]
              /\ \A k \in Looked(s, "read") : i < k => x <= Met(s, k)
        BY <2>3, <4>1 DEF ReadFrom, N
      <4>3. \A k \in Listed(t) : i < k /\ k <= t.pos => x <= Met(t, k)
        BY <2>5, <2>6, <2>7, <2>8, <4>2
      <4> QED BY <2>6, <2>9, <3>2, <4>1, <4>2, <4>3
    <3> QED BY <3>1, <3>2
  <2>14. BetweenFiles(t, r.before)
    BY <2>5, <2>6, <2>10, <2>11, <2>12, <2>13 DEF BetweenFiles, N
  <2>15. /\ SnapshotSound(r) /\ \A i \in Index : r.before[FileOrder[i]] <= Len(versions)
         /\ r.source # NoFiles =>
              \E n \in 1 .. Len(versions) : versions[n] = r.source /\ NotOlder(t, n)
    BY <2>1, <2>12 DEF JobSound, AfterSource
  <2>16. /\ next \in JobLocals /\ JobSound(next) /\ next.pc \in {"stat", "compare"}
         /\ next.source = r.source
    BY <1>1, <2>5, <2>14, <2>15, AdvanceSound
  <2> HIDE DEF next
  <2>17. r.source # NoFiles => r.source \in valid
    BY <2>1 DEF JobInv, EntriesSound, Captures
  <2> QED BY <1>1, <2>4, <2>16, <2>17, Advances DEF Launching
<1> QED BY <1>2, <1>3

\* Two scans that met the same: the second is a version, and not one older than
\* anything it met.
LEMMA SnapshotIsVersion ==
  ASSUME EditInv, NEW r \in JobLocals, r.pc = "compare", JobSound(r),
         r.before = r.scan.inventory, r.scan.files[Instructions] # NoFile
  PROVE  \E v \in 1 .. Len(versions) :
           /\ versions[v] = r.scan.files
           /\ \A n \in Nat : NotOlder(r.scan, n) => n <= v
<1> DEFINE N == Len(versions)
<1>1. N \in Nat /\ \A v \in 1 .. N : versions[v] \in Trees
  BY LatestTyped DEF EditInv
<1> PICK s \in Scans : s = r.scan
  BY DEF JobLocals
<1>2. /\ ScanShaped(s, "compare") /\ ListedAt(s, s.inventory)
      /\ \A i \in Done(s) : ReadFrom(s, i, "compare")
  BY DEF JobSound, ScanSound, Scanning
<1>3. s.pos = 0 /\ Done(s) = Listed(s) /\ Looked(s, "compare") = Listed(s)
  BY <1>2 DEF ScanShaped, Done, Looked
<1>4. Listed(s) \subseteq Index /\ Index \subseteq Nat
  BY FileFacts DEF Listed, Index
<1>5. /\ \A i \in Index : Met(s, i) # 0 <=> i \in Listed(s)
      /\ \A i \in Index : i \notin Listed(s) => s.files[FileOrder[i]] = NoFile
      /\ \A i \in Index : Met(s, i) \in Nat
  BY <1>2, <1>3, FileFacts DEF ScanShaped, Met, Scans
<1>6. PICK y \in 1 .. N :
        /\ s.listed = {f \in Files : versions[y][f] # NoFile}
        /\ \A h \in Index : Met(s, h) <= y
        /\ NotOlder(s, y)
  BY <1>2 DEF ListedAt, Met
<1>7. \A i \in Listed(s) : Met(s, i) = y
  <2> SUFFICES ASSUME NEW i \in Listed(s) PROVE Met(s, i) = y
    OBVIOUS
  <2>1. i \in Index /\ Met(s, i) # 0 /\ Met(s, i) \in Nat
    BY <1>4, <1>5
  <2>2. Met(s, i) <= y /\ y <= Met(s, i) /\ y \in Nat
    BY <1>1, <1>6, <2>1 DEF NotOlder
  <2> QED BY <2>1, <2>2
<1>8. PICK m \in Listed(s) : TRUE
  <2>1. PICK i \in Index : Instructions = FileOrder[i]
    BY FileFacts, LibraryAssumption
  <2> QED BY <1>5, <2>1
<1>9. \A n \in Nat : NotOlder(s, n) => n <= y
  BY <1>4, <1>5, <1>7, <1>8 DEF NotOlder
<1>10. \A f \in Files : f \notin s.listed => s.files[f] = NoFile /\ versions[y][f] = NoFile
  BY <1>5, <1>6, FileFacts DEF Listed
<1>11. \A i \in Listed(s) : \E x \in 1 .. N :
         /\ x \in {y, y + 1}
         /\ s.files[FileOrder[i]] = versions[x][FileOrder[i]]
         /\ \A k \in Listed(s) : i < k => x <= y
  BY <1>1, <1>2, <1>3, <1>7 DEF ReadFrom
<1>12. s.files \in Trees
  BY DEF Scans
<1> HIDE DEF N
<1>13. CASE \A i \in Listed(s) : s.files[FileOrder[i]] = versions[y][FileOrder[i]]
  <2>1. \A f \in Files : s.files[f] = versions[y][f]
    BY <1>10, <1>13, FileFacts DEF Listed
  <2>2. s.files = versions[y]
    BY <1>1, <1>12, <2>1 DEF Trees
  <2> QED BY <1>9, <2>2 DEF N
<1>14. CASE \E i \in Listed(s) : s.files[FileOrder[i]] # versions[y][FileOrder[i]]
  <2>1. PICK q \in Listed(s) : s.files[FileOrder[q]] # versions[y][FileOrder[q]]
    BY <1>14
  <2>2. /\ y + 1 \in 1 .. N /\ s.files[FileOrder[q]] = versions[y + 1][FileOrder[q]]
        /\ \A k \in Listed(s) : ~(q < k)
    <3>1. PICK x \in 1 .. N : /\ x \in {y, y + 1}
                              /\ s.files[FileOrder[q]] = versions[x][FileOrder[q]]
                              /\ \A k \in Listed(s) : q < k => x <= y
      BY <1>11
    <3>2. x = y + 1 /\ y \in Nat
      BY <1>1, <2>1, <3>1
    <3> QED BY <3>1, <3>2
  <2>3. \A i \in Listed(s) : i # q => s.files[FileOrder[i]] = versions[y][FileOrder[i]]
    <3> SUFFICES ASSUME NEW i \in Listed(s), i # q
                 PROVE  s.files[FileOrder[i]] = versions[y][FileOrder[i]]
      OBVIOUS
    <3>1. PICK x \in 1 .. N : /\ x \in {y, y + 1}
                              /\ s.files[FileOrder[i]] = versions[x][FileOrder[i]]
                              /\ \A k \in Listed(s) : i < k => x <= y
      BY <1>11
    <3>2. i \in Nat /\ q \in Nat /\ ~(q < i)
      BY <1>4, <2>2
    <3>3. x <= y /\ y \in Nat
      BY <1>1, <3>1, <3>2
    <3>4. x = y
      BY <3>1, <3>3
    <3> QED BY <3>1, <3>4
  <2>4. PICK g \in Files : \A f \in Files \ {g} : versions[y][f] = versions[y + 1][f]
    <3>1. y \in 1 .. (N - 1)
      BY <1>1, <2>2
    <3> QED BY <3>1 DEF EditInv, VersionsSound, OneFileApart, N
  <2>5. FileOrder[q] = g
    BY <1>4, <2>1, <2>2, <2>4, FileFacts
  <2>6. \A f \in Files : s.files[f] = versions[y + 1][f]
    <3> SUFFICES ASSUME NEW f \in Files PROVE s.files[f] = versions[y + 1][f]
      OBVIOUS
    <3>1. CASE f = g
      BY <2>2, <2>5, <3>1
    <3>2. CASE f # g
      <4>1. s.files[f] = versions[y][f]
        BY <1>10, <2>3, <2>5, <3>2, FileFacts DEF Listed
      <4> QED BY <2>4, <3>2, <4>1
    <3> QED BY <3>1, <3>2
  <2>7. s.files = versions[y + 1]
    BY <1>1, <1>12, <2>2, <2>6 DEF Trees, N
  <2>8. \A n \in Nat : NotOlder(s, n) => n <= y + 1
    <3>1. y \in Nat
      BY <1>1, <1>6
    <3> QED BY <1>9, <3>1
  <2> QED BY <2>2, <2>7, <2>8 DEF N
<1> QED BY <1>13, <1>14

\* A job that starts a scan.
ScanAgain(r, pass, n, before) ==
  [r EXCEPT !.pc = "list", !.pass = pass, !.attempt = n, !.scan = Scan, !.before = before]

\* What it sets of its locals.
LEMMA ScansAgain ==
  ASSUME NEW r \in JobLocals, NEW pass \in {1, 2}, NEW n \in Nat,
         NEW before \in [Files -> Nat]
  PROVE  ScanAgain(r, pass, n, before) \in JobLocals
<1>1. "list" \in JobPcs
  BY DEF JobPcs, Resolving, Captures
<1>2. Scan \in Scans
  BY IdleJobIs
<1> QED BY <1>1, <1>2 DEF JobLocals, ScanAgain

\* Two scans are compared.
LEMMA CompareStep ==
  ASSUME EditInv, JobInv, NEW j \in Jobs, Compare(j)
  PROVE  JobInv'
<1>1. job[j].pc = "compare" /\ UNCHANGED <<versions, valid, damaged>> /\ EditTypes
  BY DEF Compare, Untouched, editVars, EditInv
<1>0. {"list", "validate", "ready"} \subseteq JobPcs
  BY DEF JobPcs, Resolving, Captures, Launching
<1> PICK r \in JobLocals : r = job[j]
  BY DEF JobInv, JobTypes
<1> PICK s \in Scans : s = r.scan
  BY DEF JobLocals
<1>2. JobSound(r) /\ r.pc = "compare"
  BY <1>1 DEF JobInv, ScansSound
<1>3. \A f \in Files : s.inventory[f] <= Len(versions)
  BY <1>2, FileFacts DEF JobSound, ScanSound, ScanShaped, Scanning, Met
<1>4. SnapshotSound(r) /\ AfterSource(r)
  BY <1>2 DEF JobSound
<1>5. r.source # NoFiles => r.source \in valid
  BY <1>1 DEF JobInv, EntriesSound, Captures
<1>6. CASE r.pass = 1
  <2> DEFINE next == ScanAgain(r, 2, r.attempt, s.inventory)
  <2>0. s.inventory \in [Files -> Nat] /\ r.attempt \in Nat /\ 2 \in {1, 2}
    BY DEF Scans, JobLocals
  <2>1. Step(j, next)
    <3>1. next = [r EXCEPT !.pc = "list", !.pass = 2, !.scan = Scan, !.before = s.inventory]
      BY DEF JobLocals, ScanAgain
    <3> HIDE DEF next
    <3> QED BY <1>6, <3>1 DEF Compare
  <2>2. /\ next \in JobLocals /\ next.pc = "list" /\ next.scan = Scan
        /\ next.before = s.inventory /\ next.source = r.source /\ next.later = r.later
    <3>1. next \in JobLocals
      BY <2>0, ScansAgain
    <3> QED BY <3>1 DEF JobLocals, ScanAgain
  <2> HIDE DEF next
  <2>3. SnapshotSound(next)
    BY <1>4, <2>2 DEF SnapshotSound
  <2>4. JobSound(next)
    BY <1>1, <1>3, <2>2, <2>3, RestingSound DEF Scanning, Captures
  <2> QED BY <1>1, <1>5, <2>1, <2>2, <2>4, Advances DEF Launching
<1>7. CASE r.pass # 1 /\ r.before # s.inventory /\ r.attempt < Attempts
  <2> DEFINE next == ScanAgain(r, 1, r.attempt + 1, Scan.inventory)
  <2>0. Scan.inventory \in [Files -> Nat] /\ r.attempt + 1 \in Nat /\ 1 \in {1, 2}
    BY IdleJobIs DEF JobLocals
  <2>1. Step(j, next)
    BY <1>7 DEF Compare, ScanAgain
  <2>2. /\ next \in JobLocals /\ next.pc = "list" /\ next.scan = Scan
        /\ next.before = Scan.inventory /\ next.source = r.source /\ next.later = r.later
    <3>1. next \in JobLocals
      BY <2>0, ScansAgain
    <3> QED BY <3>1 DEF JobLocals, ScanAgain
  <2> HIDE DEF next
  <2>3. SnapshotSound(next)
    BY <1>4, <2>2 DEF SnapshotSound
  <2>4. JobSound(next)
    BY <1>1, <2>2, <2>3, NothingMet, RestingSound DEF Scanning
  <2> QED BY <1>1, <1>5, <2>1, <2>2, <2>4, Advances DEF Launching
<1>8. CASE r.pass # 1 /\ r.before # s.inventory /\ ~(r.attempt < Attempts)
  <2>1. Fail(j)
    BY <1>8 DEF Compare
  <2> QED BY <1>1, <2>1, FailStep
<1>9. CASE r.pass # 1 /\ r.before = s.inventory
  <2> PICK files \in Trees : files = s.files
    BY DEF Scans
  <2>1. Captured(j)
    BY <1>9 DEF Compare
  <2>2. CASE files[Instructions] = NoFile
    <3>1. Fail(j)
      BY <2>1, <2>2 DEF Captured
    <3> QED BY <1>1, <3>1, FailStep
  <2>3. CASE files[Instructions] # NoFile
    <3>1. PICK v \in 1 .. Len(versions) :
            /\ versions[v] = files
            /\ \A n \in Nat : NotOlder(s, n) => n <= v
      BY <1>2, <1>9, <2>3, SnapshotIsVersion
    <3>2. CASE r.source = NoFiles
      <4> DEFINE next == [IdleJob EXCEPT !.pc = "validate", !.prompt = r.prompt, !.source = files]
      <4>1. Step(j, next)
        BY <2>1, <2>3, <3>2 DEF Captured
      <4>2. /\ next \in JobLocals /\ next.pc = "validate" /\ next.scan = Scan
            /\ next.before = Scan.inventory /\ next.source = files /\ next.later = NoFiles
        BY <1>0, IdleJobIs DEF JobLocals
      <4> HIDE DEF next
      <4>3. SnapshotSound(next)
        BY <3>1, <4>2 DEF SnapshotSound
      <4>4. JobSound(next)
        BY <1>1, <4>2, <4>3, NothingMet, RestingSound DEF Scanning
      <4> QED BY <1>1, <4>1, <4>2, <4>4, Advances DEF Launching, Captures
    <3>3. CASE r.source # NoFiles /\ ~HasPrompt(files)
      <4>1. Fail(j)
        BY <2>1, <2>3, <3>3 DEF Captured
      <4> QED BY <1>1, <4>1, FailStep
    <3>4. CASE r.source # NoFiles /\ HasPrompt(files)
      <4> DEFINE next == [IdleJob EXCEPT !.pc = "ready", !.source = r.source, !.later = files]
      <4>1. Step(j, next)
        BY <2>1, <2>3, <3>4 DEF Captured
      <4>2. /\ next \in JobLocals /\ next.pc = "ready" /\ next.scan = Scan
            /\ next.before = Scan.inventory /\ next.source = r.source /\ next.later = files
        BY <1>0, IdleJobIs DEF JobLocals
      <4> HIDE DEF next
      <4>3. PICK n \in 1 .. Len(versions) : versions[n] = r.source /\ NotOlder(s, n)
        BY <1>4, <3>4 DEF AfterSource
      <4>4. v \in n .. Len(versions)
        BY <1>1, <3>1, <4>3 DEF EditTypes
      <4>5. SnapshotSound(next)
        BY <3>1, <4>2, <4>3, <4>4 DEF SnapshotSound
      <4>6. JobSound(next)
        BY <1>1, <4>2, <4>5, NothingMet, RestingSound DEF Scanning
      <4> QED BY <1>1, <1>5, <3>4, <4>1, <4>2, <4>6, Advances
    <3> QED BY <3>2, <3>3, <3>4
  <2> QED BY <2>2, <2>3
<1> QED BY <1>6, <1>7, <1>8, <1>9

-----------------------------------------------------------------------------
(* Jobs: compilation and launch *)

\* A job that goes on with its source, outside of any scan: only its pc changes.
LEMMA GoesOn ==
  ASSUME EditTypes, JobTypes, NEW j \in Jobs, JobSound(job[j]),
         job[j].pc \notin Captures, NEW pc \in JobPcs \ Scanning
  PROVE  LET next == [job[j] EXCEPT !.pc = pc]
         IN /\ next \in JobLocals /\ JobSound(next)
            /\ next.pc = pc /\ next.source = job[j].source
<1> PICK r \in JobLocals : r = job[j]
  BY DEF JobTypes
<1> DEFINE next == [r EXCEPT !.pc = pc]
<1>1. /\ next \in JobLocals /\ next.pc = pc /\ next.source = r.source
      /\ next.later = r.later /\ next.scan = r.scan /\ next.before = r.before
  BY DEF JobLocals
<1> HIDE DEF next
<1>2. r.scan = Scan /\ r.before = Scan.inventory /\ SnapshotSound(r)
  BY DEF JobSound, Captures, Scanning
<1>3. SnapshotSound(next)
  BY <1>1, <1>2 DEF SnapshotSound
<1>4. JobSound(next)
  BY <1>1, <1>2, <1>3, NothingMet, RestingSound
<1> QED BY <1>1, <1>4 DEF next

\* The same, from pc to pc, for the steps that leave the cache alone.
LEMMA QuietStep ==
  ASSUME EditTypes, JobInv, NEW j \in Jobs, job[j].pc \notin Captures,
         NEW pc \in JobPcs \ (Scanning \cup {"rest", "partial", "build"}),
         Step(j, [job[j] EXCEPT !.pc = pc]), UNCHANGED <<versions, valid, damaged>>,
         pc \in Launching \cup Captures => Matches(job[j].source)
  PROVE  JobInv'
<1> DEFINE next == [job[j] EXCEPT !.pc = pc]
<1>1. /\ next \in JobLocals /\ JobSound(next)
      /\ next.pc = pc /\ next.source = job[j].source
  BY GoesOn DEF JobInv, ScansSound
<1> HIDE DEF next
<1> QED BY <1>1, Advances DEF Matches, next

\* A compiled job goes on to its prompt or to its submission.
LEMMA CompiledStep ==
  ASSUME EditTypes, JobInv, NEW j \in Jobs, job[j].pc \notin Captures,
         Compiled(j), Matches(job[j].source), UNCHANGED <<versions, valid, damaged>>
  PROVE  JobInv'
<1>1. CASE Step(j, [job[j] EXCEPT !.pc = "list"])
  BY <1>1, QuietStep DEF JobPcs, Resolving, Captures, Scanning
<1>2. CASE Step(j, [job[j] EXCEPT !.pc = "ready"])
  BY <1>2, QuietStep DEF JobPcs, Launching, Scanning
<1> QED BY <1>1, <1>2 DEF Compiled

\* The entry is looked for without the lock.
LEMMA ValidateStep ==
  ASSUME EditTypes, JobInv, NEW j \in Jobs, Validate(j)
  PROVE  JobInv'
<1>1. /\ job[j].pc = "validate" /\ UNCHANGED <<versions, valid, damaged>>
      /\ job[j].pc \notin Captures
  BY DEF Validate, Untouched, editVars, Captures
<1>2. CASE Matches(job[j].source) /\ Compiled(j)
  BY <1>1, <1>2, CompiledStep
<1>3. CASE Step(j, [job[j] EXCEPT !.pc = "lock"])
  BY <1>1, <1>3, QuietStep DEF JobPcs, Resolving, Launching, Captures, Scanning
<1>4. CASE Fail(j)
  BY <1>1, <1>4, FailStep
<1> QED BY <1>2, <1>3, <1>4 DEF Validate

\* The locals of all jobs stay sound when only one moves and no version is added.
LEMMA OthersSound ==
  ASSUME ScansSound, NEW j \in Jobs, UNCHANGED versions, JobSound(job'[j]),
         \A k \in Jobs : k # j => job'[k] = job[k]
  PROVE  ScansSound'
<1> SUFFICES ASSUME NEW k \in Jobs PROVE JobSound(job[k])'
  BY DEF ScansSound
<1>1. PICK r : r = job'[k]
  OBVIOUS
<1>2. JobSound(r)
  BY <1>1 DEF ScansSound
<1> QED BY <1>1, <1>2, SoundStays

\* Under the lock of the entry: used, or put into quarantine.
LEMMA RecheckStep ==
  ASSUME EditTypes, JobInv, NEW j \in Jobs, Recheck(j)
  PROVE  JobInv'
<1>1. /\ job[j].pc = "lock" /\ UNCHANGED <<versions, valid>>
      /\ job[j].pc \notin Captures /\ Building(job[j].source) = {}
  BY DEF Recheck, editVars, Captures
<1>2. CASE Matches(job[j].source) /\ Compiled(j) /\ UNCHANGED damaged
  BY <1>1, <1>2, CompiledStep
<1>3. CASE /\ ~Matches(job[j].source) /\ Step(j, [job[j] EXCEPT !.pc = "build"])
           /\ damaged' = damaged \ {job[j].source}
  <2> DEFINE next == [job[j] EXCEPT !.pc = "build"]
  <2>1. "build" \in JobPcs \ Scanning
    BY DEF JobPcs, Resolving, Scanning
  <2>2. /\ next \in JobLocals /\ JobSound(next)
        /\ next.pc = "build" /\ next.source = job[j].source
    BY <1>1, <2>1, GoesOn DEF JobInv, ScansSound
  <2>3. Step(j, next)
    BY <1>3
  <2> HIDE DEF next
  <2>4. /\ job' \in [Jobs -> JobLocals] /\ job'[j] = next
        /\ \A k \in Jobs : k # j => job'[k] = job[k]
    BY <2>2, <2>3, StepMoves DEF JobInv
  <2>5. JobTypes'
    BY <1>1, <1>3, <2>4 DEF JobInv, JobTypes
  <2>6. ScansSound'
    BY <1>1, <2>2, <2>4, OthersSound DEF JobInv
  <2>7. \A k \in Jobs : job[k].pc = "build" => job[k].source # job[j].source
    BY <1>1 DEF Building
  <2>8. job[j].source \notin valid
    BY <1>3 DEF Matches
  <2>9. EntriesSound'
    BY <1>1, <1>3, <2>2, <2>4, <2>7, <2>8 DEF JobInv, EntriesSound, Launching, Captures
  <2> QED BY <2>5, <2>6, <2>9 DEF JobInv
<1> QED BY <1>2, <1>3 DEF Recheck

\* The entry is built.
LEMMA BuildStep ==
  ASSUME EditTypes, JobInv, NEW j \in Jobs, Build(j)
  PROVE  JobInv'
<1>1. /\ job[j].pc = "build" /\ UNCHANGED <<versions, damaged>>
      /\ job[j].pc \notin Captures
      /\ valid' = valid \cup {job[j].source} /\ Step(j, [job[j] EXCEPT !.pc = "check"])
  BY DEF Build, Untouched, editVars, Captures
<1> DEFINE next == [job[j] EXCEPT !.pc = "check"]
<1>2. "check" \in JobPcs \ Scanning
  BY DEF JobPcs, Resolving, Scanning
<1>3. /\ next \in JobLocals /\ JobSound(next)
      /\ next.pc = "check" /\ next.source = job[j].source
  BY <1>1, <1>2, GoesOn DEF JobInv, ScansSound
<1>4. Step(j, next)
  BY <1>1
<1> HIDE DEF next
<1>5. /\ job' \in [Jobs -> JobLocals] /\ job'[j] = next
      /\ \A k \in Jobs : k # j => job'[k] = job[k]
  BY <1>3, <1>4, StepMoves DEF JobInv
<1>6. job[j].source \in Trees
  BY DEF JobInv, JobTypes, JobLocals
<1>7. JobTypes'
  BY <1>1, <1>5, <1>6 DEF JobInv, JobTypes
<1>8. ScansSound'
  BY <1>1, <1>3, <1>5, OthersSound DEF JobInv
<1>9. /\ job[j].source \notin damaged
      /\ \A k \in Jobs : k # j /\ job[k].pc = "build" => job[k].source # job[j].source
  BY <1>1 DEF JobInv, EntriesSound
<1>10. EntriesSound'
  BY <1>1, <1>3, <1>5, <1>9 DEF JobInv, EntriesSound, Launching, Captures
<1> QED BY <1>7, <1>8, <1>10 DEF JobInv

\* The entry is validated once more.
LEMMA CheckStep ==
  ASSUME EditTypes, JobInv, NEW j \in Jobs, Check(j)
  PROVE  JobInv'
<1>1. /\ job[j].pc = "check" /\ UNCHANGED <<versions, valid, damaged>>
      /\ job[j].pc \notin Captures
  BY DEF Check, Untouched, editVars, Captures
<1>2. CASE Matches(job[j].source) /\ Compiled(j)
  BY <1>1, <1>2, CompiledStep
<1>3. CASE Fail(j)
  BY <1>1, <1>3, FailStep
<1> QED BY <1>2, <1>3 DEF Check

\* The entry is copied: it is there, as nobody replaces what matches.
LEMMA CopyStep ==
  ASSUME EditTypes, JobInv, NEW j \in Jobs, CopyRoot(j) \/ CopyBelow(j)
  PROVE  JobInv'
<1>1. /\ job[j].pc \in Launching /\ UNCHANGED <<versions, valid, damaged>>
      /\ job[j].pc \notin Captures
  BY DEF CopyRoot, CopyBelow, Untouched, editVars, Captures, Launching
<1>2. CASE Fail(j)
  BY <1>1, <1>2, FailStep
<1>3. CASE ~Fail(j)
  <2>1. job[j].pc # "rest"
    BY DEF JobInv, EntriesSound
  <2>2. Matches(job[j].source)
    <3>1. job[j].source \in valid
      BY <1>1 DEF JobInv, EntriesSound
    <3> QED BY <3>1 DEF Matches
  <2>4. \/ Step(j, [job[j] EXCEPT !.pc = "view"])
        \/ Step(j, [job[j] EXCEPT !.pc = "launched"])
    BY <1>3, <2>1, <2>2 DEF CopyRoot, CopyBelow
  <2>5. {"view", "launched"} \subseteq JobPcs \ (Scanning \cup {"rest", "partial", "build"})
    BY DEF JobPcs, Launching, Over, Scanning
  <2> QED BY <1>1, <2>2, <2>4, <2>5, QuietStep
<1> QED BY <1>2, <1>3

\* A job that fails or dies while it builds, resolves or launches.
LEMMA JobEnds ==
  ASSUME EditTypes, JobInv, NEW j \in Jobs, BuildFails(j) \/ JobDies(j)
  PROVE  JobInv'
<1>1. Fail(j) /\ UNCHANGED <<versions, valid, damaged>>
  BY DEF BuildFails, JobDies, editVars
<1> QED BY <1>1, FailStep

\* An entry is damaged that no job relies on.
LEMMA DamageStep ==
  ASSUME ~LateDamage, JobInv, NEW d \in valid, Damage(d)
  PROVE  JobInv'
<1>1. /\ UNCHANGED <<job, versions>> /\ valid' = valid \ {d} /\ damaged' = damaged \cup {d}
      /\ \A j \in Jobs : job[j].source = d => job[j].pc \notin Launching \cup Captures
  BY DEF Damage, editVars
<1>2. JobTypes'
  BY <1>1 DEF JobInv, JobTypes
<1>3. EntriesSound'
  BY <1>1 DEF JobInv, EntriesSound
<1>4. ScansSound'
  BY <1>1, SoundStays DEF JobInv, ScansSound
<1> QED BY <1>2, <1>3, <1>4 DEF JobInv

-----------------------------------------------------------------------------
(* Jobs: while the library is edited *)

\* A publication leaves true what is known of a job, if it is the first since the
\* file that the job is about to read was looked at.
LEMMA SoundGrows ==
  ASSUME EditInv, NEW e \in Editors, MoveIn(e), NEW r \in JobLocals, JobSound(r),
         r.pc = "read" => Met(r.scan, r.scan.pos) = Len(versions)
  PROVE  JobSound(r)'
<1> PICK n \in Nat : n = Len(versions)
  BY LatestTyped DEF EditInv
<1>1. Len(versions') = n + 1 /\ \A i \in 1 .. n : versions'[i] = versions[i] /\ i \in 1 .. n + 1
  BY Published
<1> PICK s \in Scans : s = r.scan
  BY DEF JobLocals
<1>2. \A i \in Index : Met(s, i) \in Nat /\ r.before[FileOrder[i]] \in Nat
  BY FileFacts DEF Met, Scans, JobLocals
<1>3. ASSUME ScanSound(r) PROVE ScanSound(r)'
  <2>1. ScanShaped(s, r.pc)'
    <3>1. ScanShaped(s, r.pc)
      BY <1>3 DEF ScanSound
    <3>2. s.pos # 0 => s.pos \in Index
      BY <3>1 DEF ScanShaped, Listed
    <3>3. r.pc = "read" => n + 1 <= Met(s, s.pos) + 1
      BY <1>2, <3>1, <3>2 DEF ScanShaped
    <3>4. \A i \in Index : Met(s, i) <= n + 1
      BY <1>2, <3>1 DEF ScanShaped
    <3>5. ScanShaped(s, r.pc)' <=>
            /\ s.pos # 0 => s.pos \in Listed(s)
            /\ s.pos = 0 <=> r.pc = "compare"
            /\ \A i \in Index : Met(s, i) <= n + 1
            /\ \A i \in Index : Met(s, i) # 0 <=> i \in Looked(s, r.pc)
            /\ \A i \in Index : i \notin Done(s) => s.files[FileOrder[i]] = NoFile
            /\ r.pc = "read" => n + 1 <= Met(s, s.pos) + 1
      BY <1>1 DEF ScanShaped, Met, Looked, Done, Listed
    <3> QED BY <3>1, <3>3, <3>4, <3>5 DEF ScanShaped
  <2>2. ListedAt(s, r.before)'
    <3>1. PICK y \in 1 .. n : /\ s.listed = {f \in Files : versions[y][f] # NoFile}
                              /\ \A h \in Index : r.before[FileOrder[h]] <= y
                              /\ NotOlder(s, y)
      BY <1>3 DEF ScanSound, ListedAt
    <3>2. y \in 1 .. n + 1 /\ versions'[y] = versions[y]
      BY <1>1
    <3> QED BY <1>1, <3>1, <3>2 DEF ListedAt, NotOlder, Met
  <2>3. ASSUME NEW i \in Done(s) PROVE ReadFrom(s, i, r.pc)'
    <3>1. PICK x \in 1 .. n : /\ Met(s, i) <= x /\ x <= Met(s, i) + 1
                              /\ s.files[FileOrder[i]] = versions[x][FileOrder[i]]
                              /\ \A k \in Looked(s, r.pc) : i < k => x <= Met(s, k)
      BY <1>3, <2>3 DEF ScanSound, ReadFrom
    <3>2. x \in 1 .. n + 1 /\ versions'[x] = versions[x]
      BY <1>1
    <3> QED BY <1>1, <3>1, <3>2 DEF ReadFrom, Met, Looked, Done, Listed
  <2> QED BY <2>1, <2>2, <2>3 DEF ScanSound, Done, Listed
<1>4. \A i \in Index : r.before[FileOrder[i]] <= n + 1
  BY <1>2 DEF JobSound
<1>5. AfterSource(r)'
  <2> SUFFICES ASSUME r.source # NoFiles
               PROVE  \E i \in 1 .. n + 1 : versions'[i] = r.source /\ NotOlder(s, i)
    BY <1>1 DEF AfterSource, NotOlder, Met
  <2>1. PICK i \in 1 .. n : versions[i] = r.source /\ NotOlder(s, i)
    BY DEF JobSound, AfterSource
  <2> QED BY <1>1, <2>1
<1>6. SnapshotSound(r)'
  <2> SUFFICES ASSUME r.source # NoFiles
               PROVE  \E i \in 1 .. n + 1 :
                        /\ versions'[i] = r.source
                        /\ r.later # NoFiles => \E k \in i .. n + 1 : versions'[k] = r.later
    BY <1>1 DEF SnapshotSound
  <2>1. PICK i \in 1 .. n : /\ versions[i] = r.source
                            /\ r.later # NoFiles => \E k \in i .. n : versions[k] = r.later
    BY DEF JobSound, SnapshotSound
  <2>2. ASSUME NEW k \in i .. n PROVE k \in i .. n + 1 /\ versions'[k] = versions[k]
    BY <1>1
  <2> QED BY <1>1, <2>1, <2>2
<1> QED BY <1>1, <1>3, <1>4, <1>5, <1>6 DEF JobSound

\* A step of an edit.
LEMMA EditKeepsJobs ==
  ASSUME ~SlowReads, EditInv, JobInv, NEW e \in Editors,
         Post(e) \/ EditStep(e) \/ EditorDies(e)
  PROVE  JobInv'
<1>1. UNCHANGED <<job, valid, damaged>>
  BY DEF Post, EditStep, EditorDies, LockAndStage, MoveAway, MoveIn, RenameFails, Restore,
     CleanUp, jobVars
<1>2. JobTypes' /\ EntriesSound'
  BY <1>1 DEF JobInv, JobTypes, EntriesSound
<1>3. CASE MoveIn(e)
  <2> SUFFICES ASSUME NEW j \in Jobs PROVE JobSound(job[j])'
    BY <1>2 DEF JobInv, ScansSound
  <2> PICK r \in JobLocals : r = job[j]
    BY DEF JobInv, JobTypes
  <2>1. JobSound(r) /\ job'[j] = r
    BY <1>1 DEF JobInv, ScansSound
  <2>2. r.pc = "read" => Met(r.scan, r.scan.pos) = Len(versions)
    BY <1>3 DEF MoveIn, ReadsKeepUp, Met
  <2>3. JobSound(r)'
    BY <1>3, <2>1, <2>2, SoundGrows
  <2> QED BY <2>1, <2>3
<1>4. CASE ~MoveIn(e)
  <2>1. UNCHANGED versions
    BY <1>4 DEF Post, EditStep, EditorDies, LockAndStage, MoveAway, RenameFails, Restore,
       CleanUp
  <2>2. ScansSound'
    BY <1>1, <2>1, SoundStays DEF JobInv, ScansSound
  <2> QED BY <1>2, <2>2 DEF JobInv
<1> QED BY <1>3, <1>4

-----------------------------------------------------------------------------
(* What holds of every behaviour *)

\* Steps of jobs and routines leave the edits alone.
LEMMA EditInvStep == EditInv /\ [Next]_vars => EditInv'
<1> SUFFICES ASSUME EditInv, [Next]_vars PROVE EditInv'
  OBVIOUS
<1>0. trouble \in Nat /\ EditTypes
  BY LibraryAssumption DEF EditInv, EditTypes
<1>1. ASSUME NEW e \in Editors, Post(e) \/ EditStep(e) \/ EditorDies(e) PROVE EditInv'
  BY <1>1, PostStep, LockAndStageStep, MoveAwayStep, MoveInStep, RenameFailsStep, RestoreStep,
     CleanUpStep, EditorDiesStep DEF EditStep
<1>2. ASSUME NEW j \in Jobs, Resolve(j) \/ JobStep(j) \/ JobDies(j) PROVE EditInv'
  <2>1. UNCHANGED <<editVars, uses>> /\ (UNCHANGED trouble \/ Trouble)
    BY <1>2 DEF Resolve, JobStep, JobDies, List, Stat, Read, Compare, Validate, Recheck,
       Build, BuildFails, Check, CopyRoot, CopyBelow, Untouched
  <2>2. trouble' \in 0 .. MaxTrouble /\ trouble' >= trouble
    BY <1>0, <2>1, TroubleCounts DEF EditTypes
  <2> QED BY <1>0, <2>1, <2>2, EditsUntouched DEF EditTypes
<1>3. CASE SaveRoutine
  <2>1. uses' \in BOOLEAN /\ trouble' \in 0 .. MaxTrouble /\ trouble' >= trouble
    BY <1>0, <1>3 DEF SaveRoutine, EditTypes
  <2> QED BY <1>3, <2>1, EditsUntouched DEF SaveRoutine
<1>4. ASSUME NEW d \in valid, Damage(d) PROVE EditInv'
  <2>1. UNCHANGED <<editVars, uses>> /\ Trouble
    BY <1>4 DEF Damage
  <2>2. trouble' \in 0 .. MaxTrouble /\ trouble' >= trouble
    BY <1>0, <2>1, TroubleCounts
  <2> QED BY <1>0, <2>1, <2>2, EditsUntouched DEF EditTypes
<1>5. CASE UNCHANGED vars
  <2>1. trouble' \in 0 .. MaxTrouble /\ trouble' >= trouble
    BY <1>0, <1>5 DEF vars, EditTypes
  <2> QED BY <1>0, <1>5, <2>1, EditsUntouched DEF vars, EditTypes
<1> QED BY <1>1, <1>2, <1>3, <1>4, <1>5 DEF Next

\* The edits keep to their invariant, whatever happens and however often.
LEMMA EditInvAlways == Spec => []EditInv
BY InitEdits, EditInvStep, PTL DEF Spec

\* No edit undoes another it has not seen: what a publication replaces is what the
\* page of its edit showed, and only the edited file differs (NoLostEdit).
THEOREM NoLostEditAlways == Spec => NoLostEdit
<1> DEFINE Replaces ==
      latest' # latest =>
        \E e \in Editors : /\ edit[e].pc = "away" /\ edit[e].seen = latest
                           /\ \A f \in Files \ {EditFile[e]} : latest'[f] = latest[f]
<1>1. EditInv /\ [Next]_vars => [Replaces]_vars
  <2> SUFFICES ASSUME EditInv, Next, latest' # latest
               PROVE  \E e \in Editors :
                        /\ edit[e].pc = "away" /\ edit[e].seen = latest
                        /\ \A f \in Files \ {EditFile[e]} : latest'[f] = latest[f]
    OBVIOUS
  <2>1. versions' # versions
    BY VersionsStay
  <2>2. PICK e \in Editors : MoveIn(e)
    BY <2>1 DEF Next, Post, EditStep, EditorDies, LockAndStage, MoveAway, RenameFails,
       Restore, CleanUp, Resolve, JobStep, JobDies, List, Stat, Read, Compare, Validate,
       Recheck, Build, BuildFails, Check, CopyRoot, CopyBelow, Untouched, SaveRoutine,
       Damage, editVars
  <2>3. edit[e].pc = "away"
    BY <2>2 DEF MoveIn
  <2> QED BY <2>2, <2>3, Published
<1>2. Spec => [][Replaces]_vars
  BY <1>1, EditInvAlways, PTL DEF Spec
<1> QED BY <1>2 DEF NoLostEdit

\* Only an edit moves the blueprint, and only then is it away.
LEMMA KeptStep == EditInv /\ Kept /\ [Next /\ RestoresWork]_vars => Kept'
<1> SUFFICES ASSUME EditInv, Kept, [Next /\ RestoresWork]_vars PROVE Kept'
  OBVIOUS
<1>0. /\ EditTypes /\ \A e \in Editors : EditSound(e)
      /\ Newest \in Copies /\ Newest.files = latest
  BY LatestTyped DEF EditInv, EditsSound
<1>1. ASSUME UNCHANGED <<tree, backup, versions>>,
             \A e \in Editors : edit'[e].pc = "in" => edit[e].pc = "in" \/ tree # NoTree
      PROVE  Kept'
  BY <1>1, VersionsStay DEF Kept, NothingLost
<1>2. ASSUME UNCHANGED <<tree, backup, versions, edit>> PROVE Kept'
  BY <1>1, <1>2
<1>3. ASSUME NEW t \in Copies, tree' = t, t.files = latest' PROVE Kept'
  BY <1>3, CopyIsTree DEF Kept, NothingLost
<1>4. ASSUME NEW e \in Editors, Post(e) \/ LockAndStage(e) \/ EditorDies(e) PROVE Kept'
  <2>1. UNCHANGED <<tree, backup, versions>>
    BY <1>4 DEF Post, LockAndStage, EditorDies
  <2>2. PICK next : Turn(e, next) /\ next.pc \in {"posted", "staged", "refused", "dead"}
    <3>1. CASE Post(e)
      <4>1. PICK i \in 1 .. Len(versions) :
              Turn(e, [IdleEdit EXCEPT !.pc = "posted", !.seen = versions[i],
                                       !.users = HasUsers(e)])
        BY <3>1 DEF Post
      <4>2. [IdleEdit EXCEPT !.pc = "posted", !.seen = versions[i],
                             !.users = HasUsers(e)].pc = "posted"
        BY DEF IdleEdit
      <4> QED BY <4>1, <4>2
    <3>2. CASE Turn(e, [edit[e] EXCEPT !.pc = "staged", !.stage = Staged(e)])
      <4>1. [edit[e] EXCEPT !.pc = "staged", !.stage = Staged(e)].pc = "staged"
        BY <1>0 DEF EditTypes, EditLocals
      <4> QED BY <3>2, <4>1
    <3>3. CASE Turn(e, [IdleEdit EXCEPT !.pc = "refused"])
      <4>1. [IdleEdit EXCEPT !.pc = "refused"].pc = "refused"
        BY DEF IdleEdit
      <4> QED BY <3>3, <4>1
    <3>4. CASE Turn(e, [IdleEdit EXCEPT !.pc = "dead"])
      <4>1. [IdleEdit EXCEPT !.pc = "dead"].pc = "dead"
        BY DEF IdleEdit
      <4> QED BY <3>4, <4>1
    <3> QED BY <1>4, <3>1, <3>2, <3>3, <3>4 DEF LockAndStage, EditorDies
  <2>3. \A d \in Editors : edit'[d].pc = "in" => edit[d].pc = "in"
    BY <1>0, <2>2 DEF Turn, EditTypes
  <2> QED BY <1>1, <2>1, <2>3
<1>5. ASSUME NEW e \in Editors, RenameFails(e) PROVE Kept'
  <2>1. UNCHANGED <<tree, backup, versions>> /\ edit[e].pc \in {"staged", "away"}
    BY <1>5 DEF RenameFails
  <2>2. PICK pc \in EditPcs : /\ Turn(e, [edit[e] EXCEPT !.pc = pc])
                              /\ pc = "in" => edit[e].pc = "staged"
    BY <1>5, <2>1 DEF RenameFails, EditPcs
  <2>3. edit'[e].pc = pc /\ \A d \in Editors : d # e => edit'[d] = edit[d]
    BY <1>0, <2>2, EditGoesOn
  <2>4. edit[e].pc = "staged" => tree # NoTree
    BY <1>0 DEF EditSound
  <2>5. \A d \in Editors : edit'[d].pc = "in" => edit[d].pc = "in" \/ tree # NoTree
    BY <2>2, <2>3, <2>4
  <2> QED BY <1>1, <2>1, <2>5
<1>6. ASSUME NEW e \in Editors, MoveAway(e) PROVE Kept'
  <2>1. /\ edit[e].pc = "staged" /\ tree' = NoTree /\ UNCHANGED versions
        /\ backup' = [backup EXCEPT ![e] = tree]
    BY <1>6 DEF MoveAway
  <2>2. tree = Newest /\ libLock = e
    BY <1>0, <2>1 DEF EditSound, EditInv, TreeSound
  <2>3. backup'[e] = Newest
    BY <1>0, <2>1, <2>2 DEF EditTypes
  <2>4. NothingLost'
    BY <1>0, <2>1, <2>3, VersionsStay, CopyIsTree DEF NothingLost
  <2>5. edit'[e].pc = "away" /\ \A d \in Editors : d # e => edit'[d] = edit[d]
    BY <1>0, <1>6, EditGoesOn DEF MoveAway, EditPcs
  <2>6. \A d \in Editors : edit'[d].pc # "in"
    BY <1>0, <2>2, <2>5 DEF EditSound
  <2> QED BY <2>4, <2>6 DEF Kept
<1>7. ASSUME NEW e \in Editors, MoveIn(e) PROVE Kept'
  <2>1. tree' = [files |-> edit[e].stage, gen |-> Len(versions) + 1]
    BY <1>7 DEF MoveIn
  <2>2. edit[e].stage \in Trees /\ latest' = edit[e].stage /\ Len(versions) + 1 \in Nat
    BY <1>0, <1>7, Published, LatestTyped
  <2>3. tree' \in Copies /\ tree'.files = latest'
    BY <2>1, <2>2 DEF Copies
  <2> QED BY <1>3, <2>3
<1>8. ASSUME NEW e \in Editors, Restore(e), RestoresWork PROVE Kept'
  <2>1. /\ edit[e].pc = "fallen" /\ UNCHANGED versions
        /\ tree' = backup[e] \/ tree' = tree
    BY <1>8 DEF Restore
  <2>2. backup[e] = Newest /\ tree = NoTree
    BY <1>0, <2>1 DEF EditSound
  <2>3. edit'[e].pc = "in"
    BY <1>0, <1>8, EditGoesOn DEF Restore, EditPcs
  <2>4. tree' = Newest
    BY <1>8, <2>1, <2>2, <2>3 DEF RestoresWork
  <2> QED BY <1>0, <1>3, <2>1, <2>4, VersionsStay
<1>9. ASSUME NEW e \in Editors, CleanUp(e) PROVE Kept'
  <2>1. edit[e].pc = "in" /\ UNCHANGED <<tree, versions>>
    BY <1>9 DEF CleanUp
  <2>2. tree = Newest
    BY <2>1 DEF Kept, EditInv, TreeSound
  <2> QED BY <1>0, <1>3, <2>1, <2>2, VersionsStay
<1>10. ASSUME NEW e \in Editors, EditStep(e), RestoresWork PROVE Kept'
  BY <1>4, <1>5, <1>6, <1>7, <1>8, <1>9, <1>10 DEF EditStep
<1>11. ASSUME UNCHANGED editVars PROVE Kept'
  BY <1>2, <1>11 DEF editVars
<1>12. ASSUME NEW j \in Jobs, Resolve(j) \/ JobStep(j) \/ JobDies(j) PROVE UNCHANGED editVars
  BY <1>12 DEF Resolve, JobStep, JobDies, List, Stat, Read, Compare, Validate, Recheck,
     Build, BuildFails, Check, CopyRoot, CopyBelow, Untouched
<1>13. ASSUME SaveRoutine \/ (\E d \in valid : Damage(d)) \/ UNCHANGED vars
       PROVE  UNCHANGED editVars
  BY <1>13 DEF SaveRoutine, Damage, vars
<1> QED BY <1>4, <1>10, <1>11, <1>12, <1>13 DEF Next

\* A published blueprint is never lost: it is in its place or in a backup (NothingLost),
\* however many processes die and renames fail, as long as the rename that puts a
\* backup back works whenever _publish_stage's except branch tries it.
THEOREM NothingLostIfRestored == Init /\ [][Next /\ RestoresWork]_vars => []NothingLost
<1>1. Init => EditInv /\ Kept
  BY InitEdits
<1>2. EditInv /\ Kept /\ [Next /\ RestoresWork]_vars => EditInv' /\ Kept'
  <2>1. [Next /\ RestoresWork]_vars => [Next]_vars
    OBVIOUS
  <2> QED BY <2>1, EditInvStep, KeptStep
<1>3. Kept => NothingLost
  BY DEF Kept
<1> QED BY <1>1, <1>2, <1>3, PTL

\* With one failure at all, that rename works.
LEMMA OneFailureRestores ==
  ASSUME MaxTrouble <= 1
  PROVE  EditInv /\ [Next]_vars => [Next /\ RestoresWork]_vars
<1> SUFFICES ASSUME EditInv, Next PROVE RestoresWork
  OBVIOUS
<1> SUFFICES ASSUME NEW e \in Editors, edit[e].pc = "fallen", edit'[e].pc = "in"
             PROVE  tree' # NoTree
  BY DEF RestoresWork
<1>1. /\ EditTypes /\ backup[e] = Newest /\ Newest \in Copies /\ trouble >= 1
  BY LatestTyped DEF EditInv, EditsSound, EditSound
<1>2. ~Trouble
  BY <1>1, LibraryAssumption DEF Trouble, EditTypes
<1>3. edit' # edit
  OBVIOUS
<1>4. PICK d \in Editors : Post(d) \/ EditStep(d) \/ EditorDies(d)
  BY <1>3 DEF Next, Resolve, JobStep, JobDies, List, Stat, Read, Compare, Validate, Recheck,
     Build, BuildFails, Check, CopyRoot, CopyBelow, Untouched, SaveRoutine, Damage, editVars
<1>5. PICK next : Turn(d, next)
  BY <1>4 DEF Post, EditStep, EditorDies, LockAndStage, MoveAway, MoveIn, RenameFails,
     Restore, CleanUp
<1>6. d = e
  BY <1>1, <1>5 DEF Turn, EditTypes
<1>7. Restore(e)
  BY <1>2, <1>4, <1>6 DEF Post, EditStep, EditorDies, LockAndStage, MoveAway, MoveIn,
     RenameFails, CleanUp
<1>8. tree' = backup[e]
  BY <1>2, <1>7 DEF Restore
<1> QED BY <1>1, <1>8, CopyIsTree

\* With one failure at most, of a rename or of a process, a published blueprint is in
\* its place or in a backup (NothingLost).
THEOREM NothingLostAlways ==
  ASSUME MaxTrouble <= 1
  PROVE  Spec => []NothingLost
<1>1. Spec => Init /\ [][Next /\ RestoresWork]_vars
  BY EditInvAlways, OneFailureRestores, PTL DEF Spec
<1> QED BY <1>1, NothingLostIfRestored, PTL

\* Jobs keep to their invariant.
LEMMA JobInvStep ==
  ASSUME ~SlowReads, ~LateDamage
  PROVE  EditInv /\ JobInv /\ [Next]_vars => JobInv'
<1> SUFFICES ASSUME EditInv, JobInv, [Next]_vars PROVE JobInv'
  OBVIOUS
<1>0. EditTypes
  BY DEF EditInv
<1>1. ASSUME NEW e \in Editors, Post(e) \/ EditStep(e) \/ EditorDies(e) PROVE JobInv'
  BY <1>1, EditKeepsJobs
<1>2. ASSUME NEW j \in Jobs, Resolve(j) \/ JobStep(j) \/ JobDies(j) PROVE JobInv'
  BY <1>0, <1>2, ResolveStep, ListStep, StatStep, ReadStep, CompareStep, ValidateStep,
     RecheckStep, BuildStep, CheckStep, CopyStep, JobEnds DEF JobStep
<1>3. ASSUME NEW d \in valid, Damage(d) PROVE JobInv'
  BY <1>3, DamageStep
<1>4. CASE SaveRoutine \/ UNCHANGED vars
  <2>1. UNCHANGED <<job, valid, damaged, versions>>
    BY <1>4 DEF SaveRoutine, vars, editVars, jobVars
  <2>2. JobTypes' /\ EntriesSound'
    BY <2>1 DEF JobInv, JobTypes, EntriesSound
  <2>3. ScansSound'
    BY <2>1, SoundStays DEF JobInv, ScansSound
  <2> QED BY <2>2, <2>3 DEF JobInv
<1> QED BY <1>1, <1>2, <1>3, <1>4 DEF Next

\* No job has begun.
LEMMA InitJobs == Init => JobInv
<1> SUFFICES ASSUME Init PROVE JobInv
  OBVIOUS
<1>1. /\ job = [j \in Jobs |-> IdleJob] /\ valid = {} /\ damaged = {} /\ IdleJob.pc = "idle"
  BY DEF Init, IdleJob
<1>2. JobTypes
  BY <1>1, IdleJobIs DEF JobTypes
<1>3. EntriesSound
  BY <1>1 DEF EntriesSound, Launching, Captures
<1>4. EditTypes
  BY InitEdits DEF EditInv
<1>5. JobSound(IdleJob)
  BY <1>1, <1>4, IdleJobIs, NothingMet, RestingSound DEF Scanning, SnapshotSound
<1> QED BY <1>1, <1>2, <1>3, <1>5 DEF JobInv, ScansSound

\* What is compiled was the blueprint at some time, what the prompt is taken from was so
\* then or later, and what is launched is all of what was compiled
\* (JobsGetWhatWasPublished), if no file is overtaken twice between its stat and its
\* read and nothing outside damages an entry a job is about to copy.
THEOREM JobsGetWhatWasPublishedAlways ==
  ASSUME ~SlowReads, ~LateDamage
  PROVE  Spec => []JobsGetWhatWasPublished
<1>1. EditInv /\ JobInv => JobsGetWhatWasPublished
  <2> SUFFICES ASSUME EditInv, JobInv PROVE JobsGetWhatWasPublished
    OBVIOUS
  <2>1. tree \in [files : Trees, gen : 1 .. Len(versions)] \cup {NoTree}
    <3>1. CASE tree = NoTree
      BY <3>1
    <3>2. CASE tree # NoTree
      <4>1. tree = Newest /\ latest \in Trees /\ Len(versions) \in 1 .. Len(versions)
        BY <3>2, LatestTyped DEF EditInv, TreeSound, EditTypes
      <4> QED BY <4>1 DEF Newest
    <3> QED BY <3>1, <3>2
  <2>2. TypeOK
    BY <2>1 DEF TypeOK, EditInv, EditTypes, EditLocals, EditPcs, JobInv, JobTypes, JobLocals,
       JobPcs, EntriesSound, Trees
  <2>3. SnapshotsWereLive
    BY DEF SnapshotsWereLive, JobInv, ScansSound, JobSound, SnapshotSound
  <2>4. LaunchesWhatWasCompiled
    BY DEF LaunchesWhatWasCompiled, JobInv, EntriesSound
  <2> QED BY <2>2, <2>3, <2>4 DEF JobsGetWhatWasPublished
<1>2. Spec => []JobInv
  BY InitJobs, JobInvStep, EditInvAlways, PTL DEF Spec
<1> QED BY <1>1, <1>2, EditInvAlways, PTL
=============================================================================
