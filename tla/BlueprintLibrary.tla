--------------------------- MODULE BlueprintLibrary ---------------------------
(***************************************************************************)
(* One blueprint of the agent library, the dashboard's edits of its files, *)
(* and the jobs that are resolved, compiled and launched from it:          *)
(*   src/flowgency/web/routes/admin_library.py   saves and prompt deletes  *)
(*   src/flowgency/fs/snapshot.py                capture_tree              *)
(*   src/flowgency/blueprints/                   inspection, projection,   *)
(*                                               compilation cache         *)
(*   src/flowgency/jobs/resolution.py            resolve_job_request       *)
(*   src/flowgency/jobs/launch_view.py           create_launch_view        *)
(*                                                                         *)
(* Edits hold the library's lock and swap whole directories; readers hold  *)
(* no lock and read the files one by one, twice, comparing what they       *)
(* found.  Compilation is cached by the digest of the source, under a lock *)
(* per entry; a launch copies the cached entry without that lock.          *)
(***************************************************************************)
EXTENDS Naturals, FiniteSets, Sequences

CONSTANTS
  Editors,       \* edits submitted from the dashboard
  EditFile,      \* the file each of them writes or deletes
  Deletes,       \* the edits that delete a prompt
  Jobs,          \* jobs resolved from the blueprint
  PromptJobs,    \* those of a routine that names the blueprint's prompt
  FileOrder,     \* the files of a blueprint in the order a scan meets them
  Instructions,  \* AGENTS.md
  NoFile, NoTree, Nobody, Original,
  Attempts,      \* pairs of scans capture_tree makes at most
  SlowReads,     \* two edits may land between the stat and the read of a file
  LateDamage,    \* an entry may be damaged while a job relies on it
  MaxTrouble     \* renames and projections that fail, processes that die, and
                 \* cache entries damaged from outside

Files == {FileOrder[i] : i \in 1..Len(FileOrder)}
Contents == Editors \cup {Original, NoFile}

ASSUME LibraryAssumption ==
  /\ EditFile \in [Editors -> Files] /\ Deletes \subseteq Editors
  /\ PromptJobs \subseteq Jobs /\ Nobody \notin Editors
  /\ FileOrder \in Seq(Files)
  /\ \A i, k \in 1..Len(FileOrder) : FileOrder[i] = FileOrder[k] => i = k
  /\ Instructions \in Files /\ \A e \in Deletes : EditFile[e] # Instructions
  /\ NoTree \notin [files : [Files -> Contents], gen : Nat]
  /\ {Attempts, MaxTrouble} \subseteq Nat
  /\ {SlowReads, LateDamage} \subseteq BOOLEAN

VARIABLES
  tree,      \* the blueprint's directory: its files, and which copy it is
  backup,    \* the backup directory of each edit
  edit,      \* the locals of each edit
  libLock,   \* the edit that holds the blueprint's lock
  uses,      \* a routine of the configuration names the blueprint's prompt
  job,       \* the locals of each resolution and launch
  valid,     \* digests with a valid cache entry
  damaged,   \* digests whose entry is there but no longer matches
  versions,  \* history: the contents the blueprint has had, in order
  trouble

editVars == <<tree, backup, edit, libLock, versions>>
jobVars == <<job, valid>>
vars == <<editVars, jobVars, damaged, uses, trouble>>

-----------------------------------------------------------------------------
(* Data *)

NoFiles == [f \in Files |-> NoFile]

\* What an edit stages: the files there are without its own (a delete,
\* _stage_blueprint_delete), or with its own in place (_stage_blueprint).
StagedDelete(e) == [tree.files EXCEPT ![EditFile[e]] = NoFile]

Staged(e) ==
  IF e \in Deletes THEN StagedDelete(e) ELSE [tree.files EXCEPT ![EditFile[e]] = e]

\* One scan: the entries listed, the inventory and the contents read so far.
Scan == [pos |-> 0, listed |-> {}, inventory |-> [f \in Files |-> 0], files |-> NoFiles]

IdleEdit == [pc |-> "idle", seen |-> NoFiles, users |-> FALSE, stage |-> NoFiles]
IdleJob == [pc |-> "idle", prompt |-> FALSE, attempt |-> 1, pass |-> 1, scan |-> Scan,
            before |-> Scan.inventory, source |-> NoFiles, later |-> NoFiles]

\* The blueprint as a directory: every publication writes new files, so each
\* copy has inodes and times of its own.
Present(f) == IF tree = NoTree THEN FALSE ELSE tree.files[f] # NoFile

Prompts == Files \ {Instructions}
latest == versions[Len(versions)]

\* An entry of the cache that holds exactly the projection of its source and the
\* manifest of it (validate_artifact).
Matches(d) == d \in valid

\* The blueprint's prompt is in the catalog of a snapshot.
HasPrompt(s) == \E f \in Prompts : s[f] # NoFile

\* The digest under which a job's source is compiled, and the job that holds
\* the lock of the entry.
Building(d) == {j \in Jobs : job[j].pc = "build" /\ job[j].source = d}

Captures == {"list", "stat", "read", "compare"}
Resolving == Captures \cup {"validate", "lock", "build", "check"}
Launching == {"ready", "view", "rest"}
Over == {"failed", "launched", "partial"}

TypeOK ==
  /\ tree \in [files : [Files -> Contents], gen : 1..Len(versions)] \cup {NoTree}
  /\ \A e \in Editors : edit[e].pc \in {"idle", "posted", "staged", "away", "in",
                                       "fallen", "saved", "refused", "dead"}
  /\ libLock \in Editors \cup {Nobody}
  /\ \A j \in Jobs : job[j].pc \in {"idle"} \cup Resolving \cup Launching \cup Over
  /\ valid \cap damaged = {}
  /\ valid \cup damaged \subseteq [Files -> Contents]
  /\ uses \in BOOLEAN
  /\ versions \in Seq([Files -> Contents])
  /\ trouble \in 0..MaxTrouble

Init ==
  /\ tree = [files |-> [f \in Files |-> Original], gen |-> 1]
  /\ backup = [e \in Editors |-> NoTree]
  /\ edit = [e \in Editors |-> IdleEdit]
  /\ libLock = Nobody
  /\ uses \in BOOLEAN
  /\ job = [j \in Jobs |-> IdleJob]
  /\ valid = {} /\ damaged = {}
  /\ versions = <<tree.files>>
  /\ trouble = 0

-----------------------------------------------------------------------------
(* Edits: admin_blueprint_source_save and admin_blueprint_prompt_delete *)

Trouble == trouble < MaxTrouble /\ trouble' = trouble + 1

Turn(e, next) == edit' = [edit EXCEPT ![e] = next]

\* A routine names the prompt to be deleted (_configured_prompt_users).
HasUsers(e) == e \in Deletes /\ uses

\* Whether the path is one that may be edited, and the staged result a blueprint.
Acceptable == BOOLEAN

\* A page that showed the files at some time, and carries their digest, is
\* submitted; the handler reads the configuration before it takes the lock.
Post(e) ==
  /\ edit[e].pc = "idle"
  /\ \E i \in 1..Len(versions) :
       Turn(e, [IdleEdit EXCEPT !.pc = "posted", !.seen = versions[i],
                                !.users = HasUsers(e)])
  /\ UNCHANGED <<tree, backup, libLock, versions, jobVars, damaged, uses, trouble>>

FreshUnchecked(e) ==
  /\ tree # NoTree
  /\ e \in Deletes => ~edit[e].users /\ Present(EditFile[e])

\* Under the lock the blueprint must be what the page showed, a prompt to be
\* deleted there and without users, and the staged result a valid blueprint.
Fresh(e) ==
  /\ tree # NoTree /\ tree.files = edit[e].seen
  /\ e \in Deletes => ~edit[e].users /\ Present(EditFile[e])

LockAndStage(e) ==
  /\ edit[e].pc = "posted" /\ libLock = Nobody
  /\ \E ok \in Acceptable :
       IF Fresh(e) /\ ok
         THEN libLock' = e /\ Turn(e, [edit[e] EXCEPT !.pc = "staged", !.stage = Staged(e)])
         ELSE UNCHANGED libLock /\ Turn(e, [IdleEdit EXCEPT !.pc = "refused"])
  /\ UNCHANGED <<tree, backup, versions, jobVars, damaged, uses, trouble>>

\* _publish_stage: the directory goes to the backup, the stage takes its place.
MoveAway(e) ==
  /\ edit[e].pc = "staged"
  /\ backup' = [backup EXCEPT ![e] = tree] /\ tree' = NoTree
  /\ Turn(e, [edit[e] EXCEPT !.pc = "away"])
  /\ UNCHANGED <<libLock, versions, jobVars, damaged, uses, trouble>>

\* Unless SlowReads, one publication at most falls between the stat and the read
\* of a file.
ReadsKeepUp ==
  SlowReads \/ \A j \in Jobs : job[j].pc = "read" =>
                 job[j].scan.inventory[FileOrder[job[j].scan.pos]] = Len(versions)

MoveIn(e) ==
  /\ edit[e].pc = "away" /\ ReadsKeepUp
  /\ tree' = [files |-> edit[e].stage, gen |-> Len(versions) + 1]
  /\ versions' = Append(versions, edit[e].stage)
  /\ Turn(e, [edit[e] EXCEPT !.pc = "in"])
  /\ UNCHANGED <<backup, libLock, jobVars, damaged, uses, trouble>>

RenameFailsUnrestored(e) ==
  /\ edit[e].pc \in {"staged", "away"} /\ Trouble
  /\ Turn(e, [edit[e] EXCEPT !.pc = "in"])
  /\ UNCHANGED <<tree, backup, libLock, versions, jobVars, damaged, uses>>

\* A rename fails: nothing has happened yet, or the backup has to come back.
RenameFails(e) ==
  /\ edit[e].pc \in {"staged", "away"} /\ Trouble
  /\ Turn(e, [edit[e] EXCEPT !.pc = IF @ = "staged" THEN "in" ELSE "fallen"])
  /\ UNCHANGED <<tree, backup, libLock, versions, jobVars, damaged, uses>>

\* The except branch puts the backup back, if that rename works.
Restore(e) ==
  /\ edit[e].pc = "fallen"
  /\ \/ tree' = backup[e] /\ backup' = [backup EXCEPT ![e] = NoTree] /\ UNCHANGED trouble
     \/ Trouble /\ UNCHANGED <<tree, backup>>
  /\ Turn(e, [edit[e] EXCEPT !.pc = "in"])
  /\ UNCHANGED <<libLock, versions, jobVars, damaged, uses>>

CleanUpKeepsLock(e) ==
  /\ edit[e].pc = "in"
  /\ backup' = [backup EXCEPT ![e] = NoTree]
  /\ Turn(e, [IdleEdit EXCEPT !.pc = IF latest = edit[e].stage THEN "saved" ELSE "refused"])
  /\ UNCHANGED <<tree, libLock, versions, jobVars, damaged, uses, trouble>>

\* The finally branches remove the backup whatever happened, then the lock goes.
CleanUp(e) ==
  /\ edit[e].pc = "in"
  /\ backup' = [backup EXCEPT ![e] = NoTree]
  /\ libLock' = Nobody
  /\ Turn(e, [IdleEdit EXCEPT !.pc = IF latest = edit[e].stage THEN "saved" ELSE "refused"])
  /\ UNCHANGED <<tree, versions, jobVars, damaged, uses, trouble>>

\* A process dies: its locks go, its directories stay.
EditorDies(e) ==
  /\ edit[e].pc \in {"posted", "staged", "away", "in", "fallen"}
  /\ Trouble
  /\ Turn(e, [IdleEdit EXCEPT !.pc = "dead"])
  /\ libLock' = IF libLock = e THEN Nobody ELSE libLock
  /\ UNCHANGED <<tree, backup, versions, jobVars, damaged, uses>>

\* A routine that names the blueprint's prompt is saved.
SaveRoutine ==
  /\ ~uses /\ \E f \in Prompts : Present(f)
  /\ uses' = TRUE
  /\ UNCHANGED <<editVars, jobVars, damaged, trouble>>

-----------------------------------------------------------------------------
(* A read of the blueprint: capture_tree *)

Step(j, next) == job' = [job EXCEPT ![j] = next]
Fail(j) == Step(j, [IdleJob EXCEPT !.pc = "failed"])
Untouched == UNCHANGED <<editVars, damaged, uses, trouble>>

\* resolve_job_request reads the configuration and inspects the blueprint.
Resolve(j) ==
  /\ job[j].pc = "idle"
  /\ Step(j, [IdleJob EXCEPT !.pc = "list", !.prompt = uses /\ j \in PromptJobs])
  /\ UNCHANGED valid /\ Untouched

\* The next file of a scan, or the end of it.
NextFile(s) ==
  LET left == {i \in (s.pos + 1)..Len(FileOrder) : FileOrder[i] \in s.listed}
  IN IF left = {} THEN 0 ELSE CHOOSE i \in left : \A k \in left : i <= k

Advance(j, s) ==
  Step(j, [job[j] EXCEPT !.scan = [s EXCEPT !.pos = NextFile(s)],
                         !.pc = IF NextFile(s) = 0 THEN "compare" ELSE "stat"])

\* os.scandir: a directory that is away is a missing blueprint. (A directory
\* below it is listed on the way to its files and has to be there as they do.)
List(j) ==
  /\ job[j].pc = "list"
  /\ IF tree = NoTree THEN Fail(j)
     ELSE Advance(j, [Scan EXCEPT !.listed = {f \in Files : Present(f)}])
  /\ UNCHANGED valid /\ Untouched

Current(j) == FileOrder[job[j].scan.pos]

\* entry.stat: the inventory's size, time and inode.
Stat(j) ==
  /\ job[j].pc = "stat"
  /\ IF ~Present(Current(j)) THEN Fail(j)
     ELSE Step(j, [job[j] EXCEPT !.pc = "read", !.scan.inventory[Current(j)] = tree.gen])
  /\ UNCHANGED valid /\ Untouched

\* read_bytes of the same path, which may by now be in another copy.
Read(j) ==
  LET f == Current(j) s == job[j].scan IN
  /\ job[j].pc = "read"
  /\ IF ~Present(f) THEN Fail(j)
     ELSE Advance(j, [s EXCEPT !.files[f] = tree.files[f]])
  /\ UNCHANGED valid /\ Untouched

\* A snapshot must hold the instructions (inspect_blueprint). The first one of
\* a resolution is what the agent is compiled from, the second is where the
\* routine's prompt is looked up.
Captured(j) ==
  LET s == job[j].scan.files IN
  CASE s[Instructions] = NoFile -> Fail(j)
    [] s[Instructions] # NoFile /\ job[j].source = NoFiles ->
         Step(j, [IdleJob EXCEPT !.pc = "validate", !.prompt = job[j].prompt, !.source = s])
    [] OTHER ->
         IF ~HasPrompt(s) THEN Fail(j)
         ELSE Step(j, [IdleJob EXCEPT !.pc = "ready", !.source = job[j].source, !.later = s])

CompareOnce(j) ==
  /\ job[j].pc = "compare" /\ Captured(j)
  /\ UNCHANGED valid /\ Untouched

\* Two scans with one inventory are a snapshot; otherwise the pair is repeated.
Compare(j) ==
  /\ job[j].pc = "compare"
  /\ IF job[j].pass = 1
       THEN Step(j, [job[j] EXCEPT !.pc = "list", !.pass = 2, !.scan = Scan,
                                   !.before = job[j].scan.inventory])
     ELSE IF job[j].before = job[j].scan.inventory THEN Captured(j)
     ELSE IF job[j].attempt < Attempts
       THEN Step(j, [job[j] EXCEPT !.pc = "list", !.pass = 1, !.attempt = @ + 1,
                                   !.scan = Scan, !.before = Scan.inventory])
     ELSE Fail(j)
  /\ UNCHANGED valid /\ Untouched

-----------------------------------------------------------------------------
(* Compilation: ensure_compiled *)

\* Where a compiled job goes on: to its prompt, or straight to its submission.
Compiled(j) ==
  Step(j, IF job[j].prompt
            THEN [job[j] EXCEPT !.pc = "list"] ELSE [job[j] EXCEPT !.pc = "ready"])

\* A valid entry is used as it is, without the lock. One that another job puts
\* into quarantine meanwhile may lose its manifest between two reads of it.
Validate(j) ==
  LET d == job[j].source IN
  /\ job[j].pc = "validate"
  /\ \/ IF Matches(d) THEN Compiled(j) ELSE Step(j, [job[j] EXCEPT !.pc = "lock"])
     \/ /\ d \in damaged /\ \E k \in Jobs : job[k].pc = "lock" /\ job[k].source = d
        /\ Fail(j)
  /\ UNCHANGED valid /\ Untouched

\* Validated again under the lock; what does not match is put into quarantine.
Recheck(j) ==
  LET d == job[j].source IN
  /\ job[j].pc = "lock" /\ Building(d) = {}
  /\ IF Matches(d)
       THEN Compiled(j) /\ UNCHANGED damaged
       ELSE Step(j, [job[j] EXCEPT !.pc = "build"]) /\ damaged' = damaged \ {d}
  /\ UNCHANGED <<editVars, valid, uses, trouble>>

\* The projection is written beside the entry, validated, and renamed in.
Build(j) ==
  /\ job[j].pc = "build"
  /\ valid' = valid \cup {job[j].source}
  /\ Step(j, [job[j] EXCEPT !.pc = "check"])
  /\ Untouched

\* Or it cannot be written or does not match, and is removed.
BuildFails(j) ==
  /\ job[j].pc = "build" /\ Trouble
  /\ Fail(j)
  /\ UNCHANGED <<editVars, valid, damaged, uses>>

\* The entry is validated once more after the lock was released.
Check(j) ==
  /\ job[j].pc = "check"
  /\ IF Matches(job[j].source) THEN Compiled(j) ELSE Fail(j)
  /\ UNCHANGED valid /\ Untouched

\* Something outside changes the files of an entry: unless LateDamage, not one
\* that a job has validated and not yet copied.
Damage(d) ==
  /\ d \in valid /\ Trouble
  /\ LateDamage \/ \A j \in Jobs : job[j].source = d =>
                     job[j].pc \notin Launching \cup Captures
  /\ valid' = valid \ {d} /\ damaged' = damaged \cup {d}
  /\ UNCHANGED <<editVars, job, uses>>

-----------------------------------------------------------------------------
(* Launch: create_launch_view *)

\* The worker copies the entry's own directory first, which must be there.
CopyRoot(j) ==
  /\ job[j].pc = "ready"
  /\ IF job[j].source \in valid \cup damaged
       THEN Step(j, [job[j] EXCEPT !.pc = IF Matches(job[j].source) THEN "view" ELSE "rest"])
       ELSE Fail(j)
  /\ UNCHANGED valid /\ Untouched

\* Then the directories below it, of which os.walk passes over those that are
\* gone by now.
CopyBelow(j) ==
  /\ job[j].pc \in {"view", "rest"}
  /\ Step(j, [job[j] EXCEPT !.pc = IF job[j].pc = "view" /\ Matches(job[j].source)
                                     THEN "launched" ELSE "partial"])
  /\ UNCHANGED valid /\ Untouched

\* The process that resolves or launches a job dies, and its lock goes.
JobDies(j) ==
  /\ job[j].pc \in Resolving \cup Launching
  /\ Trouble
  /\ Fail(j)
  /\ UNCHANGED <<editVars, valid, damaged, uses>>

-----------------------------------------------------------------------------
EditStep(e) ==
  \/ LockAndStage(e) \/ MoveAway(e) \/ MoveIn(e) \/ RenameFails(e) \/ Restore(e) \/ CleanUp(e)

JobStep(j) ==
  \/ List(j) \/ Stat(j) \/ Read(j) \/ Compare(j)
  \/ Validate(j) \/ Recheck(j) \/ Build(j) \/ BuildFails(j) \/ Check(j)
  \/ CopyRoot(j) \/ CopyBelow(j)

Next ==
  \/ \E e \in Editors : Post(e) \/ EditStep(e) \/ EditorDies(e)
  \/ \E j \in Jobs : Resolve(j) \/ JobStep(j) \/ JobDies(j)
  \/ SaveRoutine
  \/ \E d \in valid : Damage(d)

Spec == Init /\ [][Next]_vars

\* Handlers and workers go on; nobody has to open a page or submit a job.
Fairness ==
  /\ \A e \in Editors : WF_vars(EditStep(e))
  /\ \A j \in Jobs : WF_vars(JobStep(j))

FairSpec == Spec /\ Fairness

-----------------------------------------------------------------------------
(* Properties *)

\* _publish_stage never destroys the blueprint: what was last published is in
\* its place or in a backup, also when the process dies between the two
\* renames or one of them fails.
NothingLost ==
  \/ tree # NoTree /\ tree.files = latest
  \/ tree = NoTree /\ \E e \in Editors : backup[e] # NoTree /\ backup[e].files = latest

\* What a job is compiled from was the content of the blueprint at some moment,
\* and what its prompt is taken from was so then or later, although capture_tree
\* reads the files one by one without a lock while directories are swapped.
SnapshotsWereLive ==
  \A j \in Jobs : job[j].source # NoFiles =>
    \E i \in 1..Len(versions) :
      /\ versions[i] = job[j].source
      /\ job[j].later # NoFiles => \E k \in i..Len(versions) : versions[k] = job[j].later

\* No edit undoes another one it has not seen: what a publication replaces is what
\* the page of its edit showed, and it differs from that in the edited file only.
NoLostEdit ==
  [][latest' # latest =>
       \E e \in Editors : /\ edit[e].pc = "away" /\ edit[e].seen = latest
                          /\ \A f \in Files \ {EditFile[e]} : latest'[f] = latest[f]]_vars

\* A job is launched on the complete projection of the source it was resolved
\* with: no other compilation, quarantine or edit takes its files away while
\* they are copied without a lock.
LaunchesWhatWasCompiled == \A j \in Jobs : job[j].pc # "partial"

\* Every resolution and every edit that took its turn comes to an end.
WorkEnds ==
  /\ \A j \in Jobs : job[j].pc \in Resolving \cup Launching ~> job[j].pc \in Over
  /\ \A e \in Editors : edit[e].pc = "posted" ~> edit[e].pc \in {"saved", "refused", "dead"}

\* From the library to the launched files, a job sees nothing that was never published.
JobsGetWhatWasPublished == TypeOK /\ SnapshotsWereLive /\ LaunchesWhatWasCompiled
=============================================================================
