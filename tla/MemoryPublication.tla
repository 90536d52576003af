------------------------- MODULE MemoryPublication -------------------------
(***************************************************************************)
(* One semantic memory and everything that writes it:                      *)
(*  - workers (execution.py): lock, stage, run the agent, publish;         *)
(*  - direct saves of the administration pages (memory/store.py,           *)
(*    try_update_memory): preview without the lock, then save if the       *)
(*    revision is still the one shown;                                     *)
(*  - the sweep at the head of a drain (jobs/reconciliation.py): recover   *)
(*    every journal (memory/recovery.py), then fail the records whose      *)
(*    worker is dead.  Drains exclude one another, so there is one sweep.  *)
(*                                                                         *)
(* Every durable write of the journalled transaction                       *)
(* (memory/publication.py) is a step of its own, a directory write is two  *)
(* (begun, finished), and a process may die between any two steps.  Its    *)
(* lock is a file lock: the operating system frees it with the process.    *)
(*                                                                         *)
(* A revision is a digest of the files, so a content stands for its own    *)
(* revision.  Cancellation and pid reuse are in module JobQueue; here      *)
(* worker_alive is exact.                                                  *)
(***************************************************************************)
EXTENDS Integers, FiniteSets

CONSTANTS
  Jobs,          \* jobs resolved to this memory
  Saves,         \* direct saves of this memory
  Contents,      \* file sets a writer may produce
  Blank,         \* memory.md, empty: what _ensure_memory_locked seeds
  Empty,         \* the directory exists and holds no file
  Torn,          \* some files of two versions
  None,          \* absent directory, absent journal
  Free, Sweeper, \* values of the memory lock besides the writers
  TornWrites,    \* a death or an exception may leave a directory half written
  LateDeaths,    \* a publisher may die during a sweep that missed its journal
  FinalFaults,   \* the rollback and the settling of the record may raise too
  MaxCrashes,    \* bound on process deaths
  MaxFaults      \* bound on exceptions (a write that fails)

ASSUME MemoryConstants ==
  /\ Blank \in Contents
  /\ {Empty, Torn, None} \cap Contents = {}
  /\ Empty # Torn /\ Empty # None /\ Torn # None
  /\ Jobs \cap Saves = {}
  /\ Free # Sweeper /\ {Free, Sweeper} \cap (Jobs \cup Saves) = {}
  /\ {TornWrites, LateDeaths, FinalFaults} \subseteq BOOLEAN
  /\ MaxCrashes \in Nat /\ MaxFaults \in Nat

Writers == Jobs \cup Saves
Values  == Contents \cup {Empty, Torn}

VARIABLES
  canonical,  \* the files of the memory directory
  lock,       \* holder of the memory's file lock
  pc,         \* pc[o]: the next step of writer o
  base,       \* base[o]: the revision o works from (staged, or previewed)
  stage,      \* stage[o]: content of the staging directory
  journal,    \* journal[o]: None or [phase, old, new]
  backup,     \* backup[o]: content of the publication backup
  status,     \* status[j] of the job record
  sweep,      \* the sweep's local state
  installed,  \* history: writers whose content was installed, not rolled back
  crashes, faults

vars == <<canonical, lock, pc, base, stage, journal, backup, status, sweep,
          installed, crashes, faults>>

-----------------------------------------------------------------------------
(* Where a writer is: each value names the step it takes next.             *)

\* Inside apply_publication / _save_direct_locked: an exception rolls back.
ApplyPcs == {"journal", "backup", "backing", "backed_up", "replace",
             "replacing", "publish"}
RollbackPcs == {"rollback", "rolling", "mark_failed"}
FinalPcs == {"finalize", "clean_journal", "clean_backup", "clean_stage"}
\* The memory lock is held.
LockedPcs == {"ensure", "stage", "start", "agent"} \cup ApplyPcs \cup RollbackPcs \cup FinalPcs
\* A directory write is half done.
MidWritePcs == {"backing", "replacing", "rolling"}
Pcs == LockedPcs \cup {"preview", "lock", "terminalize", "done", "dead"}

IdleSweep == [at |-> "idle", journals |-> {}, records |-> {}, blocked |-> {},
              op |-> None]

Phases == {"prepared", "backed_up", "published"}

\* No journal is told from any journal.
ASSUME NoJournal == None \notin [phase : Phases, old : Values, new : Contents]

TypeOK ==
  /\ canonical \in Values
  /\ lock \in Writers \cup {Free, Sweeper}
  /\ pc \in [Writers -> Pcs]
  /\ base \in [Writers -> Values \cup {None}]
  /\ stage \in [Writers -> Values \cup {None}]
  /\ journal \in [Writers -> [phase : Phases, old : Values, new : Contents] \cup {None}]
  /\ backup \in [Writers -> Values \cup {None}]
  /\ status \in [Jobs -> {"waiting_for_memory", "running", "complete", "failed"}]
  /\ sweep \in [at : {"idle", "recover", "clean_journal", "clean_backup",
                      "clean_stage", "reconcile"},
                journals : SUBSET Writers, records : SUBSET Jobs,
                blocked : SUBSET Writers, op : Writers \cup {None}]
  /\ installed \subseteq Writers
  /\ crashes \in 0..MaxCrashes
  /\ faults \in 0..MaxFaults

\* A fresh memory, or one with a history.
Init ==
  /\ canonical \in Contents \cup {Empty}
  /\ lock = Free
  /\ pc = [o \in Writers |-> IF o \in Jobs THEN "lock" ELSE "preview"]
  /\ base = [o \in Writers |-> None]
  /\ stage = [o \in Writers |-> None]
  /\ journal = [o \in Writers |-> None]
  /\ backup = [o \in Writers |-> None]
  /\ status = [j \in Jobs |-> "waiting_for_memory"]
  /\ sweep = IdleSweep
  /\ installed = {}
  /\ crashes = 0
  /\ faults = 0

-----------------------------------------------------------------------------
(* A worker, from its wait for the lock to the agent's result.             *)

Goto(o, at) == pc' = [pc EXCEPT ![o] = at]

\* _ensure_memory_locked: a directory without files gets an empty memory.md.
Ensured == IF canonical = Empty THEN Blank ELSE canonical

\* with _memory_lock(resolved, wait=True)
AcquireMemory(j) ==
  /\ j \in Jobs /\ pc[j] = "lock"
  /\ lock = Free
  /\ lock' = j
  /\ Goto(j, "ensure")
  /\ UNCHANGED <<canonical, base, stage, journal, backup, status, sweep,
                 installed, crashes, faults>>

\* _ensure_memory_locked; nothing here looks for a journal that an earlier
\* writer left behind.
EnsureMemory(j) ==
  /\ pc[j] = "ensure"
  /\ canonical' = Ensured
  /\ Goto(j, "stage")
  /\ UNCHANGED <<lock, base, stage, journal, backup, status, sweep, installed,
                 crashes, faults>>

\* _stage_memory_locked: the copy the agent works from, and its revision.
StageMemory(j) ==
  /\ pc[j] = "stage"
  /\ base' = [base EXCEPT ![j] = canonical]
  /\ stage' = [stage EXCEPT ![j] = canonical]
  /\ Goto(j, "start")
  /\ UNCHANGED <<canonical, lock, journal, backup, status, sweep, installed,
                 crashes, faults>>

StartRunning(j) ==
  /\ pc[j] = "start"
  /\ status[j] = "waiting_for_memory"
  /\ status' = [status EXCEPT ![j] = "running"]
  /\ Goto(j, "agent")
  /\ UNCHANGED <<canonical, lock, base, stage, journal, backup, sweep,
                 installed, crashes, faults>>

\* The integration exits with 0; copy_launch_memory_to_stage brings what it
\* left in its working copy into the stage.
AgentSucceeds(j) ==
  /\ pc[j] = "agent"
  /\ \E c \in Contents : stage' = [stage EXCEPT ![j] = c]
  /\ Goto(j, "journal")
  /\ UNCHANGED <<canonical, lock, base, journal, backup, status, sweep,
                 installed, crashes, faults>>

\* The integration fails, or leaves a working copy that cannot be published:
\* _terminalize_failure under the lock, then the lock is released.
AgentFails(j) ==
  /\ pc[j] = "agent"
  /\ status' = [status EXCEPT ![j] = "failed"]
  /\ lock' = Free
  /\ Goto(j, "done")
  /\ UNCHANGED <<canonical, base, stage, journal, backup, sweep, installed,
                 crashes, faults>>

-----------------------------------------------------------------------------
(* A direct save: an administrator edits what the page showed.             *)

\* preview_memory takes no lock: it reads whatever is in the directory.
Preview(o) ==
  /\ o \in Saves /\ pc[o] = "preview"
  /\ base' = [base EXCEPT ![o] = Ensured]
  /\ Goto(o, "lock")
  /\ UNCHANGED <<canonical, lock, stage, journal, backup, status, sweep,
                 installed, crashes, faults>>

\* try_update_memory: the lock is tried, not waited for.
SaveRefused(o) ==
  /\ o \in Saves /\ pc[o] = "lock"
  /\ lock # Free
  /\ Goto(o, "done")
  /\ UNCHANGED <<canonical, lock, base, stage, journal, backup, status, sweep,
                 installed, crashes, faults>>

\* MemoryConflictError: the memory has changed since the page was shown.
SaveConflicts(o) ==
  /\ o \in Saves /\ pc[o] = "lock"
  /\ lock = Free
  /\ Ensured # base[o]
  /\ canonical' = Ensured
  /\ Goto(o, "done")
  /\ UNCHANGED <<lock, base, stage, journal, backup, status, sweep, installed,
                 crashes, faults>>

\* Mutant: the save does not compare revisions.
SaveBeginsUnchecked(o) ==
  /\ o \in Saves /\ pc[o] = "lock"
  /\ lock = Free
  /\ canonical' = Ensured
  /\ base' = [base EXCEPT ![o] = Ensured]
  /\ lock' = o
  /\ \E c \in Contents : stage' = [stage EXCEPT ![o] = c]
  /\ Goto(o, "journal")
  /\ UNCHANGED <<journal, backup, status, sweep, installed, crashes, faults>>

\* _prepare_direct_transaction stages the edited files.
SaveBegins(o) ==
  /\ o \in Saves /\ pc[o] = "lock"
  /\ lock = Free
  /\ Ensured = base[o]
  /\ canonical' = Ensured
  /\ lock' = o
  /\ \E c \in Contents : stage' = [stage EXCEPT ![o] = c]
  /\ Goto(o, "journal")
  /\ UNCHANGED <<base, journal, backup, status, sweep, installed, crashes, faults>>

-----------------------------------------------------------------------------
(* _run_transaction_locked, for both kinds of writer.                      *)

NoChange(o) == base[o] = stage[o]

WriteJournal(o, phase) ==
  journal' = [journal EXCEPT ![o] = [phase |-> phase, old |-> base[o], new |-> stage[o]]]

\* prepare_publication and the transaction compare the memory with the base
\* revision.  A difference raises: a job fails with its lock released, a save
\* goes through the rollback of _save_direct_locked.
JournalPrepared(o) ==
  /\ pc[o] = "journal"
  /\ IF canonical = base[o]
       THEN /\ WriteJournal(o, "prepared")
            /\ Goto(o, IF NoChange(o) THEN "publish" ELSE "backup")
            /\ UNCHANGED lock
       ELSE /\ Goto(o, IF o \in Jobs THEN "terminalize" ELSE "rollback")
            /\ lock' = IF o \in Jobs THEN Free ELSE lock
            /\ UNCHANGED journal
  /\ UNCHANGED <<canonical, base, stage, backup, status, sweep, installed,
                 crashes, faults>>

BackupBegins(o) ==
  /\ pc[o] = "backup"
  /\ backup' = [backup EXCEPT ![o] = Torn]
  /\ Goto(o, "backing")
  /\ UNCHANGED <<canonical, lock, base, stage, journal, status, sweep, installed,
                 crashes, faults>>

BackupEnds(o) ==
  /\ pc[o] = "backing"
  /\ backup' = [backup EXCEPT ![o] = base[o]]
  /\ Goto(o, "backed_up")
  /\ UNCHANGED <<canonical, lock, base, stage, journal, status, sweep, installed,
                 crashes, faults>>

JournalBackedUp(o) ==
  /\ pc[o] = "backed_up"
  /\ WriteJournal(o, "backed_up")
  /\ Goto(o, "replace")
  /\ UNCHANGED <<canonical, lock, base, stage, backup, status, sweep, installed,
                 crashes, faults>>

\* _replace_canonical_files evacuates the old files, then moves the new ones
\* in: in between the directory is empty or holds part of either version.
ReplaceBegins(o) ==
  /\ pc[o] = "replace"
  /\ canonical' \in {Empty, Torn}
  /\ Goto(o, "replacing")
  /\ UNCHANGED <<lock, base, stage, journal, backup, status, sweep, installed,
                 crashes, faults>>

ReplaceEnds(o) ==
  /\ pc[o] = "replacing"
  /\ canonical' = stage[o]
  /\ installed' = installed \cup {o}
  /\ Goto(o, "publish")
  /\ UNCHANGED <<lock, base, stage, journal, backup, status, sweep, crashes, faults>>

JournalPublished(o) ==
  /\ pc[o] = "publish"
  /\ WriteJournal(o, "published")
  /\ Goto(o, IF o \in Jobs THEN "finalize" ELSE "clean_journal")
  /\ UNCHANGED <<canonical, lock, base, stage, backup, status, sweep, installed,
                 crashes, faults>>

\* finalize_publication: _mark_complete; the receipt goes into the record.
MarkComplete(j) ==
  /\ pc[j] = "finalize"
  /\ status[j] = "running"
  /\ status' = [status EXCEPT ![j] = "complete"]
  /\ Goto(j, "clean_journal")
  /\ UNCHANGED <<canonical, lock, base, stage, journal, backup, sweep, installed,
                 crashes, faults>>

\* Mutant: the stage goes before the journal.
CleanStageFirst(o) ==
  /\ pc[o] = "clean_journal"
  /\ stage' = [stage EXCEPT ![o] = None]
  /\ Goto(o, "clean_backup")
  /\ UNCHANGED <<canonical, lock, base, journal, backup, status, sweep, installed,
                 crashes, faults>>

\* _cleanup_paths: the journal first, then the backup, then the stage.
CleanJournal(o) ==
  /\ pc[o] = "clean_journal"
  /\ journal' = [journal EXCEPT ![o] = None]
  /\ Goto(o, "clean_backup")
  /\ UNCHANGED <<canonical, lock, base, stage, backup, status, sweep, installed,
                 crashes, faults>>

CleanBackup(o) ==
  /\ pc[o] = "clean_backup"
  /\ backup' = [backup EXCEPT ![o] = None]
  /\ Goto(o, "clean_stage")
  /\ UNCHANGED <<canonical, lock, base, stage, journal, status, sweep, installed,
                 crashes, faults>>

CleanStage(o) ==
  /\ pc[o] = "clean_stage"
  /\ stage' = [stage EXCEPT ![o] = None]
  /\ lock' = Free
  /\ Goto(o, "done")
  /\ UNCHANGED <<canonical, base, journal, backup, status, sweep, installed,
                 crashes, faults>>

-----------------------------------------------------------------------------
(* Exceptions.                                                             *)

\* A write of the transaction fails: a half-done replacement puts the old
\* files back itself, then _rollback_failed_transaction takes over.
TransactionFails(o) ==
  /\ pc[o] \in ApplyPcs
  /\ TornWrites \/ pc[o] # "backing"
  /\ faults < MaxFaults
  /\ canonical' = IF pc[o] = "replacing" THEN base[o] ELSE canonical
  /\ Goto(o, "rollback")
  /\ faults' = faults + 1
  /\ UNCHANGED <<lock, base, stage, journal, backup, status, sweep, installed, crashes>>

\* _rollback_failed_transaction writes the old files again.
RollbackBegins(o) ==
  /\ pc[o] = "rollback"
  /\ canonical' \in {Empty, Torn}
  /\ Goto(o, "rolling")
  /\ UNCHANGED <<lock, base, stage, journal, backup, status, sweep, installed,
                 crashes, faults>>

RollbackEnds(o) ==
  /\ pc[o] = "rolling"
  /\ canonical' = base[o]
  /\ installed' = installed \ {o}
  /\ Goto(o, IF o \in Jobs THEN "mark_failed" ELSE "clean_journal")
  /\ UNCHANGED <<lock, base, stage, journal, backup, status, sweep, crashes, faults>>

MarkFailed(j) ==
  /\ pc[j] = "mark_failed"
  /\ status' = [status EXCEPT ![j] = "failed"]
  /\ Goto(j, "clean_journal")
  /\ UNCHANGED <<canonical, lock, base, stage, journal, backup, sweep, installed,
                 crashes, faults>>

\* The rollback, the completion of the record or the cleanup fails too: the
\* exception leaves the lock's block with the journal still in place.
FinalStepFails(o) ==
  /\ pc[o] \in {"rollback", "mark_failed"} \cup FinalPcs
  /\ FinalFaults \/ pc[o] \in {"clean_journal", "clean_backup", "clean_stage"}
  /\ faults < MaxFaults
  /\ faults' = faults + 1
  /\ lock' = Free
  /\ Goto(o, IF o \in Jobs THEN "terminalize" ELSE "done")
  /\ UNCHANGED <<canonical, base, stage, journal, backup, status, sweep, installed, crashes>>

\* execute_job's outermost handler, outside the memory lock.
Terminalize(j) ==
  /\ pc[j] = "terminalize"
  /\ status' = [status EXCEPT ![j] = IF @ \in {"waiting_for_memory", "running"}
                                       THEN "failed" ELSE @]
  /\ Goto(j, "done")
  /\ UNCHANGED <<canonical, lock, base, stage, journal, backup, sweep, installed,
                 crashes, faults>>

-----------------------------------------------------------------------------
(* Deaths.                                                                 *)

\* The sweep in progress will look at o's record but not at its journal.
MissedBySweep(o) ==
  /\ sweep.at # "idle"
  /\ journal[o] # None
  /\ o \notin sweep.journals

WriterDies(o) ==
  /\ crashes < MaxCrashes
  /\ pc[o] \notin {"preview", "done", "dead"}
  /\ TornWrites \/ pc[o] \notin MidWritePcs
  /\ LateDeaths \/ ~MissedBySweep(o)
  /\ crashes' = crashes + 1
  /\ Goto(o, "dead")
  /\ lock' = IF lock = o THEN Free ELSE lock
  /\ UNCHANGED <<canonical, base, stage, journal, backup, status, sweep,
                 installed, faults>>

SweepDies ==
  /\ crashes < MaxCrashes
  /\ sweep.at # "idle"
  /\ crashes' = crashes + 1
  /\ sweep' = IdleSweep
  /\ lock' = IF lock = Sweeper THEN Free ELSE lock
  /\ UNCHANGED <<canonical, pc, base, stage, journal, backup, status, installed, faults>>

-----------------------------------------------------------------------------
(* reconcile_jobs: first every journal, then every record.                 *)

SweepBegins ==
  /\ sweep.at = "idle"
  /\ sweep' = [IdleSweep EXCEPT !.at = "recover",
                                !.journals = {o \in Writers : journal[o] # None},
                                !.records = Jobs]
  /\ UNCHANGED <<canonical, lock, pc, base, stage, journal, backup, status,
                 installed, crashes, faults>>

\* Mutant: the phase alone decides.
RecoveredByPhase(o) ==
  IF journal[o].phase = "published" THEN "complete" ELSE "failed"

\* Mutant: a transaction with its backup is taken to have gone through.
RecoveredOptimistic(o) ==
  IF journal[o].phase = "prepared" THEN "failed" ELSE "complete"

\* _recover_locked: what the journal, the stage, the backup and the memory
\* together say of the transaction.
Recovered(o) ==
  LET entry == journal[o]
      changed == entry.old # entry.new
  IN IF \/ stage[o] # entry.new
        \/ backup[o] # None /\ backup[o] # entry.old
        \/ changed /\ entry.phase # "prepared" /\ backup[o] = None
        \/ ~changed /\ backup[o] # None
       THEN "manual"
     ELSE IF \/ entry.phase # "prepared" /\ canonical = entry.new
             \/ entry.phase = "prepared" /\ ~changed /\ canonical = entry.old
       THEN "complete"
     ELSE IF canonical = entry.old THEN "failed" ELSE "manual"

\* Mutant: a record is marked once only.
MarkableOnce(o, verdict) == o \in Jobs => status[o] = "running"

\* _mark_complete and _mark_failed accept a record that already says so and
\* raise on any other; a direct save has no record.
Markable(o, verdict) == o \in Jobs => status[o] \in {"running", verdict}

\* The memory lock is waited for and the journal read again under it; a
\* journal that its writer has removed meanwhile needs nothing.
RecoverNothing(o) ==
  /\ sweep.at = "recover" /\ o \in sweep.journals
  /\ lock = Free
  /\ journal[o] = None
  /\ sweep' = [sweep EXCEPT !.journals = @ \ {o}]
  /\ UNCHANGED <<canonical, lock, pc, base, stage, journal, backup, status,
                 installed, crashes, faults>>

RecoverMarks(o) ==
  /\ sweep.at = "recover" /\ o \in sweep.journals
  /\ lock = Free
  /\ journal[o] # None
  /\ Recovered(o) # "manual"
  /\ Markable(o, Recovered(o))
  /\ status' = IF o \in Jobs THEN [status EXCEPT ![o] = Recovered(o)] ELSE status
  /\ lock' = Sweeper
  /\ sweep' = [sweep EXCEPT !.at = "clean_journal", !.op = o]
  /\ UNCHANGED <<canonical, pc, base, stage, journal, backup, installed, crashes, faults>>

\* ValueError or InvalidJobTransition: the journal stays, the job is blocked.
RecoverBlocked(o) ==
  /\ sweep.at = "recover" /\ o \in sweep.journals
  /\ lock = Free
  /\ journal[o] # None
  /\ Recovered(o) = "manual" \/ ~Markable(o, Recovered(o))
  /\ sweep' = [sweep EXCEPT !.journals = @ \ {o}, !.blocked = @ \cup {o}]
  /\ UNCHANGED <<canonical, lock, pc, base, stage, journal, backup, status,
                 installed, crashes, faults>>

\* _cleanup_operation, in the order of _cleanup_paths.
RecoverCleansJournal ==
  /\ sweep.at = "clean_journal"
  /\ journal' = [journal EXCEPT ![sweep.op] = None]
  /\ sweep' = [sweep EXCEPT !.at = "clean_backup"]
  /\ UNCHANGED <<canonical, lock, pc, base, stage, backup, status, installed,
                 crashes, faults>>

RecoverCleansBackup ==
  /\ sweep.at = "clean_backup"
  /\ backup' = [backup EXCEPT ![sweep.op] = None]
  /\ sweep' = [sweep EXCEPT !.at = "clean_stage"]
  /\ UNCHANGED <<canonical, lock, pc, base, stage, journal, status, installed,
                 crashes, faults>>

RecoverCleansStage ==
  /\ sweep.at = "clean_stage"
  /\ stage' = [stage EXCEPT ![sweep.op] = None]
  /\ lock' = Free
  /\ sweep' = [sweep EXCEPT !.at = "recover", !.op = None, !.journals = @ \ {sweep.op}]
  /\ UNCHANGED <<canonical, pc, base, journal, backup, status, installed,
                 crashes, faults>>

RecoveryDone ==
  /\ sweep.at = "recover" /\ sweep.journals = {}
  /\ sweep' = [sweep EXCEPT !.at = "reconcile"]
  /\ UNCHANGED <<canonical, lock, pc, base, stage, journal, backup, status,
                 installed, crashes, faults>>

\* Mutant: only running records are probed.
ConfirmedDeadRunning(j) ==
  /\ status[j] = "running"
  /\ pc[j] = "dead"
  /\ j \notin sweep.blocked

\* worker_alive(record.worker_pid) is False, for a record still active whose
\* job is not blocked.
ConfirmedDead(j) ==
  /\ status[j] \in {"waiting_for_memory", "running"}
  /\ pc[j] = "dead"
  /\ j \notin sweep.blocked

ReconcileRecord(j) ==
  /\ sweep.at = "reconcile" /\ j \in sweep.records
  /\ status' = IF ConfirmedDead(j) THEN [status EXCEPT ![j] = "failed"] ELSE status
  /\ sweep' = [sweep EXCEPT !.records = @ \ {j}]
  /\ UNCHANGED <<canonical, lock, pc, base, stage, journal, backup, installed,
                 crashes, faults>>

SweepEnds ==
  /\ sweep.at = "reconcile" /\ sweep.records = {}
  /\ sweep' = IdleSweep
  /\ UNCHANGED <<canonical, lock, pc, base, stage, journal, backup, status,
                 installed, crashes, faults>>

-----------------------------------------------------------------------------
JobStep(j) ==
  \/ AcquireMemory(j) \/ EnsureMemory(j) \/ StageMemory(j) \/ StartRunning(j)
  \/ AgentSucceeds(j) \/ AgentFails(j)
  \/ MarkComplete(j) \/ MarkFailed(j) \/ Terminalize(j)

SaveStep(o) ==
  Preview(o) \/ SaveRefused(o) \/ SaveConflicts(o) \/ SaveBegins(o)

TransactionStep(o) ==
  \/ JournalPrepared(o) \/ BackupBegins(o) \/ BackupEnds(o) \/ JournalBackedUp(o)
  \/ ReplaceBegins(o) \/ ReplaceEnds(o) \/ JournalPublished(o)
  \/ CleanJournal(o) \/ CleanBackup(o) \/ CleanStage(o)
  \/ RollbackBegins(o) \/ RollbackEnds(o)

WriterStep(o) ==
  \/ o \in Jobs /\ JobStep(o)
  \/ o \in Saves /\ SaveStep(o)
  \/ TransactionStep(o)

SweepStep ==
  \/ SweepBegins \/ RecoveryDone \/ SweepEnds
  \/ RecoverCleansJournal \/ RecoverCleansBackup \/ RecoverCleansStage
  \/ \E o \in Writers : RecoverNothing(o) \/ RecoverMarks(o) \/ RecoverBlocked(o)
  \/ \E j \in Jobs : ReconcileRecord(j)

Failures ==
  \/ \E o \in Writers : TransactionFails(o) \/ FinalStepFails(o) \/ WriterDies(o)
  \/ SweepDies

Next == (\E o \in Writers : WriterStep(o)) \/ SweepStep \/ Failures

Spec == Init /\ [][Next]_vars

\* A live process runs on, the agent has a timeout, and a drain starts with
\* every dispatch cycle.
MemoryFairness ==
  /\ \A o \in Writers : WF_vars(WriterStep(o))
  /\ WF_vars(SweepStep)

FairSpec == Spec /\ MemoryFairness

-----------------------------------------------------------------------------
(* Safety.                                                                 *)

\* The sweep cleans up a journal it has resolved, with the memory locked.
SweepCleans == sweep.at \in {"clean_journal", "clean_backup", "clean_stage"}

\* Nobody has replaced the memory except, at most, o.
OnlyWriter(o) == installed \subseteq {o}

\* _recover_locked can always decide: as long as nobody else has replaced
\* the memory and no write has failed, a journal left by a process that died,
\* or that recovery has itself left half cleaned, never needs manual
\* intervention.
JournalsResolvable ==
  lock = Free /\ faults = 0 =>
    \A o \in Writers : journal[o] # None /\ OnlyWriter(o) =>
      Recovered(o) # "manual" /\ Markable(o, Recovered(o))

\* The record and the memory agree on a failed job (execution.py,
\* _rollback_failed_transaction, recovery, the dead-worker sweep): whatever
\* failed it, its content is not what the memory holds.  (Once another writer
\* has replaced the memory as well, j's content may be gone again.)
NoFailedPublisher ==
  lock = Free => \A j \in Jobs : status[j] = "failed" => installed # {j}

\* A record becomes complete, by its worker or by recovery, only while the
\* memory holds exactly the content of the job (the receipt's new_revision).
CompletionHoldsContent ==
  [][\A j \in Jobs : status[j] # "complete" /\ status'[j] = "complete" =>
       canonical = stage[j]]_vars

\* While a transaction runs the memory is still its old content.
CriticalPcs == ApplyPcs \cup RollbackPcs \cup FinalPcs

CommittedMemory ==
  IF \E o \in Writers : pc[o] \in CriticalPcs
    THEN base[CHOOSE o \in Writers : pc[o] \in CriticalPcs]
    ELSE canonical

Committed == {o \in installed : pc[o] \notin CriticalPcs}

Verdicts ==
  [j \in Jobs |-> IF status[j] \in {"complete", "failed"} THEN status[j] ELSE "none"]

Atomic == INSTANCE AtomicMemory WITH
  mem <- CommittedMemory, seen <- base, Unseen <- None,
  wrote <- Committed, verdict <- Verdicts

\* The memory behaves as one atomic value with optimistic writers: the
\* files a writer replaces are those it started from, no reader outside the
\* lock can make it publish over somebody else's update, and neither a death
\* nor a rollback leaves anything but the old or the new content.
ImplementsAtomicMemory == Atomic!ASpec

-----------------------------------------------------------------------------
(* Liveness, under FairSpec.                                               *)

\* The record of a worker that died ends: recovery or the sweep settles it.
DeadJobsEnd ==
  \A j \in Jobs : pc[j] = "dead" ~> status[j] \in {"complete", "failed"}

\* A journal whose writer is gone is eventually cleaned up.
OrphanJournalsCleaned ==
  \A o \in Writers : pc[o] \in {"dead", "done"} ~> journal[o] = None
=============================================================================
