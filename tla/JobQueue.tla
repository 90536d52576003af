------------------------------ MODULE JobQueue ------------------------------
(***************************************************************************)
(* The global job queue and its worker pool: flowgency/jobs/queue.py       *)
(* (drain), store.py (records, transitions, claims), submission.py,        *)
(* reconciliation.py (the per-record sweep), launcher.py, worker.py and    *)
(* the control flow of execution.py (execute_job).                         *)
(*                                                                         *)
(* Processes.  A submission of job j is identified with j; a worker is its *)
(* pid; Cycle is the dispatch cycle (and application startup), the only    *)
(* caller that drains with full_reconcile.  Every one of them may drain    *)
(* the queue, under one file lock, so at most one drain is in progress and *)
(* its local variables are the d* variables here.                          *)
(*                                                                         *)
(* Records.  transition_job, cancel_job and claim_job read and write a     *)
(* record under its own lock: each is one atomic step.  Everything read    *)
(* outside that lock and used later is read in a step of its own.          *)
(*                                                                         *)
(* Memory publication is one step here (running -> complete or failed);    *)
(* its journal, its crashes and its recovery are module MemoryPublication. *)
(***************************************************************************)
EXTENDS Integers, FiniteSets

CONSTANTS
  Jobs,            \* job ids
  Pids,            \* process ids available to workers
  Memories,        \* semantic memories, each with one lock
  MemoryOf,        \* MemoryOf[j]: the memory job j resolves to
  Rank,            \* Rank[j]: position of (due_at or created_at, job_id)
  Retired,         \* jobs whose trigger is in RETIRED_TRIGGERS
  Pool,            \* flowgency.jobs.pool
  Cycle,           \* the dispatch cycle / application startup
  Nobody,          \* no process, no job
  ReportsPid,      \* the launcher reports a pid (Popen) or not (systemd-run)
  ConfirmsAbsence, \* worker_alive can return False (POSIX) or only None
  PromptStart,     \* a launched worker reaches its record within the grace
  ClaimSurvives,   \* no drainer dies between its launch and its claim
  PidReuse,        \* the OS may reuse a pid that an active record names
  MaxCrashes       \* bound on process deaths

ASSUME ConstantsAssumption ==
  /\ Pool \in Nat \ {0}
  /\ MaxCrashes \in Nat
  /\ MemoryOf \in [Jobs -> Memories]
  /\ Rank \in [Jobs -> Nat]
  /\ \A i, j \in Jobs : Rank[i] = Rank[j] => i = j
  /\ Retired \subseteq Jobs
  /\ {ReportsPid, ConfirmsAbsence, PromptStart, ClaimSurvives, PidReuse} \subseteq BOOLEAN

ASSUME IdentityAssumption ==
  /\ Jobs \cap Pids = {}
  /\ Cycle \notin Jobs \cup Pids
  /\ Nobody \notin Jobs \cup Pids \cup {Cycle}

VARIABLES
  status,      \* status[j]: "none" until the record exists
  workerPid,   \* worker_pid of the record
  launchedAt,  \* launched_at: "none", "fresh" or "stale" (older than the grace)
  pins,        \* jobs whose artifact pin exists
  sub,         \* sub[j]: where the submission of j is
  phase,       \* phase[p]: where worker p is, "absent" when no process
  wjob,        \* wjob[p]: the job worker p was launched for
  memLock,     \* memLock[m]: the worker holding the lock of memory m
  queueLock,   \* the process draining the queue
  dpc,         \* where the drain is
  dtodo,       \* records the current pass has not read yet
  dcur,        \* record being reconciled or started
  dseen,       \* its status when it was read
  dpid,        \* worker_pid the launcher reported
  dwait,       \* launchable jobs of the snapshot not handled yet
  dused,       \* slots counted in use (pool - capacity)
  crashes,     \* process deaths so far
  executor     \* history: the worker that took j (module JobLifecycle)

recordVars == <<status, workerPid, launchedAt>>
workerVars == <<phase, wjob, memLock>>
drainVars  == <<queueLock, dpc, dtodo, dcur, dseen, dpid, dwait, dused>>
vars == <<recordVars, pins, sub, workerVars, drainVars, crashes, executor>>

-----------------------------------------------------------------------------
(* Records *)

SlotStatuses     == {"running", "waiting_for_memory"}
ActiveStatuses   == {"queued", "waiting_for_memory", "running"}
TerminalStatuses == {"complete", "failed", "cancelled"}
Statuses         == {"none"} \cup ActiveStatuses \cup TerminalStatuses

Records == {j \in Jobs : status[j] # "none"}

\* VALID_TRANSITIONS
ValidTransition(from, to) ==
  \/ from = "queued" /\ to \in {"waiting_for_memory", "running", "failed", "cancelled"}
  \/ from = "waiting_for_memory" /\ to \in {"running", "failed", "cancelled", "complete"}
  \/ from = "running" /\ to \in {"complete", "failed"}

\* Mutant: transition_job without the check of the expected status.
CanTransitionUnchecked(j, from, to) == ValidTransition(from, to)

\* transition_job(path, from, to) succeeds; otherwise it raises InvalidJobTransition.
CanTransition(j, from, to) == status[j] = from /\ ValidTransition(from, to)

\* worker_alive(pid) is False: the process is confirmed absent.
ConfirmedAbsent(pid) ==
  /\ pid # Nobody
  /\ phase[pid] = "absent"
  /\ ConfirmsAbsence

IsLaunched(j) == launchedAt[j] # "none" \/ workerPid[j] # Nobody

\* Mutant: a launch without a pid never counts as abandoned.
LaunchAbandonedNoGrace(j) == workerPid[j] # Nobody /\ ConfirmedAbsent(workerPid[j])

LaunchAbandoned(j) ==
  IF workerPid[j] # Nobody THEN ConfirmedAbsent(workerPid[j])
                           ELSE launchedAt[j] = "stale"

\* Mutant: a claimed record holds no slot until its worker reaches it.
OccupiesSlotOnceStarted(j) == status[j] \in SlotStatuses

OccupiesSlot(j) ==
  \/ status[j] \in SlotStatuses
  \/ status[j] = "queued" /\ IsLaunched(j) /\ ~LaunchAbandoned(j)

IsLaunchable(j) ==
  status[j] = "queued" /\ (~IsLaunched(j) \/ LaunchAbandoned(j))

\* LAUNCH_GRACE_SECONDS pass since launched_at.  With PromptStart a launched
\* worker that is still alive has reached its record by then.
GraceExpires(j) ==
  /\ launchedAt[j] = "fresh"
  /\ status[j] = "queued"
  /\ PromptStart => \A p \in Pids : phase[p] = "starting" => wjob[p] # j
  /\ launchedAt' = [launchedAt EXCEPT ![j] = "stale"]
  /\ UNCHANGED <<status, workerPid, pins, sub, workerVars, drainVars, crashes, executor>>

\* Mutant: a running job can be cancelled too.
CancelAny(j) ==
  /\ status[j] \in ActiveStatuses
  /\ status' = [status EXCEPT ![j] = "cancelled"]
  /\ UNCHANGED <<workerPid, launchedAt, pins, sub, workerVars, drainVars, crashes, executor>>

\* cancel_job: only queued and waiting_for_memory; the pin is left alone.
Cancel(j) ==
  /\ status[j] \in {"queued", "waiting_for_memory"}
  /\ status' = [status EXCEPT ![j] = "cancelled"]
  /\ UNCHANGED <<workerPid, launchedAt, pins, sub, workerVars, drainVars, crashes, executor>>

-----------------------------------------------------------------------------
(* Submission *)

SubStates == {"none", "pinned", "drain", "settle", "accepted", "rejected", "crashed"}

\* _submit_resolved pins the artifact before the record exists ...
SubmitPin(j) ==
  /\ sub[j] = "none"
  /\ sub' = [sub EXCEPT ![j] = "pinned"]
  /\ pins' = pins \cup {j}
  /\ UNCHANGED <<recordVars, workerVars, drainVars, crashes, executor>>

\* ... then writes it, queued.  The team lock is released and the drain follows.
SubmitCreate(j) ==
  /\ sub[j] = "pinned"
  /\ sub' = [sub EXCEPT ![j] = "drain"]
  /\ status' = [status EXCEPT ![j] = "queued"]
  /\ UNCHANGED <<workerPid, launchedAt, pins, workerVars, drainVars, crashes, executor>>

\* Writing the record raises: the pin is released and the caller is told.
SubmitCreateFails(j) ==
  /\ sub[j] = "pinned"
  /\ sub' = [sub EXCEPT ![j] = "rejected"]
  /\ pins' = pins \ {j}
  /\ UNCHANGED <<recordVars, workerVars, drainVars, crashes, executor>>

\* Mutant: every unclaimed record counts as a failed submission.
SettleRejectsUnclaimed(j) == launchedAt[j] = "none"

\* _settle: failed without a launched_at stamp is reported as a submission error.
SettleRejects(j) == status[j] = "failed" /\ launchedAt[j] = "none"

Settle(j) ==
  /\ sub[j] = "settle"
  /\ IF SettleRejects(j)
       THEN /\ sub' = [sub EXCEPT ![j] = "rejected"]
            /\ pins' = pins \ {j}
       ELSE /\ sub' = [sub EXCEPT ![j] = "accepted"]
            /\ UNCHANGED pins
  /\ UNCHANGED <<recordVars, workerVars, drainVars, crashes, executor>>

-----------------------------------------------------------------------------
(* The drain *)

DrainPcs == {"idle", "reconcile", "probe", "unpin", "snapshot", "start",
             "claim", "launchFailed"}

WantsDrain(d) ==
  \/ d = Cycle
  \/ d \in Jobs /\ sub[d] = "drain"
  \/ d \in Pids /\ phase[d] = "drain"

\* What the caller of drain does next: a submission settles, a worker exits.
AfterDrain(d) ==
  /\ sub' = IF d \in Jobs THEN [sub EXCEPT ![d] = "settle"] ELSE sub
  /\ phase' = IF d \in Pids THEN [phase EXCEPT ![d] = "absent"] ELSE phase
  /\ wjob' = IF d \in Pids THEN [wjob EXCEPT ![d] = Nobody] ELSE wjob

\* The queue lock is free again and the drain's locals are gone.
ReleaseQueue ==
  /\ queueLock' = Nobody
  /\ dpc' = "idle"
  /\ dtodo' = {}
  /\ dcur' = Nobody
  /\ dseen' = "none"
  /\ dpid' = Nobody
  /\ dwait' = {}
  /\ dused' = 0

\* The lock is taken and reconcile_jobs lists the records.
EnterDrain(d) ==
  /\ queueLock = Nobody
  /\ WantsDrain(d)
  /\ queueLock' = d
  /\ dpc' = "reconcile"
  /\ dtodo' = Records
  /\ UNCHANGED <<dcur, dseen, dpid, dwait, dused>>
  /\ UNCHANGED <<recordVars, pins, sub, workerVars, crashes, executor>>

\* LOCK_TIMEOUT_SECONDS pass while another drainer holds the queue.
LeaveQueueToHolder(d) ==
  /\ queueLock \notin {Nobody, d}
  /\ d # Cycle
  /\ WantsDrain(d)
  /\ AfterDrain(d)
  /\ UNCHANGED <<recordVars, pins, memLock, drainVars, crashes, executor>>

\* Mutant: the full sweep forgets the pins of executed jobs.
ReconcileSkipKeepsPins(j) ==
  /\ dpc = "reconcile"
  /\ j \in dtodo
  /\ status[j] \notin SlotStatuses
  /\ dtodo' = dtodo \ {j}
  /\ UNCHANGED <<queueLock, dpc, dcur, dseen, dpid, dwait, dused>>
  /\ UNCHANGED <<recordVars, pins, sub, workerVars, crashes, executor>>

\* A record that holds no slot.  A full sweep releases the pins of executed jobs.
ReconcileSkip(j) ==
  /\ dpc = "reconcile"
  /\ j \in dtodo
  /\ status[j] \notin SlotStatuses
  /\ dtodo' = dtodo \ {j}
  /\ pins' = IF queueLock = Cycle /\ status[j] \in {"complete", "failed"}
               THEN pins \ {j} ELSE pins
  /\ UNCHANGED <<queueLock, dpc, dcur, dseen, dpid, dwait, dused>>
  /\ UNCHANGED <<recordVars, sub, workerVars, crashes, executor>>

ReconcileRead(j) ==
  /\ dpc = "reconcile"
  /\ j \in dtodo
  /\ status[j] \in SlotStatuses
  /\ dpc' = "probe"
  /\ dcur' = j
  /\ dseen' = status[j]
  /\ dtodo' = dtodo \ {j}
  /\ UNCHANGED <<queueLock, dpid, dwait, dused>>
  /\ UNCHANGED <<recordVars, pins, sub, workerVars, crashes, executor>>

\* Fail the record only when its worker is confirmed absent and it still has
\* the status that was read.  (worker_pid is fixed once the status was read.)
ReconcileProbe ==
  /\ dpc = "probe"
  /\ IF ConfirmedAbsent(workerPid[dcur]) /\ CanTransition(dcur, dseen, "failed")
       THEN /\ status' = [status EXCEPT ![dcur] = "failed"]
            /\ dpc' = "unpin"
            /\ UNCHANGED dcur
       ELSE /\ dpc' = "reconcile"
            /\ dcur' = Nobody
            /\ UNCHANGED status
  /\ dseen' = "none"
  /\ UNCHANGED <<queueLock, dtodo, dpid, dwait, dused>>
  /\ UNCHANGED <<workerPid, launchedAt, pins, sub, workerVars, crashes, executor>>

\* _release_job_pin of the record just failed.
ReconcileUnpin ==
  /\ dpc = "unpin"
  /\ pins' = pins \ {dcur}
  /\ dpc' = "reconcile"
  /\ dcur' = Nobody
  /\ UNCHANGED <<queueLock, dtodo, dseen, dpid, dwait, dused>>
  /\ UNCHANGED <<recordVars, sub, workerVars, crashes, executor>>

\* queue_snapshot starts listing.
ReconcileDone ==
  /\ dpc = "reconcile"
  /\ dtodo = {}
  /\ dpc' = "snapshot"
  /\ dtodo' = Records
  /\ UNCHANGED <<queueLock, dcur, dseen, dpid, dwait, dused>>
  /\ UNCHANGED <<recordVars, pins, sub, workerVars, crashes, executor>>

\* One record of the snapshot: waiting, holding a slot, or neither.
SnapshotRead(j) ==
  /\ dpc = "snapshot"
  /\ j \in dtodo
  /\ dtodo' = dtodo \ {j}
  /\ dwait' = IF IsLaunchable(j) THEN dwait \cup {j} ELSE dwait
  /\ dused' = IF OccupiesSlot(j) THEN dused + 1 ELSE dused
  /\ UNCHANGED <<queueLock, dpc, dcur, dseen, dpid>>
  /\ UNCHANGED <<recordVars, pins, sub, workerVars, crashes, executor>>

SnapshotDone ==
  /\ dpc = "snapshot"
  /\ dtodo = {}
  /\ dpc' = "start"
  /\ UNCHANGED <<queueLock, dtodo, dcur, dseen, dpid, dwait, dused>>
  /\ UNCHANGED <<recordVars, pins, sub, workerVars, crashes, executor>>

\* The oldest due waiting job, when the pool has room: capacity > 0.
IsHead(j) ==
  /\ dpc = "start"
  /\ dused < Pool
  /\ j \in dwait
  /\ \A k \in dwait : Rank[j] <= Rank[k]

\* _start re-reads the record and finds it no longer launchable.
StartSkip(j) ==
  /\ IsHead(j)
  /\ ~IsLaunchable(j)
  /\ dwait' = dwait \ {j}
  /\ UNCHANGED <<queueLock, dpc, dtodo, dcur, dseen, dpid, dused>>
  /\ UNCHANGED <<recordVars, pins, sub, workerVars, crashes, executor>>

\* The OS may give p to a new process.
PidAvailable(p) ==
  /\ phase[p] = "absent"
  /\ PidReuse \/ \A j \in Jobs : status[j] \in ActiveStatuses => workerPid[j] # p

\* systemd-run names the unit after the job: it refuses while that unit exists.
UnitLoaded(j) == ~ReportsPid /\ \E p \in Pids : wjob[p] = j

\* launcher.launch starts a process for the job.
LaunchSpawns(j, p) ==
  /\ IsHead(j)
  /\ IsLaunchable(j)
  /\ ~UnitLoaded(j)
  /\ PidAvailable(p)
  /\ phase' = [phase EXCEPT ![p] = "starting"]
  /\ wjob' = [wjob EXCEPT ![p] = j]
  /\ dcur' = j
  /\ dpid' = IF ReportsPid THEN p ELSE Nobody
  /\ dpc' = "claim"
  /\ UNCHANGED <<queueLock, dtodo, dseen, dwait, dused>>
  /\ UNCHANGED <<recordVars, pins, sub, memLock, crashes, executor>>

\* launcher.launch raises.
LaunchRaises(j) ==
  /\ IsHead(j)
  /\ IsLaunchable(j)
  /\ dcur' = j
  /\ dpc' = "launchFailed"
  /\ UNCHANGED <<queueLock, dtodo, dseen, dpid, dwait, dused>>
  /\ UNCHANGED <<recordVars, pins, sub, workerVars, crashes, executor>>

\* The launch failure is recorded unless the record left the queue meanwhile.
RecordLaunchFailure ==
  /\ dpc = "launchFailed"
  /\ status' = IF CanTransition(dcur, "queued", "failed")
                 THEN [status EXCEPT ![dcur] = "failed"] ELSE status
  /\ dwait' = dwait \ {dcur}
  /\ dcur' = Nobody
  /\ dpc' = "start"
  /\ UNCHANGED <<queueLock, dtodo, dseen, dpid, dused>>
  /\ UNCHANGED <<workerPid, launchedAt, pins, sub, workerVars, crashes, executor>>

\* claim_job stamps a record that is still queued; otherwise the worker beat us.
ClaimJob(j, pid) ==
  IF status[j] = "queued"
    THEN /\ workerPid' = [workerPid EXCEPT ![j] = pid]
         /\ launchedAt' = [launchedAt EXCEPT ![j] = "fresh"]
    ELSE UNCHANGED <<workerPid, launchedAt>>

Claim ==
  /\ dpc = "claim"
  /\ ClaimJob(dcur, dpid)
  /\ dused' = dused + 1
  /\ dwait' = dwait \ {dcur}
  /\ dcur' = Nobody
  /\ dpid' = Nobody
  /\ dpc' = "start"
  /\ UNCHANGED <<queueLock, dtodo, dseen>>
  /\ UNCHANGED <<status, pins, sub, workerVars, crashes, executor>>

\* The loop ends: no capacity or no waiting job.
DrainDone ==
  /\ dpc = "start"
  /\ dused >= Pool \/ dwait = {}
  /\ AfterDrain(queueLock)
  /\ ReleaseQueue
  /\ UNCHANGED <<recordVars, pins, memLock, crashes, executor>>

DrainStep ==
  \/ \E j \in Jobs : \/ ReconcileSkip(j) \/ ReconcileRead(j) \/ SnapshotRead(j)
                     \/ StartSkip(j) \/ LaunchRaises(j)
                     \/ \E p \in Pids : LaunchSpawns(j, p)
  \/ ReconcileProbe \/ ReconcileUnpin \/ ReconcileDone \/ SnapshotDone
  \/ RecordLaunchFailure \/ Claim \/ DrainDone

-----------------------------------------------------------------------------
(* Workers: execute_job *)

Phases == {"absent", "starting", "waiting", "locked", "running", "unlock",
           "failing", "terminalize", "unpin", "abort", "drain"}

MemOf(p) == MemoryOf[wjob[p]]

Goto(p, next) == phase' = [phase EXCEPT ![p] = next] /\ UNCHANGED wjob

Exits(p) == /\ phase' = [phase EXCEPT ![p] = "absent"]
            /\ wjob' = [wjob EXCEPT ![p] = Nobody]

\* Mutant: the worker takes its record without writing its own pid.
BeginTakesWithoutPid(p) ==
  /\ phase[p] = "starting"
  /\ wjob[p] \notin Retired
  /\ CanTransition(wjob[p], "queued", "waiting_for_memory")
  /\ status' = [status EXCEPT ![wjob[p]] = "waiting_for_memory"]
  /\ executor' = [executor EXCEPT ![wjob[p]] = p]
  /\ Goto(p, "waiting")
  /\ UNCHANGED <<workerPid, launchedAt, pins, sub, memLock, drainVars, crashes>>

\* The worker takes its record: queued -> waiting_for_memory under its own pid.
BeginTakes(p) ==
  /\ phase[p] = "starting"
  /\ wjob[p] \notin Retired
  /\ CanTransition(wjob[p], "queued", "waiting_for_memory")
  /\ status' = [status EXCEPT ![wjob[p]] = "waiting_for_memory"]
  /\ workerPid' = [workerPid EXCEPT ![wjob[p]] = p]
  /\ executor' = [executor EXCEPT ![wjob[p]] = p]
  /\ Goto(p, "waiting")
  /\ UNCHANGED <<launchedAt, pins, sub, memLock, drainVars, crashes>>

\* A retired trigger: the worker fails the queued record and stops there.
BeginRetired(p) ==
  /\ phase[p] = "starting"
  /\ wjob[p] \in Retired
  /\ CanTransition(wjob[p], "queued", "failed")
  /\ status' = [status EXCEPT ![wjob[p]] = "failed"]
  /\ Goto(p, "unpin")
  /\ UNCHANGED <<workerPid, launchedAt, pins, sub, memLock, drainVars, crashes, executor>>

\* The record is not queued any more: execute_job raises, the process dies
\* without releasing anything and without draining.
BeginRefused(p) ==
  /\ phase[p] = "starting"
  /\ status[wjob[p]] # "queued"
  /\ Exits(p)
  /\ UNCHANGED <<recordVars, pins, sub, memLock, drainVars, crashes, executor>>

\* The poll loop of the memory lock notices the cancellation.
WaitCancelled(p) ==
  /\ phase[p] = "waiting"
  /\ status[wjob[p]] = "cancelled"
  /\ Goto(p, "unpin")
  /\ UNCHANGED <<recordVars, pins, sub, memLock, drainVars, crashes, executor>>

AcquireMemory(p) ==
  /\ phase[p] = "waiting"
  /\ memLock[MemOf(p)] = Nobody
  /\ memLock' = [memLock EXCEPT ![MemOf(p)] = p]
  /\ Goto(p, "locked")
  /\ UNCHANGED <<recordVars, pins, sub, drainVars, crashes, executor>>

\* cancelled() right after the lock was acquired.
LockedCancelled(p) ==
  /\ phase[p] = "locked"
  /\ status[wjob[p]] = "cancelled"
  /\ Goto(p, "unlock")
  /\ UNCHANGED <<recordVars, pins, sub, memLock, drainVars, crashes, executor>>

\* waiting_for_memory -> running.
StartRunning(p) ==
  /\ phase[p] = "locked"
  /\ CanTransition(wjob[p], "waiting_for_memory", "running")
  /\ status' = [status EXCEPT ![wjob[p]] = "running"]
  /\ workerPid' = [workerPid EXCEPT ![wjob[p]] = p]
  /\ Goto(p, "running")
  /\ UNCHANGED <<launchedAt, pins, sub, memLock, drainVars, crashes, executor>>

ReleasedBy(p) == [m \in Memories |-> IF memLock[m] = p THEN Nobody ELSE memLock[m]]

\* An exception (context, staging, a refused transition, the integration)
\* unwinds out of the memory lock into the outer handler.
Raises(p) ==
  /\ phase[p] \in {"waiting", "locked", "running", "unlock"}
  /\ memLock' = ReleasedBy(p)
  /\ Goto(p, "failing")
  /\ UNCHANGED <<recordVars, pins, sub, drainVars, crashes, executor>>

\* _terminalize_failure reads the record: an ended job is left as it is.
TerminalizeRead(p) ==
  /\ phase[p] = "failing"
  /\ Goto(p, IF status[wjob[p]] \in SlotStatuses THEN "terminalize" ELSE "unpin")
  /\ UNCHANGED <<recordVars, pins, sub, memLock, drainVars, crashes, executor>>

\* ... and fails it; a cancellation in between makes the transition raise.
TerminalizeWrite(p) ==
  /\ phase[p] = "terminalize"
  /\ IF status[wjob[p]] \in SlotStatuses
       THEN /\ status' = [status EXCEPT ![wjob[p]] = "failed"]
            /\ Goto(p, "unpin")
       ELSE /\ Goto(p, "abort")
            /\ UNCHANGED status
  /\ UNCHANGED <<workerPid, launchedAt, pins, sub, memLock, drainVars, crashes, executor>>

\* A non-zero exit, a ticket error or a failed publication, inside the lock.
FinishFailed(p) ==
  /\ phase[p] = "running"
  /\ CanTransition(wjob[p], "running", "failed")
  /\ status' = [status EXCEPT ![wjob[p]] = "failed"]
  /\ Goto(p, "unlock")
  /\ UNCHANGED <<workerPid, launchedAt, pins, sub, memLock, drainVars, crashes, executor>>

\* Exit code 0 and the memory is published: running -> complete.
FinishComplete(p) ==
  /\ phase[p] = "running"
  /\ CanTransition(wjob[p], "running", "complete")
  /\ status' = [status EXCEPT ![wjob[p]] = "complete"]
  /\ Goto(p, "unlock")
  /\ UNCHANGED <<workerPid, launchedAt, pins, sub, memLock, drainVars, crashes, executor>>

ReleaseMemory(p) ==
  /\ phase[p] = "unlock"
  /\ memLock' = ReleasedBy(p)
  /\ Goto(p, "unpin")
  /\ UNCHANGED <<recordVars, pins, sub, drainVars, crashes, executor>>

\* The finally clause releases the pin; then worker.main drains ...
ReleasePin(p) ==
  /\ phase[p] = "unpin"
  /\ pins' = pins \ {wjob[p]}
  /\ Goto(p, "drain")
  /\ UNCHANGED <<recordVars, sub, memLock, drainVars, crashes, executor>>

\* ... or, when execute_job raised, the process dies without draining.
AbortReleasePin(p) ==
  /\ phase[p] = "abort"
  /\ pins' = pins \ {wjob[p]}
  /\ Exits(p)
  /\ UNCHANGED <<recordVars, sub, memLock, drainVars, crashes, executor>>

WorkerStep(p) ==
  \/ BeginTakes(p) \/ BeginRetired(p) \/ BeginRefused(p)
  \/ WaitCancelled(p) \/ AcquireMemory(p) \/ LockedCancelled(p) \/ StartRunning(p)
  \/ Raises(p) \/ TerminalizeRead(p) \/ TerminalizeWrite(p)
  \/ FinishFailed(p) \/ FinishComplete(p)
  \/ ReleaseMemory(p) \/ ReleasePin(p) \/ AbortReleasePin(p)

-----------------------------------------------------------------------------
(* Process deaths: file locks are released, durable state stays *)

MayDie(d) ==
  /\ crashes < MaxCrashes
  /\ queueLock = d /\ dpc = "claim" => ~ClaimSurvives

DropQueueLock(d) == IF queueLock = d THEN ReleaseQueue ELSE UNCHANGED drainVars

WorkerDies(p) ==
  /\ phase[p] # "absent"
  /\ MayDie(p)
  /\ crashes' = crashes + 1
  /\ Exits(p)
  /\ memLock' = ReleasedBy(p)
  /\ DropQueueLock(p)
  /\ UNCHANGED <<recordVars, pins, sub, executor>>

SubmitterDies(j) ==
  /\ sub[j] \in {"pinned", "drain", "settle"}
  /\ MayDie(j)
  /\ crashes' = crashes + 1
  /\ sub' = [sub EXCEPT ![j] = "crashed"]
  /\ DropQueueLock(j)
  /\ UNCHANGED <<recordVars, pins, workerVars, executor>>

CycleDies ==
  /\ queueLock = Cycle
  /\ MayDie(Cycle)
  /\ crashes' = crashes + 1
  /\ ReleaseQueue
  /\ UNCHANGED <<recordVars, pins, sub, workerVars, executor>>

-----------------------------------------------------------------------------
Init ==
  /\ status = [j \in Jobs |-> "none"]
  /\ workerPid = [j \in Jobs |-> Nobody]
  /\ launchedAt = [j \in Jobs |-> "none"]
  /\ pins = {}
  /\ sub = [j \in Jobs |-> "none"]
  /\ phase = [p \in Pids |-> "absent"]
  /\ wjob = [p \in Pids |-> Nobody]
  /\ memLock = [m \in Memories |-> Nobody]
  /\ queueLock = Nobody
  /\ dpc = "idle"
  /\ dtodo = {}
  /\ dcur = Nobody
  /\ dseen = "none"
  /\ dpid = Nobody
  /\ dwait = {}
  /\ dused = 0
  /\ crashes = 0
  /\ executor = [j \in Jobs |-> Nobody]

SubmitStep(j) ==
  SubmitPin(j) \/ SubmitCreate(j) \/ SubmitCreateFails(j) \/ Settle(j)

\* A step of the system in which the processes of the set drainers drain.
NextWith(drainers) ==
  \/ \E j \in Jobs : SubmitStep(j) \/ Cancel(j) \/ GraceExpires(j) \/ SubmitterDies(j)
  \/ \E d \in drainers : EnterDrain(d) \/ LeaveQueueToHolder(d)
  \/ DrainStep
  \/ \E p \in Pids : WorkerStep(p) \/ WorkerDies(p)
  \/ CycleDies

Next == NextWith(Jobs \cup Pids \cup {Cycle})

Spec == Init /\ [][Next]_vars

\* Scheduling.  A live process keeps executing; the dispatch cycle runs again
\* and again; wall-clock time passes.  Deaths, cancellations and new
\* submissions are not fair.
QueueFairness ==
  /\ \A j \in Jobs : WF_vars(GraceExpires(j))
  /\ \A p \in Pids : WF_vars(WorkerStep(p) \/ EnterDrain(p) \/ LeaveQueueToHolder(p))
  /\ WF_vars(DrainStep)

TimerFairness == WF_vars(EnterDrain(Cycle))

SubmitFairness ==
  \A j \in Jobs : WF_vars(\/ SubmitCreate(j) \/ SubmitCreateFails(j) \/ Settle(j)
                         \/ EnterDrain(j) \/ LeaveQueueToHolder(j))

FairSpec == Spec /\ QueueFairness /\ SubmitFairness /\ TimerFairness

-----------------------------------------------------------------------------
(* Properties *)

\* Types of every variable of the queue.
TypeOK ==
  /\ status \in [Jobs -> Statuses]
  /\ workerPid \in [Jobs -> Pids \cup {Nobody}]
  /\ launchedAt \in [Jobs -> {"none", "fresh", "stale"}]
  /\ pins \subseteq Jobs
  /\ sub \in [Jobs -> SubStates]
  /\ phase \in [Pids -> Phases]
  /\ wjob \in [Pids -> Jobs \cup {Nobody}]
  /\ memLock \in [Memories -> Pids \cup {Nobody}]
  /\ queueLock \in Jobs \cup Pids \cup {Cycle, Nobody}
  /\ dpc \in DrainPcs
  /\ dtodo \subseteq Jobs
  /\ dcur \in Jobs \cup {Nobody}
  /\ dseen \in Statuses
  /\ dpid \in Pids \cup {Nobody}
  /\ dwait \subseteq Jobs
  /\ dused \in Nat
  /\ crashes \in Nat
  /\ executor \in [Jobs -> Pids \cup {Nobody}]

\* Worker p is inside execute_job past the point where it took its record.
Executing(p) ==
  phase[p] \in {"waiting", "locked", "running", "unlock", "failing", "terminalize", "abort"}

\* However often a job is launched (a drainer died before its claim, a grace
\* expired, a pid was reused), two processes never execute it: the loser's
\* queued -> waiting_for_memory transition in execute_job is refused.
OneExecutor ==
  \A p, q \in Pids : Executing(p) /\ Executing(q) /\ wjob[p] = wjob[q] => p = q

\* While the integration runs, the record says running under that worker's own
\* pid: no claim, cancellation, launch failure or reconcile of another process
\* takes a running record away from its live worker.
RunnerOwnsRecord ==
  \A p \in Pids : phase[p] = "running" =>
     status[wjob[p]] = "running" /\ workerPid[wjob[p]] = p

\* A job has one executor, and that executor has the record.
ExclusiveExecution == OneExecutor /\ RunnerOwnsRecord

\* flowgency.jobs.pool caps the number of concurrently running workers
\* (kb/dispatch.md), counting integrations that are really running.
PoolCap == Cardinality({p \in Pids : phase[p] = "running"}) <= Pool

\* A record that can still be started, and a worker that still reads the
\* compiled artifact, have their cache pin: none of the five places that
\* release a pin does so too early.
PinHeldWhileNeeded ==
  /\ \A j \in Jobs : status[j] \in ActiveStatuses => j \in pins
  /\ \A p \in Pids : phase[p] \in {"waiting", "locked", "running"} => wjob[p] \in pins

\* _settle: "A record that is failed without ever having been claimed never
\* reached a worker, so the submission failed and the caller must hear so."
SettleSound ==
  \A j \in Jobs : sub[j] = "rejected" => executor[j] = Nobody

\* The rule dispatch uses to owe an occurrence again (run.py): failed with
\* neither launched_at nor worker_pid means that no worker ever took the job.
UnstampedNeverTaken ==
  \A j \in Jobs : status[j] = "failed" /\ ~IsLaunched(j) => executor[j] = Nobody

\* A job whose worker is confirmed to have taken it has one definite end: once
\* a record is complete, failed or cancelled no process changes its status.
TerminalIsFinal ==
  [][\A j \in Jobs : status[j] \in TerminalStatuses => status'[j] = status[j]]_vars

\* Every queued job eventually ends, through a full pool, launches that die,
\* dead drainers, dead workers whose record a drain has to fail, and workers
\* waiting for a shared memory.
QueuedJobsEnd ==
  \A j \in Jobs : status[j] = "queued" ~> status[j] \in TerminalStatuses

\* The pin of an executed job is eventually released, whoever died in between.
ExecutedPinsReleased ==
  \A j \in Jobs : status[j] \in {"complete", "failed"} ~> j \notin pins

\* The queue implements the lifecycle contract of a job record.
Lifecycle == INSTANCE JobLifecycle WITH state <- status

ImplementsLifecycle == Lifecycle!Spec
=============================================================================
