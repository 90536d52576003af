------------------------------ MODULE Dispatch ------------------------------
(***************************************************************************)
(* The scheduled side of Flowgency: flowgency/dispatch/run.py (one dispatch *)
(* cycle over the routines of a team, its markers and the occurrences it    *)
(* recovers) and flowgency/dispatch/schedule.py (the schedule arithmetic).  *)
(*                                                                         *)
(* Time is counted in ticks and a calendar day is Day ticks; the clock is   *)
(* local wall time and never goes back here.  A routine is an `at` routine  *)
(* (once a day) or an `every` routine (periodic, counted from its anchor).  *)
(* Routines holds the ones a cycle evaluates: the disabled, the conditional *)
(* and the unreadable ones are skipped before any state is read.            *)
(*                                                                         *)
(* The queue is module JobQueue.  Here a job record keeps what the cycle    *)
(* reads of it, and the drains and workers that change it between two reads *)
(* are actions that may happen at any moment.  The timer never starts two   *)
(* cycles at once (a systemd oneshot unit, a scheduled task), so there is   *)
(* one cycle, which may die anywhere.                                       *)
(***************************************************************************)
EXTENDS Integers, FiniteSets, Sequences, FiniteSetsExt

CONSTANTS
  AtRoutines,    \* routines with schedule.at
  EveryRoutines, \* routines with schedule.every
  At,            \* At[r]: the tick of the day of an `at` routine
  Period,        \* Period[r]: the period of an `every` routine
  CatchUp,       \* CatchUp[r]: the parsed catch_up bound
  Day,           \* ticks in a calendar day
  Grace,         \* grace_window: the dispatch interval plus two minutes
  Start,         \* the time at which the model starts
  FirstMarks,    \* the markers that earlier cycles left, as marks below
  MaxNow,        \* bound on the clock
  None,          \* no value
  LateDeaths,    \* the cycle may die between a submission and its marker
  EarlyFailures, \* a worker may fail its job before the drain claims it
  MaxFaults,     \* bound on failures of submissions, launches and workers
  MaxCrashes     \* bound on deaths of the cycle

Routines == AtRoutines \cup EveryRoutines

Times == 0 .. MaxNow

Bounds == [kind : {"none", "today", "always", "duration"}, period : Nat]

ASSUME ScheduleAssumption ==
  /\ AtRoutines \cap EveryRoutines = {}
  /\ None \notin Routines \cup Times
  /\ Day \in Nat \ {0}
  /\ Grace \in Nat
  /\ Start \in Nat /\ MaxNow \in Nat /\ Day <= Start /\ Start <= MaxNow
  /\ At \in [AtRoutines -> 0 .. (Day - 1)]
  /\ Period \in [EveryRoutines -> Nat \ {0}]
  /\ CatchUp \in [Routines -> Bounds]
  /\ FirstMarks \in [Routines -> SUBSET (0 .. Start)]
  /\ \A r \in EveryRoutines : \E t \in 0 .. Start : FirstMarks[r] \subseteq {t}
  /\ {LateDeaths, EarlyFailures} \subseteq BOOLEAN
  /\ MaxFaults \in Nat /\ MaxCrashes \in Nat

VARIABLES
  now,     \* the clock
  marks,   \* marks[r]: days with an `at` marker, or the mtime of the `every` one
  jobs,    \* the scheduled job records of the team, in order of submission
  pc,      \* where the cycle is
  todo,    \* routines the cycle has still to evaluate
  lost,    \* lost[r]: what lost_occurrences returned when the cycle began
  cur,     \* the routine whose submission is in progress
  faults,  \* failures so far
  crashes  \* deaths of the cycle so far

vars == <<now, marks, jobs, pc, todo, lost, cur, faults, crashes>>

cycleVars == <<pc, todo, lost, cur>>

(***************************************************************************)
(* Job records.  stamped is launched_at, pid that a worker took the record, *)
(* phase the before_runtime evidence in result_metadata: "pending" until it *)
(* is merged and, for a run with tickets, its cleanup is settled.  ran is   *)
(* history: the integration was invoked.                                    *)
(***************************************************************************)
JobRecord ==
  [routine : Routines, due : Times,
   status : {"queued", "running", "failed", "complete", "cancelled"},
   stamped : BOOLEAN, pid : BOOLEAN,
   phase : {"none", "pending", "before_runtime"}, ran : BOOLEAN]

Queued(r, due) ==
  [routine |-> r, due |-> due, status |-> "queued", stamped |-> FALSE,
   pid |-> FALSE, phase |-> "none", ran |-> FALSE]

JobsOf(r) == {j \in DOMAIN jobs : jobs[j].routine = r}

IsLaunched(rec) == rec.stamped \/ rec.pid

Recoverable(rec) ==
  /\ rec.status = "failed"
  /\ ~IsLaunched(rec) \/ rec.phase = "before_runtime"

\* The newest due time among the jobs js, or None.
Newest(js) == IF js = {} THEN None ELSE Max({jobs[j].due : j \in js})

LostOccurrence(r) ==
  LET failed == Newest({j \in JobsOf(r) : Recoverable(jobs[j])})
      served == Newest({j \in JobsOf(r) : ~Recoverable(jobs[j])})
  IN  IF failed # None /\ (served = None \/ failed > served) THEN failed ELSE None

(***************************************************************************)
(* Schedules                                                               *)
(***************************************************************************)
Date(t) == t \div Day

LastAtOccurrence(r) ==
  LET today == Date(now) * Day + At[r]
  IN  IF now >= today THEN today ELSE today - Day

\* None while the first period after the anchor is not over.
LastEveryOccurrence(r, anchor) ==
  IF now - anchor < Period[r] THEN None
  ELSE anchor + ((now - anchor) \div Period[r]) * Period[r]

Anchor(r) == CHOOSE t \in marks[r] : TRUE

\* Mutant: a lost occurrence at the anchor is not offered again.
DueOccurrenceNotByName(r) ==
  IF r \in AtRoutines THEN LastAtOccurrence(r)
  ELSE IF marks[r] = {} THEN now
  ELSE LastEveryOccurrence(r, Anchor(r))

DueOccurrence(r) ==
  IF r \in AtRoutines THEN LastAtOccurrence(r)
  ELSE IF marks[r] = {} THEN now
  ELSE IF LastEveryOccurrence(r, Anchor(r)) = None /\ lost[r] = Anchor(r) THEN lost[r]
  ELSE LastEveryOccurrence(r, Anchor(r))

CatchUpAllows(r, occurrence) ==
  LET age == now - occurrence
      bound == CatchUp[r]
  IN  CASE bound.kind = "always" -> TRUE
        [] bound.kind = "today" -> Date(occurrence) = Date(now)
        [] bound.kind = "duration" -> age <= bound.period
        [] bound.kind = "none" -> age < Grace

\* An `at` occurrence with a marker was submitted; it is due again only when
\* its job was lost.
AlreadyMarked(r, occurrence) ==
  /\ r \in AtRoutines
  /\ Date(occurrence) \in marks[r]
  /\ lost[r] # occurrence

Fires(r) ==
  /\ DueOccurrence(r) # None
  /\ ~AlreadyMarked(r, DueOccurrence(r))
  /\ CatchUpAllows(r, DueOccurrence(r))

-----------------------------------------------------------------------------
(***************************************************************************)
(* The dispatch cycle                                                      *)
(***************************************************************************)
Init ==
  /\ now = Start
  /\ marks = FirstMarks
  /\ jobs = <<>>
  /\ pc = "idle"
  /\ todo = {}
  /\ lost = [r \in Routines |-> None]
  /\ cur = None
  /\ faults = 0
  /\ crashes = 0

\* The head of a cycle: after its drain (see Launch and LaunchFails) it reads
\* the team's records once, for all its routines.
BeginCycle ==
  /\ pc = "idle"
  /\ pc' = "routines"
  /\ todo' = Routines
  /\ lost' = [r \in Routines |-> LostOccurrence(r)]
  /\ UNCHANGED <<now, marks, jobs, cur, faults, crashes>>

EndCycle ==
  /\ pc = "routines" /\ todo = {}
  /\ pc' = "idle"
  /\ lost' = [r \in Routines |-> None]
  /\ UNCHANGED <<now, marks, jobs, todo, cur, faults, crashes>>

\* Not due, already submitted, or too old for the routine's catch_up.
SkipRoutine(r) ==
  /\ pc = "routines" /\ r \in todo
  /\ ~Fires(r)
  /\ todo' = todo \ {r}
  /\ UNCHANGED <<now, marks, jobs, pc, lost, cur, faults, crashes>>

\* submit_job_request up to the record: the job exists and its drain is next.
Submit(r) ==
  /\ pc = "routines" /\ r \in todo
  /\ Fires(r)
  /\ jobs' = Append(jobs, Queued(r, DueOccurrence(r)))
  /\ todo' = todo \ {r}
  /\ cur' = r
  /\ pc' = "settle"
  /\ UNCHANGED <<now, marks, lost, faults, crashes>>

\* The request is refused before a record exists: no marker.
SubmitRefused(r) ==
  /\ pc = "routines" /\ r \in todo
  /\ Fires(r)
  /\ faults < MaxFaults
  /\ faults' = faults + 1
  /\ todo' = todo \ {r}
  /\ UNCHANGED <<now, marks, jobs, pc, lost, cur, crashes>>

\* _settle raises when the drain left the record failed and without a stamp.
SettleRejects ==
  jobs[Len(jobs)].status = "failed" /\ ~jobs[Len(jobs)].stamped

Settle ==
  /\ pc = "settle"
  /\ pc' = IF SettleRejects THEN "routines" ELSE "touch"
  /\ cur' = IF SettleRejects THEN None ELSE cur
  /\ UNCHANGED <<now, marks, jobs, todo, lost, faults, crashes>>

Due == jobs[Len(jobs)].due

\* Mutant: the marker of a recovered occurrence carries today's date.
TouchedToday == IF cur \in AtRoutines THEN marks[cur] \cup {Date(now)} ELSE {now}

\* marker.touch(): an `at` marker is the file of the occurrence's day; an
\* `every` marker takes the current time until it is stamped.
Touched == IF cur \in AtRoutines THEN marks[cur] \cup {Date(Due)} ELSE {now}

TouchMarker ==
  /\ pc = "touch"
  /\ marks' = [marks EXCEPT ![cur] = Touched]
  /\ pc' = "stamp"
  /\ UNCHANGED <<now, jobs, todo, lost, cur, faults, crashes>>

\* Mutant: the anchor is the launch moment.
StampedNow == IF cur \in AtRoutines THEN marks[cur] ELSE {now}

\* os.utime: the anchor is the occurrence, however late it was submitted.
Stamped == IF cur \in AtRoutines THEN marks[cur] ELSE {Due}

StampMarker ==
  /\ pc = "stamp"
  /\ marks' = [marks EXCEPT ![cur] = Stamped]
  /\ pc' = "routines"
  /\ cur' = None
  /\ UNCHANGED <<now, jobs, todo, lost, faults, crashes>>

\* The cycle's process dies.  Its markers and its records stay.
CycleDies ==
  /\ pc # "idle"
  /\ LateDeaths \/ pc = "routines"
  /\ crashes < MaxCrashes
  /\ crashes' = crashes + 1
  /\ pc' = "idle"
  /\ todo' = {}
  /\ lost' = [r \in Routines |-> None]
  /\ cur' = None
  /\ UNCHANGED <<now, marks, jobs, faults>>

Tick ==
  /\ now < MaxNow
  /\ now' = now + 1
  /\ UNCHANGED <<marks, jobs, cycleVars, faults, crashes>>

-----------------------------------------------------------------------------
(***************************************************************************)
(* Drains and workers, between any two steps of the cycle                   *)
(***************************************************************************)
\* Record j becomes rec; the cycle and the markers are not touched.
SetJob(j, rec) ==
  /\ jobs' = [jobs EXCEPT ![j] = rec]
  /\ UNCHANGED <<now, marks, cycleVars, crashes>>

\* One more failure.
Faulty == faults < MaxFaults /\ faults' = faults + 1

\* A drain starts the job and claims it.
Launch(j) ==
  /\ jobs[j].status = "queued" /\ ~IsLaunched(jobs[j])
  /\ SetJob(j, [jobs[j] EXCEPT !.stamped = TRUE])
  /\ UNCHANGED faults

\* The launcher raises: at the first start, or at a second one after the
\* first worker never came.
LaunchFails(j) ==
  /\ jobs[j].status = "queued"
  /\ SetJob(j, [jobs[j] EXCEPT !.status = "failed"])
  /\ Faulty

\* The worker takes its record, before or after the drain claimed it.
WorkerTakes(j) ==
  /\ jobs[j].status = "queued"
  /\ SetJob(j, [jobs[j] EXCEPT !.status = "running", !.pid = TRUE])
  /\ UNCHANGED faults

CancelQueued(j) ==
  /\ jobs[j].status = "queued"
  /\ SetJob(j, [jobs[j] EXCEPT !.status = "cancelled"])
  /\ Faulty

InvokeRuntime(j) ==
  /\ jobs[j].status = "running" /\ ~jobs[j].ran
  /\ SetJob(j, [jobs[j] EXCEPT !.ran = TRUE])
  /\ UNCHANGED faults

\* A worker can fail its job while the drain that started it has still to
\* claim it: the record then never gets a stamp.
MayFail(j) == EarlyFailures \/ jobs[j].stamped \/ pc # "settle" \/ j # Len(jobs)

\* An exception before the integration is invoked fails the record; the
\* evidence of that is merged into it later.
FailsBeforeRuntime(j) ==
  /\ jobs[j].status = "running" /\ ~jobs[j].ran
  /\ MayFail(j)
  /\ SetJob(j, [jobs[j] EXCEPT !.status = "failed", !.phase = "pending"])
  /\ Faulty

ConfirmBeforeRuntime(j) ==
  /\ jobs[j].phase = "pending"
  /\ SetJob(j, [jobs[j] EXCEPT !.phase = "before_runtime"])
  /\ UNCHANGED faults

\* Every other end in failure: in or after the runtime, an authority error,
\* or a dead worker's record failed by reconciliation.
FailsOtherwise(j) ==
  /\ jobs[j].status = "running"
  /\ MayFail(j)
  /\ SetJob(j, [jobs[j] EXCEPT !.status = "failed"])
  /\ Faulty

Completes(j) ==
  /\ jobs[j].status = "running" /\ jobs[j].ran
  /\ SetJob(j, [jobs[j] EXCEPT !.status = "complete"])
  /\ UNCHANGED faults

Progress(j) ==
  \/ Launch(j)
  \/ WorkerTakes(j)
  \/ InvokeRuntime(j)
  \/ Completes(j)

Trouble(j) ==
  \/ LaunchFails(j)
  \/ CancelQueued(j)
  \/ FailsBeforeRuntime(j)
  \/ FailsOtherwise(j)

CycleStep ==
  \/ \E r \in Routines : SkipRoutine(r) \/ Submit(r)
  \/ Settle
  \/ TouchMarker
  \/ StampMarker
  \/ EndCycle

Next ==
  \/ BeginCycle
  \/ CycleStep
  \/ \E r \in Routines : SubmitRefused(r)
  \/ CycleDies
  \/ Tick
  \/ \E j \in DOMAIN jobs : Progress(j) \/ Trouble(j) \/ ConfirmBeforeRuntime(j)

Spec == Init /\ [][Next]_vars

(***************************************************************************)
(* The timer fires again and again and a cycle's steps terminate; queued    *)
(* jobs are started and live workers finish (QueuedJobsEnd of JobQueue).    *)
(* Nothing obliges a submission, a launch or a worker to fail, and nothing  *)
(* obliges the evidence of a failure to be merged.                          *)
(***************************************************************************)
Fairness ==
  /\ WF_vars(Tick)
  /\ WF_vars(BeginCycle)
  /\ WF_vars(CycleStep)
  /\ WF_vars(\E j \in DOMAIN jobs : Progress(j))

FairSpec == Spec /\ Fairness

-----------------------------------------------------------------------------
(***************************************************************************)
(* Properties                                                              *)
(***************************************************************************)
\* Every variable keeps its type, and the cycle works on a routine exactly
\* while a submission of it is in progress.
TypeOK ==
  /\ now \in Start .. MaxNow
  /\ marks \in [Routines -> SUBSET Times]
  /\ \A r \in EveryRoutines : \A s, t \in marks[r] : s = t
  /\ jobs \in Seq(JobRecord)
  /\ pc \in {"idle", "routines", "settle", "touch", "stamp"}
  /\ todo \subseteq Routines
  /\ lost \in [Routines -> Times \cup {None}]
  /\ cur \in Routines \cup {None}
  /\ (cur # None) = (pc \in {"settle", "touch", "stamp"})
  /\ (cur # None) => jobs # <<>> /\ jobs[Len(jobs)].routine = cur
  /\ faults \in 0 .. MaxFaults
  /\ crashes \in 0 .. MaxCrashes

\* A routine's jobs are submitted for ever newer occurrences, and an
\* occurrence is submitted again only when the earlier job is known never to
\* have reached the runtime: no backlog is replayed and nothing that ran, or
\* may still run, is repeated.
RetriesOnlyLost ==
  \A r \in Routines : \A i, k \in JobsOf(r) :
    i < k => \/ jobs[i].due < jobs[k].due
             \/ jobs[i].due = jobs[k].due /\ Recoverable(jobs[i])

\* The integration runs at most once for an occurrence of a routine.
OccurrenceRunsOnce ==
  \A r \in Routines : \A i, k \in JobsOf(r) :
    jobs[i].ran /\ jobs[k].ran /\ jobs[i].due = jobs[k].due => i = k

\* An `every` routine keeps its cadence however late its cycles are: between
\* two marker updates, the occurrences it served lie whole periods before its
\* anchor.
CadenceKept ==
  pc # "stamp" =>
    \A r \in EveryRoutines : \A t \in marks[r] : \A j \in JobsOf(r) :
      ~Recoverable(jobs[j]) /\ jobs[j].due <= t => (t - jobs[j].due) % Period[r] = 0

\* The newest occurrence a routine owes, by its schedule and its anchor alone.
NewestOwed(r) ==
  IF r \in AtRoutines THEN LastAtOccurrence(r)
  ELSE IF marks[r] = {} THEN now
  ELSE IF LastEveryOccurrence(r, Anchor(r)) = None THEN Anchor(r)
  ELSE LastEveryOccurrence(r, Anchor(r))

\* A job for this occurrence or a newer one was started or called off.
Served(r, occurrence) ==
  \E j \in JobsOf(r) :
    /\ jobs[j].due >= occurrence
    /\ jobs[j].status # "queued"
    /\ ~Recoverable(jobs[j])

\* Once the clock stands still, the newest occurrence of every routine is
\* served or out of its catch_up bound, whatever submissions, launches and
\* workers failed and wherever cycles died on the way.
MissedWorkRecovered ==
  \A r \in Routines :
    <>[](CatchUpAllows(r, NewestOwed(r)) => Served(r, NewestOwed(r)))
=============================================================================
