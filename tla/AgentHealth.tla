---------------------------- MODULE AgentHealth ----------------------------
(***************************************************************************)
(* What the dashboard says of an agent's schedule: flowgency/health.py and  *)
(* the fleet entries app.py builds from it.  The view reads the clock and   *)
(* the markers, never the job records, and it decides on its own what is    *)
(* late: a second reading of the schedule beside the dispatch cycle's.      *)
(* The routines of Dispatch are the routines of one agent here.             *)
(***************************************************************************)
EXTENDS Dispatch

TodayAt(r) == Date(now) * Day + At[r]

AsLateness(r, dueAt) ==
  IF now < dueAt THEN {}
  ELSE {[routine |-> r, due |-> dueAt,
         state |-> IF now > dueAt + Grace THEN "overdue" ELSE "due"]}

\* Mutant: yesterday's marker counts for today.
AtLatenessAnyDay(r) ==
  IF now < TodayAt(r) \/ marks[r] # {} THEN {} ELSE AsLateness(r, TodayAt(r))

\* Only the occurrence of the current day is looked at.
AtLateness(r) ==
  IF now < TodayAt(r) \/ Date(now) \in marks[r] THEN {} ELSE AsLateness(r, TodayAt(r))

\* A routine that never fired has no anchor and is not late.
EveryLateness(r) ==
  IF marks[r] = {} THEN {} ELSE AsLateness(r, Anchor(r) + Period[r])

RoutineLateness(r) == IF r \in AtRoutines THEN AtLateness(r) ELSE EveryLateness(r)

\* The strongest lateness: overdue before due, then the oldest.
ScheduleLateness ==
  LET all == UNION {RoutineLateness(r) : r \in Routines}
      worst == IF \E l \in all : l.state = "overdue"
               THEN {l \in all : l.state = "overdue"} ELSE all
  IN  {l \in worst : \A k \in worst : l.due <= k.due}

NextOccurrence(r) ==
  IF r \in AtRoutines
  THEN TodayAt(r) + (IF Date(now) \in marks[r] /\ now >= TodayAt(r) THEN Day ELSE 0)
  ELSE IF marks[r] = {} THEN now ELSE Anchor(r) + Period[r]

\* The soonest run shown for the agent.
NextRun == Min({NextOccurrence(r) : r \in Routines})

\* latest_executed_job: complete or failed. The records' times are not modelled:
\* any of them may be the latest.
ExecutedJobs == {j \in DOMAIN jobs : jobs[j].status \in {"complete", "failed"}}

\* An executed job, or a run that wrote its log (get_agent_last_seen).
HasRun == ExecutedJobs # {} \/ \E j \in DOMAIN jobs : jobs[j].ran

DescribeHealth(lastJobFailed) ==
  CASE lastJobFailed -> {"job_failed"}
    [] ~lastJobFailed /\ ScheduleLateness # {} -> {l.state : l \in ScheduleLateness}
    [] OTHER -> {IF HasRun THEN "healthy" ELSE "never_run"}

\* What the card of the agent may say (_apply_agent_status).
AgentStatuses ==
  IF ExecutedJobs = {} THEN DescribeHealth(FALSE)
  ELSE UNION {DescribeHealth(jobs[j].status = "failed") : j \in ExecutedJobs}

-----------------------------------------------------------------------------
\* No submission is between its record and its marker.
MarkersSettled == pc \notin {"settle", "touch", "stamp"}

\* The drain or the launcher turned the job away.
TurnedAway(j) == jobs[j].status = "failed" /\ ~jobs[j].stamped

\* An agent is shown late exactly when work is missing: the routine the page
\* names has no job for that occurrence or a newer one, and a daily occurrence
\* that is over without a job is never shown as a healthy agent.  The page reads the markers
\* only, so this relates every marker the cycle leaves, in whatever order it
\* recovers occurrences, to the records.
LatenessIsReal ==
  MarkersSettled =>
    /\ \A l \in ScheduleLateness : \A j \in JobsOf(l.routine) :
         jobs[j].due >= l.due => TurnedAway(j)
    /\ \A r \in AtRoutines :
         /\ now >= TodayAt(r)
         /\ \A j \in JobsOf(r) : jobs[j].due # TodayAt(r)
         => AgentStatuses \cap {"healthy", "never_run"} = {}

\* A cycle never starts an occurrence of the day for an agent whose next run is
\* shown in the future, unless it makes up for a lost job.
NextRunIsHonest ==
  \A r \in todo :
    /\ MarkersSettled /\ Fires(r)
    /\ Date(DueOccurrence(r)) = Date(now) /\ lost[r] # DueOccurrence(r)
    => NextRun <= now

\* What the dashboard shows of the schedule agrees with what the cycle does.
DashboardIsHonest == LatenessIsReal /\ NextRunIsHonest
=============================================================================
