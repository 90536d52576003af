----------------------------- MODULE Supervision -----------------------------
(***************************************************************************)
(* One supervised run of a program (src/flowgency/jobs/processes.py,       *)
(* run_supervised): the program is started in a process group of its own   *)
(* (POSIX) or in a kill-on-close job object (Windows), two reader threads  *)
(* drain its output, and the supervisor returns an outcome together with   *)
(* the evidence whether the whole group is known to be gone.  That         *)
(* evidence is what later lets a ticket run be released                    *)
(* (may_clear_active_work).                                                *)
(*                                                                         *)
(* The program is any program: every live member of the group may fork,    *)
(* exit, or write more than its output budget at any moment.  On POSIX the *)
(* group is judged by listing /proc and then reading the entries one by    *)
(* one, so the members change under the scan; a Windows job object counts  *)
(* its members atomically.  Processes that leave their group on purpose    *)
(* (setsid, breakaway) are outside the group and outside the evidence.     *)
(***************************************************************************)
EXTENDS Naturals, FiniteSets

CONSTANTS
  Procs,          \* the processes a run may ever have
  Root,           \* the started process, leader of the group
  Platforms,      \* subset of {"posix", "windows"}
  Detaches,       \* descendants may let go of the inherited output pipes
  PromptReaders   \* a reader that reaches end of file is joined in time

ASSUME SupervisionAssumption ==
  /\ Root \in Procs
  /\ Platforms \subseteq {"posix", "windows"}
  /\ {Detaches, PromptReaders} \subseteq BOOLEAN

VARIABLES
  platform,   \* os.name, fixed for the life of the program
  proc,       \* what each process is: none, running, dying, zombie, gone
  holds,      \* processes that hold the output pipes
  sup         \* the supervisor's own locals

supVars == <<platform, proc, holds, sup>>

Live == {p \in Procs : proc[p] \in {"running", "dying"}}
Outcomes == {"none", "exited", "timeout", "output-limit", "launch-failed",
             "containment-setup-failed"}

NoRun ==
  [pc |-> "idle", mode |-> "poll", todo |-> {}, status |-> "active",
   rootSeen |-> FALSE, identity |-> FALSE, over |-> FALSE, expired |-> FALSE,
   whole |-> FALSE, outcome |-> "none", confirmed |-> FALSE]

SupTypeOK ==
  /\ platform \in {"posix", "windows"}
  /\ proc \in [Procs -> {"none", "running", "dying", "zombie", "gone"}]
  /\ holds \subseteq Procs
  /\ sup \in [pc : {"idle", "setup", "loop", "scan", "read", "verdict", "kill", "drain", "done"},
              mode : {"poll", "final", "killed"},
              todo : SUBSET Procs,
              status : {"active", "empty", "unknown"},
              rootSeen : BOOLEAN, identity : BOOLEAN, over : BOOLEAN,
              expired : BOOLEAN, whole : BOOLEAN,
              outcome : Outcomes, confirmed : BOOLEAN]

SupInit ==
  /\ platform \in Platforms
  /\ proc = [p \in Procs |-> "none"]
  /\ holds = {}
  /\ sup = NoRun

-----------------------------------------------------------------------------
(* The program *)

\* Windows creates the root suspended and resumes it once it is contained.
Suspended == platform = "windows" /\ sup.pc = "setup"

\* A live member starts another process, which inherits the output pipes of
\* its parent unless it redirects them. A root that Windows still holds
\* suspended runs nothing.
Fork(p, q) ==
  /\ proc[p] = "running" /\ proc[q] = "none"
  /\ ~Suspended
  /\ proc' = [proc EXCEPT ![q] = "running"]
  /\ \/ holds' = IF p \in holds THEN holds \cup {q} ELSE holds
     \/ Detaches /\ holds' = holds
  /\ UNCHANGED <<platform, sup>>

\* A member ends. The root stays as a zombie of the supervisor until it is
\* reaped; an orphaned descendant is reaped by init.
Exit(p) ==
  /\ p \in Live
  /\ Suspended => proc[p] = "dying"
  /\ proc' = [proc EXCEPT ![p] = IF p = Root /\ platform = "posix" /\ sup.pc # "done"
                                  THEN "zombie" ELSE "gone"]
  /\ holds' = holds \ {p}
  /\ UNCHANGED <<platform, sup>>

\* _OutputBudget.take: both reader threads share one budget, which more output
\* that is not read yet exceeds for good.
Overflow ==
  /\ sup.pc \notin {"idle", "setup", "done"} /\ ~sup.whole /\ ~sup.over
  /\ sup' = [sup EXCEPT !.over = TRUE]
  /\ UNCHANGED <<platform, proc, holds>>

\* _reader: end of file comes once nobody holds the pipes any more.
ReadersEnd ==
  /\ sup.pc \notin {"idle", "done"} /\ holds = {} /\ ~sup.whole
  /\ sup' = [sup EXCEPT !.whole = TRUE]
  /\ UNCHANGED <<platform, proc, holds>>

-----------------------------------------------------------------------------
(* Start and containment *)

\* Popen in a new session, or CreateProcess suspended.
Start ==
  /\ sup.pc = "idle"
  /\ proc' = [p \in Procs |-> IF p = Root THEN "running" ELSE "none"]
  /\ holds' = {Root}
  /\ sup' = [NoRun EXCEPT !.pc = "setup"]
  /\ UNCHANGED platform

\* The operating system refuses to start the program.
StartFails ==
  /\ sup.pc = "idle"
  /\ sup' = [NoRun EXCEPT !.pc = "done", !.outcome = "launch-failed"]
  /\ UNCHANGED <<platform, proc, holds>>

\* read_process_identity: the pid's creation time can be read, or the root is
\* not known. It has not been reaped, so only a failing read leaves it unknown.
IdentityRead == BOOLEAN

\* read_process_identity, then the group's own identity
\* (_capture_posix_group_identity) or the membership in the job object.
Contain ==
  /\ sup.pc = "setup"
  /\ \E known \in IdentityRead :
       sup' = [sup EXCEPT !.pc = "loop", !.identity = known]
  /\ UNCHANGED <<platform, proc, holds>>

\* Where a run that cannot be contained goes on: POSIX joins its readers,
\* Windows returns without joining readers it never started.
Uncontained == IF platform = "posix" THEN "drain" ELSE "done"

\* Without containment only the root is killed: the evidence is unconfirmed.
ContainFails ==
  /\ sup.pc = "setup"
  /\ proc' = [proc EXCEPT ![Root] = IF @ = "running" THEN "dying" ELSE @]
  /\ sup' = [sup EXCEPT !.pc = Uncontained, !.outcome = "containment-setup-failed"]
  /\ UNCHANGED <<platform, holds>>

-----------------------------------------------------------------------------
(* The supervision loop *)

\* The run's time is up.
Expire ==
  /\ sup.pc \in {"loop", "scan", "read", "verdict"} /\ sup.mode = "poll" /\ ~sup.expired
  /\ sup' = [sup EXCEPT !.expired = TRUE]
  /\ UNCHANGED <<platform, proc, holds>>

RootDone == proc[Root] \in {"zombie", "gone"}

Stop(outcome) == [sup EXCEPT !.pc = "kill", !.outcome = outcome]
Poll == [sup EXCEPT !.pc = "scan", !.mode = "poll", !.rootSeen = @ \/ RootDone]

\* Mutant of PosixTurn: the deadline is looked at only once the root has exited.
PosixTurnWaitsForRoot ==
  IF sup.over THEN Stop("output-limit") ELSE IF RootDone THEN Poll ELSE sup

\* One turn of the loop of _run_supervised_posix: the deadline, the output
\* budget, then the exit of the root and the state of the group.
PosixTurn ==
  IF sup.expired THEN [sup EXCEPT !.pc = "scan", !.mode = "final", !.outcome = "timeout"]
  ELSE IF sup.over THEN Stop("output-limit")
  ELSE Poll

\* _windows_wait_for_stop looks at the budget before the root and at the
\* deadline after it; _job_exit_status goes on until the deadline.
WindowsTurn ==
  IF sup.over /\ ~sup.rootSeen THEN Stop("output-limit")
  ELSE IF RootDone /\ ~(sup.rootSeen /\ sup.expired) THEN Poll
  ELSE IF sup.expired THEN Stop("timeout")
  ELSE sup

Turn ==
  /\ sup.pc = "loop"
  /\ sup' = IF platform = "posix" THEN PosixTurn ELSE WindowsTurn
  /\ UNCHANGED <<platform, proc, holds>>

\* _job_active_processes counts the members of a job object at once.
JobStatus == IF Live = {} THEN "empty" ELSE "active"

\* The group's state starts with its leader: while it runs the group is active;
\* once it is a zombie /proc is listed, its entries to be read one by one.
ScanBegin ==
  /\ sup.pc = "scan"
  /\ sup' = IF platform = "posix" /\ proc[Root] = "zombie"
              THEN [sup EXCEPT !.pc = "read", !.todo = Live]
              ELSE [sup EXCEPT !.pc = "verdict", !.status = JobStatus]
  /\ UNCHANGED <<platform, proc, holds>>

\* One entry: still a live member, or gone by now.
ScanEntry(p) ==
  /\ sup.pc = "read" /\ p \in sup.todo
  /\ sup' = IF p \in Live
              THEN [sup EXCEPT !.pc = "verdict", !.status = "active", !.todo = {}]
              ELSE [sup EXCEPT !.todo = @ \ {p}]
  /\ UNCHANGED <<platform, proc, holds>>

\* No entry was a live member.
ScanEnd ==
  /\ sup.pc = "read" /\ sup.todo = {}
  /\ sup' = [sup EXCEPT !.pc = "verdict", !.status = "empty"]
  /\ UNCHANGED <<platform, proc, holds>>

\* An unreadable entry, a leader that is no longer the recorded one, or job
\* accounting that fails: nothing is known.
ScanFails ==
  /\ sup.pc \in {"scan", "read"}
  /\ sup' = [sup EXCEPT !.pc = "verdict", !.status = "unknown", !.todo = {}]
  /\ UNCHANGED <<platform, proc, holds>>

\* Evidence needs the root's identity where processes are told apart by pid.
Trusted == platform = "windows" \/ sup.identity

Settle(outcome, confirmed) ==
  sup' = [NoRun EXCEPT !.pc = "drain", !.outcome = outcome, !.confirmed = confirmed,
                       !.over = sup.over, !.whole = sup.whole]

Reap == proc' = [proc EXCEPT ![Root] = IF @ = "zombie" THEN "gone" ELSE @]

\* The loop's reading of the group's state: a natural end once the root's exit
\* was observed and nothing is left; an unconfirmed end when nothing is known.
PollVerdict ==
  /\ sup.pc = "verdict" /\ sup.mode = "poll"
  /\ IF sup.rootSeen /\ sup.status \in {"empty", "unknown"}
       THEN Settle("exited", sup.status = "empty" /\ Trusted) /\ Reap
       ELSE sup' = [sup EXCEPT !.pc = "loop", !.status = "active"] /\ UNCHANGED proc
  /\ UNCHANGED <<platform, holds>>

\* At the deadline POSIX signals only a group that is still active; whatever
\* else it finds is reported without confirmation.
FinalVerdict ==
  /\ sup.pc = "verdict" /\ sup.mode = "final"
  /\ IF sup.status = "active"
       THEN sup' = [sup EXCEPT !.pc = "kill"]
       ELSE Settle("timeout", FALSE)
  /\ UNCHANGED <<platform, proc, holds>>

\* killpg, TerminateJobObject, or the close of the job object reaches every
\* member at once, and none of them forks after it.
Killed == [p \in Procs |-> IF proc[p] = "running" THEN "dying" ELSE proc[p]]

Kill ==
  /\ sup.pc = "kill"
  /\ proc' = Killed
  /\ sup' = [sup EXCEPT !.pc = "scan", !.mode = "killed"]
  /\ UNCHANGED <<platform, holds>>

\* The leader cannot be identified or signalled (POSIX returns unconfirmed), or
\* the job object cannot be terminated (Windows waits for it all the same).
KillFails ==
  /\ sup.pc = "kill"
  /\ IF platform = "posix"
       THEN Settle(sup.outcome, FALSE)
       ELSE sup' = [sup EXCEPT !.pc = "scan", !.mode = "killed"]
  /\ UNCHANGED <<platform, proc, holds>>

\* After the kill the group is polled until it is no longer active.
KilledVerdict ==
  /\ sup.pc = "verdict" /\ sup.mode = "killed"
  /\ IF sup.status = "active"
       THEN sup' = [sup EXCEPT !.pc = "scan"] /\ UNCHANGED proc
       ELSE Settle(sup.outcome, sup.status = "empty" /\ Trusted) /\ Reap
  /\ UNCHANGED <<platform, holds>>

\* Five seconds of an active group are enough: the end is unconfirmed.
GiveUp ==
  /\ sup.pc = "verdict" /\ sup.mode = "killed" /\ sup.status = "active"
  /\ Settle(sup.outcome, FALSE) /\ Reap
  /\ UNCHANGED <<platform, holds>>

\* Mutant of Drain: the streams' end is not part of the confirmation.
DrainTrustsGroup ==
  /\ sup.pc = "drain"
  /\ PromptReaders /\ holds = {} => sup.whole
  /\ sup' = [sup EXCEPT !.pc = "done"]
  /\ proc' = IF platform = "windows" THEN Killed ELSE proc
  /\ UNCHANGED <<platform, holds>>

\* _join_reader_threads: confirmation needs both streams at their end. A holder
\* of the pipes, or a slow reader, outlasts the drain's window. Windows closes
\* the job on the way out, which ends whatever is still in it.
Drain ==
  /\ sup.pc = "drain"
  /\ PromptReaders /\ holds = {} => sup.whole
  /\ sup' = [sup EXCEPT !.pc = "done", !.confirmed = @ /\ sup.whole]
  /\ proc' = IF platform = "windows" THEN Killed ELSE proc
  /\ UNCHANGED <<platform, holds>>

\* The caller takes the result.
Collect ==
  /\ sup.pc = "done"
  /\ sup' = NoRun
  /\ proc' = [p \in Procs |-> "none"]
  /\ holds' = {}
  /\ UNCHANGED platform

-----------------------------------------------------------------------------
Program ==
  \/ \E p, q \in Procs : Fork(p, q)
  \/ \E p \in Procs : Exit(p)
  \/ Overflow

Supervisor ==
  \/ Contain \/ ContainFails \/ Turn
  \/ ScanBegin \/ ScanEnd \/ ScanFails
  \/ \E p \in Procs : ScanEntry(p)
  \/ PollVerdict \/ FinalVerdict \/ KilledVerdict
  \/ GiveUp \/ Kill \/ KillFails \/ Drain

SupStep == Program \/ Supervisor \/ ReadersEnd \/ Expire

\* The supervisor's thread, its readers and the clock go on: the deadline comes,
\* and so does the end of the five seconds after a kill, however often the group
\* is polled until then. Nothing is assumed of the program.
SupFairness ==
  /\ WF_supVars(Supervisor) /\ WF_supVars(Expire) /\ SF_supVars(GiveUp)
  /\ WF_supVars(ReadersEnd)

-----------------------------------------------------------------------------
(* Properties *)

\* Confirmed stop evidence (jobs/processes.py, ProcessStopEvidence.confirmed)
\* means that no member of the group is alive: neither a descendant forked
\* while /proc was being read entry by entry, nor one a timeout has to kill,
\* survives a run that is reported as stopped.
ConfirmedMeansGone == sup.pc = "done" /\ sup.confirmed => Live = {}

=============================================================================
