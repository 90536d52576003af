---------------------------- MODULE MCGitEvidence ----------------------------
(***************************************************************************)
(* Instances of GitEvidence for TLC: one run captures its last commit of a *)
(* short history and repeats the call; a second run may take the ticket.   *)
(***************************************************************************)
EXTENDS GitEvidence

CONSTANTS root, d1, d2, c1, c2, j1, j2, main, w1, w2, A, B

\* Both calls are one operation of the first run.
MCCallJob == [c \in Calls |-> j1]
MCCallOp == [c \in Calls |-> "op"]
MCCallEnd == [c \in Calls |-> 1]

\* Commits 0 and 1 in one line; commit 1 changes the file f.
MCAncestors == [x \in Commits |-> 0..x]
MCChanged == [x \in Commits |-> IF x = 0 THEN {} ELSE Files]
MCLaunchRead == [j \in Jobs |-> Files]
MCLaunchSpace == [j \in Jobs |-> w1]
MCAllowedRefs == [p \in Policies |-> IF p = "restricted" THEN {main} ELSE {}]

\* B is another clone of the same history, its branch at the last commit.
MCObjects == [x \in Repositories |-> {0, 1}]
MCFirstRepository == [w \in Workspaces |-> IF w = w1 THEN A ELSE B]

\* Supervision and everything around it touch different variables, so a
\* supervised run behaves alike whatever state the world is in. It is followed
\* step by step from one initial state, where nothing else has happened yet;
\* elsewhere its result is taken at once, good or bad.
MCDetailed ==
  /\ config.policy = "open" /\ heads[A][main] = 1
  /\ edits = 0 /\ moves = 0 /\ ticket.revision = 1 /\ open = Jobs
  /\ \A c \in Calls \ {using} : call[c].pc = "idle"

MCResult ==
  /\ sup.pc = "setup" /\ ~MCDetailed
  /\ \E o \in {"exited", "timeout"} :
       /\ o = "exited" => call[using].read = "ok"
       /\ sup' = [NoRun EXCEPT !.pc = "done", !.outcome = o, !.whole = TRUE]
  /\ proc' = [p \in Procs |-> "gone"] /\ holds' = {}
  /\ UNCHANGED <<platform, gitVars>>

\* For the same reason a command's begin, its read of the repository with the
\* changes around it, and its end are the only points at which the world and
\* a supervised run have to be interleaved.
\* The platform matters to nothing but a supervised run, so the second one is
\* followed without the changes around it. The session of the run that makes no
\* call stays open.
MCPlain ==
  /\ j2 \in open'
  /\ platform = "windows" => edits' + moves' = 0 /\ \E c \in Calls : call'[c].pc = "idle"

MCNext ==
  \/ using = NoCall /\ Next /\ MCPlain /\ at'[w2] = at[w2]
  \/ /\ using # NoCall
     /\ \/ MCResult
        \/ sup.pc = "setup" /\ (GitReads(using) \/ MoveRef \/ (Replace /\ at'[w2] = at[w2]) \/ WorkerDies(CallJob[using]))
        \/ sup.pc # "done" /\ (sup.pc = "setup" => MCDetailed) /\ Supervise
        \/ RangeRead(using) \/ RefProven(using)

\* The first run's ticket is its own or free, and its workspace is in force.
MCInit == /\ Init /\ config.workspace = w1 /\ ticket.owner \in {j1, NoJob}
          /\ heads[B][main] = 1
          /\ ticket.owner = NoJob => config.policy = "open" /\ heads[A][main] = 0

MCSpec == MCInit /\ [][MCNext]_vars
MCFairSpec == MCSpec /\ Fairness /\ WF_vars(MCResult)

=============================================================================
