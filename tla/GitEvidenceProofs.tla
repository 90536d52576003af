-------------------------- MODULE GitEvidenceProofs --------------------------
(***************************************************************************)
(* Theorems about modules Supervision and GitEvidence, for any processes,  *)
(* calls, jobs, files, histories, repositories and policies.               *)
(***************************************************************************)
EXTENDS GitEvidence, TLAPS

-----------------------------------------------------------------------------
(* Supervision *)

\* What a step of a capture may do with the supervisor.
SupMove == SupStep \/ Start \/ StartFails \/ Collect \/ UNCHANGED supVars

\* How a run goes on after a verdict on its group, or a kill that failed.
Judged == PollVerdict \/ FinalVerdict \/ KilledVerdict \/ GiveUp \/ KillFails

\* What an end of a run, confirmed or not, leaves to the drain.
LEMMA SettleSets ==
  ASSUME SupTypeOK, NEW outcome \in Outcomes, NEW confirmed \in BOOLEAN,
         Settle(outcome, confirmed)
  PROVE  /\ sup' = [pc |-> "drain", mode |-> "poll", todo |-> {}, status |-> "active",
                    rootSeen |-> FALSE, identity |-> FALSE, over |-> sup.over,
                    expired |-> FALSE, whole |-> sup.whole, outcome |-> outcome,
                    confirmed |-> confirmed]
         /\ sup.over \in BOOLEAN /\ sup.whole \in BOOLEAN
  BY DEF SupTypeOK, Settle, NoRun

\* A run is settled as confirmed only if its group was found empty; no verdict
\* ends a live process.
LEMMA JudgedStep ==
  ASSUME SupTypeOK, Judged
  PROVE  /\ SupTypeOK'
         /\ Live' = Live /\ platform' = platform /\ holds' = holds
         /\ sup'.whole = sup.whole /\ sup'.pc \notin {"read", "done"}
         /\ sup.pc \in {"verdict", "kill"} /\ sup'.status \in {"active", sup.status}
         /\ \/ sup'.confirmed = sup.confirmed
            \/ sup'.confirmed => sup'.pc = "drain" /\ sup.status = "empty"
<1> DEFINE Goal(proved) ==
             /\ SupTypeOK' /\ sup'.whole = sup.whole /\ sup'.pc \notin {"read", "done"}
             /\ sup'.status \in {"active", sup.status}
             /\ \/ sup'.confirmed = sup.confirmed
                \/ sup'.confirmed => sup'.pc = "drain" /\ proved
<1>1. /\ Live' = Live /\ platform' = platform /\ holds' = holds
      /\ proc' \in [Procs -> {"none", "running", "dying", "zombie", "gone"}]
      /\ sup.pc \in {"verdict", "kill"}
  <2>1. UNCHANGED <<platform, holds>> /\ sup.pc \in {"verdict", "kill"} /\ (Reap \/ UNCHANGED proc)
    BY DEF Judged, PollVerdict, FinalVerdict, KilledVerdict, GiveUp, KillFails
  <2> QED
    BY <2>1, SupervisionAssumption DEF SupTypeOK, Reap, Live
<1>2. ASSUME NEW outcome \in Outcomes, NEW confirmed \in BOOLEAN, Settle(outcome, confirmed)
      PROVE  Goal(confirmed)
  <2>1. sup' = [pc |-> "drain", mode |-> "poll", todo |-> {}, status |-> "active",
                rootSeen |-> FALSE, identity |-> FALSE, over |-> sup.over,
                expired |-> FALSE, whole |-> sup.whole, outcome |-> outcome,
                confirmed |-> confirmed]
    BY <1>2, SettleSets
  <2>2. sup.over \in BOOLEAN /\ sup.whole \in BOOLEAN
    BY <1>2, SettleSets
  <2>3. SupTypeOK'
    BY <1>1, <2>1, <2>2 DEF SupTypeOK
  <2>4. /\ sup'.whole = sup.whole /\ sup'.pc = "drain"
        /\ sup'.status = "active" /\ sup'.confirmed = confirmed
    BY <2>1
  <2> QED
    BY <2>3, <2>4
<1>3. ASSUME NEW pc \in {"loop", "kill", "scan"}, NEW mode \in {"poll", "final", "killed"},
             NEW status \in {"active", sup.status},
             sup' = [sup EXCEPT !.pc = pc, !.mode = mode, !.status = status]
      PROVE  Goal(FALSE)
  BY <1>1, <1>3 DEF SupTypeOK
<1>4. /\ sup.outcome \in Outcomes /\ "exited" \in Outcomes /\ "timeout" \in Outcomes
      /\ sup.mode \in {"poll", "final", "killed"}
      /\ (sup.status = "empty" /\ Trusted) \in BOOLEAN
  BY DEF SupTypeOK, Outcomes
<1>5. ASSUME NEW confirmed \in BOOLEAN, Goal(confirmed), confirmed => sup.status = "empty"
      PROVE  Goal(sup.status = "empty")
  BY <1>5
<1> HIDE DEF Goal
<1>6. Goal(sup.status = "empty")
  <2>1. CASE PollVerdict
    <3>1. CASE sup.rootSeen /\ sup.status \in {"empty", "unknown"}
      <4>1. Settle("exited", sup.status = "empty" /\ Trusted)
        BY <2>1, <3>1 DEF PollVerdict
      <4> QED
        BY <4>1, <1>2, <1>4, <1>5
    <3>2. CASE ~(sup.rootSeen /\ sup.status \in {"empty", "unknown"})
      <4>1. sup' = [sup EXCEPT !.pc = "loop", !.mode = sup.mode, !.status = "active"]
        BY <2>1, <3>2 DEF PollVerdict, SupTypeOK
      <4> QED
        BY <4>1, <1>3, <1>4, <1>5
    <3> QED
      BY <3>1, <3>2
  <2>2. CASE FinalVerdict
    <3>1. CASE sup.status = "active"
      <4>1. sup' = [sup EXCEPT !.pc = "kill", !.mode = sup.mode, !.status = sup.status]
        BY <2>2, <3>1 DEF FinalVerdict, SupTypeOK
      <4> QED
        BY <4>1, <1>3, <1>4, <1>5
    <3>2. CASE sup.status # "active"
      <4>1. Settle("timeout", FALSE)
        BY <2>2, <3>2 DEF FinalVerdict
      <4> QED
        BY <4>1, <1>2, <1>4, <1>5
    <3> QED
      BY <3>1, <3>2
  <2>3. CASE KilledVerdict
    <3>1. CASE sup.status = "active"
      <4>1. sup' = [sup EXCEPT !.pc = "scan", !.mode = sup.mode, !.status = sup.status]
        BY <2>3, <3>1 DEF KilledVerdict, SupTypeOK
      <4> QED
        BY <4>1, <1>3, <1>4, <1>5
    <3>2. CASE sup.status # "active"
      <4>1. Settle(sup.outcome, sup.status = "empty" /\ Trusted)
        BY <2>3, <3>2 DEF KilledVerdict
      <4> QED
        BY <4>1, <1>2, <1>4, <1>5
    <3> QED
      BY <3>1, <3>2
  <2>4. CASE GiveUp
    <3>1. Settle(sup.outcome, FALSE)
      BY <2>4 DEF GiveUp
    <3> QED
      BY <3>1, <1>2, <1>4, <1>5
  <2>5. CASE KillFails
    <3>1. CASE platform = "posix"
      <4>1. Settle(sup.outcome, FALSE)
        BY <2>5, <3>1 DEF KillFails
      <4> QED
        BY <4>1, <1>2, <1>4, <1>5
    <3>2. CASE platform # "posix"
      <4>1. sup' = [sup EXCEPT !.pc = "scan", !.mode = "killed", !.status = sup.status]
        BY <2>5, <3>2 DEF KillFails, SupTypeOK
      <4> QED
        BY <4>1, <1>3, <1>4, <1>5
    <3> QED
      BY <3>1, <3>2
  <2> QED
    BY <2>1, <2>2, <2>3, <2>4, <2>5 DEF Judged
<1> QED
  BY <1>1, <1>6 DEF Goal

\* Every step of a supervised run keeps the types.
LEMMA SupTypeStep == SupTypeOK /\ SupMove => SupTypeOK'
<1> SUFFICES ASSUME SupTypeOK, SupMove PROVE SupTypeOK'
  OBVIOUS
<1> DEFINE Runs == [pc : {"idle", "setup", "loop", "scan", "read", "verdict", "kill", "drain", "done"},
                    mode : {"poll", "final", "killed"}, todo : SUBSET Procs,
                    status : {"active", "empty", "unknown"}, rootSeen : BOOLEAN,
                    identity : BOOLEAN, over : BOOLEAN, expired : BOOLEAN,
                    whole : BOOLEAN, outcome : Outcomes, confirmed : BOOLEAN]
<1> HIDE DEF Runs
<1> USE SupervisionAssumption DEF SupTypeOK, NoRun, Outcomes
<1>1. ASSUME NEW p \in Procs, NEW q \in Procs, Fork(p, q) PROVE SupTypeOK'
  BY <1>1 DEF Fork
<1>2. ASSUME NEW p \in Procs, Exit(p) PROVE SupTypeOK'
  BY <1>2 DEF Exit
<1>3. CASE Overflow
  BY <1>3 DEF Overflow
<1>4. CASE ReadersEnd
  BY <1>4 DEF ReadersEnd
<1>5. CASE Start
  BY <1>5 DEF Start
<1>6. CASE StartFails
  BY <1>6 DEF StartFails
<1>7. CASE Contain
  BY <1>7 DEF Contain, IdentityRead
<1>8. CASE ContainFails
  BY <1>8 DEF ContainFails, Uncontained
<1>9. CASE Expire
  BY <1>9 DEF Expire
<1>10. CASE Turn
  <2>1. /\ Stop("timeout") \in Runs /\ Stop("output-limit") \in Runs /\ Poll \in Runs
        /\ [sup EXCEPT !.pc = "scan", !.mode = "final", !.outcome = "timeout"] \in Runs
    BY DEF Runs, Stop, Poll, RootDone
  <2>2. sup' \in Runs /\ UNCHANGED <<platform, proc, holds>>
    BY <1>10, <2>1 DEF Turn, PosixTurn, WindowsTurn, Runs
  <2> QED
    BY <2>2 DEF Runs
<1>11. CASE ScanBegin
  BY <1>11 DEF ScanBegin, JobStatus, Live
<1>12. ASSUME NEW p \in Procs, ScanEntry(p) PROVE SupTypeOK'
  BY <1>12 DEF ScanEntry
<1>13. CASE ScanEnd
  BY <1>13 DEF ScanEnd
<1>14. CASE ScanFails
  BY <1>14 DEF ScanFails
<1>15. CASE Judged
  BY <1>15, JudgedStep
<1>16. CASE Kill
  BY <1>16 DEF Kill, Killed
<1>17. CASE Drain
  BY <1>17 DEF Drain, Killed
<1>18. CASE Collect
  BY <1>18 DEF Collect
<1>19. CASE UNCHANGED supVars
  BY <1>19 DEF supVars
<1> QED
  BY <1>1, <1>2, <1>3, <1>4, <1>5, <1>6, <1>7, <1>8, <1>9, <1>10, <1>11, <1>12, <1>13,
     <1>14, <1>15, <1>16, <1>17, <1>18, <1>19
     DEF SupMove, SupStep, Program, Supervisor, Judged

\* Processes that hold the pipes: every live one, as long as none lets go of
\* them. Readers at their end have seen nobody left.
PipesInv ==
  /\ Live \subseteq holds
  /\ sup.whole => holds = {}
  /\ sup.confirmed => sup.pc \in {"drain", "done"}
  /\ sup.confirmed /\ sup.pc = "done" => sup.whole

\* A job object that was counted empty stays empty.
JobInv ==
  /\ platform = "windows"
  /\ sup.pc # "read"
  /\ sup.status = "empty" \/ sup.confirmed => Live = {}

\* A descendant holds what its parent holds: the end of the streams is the end
\* of the group, however the group was scanned.
LEMMA PipesStep ==
  ASSUME Detaches = FALSE
  PROVE  SupTypeOK /\ PipesInv /\ SupMove => PipesInv'
<1> SUFFICES ASSUME SupTypeOK, PipesInv, SupMove PROVE PipesInv'
  OBVIOUS
<1> USE SupervisionAssumption DEF SupTypeOK, NoRun, Outcomes, PipesInv, Live
<1>1. ASSUME NEW p \in Procs, NEW q \in Procs, Fork(p, q) PROVE PipesInv'
  BY <1>1 DEF Fork
<1>2. ASSUME NEW p \in Procs, Exit(p) PROVE PipesInv'
  BY <1>2 DEF Exit
<1>3. CASE Overflow
  BY <1>3 DEF Overflow
<1>4. CASE ReadersEnd
  BY <1>4 DEF ReadersEnd
<1>5. CASE Start
  BY <1>5 DEF Start
<1>6. CASE StartFails
  BY <1>6 DEF StartFails
<1>7. CASE Contain
  BY <1>7 DEF Contain, IdentityRead
<1>8. CASE ContainFails
  BY <1>8 DEF ContainFails, Uncontained
<1>9. CASE Expire
  BY <1>9 DEF Expire
<1>10. CASE Turn
  BY <1>10 DEF Turn, PosixTurn, WindowsTurn, Stop, Poll, RootDone
<1>11. CASE ScanBegin
  BY <1>11 DEF ScanBegin, JobStatus
<1>12. ASSUME NEW p \in Procs, ScanEntry(p) PROVE PipesInv'
  BY <1>12 DEF ScanEntry
<1>13. CASE ScanEnd
  BY <1>13 DEF ScanEnd
<1>14. CASE ScanFails
  BY <1>14 DEF ScanFails
<1>15. CASE Judged
  BY <1>15, JudgedStep
<1>16. CASE Kill
  BY <1>16 DEF Kill, Killed
<1>17. CASE Drain
  BY <1>17 DEF Drain, Killed
<1>18. CASE Collect
  BY <1>18 DEF Collect
<1>19. CASE UNCHANGED supVars
  BY <1>19 DEF supVars
<1> QED
  BY <1>1, <1>2, <1>3, <1>4, <1>5, <1>6, <1>7, <1>8, <1>9, <1>10, <1>11, <1>12, <1>13,
     <1>14, <1>15, <1>16, <1>17, <1>18, <1>19
     DEF SupMove, SupStep, Program, Supervisor, Judged

\* The members of a job object are counted at once, and only a live member
\* forks: empty once is empty for good.
LEMMA JobStep == SupTypeOK /\ JobInv /\ SupMove => JobInv'
<1> SUFFICES ASSUME SupTypeOK, JobInv, SupMove PROVE JobInv'
  OBVIOUS
<1> USE SupervisionAssumption DEF SupTypeOK, NoRun, Outcomes, JobInv, Live
<1>1. ASSUME NEW p \in Procs, NEW q \in Procs, Fork(p, q) PROVE JobInv'
  BY <1>1 DEF Fork
<1>2. ASSUME NEW p \in Procs, Exit(p) PROVE JobInv'
  BY <1>2 DEF Exit
<1>3. CASE Overflow
  BY <1>3 DEF Overflow
<1>4. CASE ReadersEnd
  BY <1>4 DEF ReadersEnd
<1>5. CASE Start
  BY <1>5 DEF Start
<1>6. CASE StartFails
  BY <1>6 DEF StartFails
<1>7. CASE Contain
  BY <1>7 DEF Contain, IdentityRead
<1>8. CASE ContainFails
  BY <1>8 DEF ContainFails, Uncontained
<1>9. CASE Expire
  BY <1>9 DEF Expire
<1>10. CASE Turn
  BY <1>10 DEF Turn, PosixTurn, WindowsTurn, Stop, Poll, RootDone
<1>11. CASE ScanBegin
  BY <1>11 DEF ScanBegin, JobStatus
<1>12. ASSUME NEW p \in Procs, ScanEntry(p) PROVE JobInv'
  BY <1>12 DEF ScanEntry
<1>13. CASE ScanEnd
  BY <1>13 DEF ScanEnd
<1>14. CASE ScanFails
  BY <1>14 DEF ScanFails
<1>15. CASE Judged
  BY <1>15, JudgedStep
<1>16. CASE Kill
  BY <1>16 DEF Kill, Killed
<1>17. CASE Drain
  BY <1>17 DEF Drain, Killed
<1>18. CASE Collect
  BY <1>18 DEF Collect
<1>19. CASE UNCHANGED supVars
  BY <1>19 DEF supVars
<1> QED
  BY <1>1, <1>2, <1>3, <1>4, <1>5, <1>6, <1>7, <1>8, <1>9, <1>10, <1>11, <1>12, <1>13,
     <1>14, <1>15, <1>16, <1>17, <1>18, <1>19
     DEF SupMove, SupStep, Program, Supervisor, Judged

-----------------------------------------------------------------------------
(* The invariant of captures *)

Contexts == {<<NoPolicy>>} \cup (Policies \X Workspaces)
Versions == [revision : Nat, context : Contexts, workflow : Nat]
CallRecords ==
  [pc : {"idle"} \cup InCall \cup Ended, version : Versions, ref : Refs \cup {NoRef},
   policy : Policies \cup {NoPolicy},
   workspace : Workspaces \cup {NoRepository}, readable : SUBSET Files,
   repository : Repositories \cup {NoRepository}, read : {"no", "ok", "bad"},
   whole : BOOLEAN, seen : Commits \cup {NoCommit},
   refs : Repositories \cup {NoRepository}]

TicketRecords ==
  [owner : Jobs \cup {NoJob}, revision : Nat, events : SUBSET Artifacts,
   receipts : SUBSET {CallOp[c] : c \in Calls},
   value : Artifacts \cup {NoArtifact}]

\* The locals of a call are what its step has set.
CallInv ==
  /\ call \in [Calls -> CallRecords] /\ edits \in Nat
  /\ ticket \in TicketRecords
  /\ \A c \in Calls :
       /\ call[c].pc \in InCall \ {"prepare"} =>
            call[c].workspace \in Workspaces /\ call[c].policy \in Policies
       /\ call[c].pc \in InCall \ {"prepare", "open"} => call[c].repository \in Repositories

\* The team's operation lock covers the commit of a capture.
LockInv == \A c \in Calls : call[c].pc \in {"apply", "write"} => lock = c

\* An operation with an event has its receipt; while a record is written the
\* artifact is there and the operation is not on record.
ReceiptInv ==
  /\ \A a \in ticket.events : CallOp[a.call] \in ticket.receipts
  /\ \A c \in Calls : call[c].pc = "write" => Manifest(c) \in retained /\ ~Recorded(c)

\* A call that reads has its private session, and commands run for calls that read.
SessionInv ==
  /\ \A c \in Calls : call[c].pc \in {"range", "select", "probe"} => c \in sessions
  /\ using # NoCall => using \in Calls /\ call[using].pc \in {"range", "probe"}

\* What the locked commit has verified: the version the call names was made
\* under its plan, and the captured paths were readable then.
PlanInv ==
  \A c \in Calls : call[c].pc = "apply" =>
    /\ call[c].version.context = <<call[c].policy, call[c].workspace>>
    /\ Authorized(c, call[c].readable)

GitInv == /\ TypeOK /\ CallInv /\ LockInv /\ ReceiptInv /\ SessionInv /\ PlanInv
          /\ OneEventPerOperation /\ SessionsOwned

\* Steps of everyone else, which touch no call.
AroundStep ==
  \/ Supervise
  \/ \E j \in Jobs : StartWork(j) \/ CloseSession(j)
  \/ Report \/ Release
  \/ \E a \in retained : UseEvidence(a)
  \/ EditPolicy \/ EditReadable \/ EditWorkspace \/ EditWorkflow
  \/ MoveRef \/ Replace
  \/ UNCHANGED vars

\* What no step around the calls changes.
LEMMA AroundLeavesCalls ==
  ASSUME TypeOK, CallInv, AroundStep
  PROVE  /\ UNCHANGED <<call, sessions, lock, using, retained>>
         /\ ticket'.events = ticket.events /\ ticket'.receipts = ticket.receipts
         /\ ticket' \in TicketRecords
         /\ ticket'.value \in ticket.events \cup {NoArtifact}
         /\ edits' \in Nat /\ open' \subseteq Jobs
<1> DEFINE Goal ==
      /\ UNCHANGED <<call, sessions, lock, using, retained>>
      /\ ticket'.events = ticket.events /\ ticket'.receipts = ticket.receipts
      /\ ticket' \in TicketRecords
      /\ ticket'.value \in ticket.events \cup {NoArtifact}
      /\ edits' \in Nat /\ open' \subseteq Jobs
<1> USE DEF TypeOK, CallInv
<1>r. ASSUME NEW next \in TicketRecords, Revise(next),
             next.events = ticket.events, next.receipts = ticket.receipts,
             next.value \in ticket.events \cup {NoArtifact}
      PROVE  Goal
  BY <1>r DEF Revise, TicketRecords
<1> HIDE DEF Goal
<1>2. CASE Supervise
  BY <1>2 DEF Goal, Supervise, gitVars
<1>3. ASSUME NEW j \in Jobs, StartWork(j) PROVE Goal
  <2>1. /\ [ticket EXCEPT !.owner = j] \in TicketRecords
        /\ [ticket EXCEPT !.owner = j].events = ticket.events
        /\ [ticket EXCEPT !.owner = j].receipts = ticket.receipts
        /\ [ticket EXCEPT !.owner = j].value = ticket.value
    BY DEF TicketRecords
  <2> QED
    BY <1>3, <1>r, <2>1 DEF StartWork
<1>4. ASSUME NEW j \in Jobs, CloseSession(j) PROVE Goal
  BY <1>4 DEF Goal, CloseSession
<1>5. CASE Report
  BY <1>5 DEF Report, Revise, Goal, TicketRecords
<1>6. CASE Release
  <2>1. /\ [ticket EXCEPT !.owner = NoJob] \in TicketRecords
        /\ [ticket EXCEPT !.owner = NoJob].events = ticket.events
        /\ [ticket EXCEPT !.owner = NoJob].receipts = ticket.receipts
        /\ [ticket EXCEPT !.owner = NoJob].value = ticket.value
    BY DEF TicketRecords
  <2>2. Revise([ticket EXCEPT !.owner = NoJob])
    BY <1>6 DEF Release
  <2>3. ticket.value \in ticket.events \cup {NoArtifact}
    OBVIOUS
  <2>4. Goal
    BY <1>r, <2>1, <2>2, <2>3
  <2> QED
    BY <2>4 DEF Goal
<1>7. ASSUME NEW a \in retained, UseEvidence(a) PROVE Goal
  <2>1. a \in ticket.events /\ a \in Artifacts
    BY <1>7 DEF UseEvidence, Trustworthy
  <2>2. /\ [ticket EXCEPT !.value = a] \in TicketRecords
        /\ [ticket EXCEPT !.value = a].events = ticket.events
        /\ [ticket EXCEPT !.value = a].receipts = ticket.receipts
        /\ [ticket EXCEPT !.value = a].value = a
    BY <2>1 DEF TicketRecords
  <2> QED
    BY <1>7, <1>r, <2>1, <2>2 DEF UseEvidence
<1>8. CASE EditPolicy \/ EditReadable \/ EditWorkspace \/ EditWorkflow
  BY <1>8 DEF Goal, EditPolicy, EditReadable, EditWorkspace, EditWorkflow, Edit
<1>9. CASE MoveRef \/ Replace
  BY <1>9 DEF Goal, MoveRef, Replace, Move
<1>10. CASE UNCHANGED vars
  BY <1>10 DEF Goal, vars, gitVars
<1> QED
  BY <1>2, <1>3, <1>4, <1>5, <1>6, <1>7, <1>8, <1>9, <1>10 DEF AroundStep, Goal

\* The configuration, the paths and the branches keep their types, whoever
\* edits and moves them.
LEMMA AroundKeepsTypes ==
  ASSUME TypeOK, CallInv, AroundStep
  PROVE  /\ config' \in [policy : Policies \cup {NoPolicy}, workspace : Workspaces,
                         readable : SUBSET Files, workflow : 0..MaxEdits]
         /\ at' \in [Workspaces -> Repositories \cup {NoRepository}]
         /\ heads' \in [Repositories -> [Refs -> Commits \cup {NoCommit}]]
<1> DEFINE Configs == [policy : Policies \cup {NoPolicy}, workspace : Workspaces,
                       readable : SUBSET Files, workflow : 0..MaxEdits]
           Paths == [Workspaces -> Repositories \cup {NoRepository}]
           Branches == [Repositories -> [Refs -> Commits \cup {NoCommit}]]
<1>1. config \in Configs /\ at \in Paths /\ heads \in Branches /\ edits \in Nat
  BY DEF TypeOK, CallInv
<1>2. CASE UNCHANGED <<config, at, heads>>
  BY <1>1, <1>2
<1>3. CASE EditPolicy
  BY <1>1, <1>3 DEF EditPolicy, Edit
<1>4. CASE EditReadable
  BY <1>1, <1>4 DEF EditReadable, Edit
<1>5. CASE EditWorkspace
  BY <1>1, <1>5 DEF EditWorkspace, Edit
<1>6. CASE EditWorkflow
  <2>1. edits + 1 \in 0..MaxEdits
    BY <1>1, <1>6, GitAssumption DEF EditWorkflow, Edit
  <2> QED
    BY <1>1, <1>6, <2>1 DEF EditWorkflow, Edit
<1>7. CASE MoveRef
  <2>1. UNCHANGED <<config, at>>
    BY <1>7 DEF MoveRef, Move
  <2>2. PICK r \in Repositories, f \in Refs : \E x \in Objects[r] :
          heads' = [heads EXCEPT ![r][f] = x]
    BY <1>7 DEF MoveRef
  <2>3. Objects[r] \subseteq Commits
    BY GitAssumption
  <2> QED
    BY <1>1, <2>1, <2>2, <2>3
<1>8. CASE Replace
  BY <1>1, <1>8 DEF Replace, Move
<1>9. AroundStep => \/ UNCHANGED <<config, at, heads>>
                    \/ EditPolicy \/ EditReadable \/ EditWorkspace \/ EditWorkflow
                    \/ MoveRef \/ Replace
  BY DEF AroundStep, Supervise, gitVars, vars, StartWork, CloseSession, Report, Release,
         UseEvidence, Revise
<1> QED
  BY <1>2, <1>3, <1>4, <1>5, <1>6, <1>7, <1>8, <1>9

\* No step of everyone else starts or resets a supervised run.
LEMMA AroundSupervises == AroundStep => SupMove
  BY DEF AroundStep, Supervise, SupMove, vars, StartWork, CloseSession, Report, Release,
         UseEvidence, Revise, EditPolicy, EditReadable, EditWorkspace, EditWorkflow, Edit,
         MoveRef, Replace, Move

\* No step of everyone else disturbs what the calls rely on.
LEMMA AroundKeeps == GitInv /\ AroundStep => GitInv'
<1> SUFFICES ASSUME GitInv, AroundStep PROVE GitInv'
  OBVIOUS
<1>1. TypeOK /\ CallInv
  BY DEF GitInv
<1>2. /\ UNCHANGED <<call, sessions, lock, using, retained>>
      /\ ticket'.events = ticket.events /\ ticket'.receipts = ticket.receipts
      /\ ticket' \in TicketRecords
      /\ ticket'.value \in ticket.events \cup {NoArtifact}
      /\ edits' \in Nat /\ open' \subseteq Jobs
  BY <1>1, AroundLeavesCalls
<1>3. SupTypeOK'
  BY <1>1, AroundSupervises, SupTypeStep DEF TypeOK
<1>4. TypeOK'
  BY <1>1, <1>2, <1>3, AroundKeepsTypes DEF TypeOK, TicketRecords
<1>5. CallInv'
  BY <1>1, <1>2 DEF CallInv
<1>6. LockInv' /\ SessionInv' /\ PlanInv' /\ SessionsOwned'
  BY <1>2 DEF GitInv, LockInv, SessionInv, PlanInv, SessionsOwned, Authorized
<1>7. ReceiptInv' /\ OneEventPerOperation'
  BY <1>2 DEF GitInv, ReceiptInv, OneEventPerOperation, Recorded, Manifest
<1> QED
  BY <1>4, <1>5, <1>6, <1>7 DEF GitInv

-----------------------------------------------------------------------------
(* The steps of a capture *)

\* What the locals of a call that goes on must be.
NextLocals(c, next) ==
  /\ next \in CallRecords /\ next.pc # "write"
  /\ next.pc \in InCall \ {"prepare"} => next.workspace \in Workspaces /\ next.policy \in Policies
  /\ next.pc \in InCall \ {"prepare", "open"} => next.repository \in Repositories
  /\ next.pc = "apply" =>
       /\ next.version.context = <<next.policy, next.workspace>>
       /\ Changed[CallEnd[c]] \subseteq LaunchRead[CallJob[c]] \cap next.readable

\* How a step of a call handles the lock, its private session and its command.
Handles(c, pc) ==
  /\ \/ lock' = lock /\ (pc = "apply" => lock = c)
     \/ lock = NoCall /\ lock' = c
     \/ lock = c /\ lock' = NoCall /\ pc # "apply"
  /\ sessions' \in SUBSET Calls /\ sessions' \ {c} = sessions \ {c}
  /\ c \in sessions' <=> pc \in {"range", "select", "probe"}
  /\ \/ using' = NoCall
     \/ using' = c /\ pc \in {"range", "probe"}
     \/ using' = using /\ using # c

\* A step of a call that stores nothing keeps the invariant.
LEMMA CallKeeps ==
  ASSUME GitInv, NEW c \in Calls, NEW next, Continue(c, next), NextLocals(c, next),
         Handles(c, next.pc), SupMove,
         UNCHANGED <<config, at, heads, ticket, retained, open, edits>>
  PROVE  GitInv'
<1>1. /\ call \in [Calls -> CallRecords]
      /\ call' \in [Calls -> CallRecords] /\ call'[c] = next
      /\ \A d \in Calls : d # c => call'[d] = call[d]
  BY DEF GitInv, CallInv, Continue, NextLocals
<1> HIDE DEF Continue
<1>2. SupTypeOK'
  BY SupTypeStep DEF GitInv, TypeOK
<1>3. TypeOK'
  <2>1. \A d \in Calls : call'[d].pc \in {"idle"} \cup InCall \cup Ended
    BY <1>1 DEF CallRecords
  <2>2. sessions' \subseteq Calls /\ lock' \in Calls \cup {NoCall} /\ using' \in Calls \cup {NoCall}
    BY DEF GitInv, TypeOK, Handles
  <2> QED
    BY <1>2, <2>1, <2>2 DEF GitInv, TypeOK
<1>4. CallInv'
  <2>1. ASSUME NEW d \in Calls
        PROVE  /\ call'[d].pc \in InCall \ {"prepare"} =>
                    call'[d].workspace \in Workspaces /\ call'[d].policy \in Policies
               /\ call'[d].pc \in InCall \ {"prepare", "open"} =>
                    call'[d].repository \in Repositories
    BY <1>1 DEF GitInv, CallInv, NextLocals
  <2> QED
    BY <1>1, <2>1 DEF GitInv, CallInv
<1>5. LockInv'
  <2> SUFFICES ASSUME NEW d \in Calls, call'[d].pc \in {"apply", "write"} PROVE lock' = d
    BY DEF LockInv
  <2>1. d # c => lock = d
    BY <1>1 DEF GitInv, LockInv
  <2> QED
    BY <1>1, <2>1, GitAssumption DEF NextLocals, Handles
<1>6. ReceiptInv' /\ OneEventPerOperation'
  <2>1. ASSUME NEW d \in Calls, call'[d].pc = "write"
        PROVE  Manifest(d)' \in retained' /\ ~Recorded(d)'
    <3>1. d # c /\ call'[d] = call[d]
      BY <1>1, <2>1 DEF NextLocals
    <3>2. Manifest(d)' = Manifest(d) /\ Recorded(d)' = Recorded(d)
      BY <3>1 DEF Manifest, Recorded
    <3> QED
      BY <2>1, <3>1, <3>2 DEF GitInv, ReceiptInv
  <2> QED
    BY <2>1 DEF GitInv, ReceiptInv, OneEventPerOperation
<1>7. SessionInv' /\ SessionsOwned'
  <2>1. ASSUME NEW d \in Calls, call'[d].pc \in {"range", "select", "probe"}
        PROVE  d \in sessions'
    BY <1>1, <2>1 DEF GitInv, SessionInv, Handles
  <2>2. ASSUME NEW d \in sessions'
        PROVE  call'[d].pc \in {"range", "select", "probe", "dead"}
    BY <1>1, <2>2 DEF GitInv, SessionsOwned, Handles
  <2>3. using' # NoCall => using' \in Calls /\ call'[using'].pc \in {"range", "probe"}
    BY <1>1 DEF GitInv, SessionInv, Handles
  <2> QED
    BY <2>1, <2>2, <2>3 DEF SessionInv, SessionsOwned
<1>8. PlanInv'
  BY <1>1 DEF GitInv, PlanInv, NextLocals, Authorized
<1> QED
  BY <1>3, <1>4, <1>5, <1>6, <1>7, <1>8 DEF GitInv

\* A call that is over has nothing left but its end.
LEMMA OverEnds ==
  ASSUME CallInv, NEW c \in Calls, NEW how \in Ended
  PROVE  NextLocals(c, Over(c, how)) /\ Over(c, how).pc = how
<1>1. Over(c, how) = [Idle EXCEPT !.pc = how, !.version = call[c].version, !.ref = call[c].ref]
  BY DEF Over
<1>2. call[c].version \in Versions /\ call[c].ref \in Refs \cup {NoRef}
  BY DEF CallInv, CallRecords
<1>3. /\ Over(c, how) = [pc |-> how, version |-> call[c].version, ref |-> call[c].ref,
                         policy |-> NoPolicy, workspace |-> NoRepository, readable |-> {},
                         repository |-> NoRepository, read |-> "no", whole |-> FALSE,
                         seen |-> NoCommit, refs |-> NoRepository]
  BY <1>1 DEF Idle
<1> QED
  BY <1>2, <1>3 DEF NextLocals, CallRecords, InCall, Ended

\* A refused call leaves no lock and no session behind.
LEMMA RefuseKeeps ==
  ASSUME GitInv, NEW c \in Calls, Refuse(c), SupMove,
         using' = NoCall \/ (using' = using /\ using # c),
         UNCHANGED <<config, at, heads, ticket, retained, open, edits>>
  PROVE  GitInv'
<1>1. NextLocals(c, Over(c, "refused")) /\ Over(c, "refused").pc = "refused"
  BY OverEnds DEF GitInv, Ended
<1>2. Handles(c, "refused")
  BY DEF Handles, Refuse, GitInv, TypeOK
<1>3. Continue(c, Over(c, "refused"))
  BY DEF Refuse
<1> QED
  BY <1>1, <1>2, <1>3, CallKeeps

\* A command runs only for a call that reads the range or the ref.
LEMMA UsingReads ==
  ASSUME GitInv, NEW c \in Calls, call[c].pc \notin {"range", "probe"}
  PROVE  using # c
  BY GitAssumption DEF GitInv, SessionInv

\* The version a client is given is one.
LEMMA VersionIsOne == TypeOK /\ CallInv => Version \in Versions
  BY DEF TypeOK, CallInv, TicketRecords, Version, Versions, ContextDigest, Contexts

\* The locals of a call that begins.
Begun(v, f, p) ==
  [pc |-> p, version |-> v, ref |-> f, policy |-> NoPolicy, workspace |-> NoRepository,
   readable |-> {}, repository |-> NoRepository, read |-> "no", whole |-> FALSE,
   seen |-> NoCommit, refs |-> NoRepository]

\* A fresh call takes the version, the ref and the answer of its first check.
LEMMA BegunIs ==
  ASSUME NEW v, NEW f, NEW p, NEW next,
         next = [Idle EXCEPT !.version = v, !.ref = f, !.pc = p]
  PROVE  next = Begun(v, f, p)
  BY DEF Idle, Begun

\* They are locals of a call that goes on.
LEMMA BegunLocals ==
  ASSUME NEW c, NEW v \in Versions, NEW f \in Refs \cup {NoRef},
         NEW p \in {"refused", "replayed", "prepare"}
  PROVE  NextLocals(c, Begun(v, f, p)) /\ Begun(v, f, p).pc = p
  BY DEF Begun, NextLocals, CallRecords, InCall, Ended

\* A call begins with a version the client was given and a ref.
LEMMA CallContinues ==
  ASSUME GitInv, NEW c \in Calls, Call(c)
  PROVE  \E v \in Versions, f \in Refs \cup {NoRef}, p \in {"refused", "replayed", "prepare"} :
           Continue(c, Begun(v, f, p))
<1>1. CallInv /\ TypeOK
  BY DEF GitInv
<1> DEFINE earlier == {d \in Calls \ {c} : CallOp[d] = CallOp[c] /\ call[d].pc # "idle"}
           requests == IF earlier = {} THEN {Version} \X (Refs \cup {NoRef})
                       ELSE {<<call[d].version, call[d].ref>> : d \in earlier}
           begun(request) == [Idle EXCEPT !.version = request[1], !.ref = request[2],
                                          !.pc = IF ~ActiveOwner(c) THEN "refused"
                                                 ELSE IF Recorded(c) THEN "replayed"
                                                 ELSE "prepare"]
<1>2. requests \subseteq Versions \X (Refs \cup {NoRef})
  BY <1>1, VersionIsOne DEF CallInv, CallRecords
<1>3. PICK request \in requests : Continue(c, begun(request))
  BY DEF Call
<1> HIDE DEF requests
<1>4. request[1] \in Versions /\ request[2] \in Refs \cup {NoRef}
  BY <1>2
<1>5. PICK p \in {"refused", "replayed", "prepare"} :
        begun(request) = [Idle EXCEPT !.version = request[1], !.ref = request[2], !.pc = p]
  OBVIOUS
<1> HIDE DEF begun
<1>6. begun(request) = Begun(request[1], request[2], p)
  BY <1>5, BegunIs
<1> QED
  BY <1>3, <1>4, <1>6

\* A call begins.
LEMMA CallBegins == ASSUME GitInv, NEW c \in Calls, Call(c) PROVE GitInv'
<1>1. SupMove /\ UNCHANGED <<config, at, heads, ticket, retained, open, edits>>
  BY DEF Call, SupMove
<1>2. PICK v \in Versions, f \in Refs \cup {NoRef}, p \in {"refused", "replayed", "prepare"} :
        Continue(c, Begun(v, f, p))
  BY CallContinues
<1>3. NextLocals(c, Begun(v, f, p)) /\ Begun(v, f, p).pc = p
  BY BegunLocals
<1>4. call[c].pc = "idle" /\ UNCHANGED <<lock, sessions, using>>
  BY DEF Call
<1>5. Handles(c, p)
  BY <1>4, UsingReads DEF Handles, GitInv, TypeOK, SessionsOwned
<1> QED
  BY <1>1, <1>2, <1>3, <1>5, CallKeeps

\* Git reads the repository for a call.
LEMMA GitReadsKeeps == ASSUME GitInv, NEW c \in Calls, GitReads(c) PROVE GitInv'
<1>1. PICK answer \in {"ok", "bad"} : Continue(c, [call[c] EXCEPT !.read = answer])
  BY DEF GitReads
<1>2. call[c] \in CallRecords /\ call[c].pc \in {"range", "probe"} /\ using = c
  BY GitAssumption DEF GitInv, CallInv, SessionInv, GitReads
<1> DEFINE next == [call[c] EXCEPT !.read = answer]
<1>3. NextLocals(c, next) /\ next.pc = call[c].pc
  BY <1>2 DEF NextLocals, CallRecords, GitInv, CallInv
<1> HIDE DEF next
<1>4. Handles(c, call[c].pc)
  BY <1>2 DEF Handles, GitInv, TypeOK, SessionInv, GitReads
<1>5. SupMove /\ UNCHANGED <<config, at, heads, ticket, retained, open, edits>>
  BY DEF GitReads, SupMove
<1> QED
  BY <1>1, <1>3, <1>4, <1>5, CallKeeps DEF next

\* A call is prepared under the lock.
LEMMA PrepareKeeps == ASSUME GitInv, NEW c \in Calls, Prepare(c) PROVE GitInv'
<1>1. /\ SupMove /\ UNCHANGED <<config, at, heads, ticket, retained, open, edits, using>>
      /\ call[c].pc = "prepare" /\ lock = NoCall
  BY DEF Prepare, SupMove
<1>2. using # c /\ call[c] \in CallRecords
  BY <1>1, UsingReads DEF GitInv, CallInv
<1>3. CASE ContextHolds(c)
  <2> DEFINE next == [call[c] EXCEPT !.pc = "open", !.policy = config.policy,
                                     !.workspace = config.workspace,
                                     !.readable = config.readable]
  <2>1. Continue(c, next) /\ UNCHANGED <<sessions, lock>>
    BY <1>3 DEF Prepare
  <2>2. /\ config.policy \in Policies /\ config.workspace \in Workspaces
        /\ config.readable \in SUBSET Files
    BY <1>3 DEF ContextHolds, GitInv, TypeOK
  <2>3. NextLocals(c, next) /\ next.pc = "open"
    BY <1>2, <2>2 DEF NextLocals, CallRecords, InCall
  <2> HIDE DEF next
  <2>4. Handles(c, "open")
    BY <1>1, <1>2, <2>1 DEF Handles, GitInv, TypeOK, SessionsOwned
  <2> QED
    BY <1>1, <2>1, <2>3, <2>4, CallKeeps
<1>4. CASE ~ContextHolds(c)
  BY <1>1, <1>2, <1>4, RefuseKeeps DEF Prepare
<1> QED
  BY <1>3, <1>4

\* A call opens the repository it found.
LEMMA OpenKeeps == ASSUME GitInv, NEW c \in Calls, OpenRepository(c) PROVE GitInv'
<1>1. /\ SupMove /\ UNCHANGED <<config, at, heads, ticket, retained, open, edits, using>>
      /\ call[c].pc = "open"
  BY DEF OpenRepository, SupMove
<1>2. using # c /\ call[c] \in CallRecords
  BY <1>1, UsingReads DEF GitInv, CallInv
<1>3. CASE Found(c) # NoRepository
  <2> DEFINE next == [call[c] EXCEPT !.pc = "range", !.repository = Found(c)]
  <2>1. Continue(c, next) /\ sessions' = sessions \cup {c} /\ lock' = lock
    BY <1>3 DEF OpenRepository
  <2>2. /\ call[c].workspace \in Workspaces /\ call[c].policy \in Policies
        /\ Found(c) \in Repositories
    BY <1>1, <1>3 DEF GitInv, CallInv, TypeOK, Found, InCall
  <2>3. NextLocals(c, next) /\ next.pc = "range"
    BY <1>2, <2>2 DEF NextLocals, CallRecords, InCall
  <2> HIDE DEF next
  <2>4. Handles(c, "range")
    BY <1>1, <1>2, <2>1 DEF Handles, GitInv, TypeOK
  <2> QED
    BY <1>1, <2>1, <2>3, <2>4, CallKeeps
<1>4. CASE Found(c) = NoRepository
  BY <1>1, <1>2, <1>4, RefuseKeeps DEF OpenRepository
<1> QED
  BY <1>3, <1>4

\* A command is handed to the supervisor.
LEMMA BeginKeeps == ASSUME GitInv, NEW c \in Calls, BeginCommand(c) PROVE GitInv'
<1>1. SupMove /\ UNCHANGED <<config, at, heads, ticket, retained, open, edits>>
  BY DEF BeginCommand, SupMove
<1>2. /\ call[c].pc \in {"range", "probe"} /\ using' = c
      /\ UNCHANGED <<call, sessions, lock>>
  BY DEF BeginCommand
<1>3. call[c] \in CallRecords /\ Continue(c, call[c])
  BY <1>2 DEF GitInv, CallInv, Continue
<1>4. NextLocals(c, call[c])
  BY <1>2, <1>3 DEF NextLocals, GitInv, CallInv
<1>5. Handles(c, call[c].pc)
  BY <1>2 DEF Handles, GitInv, TypeOK, SessionInv
<1> QED
  BY <1>1, <1>3, <1>4, <1>5, CallKeeps

\* The range was read.
LEMMA RangeKeeps == ASSUME GitInv, NEW c \in Calls, RangeRead(c) PROVE GitInv'
<1>1. /\ SupMove /\ UNCHANGED <<config, at, heads, ticket, retained, open, edits>>
      /\ call[c].pc = "range" /\ using' = NoCall
  BY DEF RangeRead, SupMove
<1>2. call[c] \in CallRecords /\ c \in sessions
  BY <1>1 DEF GitInv, CallInv, SessionInv
<1> DEFINE good == /\ CommandGood(c) /\ Authorized(c, call[c].readable)
                   /\ Found(c) = call[c].repository
<1>3. CASE good
  <2> DEFINE whole == PromptReaders \/ sup.whole
             next == [call[c] EXCEPT !.pc = "select", !.read = "no", !.whole = whole]
  <2>1. Continue(c, next) /\ UNCHANGED <<sessions, lock>>
    BY <1>3 DEF RangeRead
  <2>2. /\ call[c].workspace \in Workspaces /\ call[c].policy \in Policies
        /\ call[c].repository \in Repositories
    BY <1>1 DEF GitInv, CallInv, InCall
  <2>3. whole \in BOOLEAN
    OBVIOUS
  <2> HIDE DEF whole
  <2>4. NextLocals(c, next) /\ next.pc = "select"
    BY <1>2, <2>2, <2>3 DEF NextLocals, CallRecords, InCall
  <2> HIDE DEF next
  <2>5. Handles(c, "select")
    BY <1>1, <1>2, <2>1 DEF Handles, GitInv, TypeOK
  <2> QED
    BY <1>1, <2>1, <2>4, <2>5, CallKeeps
<1>4. CASE ~good
  BY <1>1, <1>4, RefuseKeeps DEF RangeRead
<1> QED
  BY <1>3, <1>4

\* The ref that proves the publication is looked up.
LEMMA SelectKeeps == ASSUME GitInv, NEW c \in Calls, SelectRef(c) PROVE GitInv'
<1>1. /\ SupMove /\ UNCHANGED <<config, at, heads, ticket, retained, open, edits, using>>
      /\ call[c].pc = "select"
  BY DEF SelectRef, SupMove
<1>2. /\ using # c /\ call[c] \in CallRecords /\ c \in sessions
      /\ call[c].workspace \in Workspaces /\ call[c].policy \in Policies
      /\ call[c].repository \in Repositories
  BY <1>1, UsingReads DEF GitInv, CallInv, SessionInv, InCall
<1>3. CASE call[c].ref = NoRef /\ AllowedRefs[call[c].policy] = {}
  <2> DEFINE next == [call[c] EXCEPT !.pc = "commit"]
  <2>1. Continue(c, next) /\ sessions' = sessions \ {c} /\ lock' = lock
    BY <1>1, <1>3 DEF SelectRef
  <2>2. NextLocals(c, next) /\ next.pc = "commit"
    BY <1>2 DEF NextLocals, CallRecords, InCall
  <2> HIDE DEF next
  <2>3. Handles(c, "commit")
    BY <1>1, <1>2, <2>1 DEF Handles, GitInv, TypeOK
  <2> QED
    BY <1>1, <2>1, <2>2, <2>3, CallKeeps
<1>4. CASE Refuse(c)
  BY <1>1, <1>2, <1>4, RefuseKeeps
<1>5. ASSUME NEW seen \in Commits,
             Continue(c, [call[c] EXCEPT !.pc = "probe", !.seen = seen, !.refs = Found(c)]),
             UNCHANGED <<sessions, lock>>
      PROVE  GitInv'
  <2> DEFINE next == [call[c] EXCEPT !.pc = "probe", !.seen = seen, !.refs = Found(c)]
  <2>1. Found(c) \in Repositories \cup {NoRepository}
    BY <1>2 DEF GitInv, TypeOK, Found
  <2>2. NextLocals(c, next) /\ next.pc = "probe"
    BY <1>2, <2>1 DEF NextLocals, CallRecords, InCall
  <2>3. Handles(c, "probe")
    BY <1>1, <1>2, <1>5 DEF Handles, GitInv, TypeOK
  <2>4. Continue(c, next)
    BY <1>5
  <2> HIDE DEF next
  <2> QED
    BY <1>1, <2>2, <2>3, <2>4, CallKeeps
<1>6. \/ call[c].ref = NoRef /\ AllowedRefs[call[c].policy] = {}
      \/ Refuse(c)
      \/ \E seen \in Commits :
           /\ Continue(c, [call[c] EXCEPT !.pc = "probe", !.seen = seen, !.refs = Found(c)])
           /\ UNCHANGED <<sessions, lock>>
  <2> DEFINE seen == IF Found(c) = NoRepository \/ call[c].ref = NoRef THEN NoCommit
                     ELSE heads[Found(c)][call[c].ref]
  <2>1. seen \in Commits \cup {NoCommit}
    BY <1>2 DEF GitInv, TypeOK, CallRecords, Found
  <2> QED
    BY <2>1 DEF SelectRef
<1> QED
  BY <1>3, <1>4, <1>5, <1>6

\* The ref contains the selected commit.
LEMMA RefKeeps == ASSUME GitInv, NEW c \in Calls, RefProven(c) PROVE GitInv'
<1>1. /\ SupMove /\ UNCHANGED <<config, at, heads, ticket, retained, open, edits>>
      /\ call[c].pc = "probe" /\ using' = NoCall
  BY DEF RefProven, SupMove
<1>2. /\ call[c] \in CallRecords
      /\ call[c].workspace \in Workspaces /\ call[c].policy \in Policies
      /\ call[c].repository \in Repositories
  BY <1>1 DEF GitInv, CallInv, InCall
<1>3. CASE CommandGood(c)
  <2> DEFINE next == [call[c] EXCEPT !.pc = "commit", !.read = "no", !.seen = NoCommit]
  <2>1. Continue(c, next) /\ sessions' = sessions \ {c} /\ lock' = lock
    BY <1>3 DEF RefProven
  <2>2. NextLocals(c, next) /\ next.pc = "commit"
    BY <1>2 DEF NextLocals, CallRecords, InCall
  <2> HIDE DEF next
  <2>3. Handles(c, "commit")
    BY <1>1, <2>1 DEF Handles, GitInv, TypeOK
  <2> QED
    BY <1>1, <2>1, <2>2, <2>3, CallKeeps
<1>4. CASE ~CommandGood(c)
  BY <1>1, <1>4, RefuseKeeps DEF RefProven
<1> QED
  BY <1>3, <1>4

\* The commit of a capture, once the read is done.
LEMMA CommitKeeps == ASSUME GitInv, NEW c \in Calls, CommitCapture(c) PROVE GitInv'
<1>1. /\ SupMove /\ UNCHANGED <<config, at, heads, ticket, retained, open, edits, using>>
      /\ call[c].pc = "commit" /\ lock = NoCall
  BY DEF CommitCapture, SupMove
<1>2. /\ using # c /\ call[c] \in CallRecords /\ c \notin sessions
      /\ call[c].workspace \in Workspaces /\ call[c].policy \in Policies
      /\ call[c].repository \in Repositories
  BY <1>1, UsingReads DEF GitInv, CallInv, InCall, SessionsOwned
<1> DEFINE good == /\ CallJob[c] \in open /\ ContextHolds(c)
                   /\ config.workspace = call[c].workspace /\ config.policy = call[c].policy
                   /\ Authorized(c, config.readable)
<1>3. CASE good
  <2> DEFINE next == [call[c] EXCEPT !.pc = "apply", !.readable = config.readable]
  <2>1. Continue(c, next) /\ lock' = c /\ sessions' = sessions
    BY <1>3 DEF CommitCapture
  <2>2. config.readable \in SUBSET Files
    BY DEF GitInv, TypeOK
  <2>3. /\ next.pc = "apply" /\ next \in CallRecords
        /\ next.version = call[c].version /\ next.policy = call[c].policy
        /\ next.workspace = call[c].workspace /\ next.repository = call[c].repository
        /\ next.readable = config.readable
    BY <1>2, <2>2 DEF CallRecords, InCall
  <2> HIDE DEF next
  <2>4. call[c].version.context = <<call[c].policy, call[c].workspace>>
    BY <1>3 DEF ContextHolds, Version, ContextDigest
  <2>5. NextLocals(c, next)
    BY <1>2, <1>3, <2>3, <2>4 DEF NextLocals, Authorized
  <2>6. Handles(c, "apply")
    BY <1>1, <1>2, <2>1 DEF Handles, GitInv, TypeOK
  <2> QED
    BY <1>1, <2>1, <2>3, <2>5, <2>6, CallKeeps
<1>4. CASE ~good
  BY <1>1, <1>2, <1>4, RefuseKeeps DEF CommitCapture
<1> QED
  BY <1>3, <1>4

\* What a call that commits would retain is an artifact.
LEMMA ManifestIsArtifact ==
  ASSUME CallInv, NEW c \in Calls, call[c].pc \in {"apply", "write"}
  PROVE  Manifest(c) \in Artifacts
  BY GitAssumption DEF CallInv, CallRecords, Manifest, Artifacts, InCall

\* The artifact is stored, or the operation is answered or refused.
LEMMA PutKeeps == ASSUME GitInv, NEW c \in Calls, PutArtifact(c) PROVE GitInv'
<1>1. /\ SupMove /\ UNCHANGED <<supVars, config, at, heads, ticket, sessions, open, using, edits>>
      /\ call[c].pc = "apply"
  BY DEF PutArtifact, SupMove
<1>2. /\ using # c /\ call[c] \in CallRecords /\ c \notin sessions /\ lock = c
      /\ call[c].workspace \in Workspaces /\ call[c].policy \in Policies
      /\ call[c].repository \in Repositories /\ call \in [Calls -> CallRecords]
  BY <1>1, UsingReads DEF GitInv, CallInv, InCall, SessionsOwned, LockInv
<1>3. CASE ~Recorded(c) /\ CaptureRecord(c)
  <2> DEFINE next == [call[c] EXCEPT !.pc = "write"]
  <2>1. Continue(c, next) /\ lock' = lock /\ retained' = retained \cup {Manifest(c)}
    BY <1>3 DEF PutArtifact
  <2>2. /\ next \in CallRecords /\ next.pc = "write" /\ next.whole = call[c].whole
        /\ next.policy = call[c].policy /\ next.workspace = call[c].workspace
        /\ next.repository = call[c].repository /\ next.refs = call[c].refs
    BY <1>2 DEF CallRecords, InCall
  <2> HIDE DEF next
  <2>3. /\ call' \in [Calls -> CallRecords] /\ call'[c] = next
        /\ \A d \in Calls : d # c => call'[d] = call[d]
    BY <1>2, <2>1, <2>2 DEF Continue
  <2>4. SupTypeOK'
    BY <1>1, SupTypeStep DEF GitInv, TypeOK
  <2>5. TypeOK'
    <3>1. \A d \in Calls : call'[d].pc \in {"idle"} \cup InCall \cup Ended
      BY <2>3 DEF CallRecords
    <3>2. Manifest(c) \in Artifacts
      BY <1>1, ManifestIsArtifact DEF GitInv
    <3> QED
      BY <1>1, <2>1, <2>4, <3>1, <3>2 DEF GitInv, TypeOK
  <2>6. CallInv'
    <3>1. ASSUME NEW d \in Calls
          PROVE  /\ call'[d].pc \in InCall \ {"prepare"} =>
                      call'[d].workspace \in Workspaces /\ call'[d].policy \in Policies
                 /\ call'[d].pc \in InCall \ {"prepare", "open"} =>
                      call'[d].repository \in Repositories
      BY <1>2, <2>2, <2>3 DEF GitInv, CallInv
    <3> QED
      BY <1>1, <2>3, <3>1 DEF GitInv, CallInv
  <2>7. LockInv'
    <3> SUFFICES ASSUME NEW d \in Calls, call'[d].pc \in {"apply", "write"} PROVE lock' = d
      BY DEF LockInv
    <3> QED
      BY <1>2, <2>1, <2>3 DEF GitInv, LockInv
  <2>8. ReceiptInv' /\ OneEventPerOperation'
    <3>1. ASSUME NEW d \in Calls, call'[d].pc = "write"
          PROVE  Manifest(d)' \in retained' /\ ~Recorded(d)'
      <4>1. CASE d = c
        <5>1. Manifest(c)' = Manifest(c)
          BY <2>2, <2>3 DEF Manifest
        <5> QED
          BY <1>1, <1>3, <2>1, <4>1, <5>1 DEF Recorded
      <4>2. CASE d # c
        BY <1>2, <2>3, <3>1, <4>2 DEF GitInv, LockInv
      <4> QED
        BY <4>1, <4>2
    <3> QED
      BY <1>1, <3>1 DEF GitInv, ReceiptInv, OneEventPerOperation
  <2>9. SessionInv' /\ SessionsOwned'
    <3>1. ASSUME NEW d \in Calls, call'[d].pc \in {"range", "select", "probe"}
          PROVE  d \in sessions'
      BY <1>1, <1>2, <2>2, <2>3, <3>1 DEF GitInv, SessionInv
    <3>2. ASSUME NEW d \in sessions'
          PROVE  call'[d].pc \in {"range", "select", "probe", "dead"}
      BY <1>1, <1>2, <2>2, <2>3, <3>2 DEF GitInv, TypeOK, SessionsOwned
    <3>3. using' # NoCall => using' \in Calls /\ call'[using'].pc \in {"range", "probe"}
      BY <1>1, <1>2, <2>2, <2>3 DEF GitInv, SessionInv
    <3> QED
      BY <3>1, <3>2, <3>3 DEF SessionInv, SessionsOwned
  <2>10. PlanInv'
    BY <2>2, <2>3 DEF GitInv, PlanInv, Authorized
  <2> QED
    BY <2>5, <2>6, <2>7, <2>8, <2>9, <2>10 DEF GitInv
<1>4. CASE ~(~Recorded(c) /\ CaptureRecord(c))
  <2>1. PICK how \in {"replayed", "refused"} : Continue(c, Over(c, how))
    BY <1>4 DEF PutArtifact
  <2>2. lock' = NoCall /\ retained' = retained
    BY <1>4 DEF PutArtifact
  <2>3. NextLocals(c, Over(c, how)) /\ Over(c, how).pc = how
    BY OverEnds DEF GitInv, Ended
  <2>4. Handles(c, how)
    BY <1>1, <1>2, <2>2 DEF Handles, GitInv, TypeOK
  <2> QED
    BY <1>1, <2>1, <2>2, <2>3, <2>4, CallKeeps
<1> QED
  BY <1>3, <1>4

\* The event and its receipt are written.
LEMMA WriteKeeps == ASSUME GitInv, NEW c \in Calls, WriteRecord(c) PROVE GitInv'
<1>1. /\ SupMove /\ call[c].pc = "write" /\ lock' = NoCall
      /\ UNCHANGED <<supVars, config, at, heads, retained, sessions, open, using, edits>>
      /\ Continue(c, Over(c, "captured"))
  BY DEF WriteRecord, SupMove
<1>2. using # c /\ c \notin sessions /\ lock = c /\ call \in [Calls -> CallRecords]
  BY <1>1, UsingReads DEF GitInv, CallInv, SessionsOwned, LockInv
<1>3. NextLocals(c, Over(c, "captured")) /\ Over(c, "captured").pc = "captured"
  BY OverEnds DEF GitInv, Ended
<1>4. /\ call' \in [Calls -> CallRecords] /\ call'[c].pc = "captured"
      /\ \A d \in Calls : d # c => call'[d] = call[d] /\ call[d].pc \notin {"apply", "write"}
  BY <1>1, <1>2, <1>3 DEF Continue, NextLocals, GitInv, LockInv
<1>5. Manifest(c) \in Artifacts /\ Manifest(c) \in retained /\ CallOp[c] \notin ticket.receipts
  BY <1>1, ManifestIsArtifact DEF GitInv, ReceiptInv, Recorded
<1>6. /\ ticket' \in TicketRecords /\ ticket'.value = ticket.value
      /\ ticket'.events = ticket.events \cup {Manifest(c)}
      /\ ticket'.receipts = ticket.receipts \cup {CallOp[c]}
      /\ ticket'.owner = ticket.owner
  <2>1. ticket \in TicketRecords
    BY DEF GitInv, CallInv
  <2> DEFINE m == Manifest(c)
  <2>2. ticket' = [owner |-> ticket.owner, revision |-> ticket.revision + 1,
                   events |-> ticket.events \cup {m},
                   receipts |-> ticket.receipts \cup {CallOp[c]}, value |-> ticket.value]
    BY <2>1 DEF WriteRecord, TicketRecords
  <2>3. /\ ticket.owner \in Jobs \cup {NoJob} /\ ticket.revision + 1 \in Nat
        /\ ticket.events \cup {m} \in SUBSET Artifacts
        /\ ticket.receipts \cup {CallOp[c]} \in SUBSET {CallOp[d] : d \in Calls}
        /\ ticket.value \in Artifacts \cup {NoArtifact}
    BY <1>5, <2>1 DEF TicketRecords
  <2> HIDE DEF m
  <2>4. ticket' \in TicketRecords
    BY <2>2, <2>3 DEF TicketRecords
  <2> QED
    BY <2>2, <2>4 DEF m
<1>7. SupTypeOK'
  BY <1>1, SupTypeStep DEF GitInv, TypeOK
<1>8. TypeOK'
  <2>1. \A d \in Calls : call'[d].pc \in {"idle"} \cup InCall \cup Ended
    BY <1>4 DEF CallRecords
  <2>2. ticket'.revision \in Nat /\ ticket'.owner \in Jobs \cup {NoJob}
    BY <1>6 DEF TicketRecords
  <2> QED
    BY <1>1, <1>5, <1>6, <1>7, <2>1, <2>2 DEF GitInv, TypeOK
<1>9. CallInv'
  BY <1>1, <1>4, <1>6 DEF GitInv, CallInv, InCall
<1>10. LockInv' /\ PlanInv'
  BY <1>4 DEF LockInv, PlanInv
<1>11. ReceiptInv'
  <2>1. Manifest(c).call = c
    BY DEF Manifest
  <2>2. \A a \in ticket'.events : CallOp[a.call] \in ticket'.receipts
    BY <1>6, <2>1 DEF GitInv, ReceiptInv
  <2>3. \A d \in Calls : call'[d].pc # "write"
    BY <1>4
  <2> QED
    BY <2>2, <2>3 DEF ReceiptInv
<1>12. OneEventPerOperation'
  <2>1. Manifest(c).call = c
    BY DEF Manifest
  <2>2. \A a \in ticket.events : CallOp[a.call] # CallOp[c]
    BY <1>5 DEF GitInv, ReceiptInv
  <2> QED
    BY <1>6, <2>1, <2>2 DEF GitInv, OneEventPerOperation
<1>13. SessionInv' /\ SessionsOwned'
  <2>1. ASSUME NEW d \in Calls, call'[d].pc \in {"range", "select", "probe"}
        PROVE  d \in sessions'
    BY <1>1, <1>2, <1>4, <2>1 DEF GitInv, SessionInv
  <2>2. ASSUME NEW d \in sessions'
        PROVE  call'[d].pc \in {"range", "select", "probe", "dead"}
    BY <1>1, <1>2, <1>4, <2>2 DEF GitInv, TypeOK, SessionsOwned
  <2>3. using' # NoCall => using' \in Calls /\ call'[using'].pc \in {"range", "probe"}
    BY <1>1, <1>2, <1>4 DEF GitInv, SessionInv
  <2> QED
    BY <2>1, <2>2, <2>3 DEF SessionInv, SessionsOwned
<1> QED
  BY <1>8, <1>9, <1>10, <1>11, <1>12, <1>13 DEF GitInv

\* A worker that dies takes its calls, its command and its locks with it.
LEMMA DeathKeeps == ASSUME GitInv, NEW j \in Jobs, WorkerDies(j) PROVE GitInv'
<1> DEFINE dead == {c \in Calls : CallJob[c] = j /\ call[c].pc \in InCall}
<1>1. /\ UNCHANGED <<config, at, heads, ticket, retained, sessions, edits>>
      /\ open' = open \ {j} /\ lock' = IF lock \in dead THEN NoCall ELSE lock
      /\ call' = [c \in Calls |-> IF c \in dead THEN Over(c, "dead") ELSE call[c]]
      /\ using' = IF using \in dead THEN NoCall ELSE using
  BY DEF WorkerDies
<1>2. call \in [Calls -> CallRecords]
  BY DEF GitInv, CallInv
<1>3. \A c \in Calls : Over(c, "dead") \in CallRecords /\ Over(c, "dead").pc = "dead"
  BY OverEnds DEF GitInv, NextLocals, Ended
<1>4. /\ call' \in [Calls -> CallRecords]
      /\ \A c \in Calls \cap dead : call'[c].pc = "dead"
      /\ \A c \in Calls \ dead : call'[c] = call[c]
  BY <1>1, <1>2, <1>3
<1>5. SupTypeOK'
  <2>1. CASE UNCHANGED supVars
    BY <2>1, SupTypeStep DEF GitInv, TypeOK, SupMove
  <2>2. CASE /\ sup' = NoRun /\ holds' = {} /\ proc' = [p \in Procs |-> "none"]
             /\ UNCHANGED platform
    BY <2>2 DEF GitInv, TypeOK, SupTypeOK, NoRun, Outcomes
  <2> QED
    BY <2>1, <2>2 DEF WorkerDies
<1>6. using' = NoCall \/ (using' = using /\ using' \in Calls \ dead)
  BY <1>1 DEF GitInv, TypeOK
<1> HIDE DEF dead
<1>7. TypeOK'
  <2>1. \A d \in Calls : call'[d].pc \in {"idle"} \cup InCall \cup Ended
    BY <1>4 DEF CallRecords
  <2>2. lock' \in Calls \cup {NoCall} /\ using' \in Calls \cup {NoCall} /\ open' \subseteq Jobs
    BY <1>1 DEF GitInv, TypeOK
  <2> QED
    BY <1>1, <1>5, <2>1, <2>2 DEF GitInv, TypeOK
<1>8. CallInv'
  BY <1>1, <1>4 DEF GitInv, CallInv, InCall
<1>9. LockInv' /\ PlanInv'
  BY <1>1, <1>4 DEF GitInv, LockInv, PlanInv, Authorized
<1>10. ReceiptInv' /\ OneEventPerOperation'
  <2>1. ASSUME NEW d \in Calls, call'[d].pc = "write"
        PROVE  Manifest(d)' \in retained' /\ ~Recorded(d)'
    <3>1. call'[d] = call[d] /\ call[d].pc = "write"
      BY <1>4, <2>1
    <3>2. Manifest(d)' = Manifest(d) /\ Recorded(d)' = Recorded(d)
      BY <1>1, <3>1 DEF Manifest, Recorded
    <3> QED
      BY <1>1, <3>1, <3>2 DEF GitInv, ReceiptInv
  <2> QED
    BY <1>1, <2>1 DEF GitInv, ReceiptInv, OneEventPerOperation
<1>11. SessionInv' /\ SessionsOwned'
  <2>1. ASSUME NEW d \in Calls, call'[d].pc \in {"range", "select", "probe"}
        PROVE  d \in sessions'
    BY <1>1, <1>4, <1>6, <2>1 DEF GitInv, SessionInv
  <2>2. ASSUME NEW d \in sessions'
        PROVE  call'[d].pc \in {"range", "select", "probe", "dead"}
    BY <1>1, <1>4, <1>6, <2>2 DEF GitInv, TypeOK, SessionsOwned
  <2>3. using' # NoCall => using' \in Calls /\ call'[using'].pc \in {"range", "probe"}
    BY <1>1, <1>4, <1>6 DEF GitInv, SessionInv
  <2> QED
    BY <2>1, <2>2, <2>3 DEF SessionInv, SessionsOwned
<1> QED
  BY <1>7, <1>8, <1>9, <1>10, <1>11 DEF GitInv

\* The invariant holds at the start.
LEMMA GitInvInit == Init => GitInv
<1> SUFFICES ASSUME Init PROVE GitInv
  OBVIOUS
<1>1. Idle \in CallRecords /\ Idle.pc = "idle"
  BY DEF Idle, CallRecords, NoVersion, Versions, Contexts
<1>2. call \in [Calls -> CallRecords] /\ \A c \in Calls : call[c].pc = "idle"
  BY <1>1 DEF Init
<1>3. /\ ticket \in TicketRecords /\ ticket.events = {} /\ ticket.value = NoArtifact
      /\ ticket.owner \in Jobs \cup {NoJob} /\ ticket.revision \in Nat
  BY DEF Init, TicketRecords
<1>4. SupTypeOK
  BY SupervisionAssumption DEF Init, SupInit, SupTypeOK, NoRun, Outcomes
<1>5. /\ config \in [policy : Policies \cup {NoPolicy}, workspace : Workspaces,
                     readable : SUBSET Files, workflow : 0..MaxEdits]
      /\ at \in [Workspaces -> Repositories \cup {NoRepository}]
      /\ heads \in [Repositories -> [Refs -> Commits \cup {NoCommit}]]
  BY GitAssumption DEF Init
<1>6. TypeOK
  BY <1>2, <1>3, <1>4, <1>5 DEF Init, TypeOK
<1>7. CallInv
  BY <1>2, <1>3 DEF Init, CallInv, InCall
<1>8. LockInv /\ PlanInv /\ ReceiptInv /\ OneEventPerOperation
  BY <1>2, <1>3 DEF LockInv, PlanInv, ReceiptInv, OneEventPerOperation
<1>9. SessionInv /\ SessionsOwned
  BY <1>2 DEF Init, SessionInv, SessionsOwned
<1> QED
  BY <1>6, <1>7, <1>8, <1>9 DEF GitInv

\* Every step keeps the invariant.
LEMMA GitInvStep == GitInv /\ [Next]_vars => GitInv'
  BY AroundKeeps, CallBegins, GitReadsKeeps, PrepareKeeps, OpenKeeps, BeginKeeps, RangeKeeps,
     SelectKeeps, RefKeeps, CommitKeeps, PutKeeps, WriteKeeps, DeathKeeps
     DEF Next, CallStep, ReadGitEvidence, AroundStep

\* The invariant holds in every reachable state.
THEOREM GitInvariance == Spec => []GitInv
  BY GitInvInit, GitInvStep, PTL DEF Spec

\* Every operation is recorded at most once, and every private session belongs
\* to a call that reads, whatever is repeated, edited, moved or dies.
THEOREM RecordedOnceAlways == Spec => [](TypeOK /\ OneEventPerOperation /\ SessionsOwned)
<1>1. GitInv => TypeOK /\ OneEventPerOperation /\ SessionsOwned
  BY DEF GitInv
<1> QED
  BY <1>1, GitInvariance, PTL

-----------------------------------------------------------------------------
(* What a capture vouches for *)

\* The selected range is in a repository, after the base.
Proven(c, repository) ==
  /\ BaseCommit \in Objects[repository] /\ CallEnd[c] \in Objects[repository]
  /\ BaseCommit \in Ancestors[CallEnd[c]]

\* What the locals of a call say of the repository: an answer that was read is
\* true of the repository that was opened, or that one is no longer at the path
\* and will not be; it stays there from its check to the look at the ref.
TruthLocals(c, locals) ==
  /\ locals.pc \in {"prepare", "open"} => locals.read = "no"
  /\ locals.pc = "range" /\ locals.read = "ok" =>
       at[locals.workspace] # locals.repository \/ Proven(c, locals.repository)
  /\ locals.pc \in {"select", "probe"} => at[locals.workspace] = locals.repository
  /\ locals.pc \in {"select", "probe", "commit", "apply", "write"} =>
       Proven(c, locals.repository) /\ locals.whole = TRUE
  /\ locals.pc = "probe" => locals.refs = locals.repository
  /\ locals.pc \in {"commit", "apply", "write"} /\ AllowedRefs[locals.policy] # {} =>
       locals.refs = locals.repository

TruthInv == (\A c \in Calls : TruthLocals(c, call[c])) /\ EvidenceSound

\* A step of a call that records nothing keeps it.
LEMMA TruthMoves ==
  ASSUME GitInv, TruthInv, NEW c \in Calls, NEW next, Continue(c, next),
         TruthLocals(c, next), UNCHANGED <<at, ticket>>, retained \subseteq retained'
  PROVE  TruthInv'
<1>1. call'[c] = next /\ \A d \in Calls : d # c => call'[d] = call[d]
  BY DEF GitInv, CallInv, Continue
<1>2. ASSUME NEW d \in Calls PROVE TruthLocals(d, call[d])'
  BY <1>1 DEF TruthInv, TruthLocals
<1> QED
  BY <1>2 DEF TruthInv, EvidenceSound

\* A call that is over vouches for nothing.
LEMMA TruthOver ==
  ASSUME CallInv, NEW c \in Calls, NEW how \in Ended
  PROVE  TruthLocals(c, Over(c, how))
<1>1. Over(c, how).pc = how
  BY OverEnds
<1> QED
  BY <1>1 DEF TruthLocals, Ended

\* A refused call vouches for nothing.
LEMMA TruthRefused ==
  ASSUME GitInv, TruthInv, NEW c \in Calls, Refuse(c), UNCHANGED <<at, ticket, retained>>
  PROVE  TruthInv'
  BY TruthOver, TruthMoves DEF GitInv, Refuse, Ended

\* Every step keeps what calls and events vouch for, if a repository is not
\* swapped between the check of its identity and the look at its ref, and no
\* call's repository comes back.
LEMMA TruthStep ==
  ASSUME LateSwaps = FALSE, PromptReaders = TRUE, GitInv, TruthInv, [Next]_vars
  PROVE  TruthInv'
<1>0. TypeOK /\ CallInv
  BY DEF GitInv
<1>1. CASE AroundStep
  <2>1. /\ UNCHANGED <<call, retained>> /\ ticket'.events = ticket.events
    BY <1>0, <1>1, AroundLeavesCalls
  <2>2. EvidenceSound'
    BY <2>1 DEF TruthInv, EvidenceSound
  <2>3. UNCHANGED at \/ Replace
    BY <1>1 DEF AroundStep, Supervise, gitVars, vars, StartWork, CloseSession, Report, Release,
                UseEvidence, Revise, EditPolicy, EditReadable, EditWorkspace, EditWorkflow,
                Edit, MoveRef
  <2>4. ASSUME NEW c \in Calls PROVE TruthLocals(c, call[c])'
    <3>1. CASE UNCHANGED at
      BY <2>1, <3>1 DEF TruthInv, TruthLocals
    <3>2. CASE Replace
      <4>1. PICK w \in Workspaces, r \in Repositories \cup {NoRepository} :
              /\ at' = [at EXCEPT ![w] = r]
              /\ call[c].workspace = w =>
                   call[c].pc \notin {"select", "probe"} /\ call[c].repository # r
        BY <3>2 DEF Replace
      <4>2. at' [call[c].workspace] = at[call[c].workspace] \/ call[c].workspace = w
        BY <1>0, <4>1 DEF TypeOK
      <4>3. call[c].workspace = w => at' [call[c].workspace] = r
        BY <1>0, <4>1 DEF TypeOK
      <4> QED
        BY <2>1, <4>1, <4>2, <4>3 DEF TruthInv, TruthLocals
    <3> QED
      BY <2>3, <3>1, <3>2
  <2> QED
    BY <2>2, <2>4 DEF TruthInv
<1>2. ASSUME NEW c \in Calls, Call(c) PROVE TruthInv'
  <2>1. PICK v \in Versions, f \in Refs \cup {NoRef}, p \in {"refused", "replayed", "prepare"} :
          Continue(c, Begun(v, f, p))
    BY <1>2, CallContinues
  <2>2. TruthLocals(c, Begun(v, f, p))
    BY DEF TruthLocals, Begun
  <2>3. UNCHANGED <<at, ticket, retained>>
    BY <1>2 DEF Call
  <2> QED
    BY <2>1, <2>2, <2>3, TruthMoves
<1>3. ASSUME NEW c \in Calls, GitReads(c) PROVE TruthInv'
  <2>1. /\ call[c] \in CallRecords /\ call[c].pc \in {"range", "probe"}
        /\ UNCHANGED <<at, ticket, retained>>
        /\ call[c].workspace \in Workspaces
    BY <1>0, <1>3, GitAssumption DEF GitInv, CallInv, SessionInv, GitReads, InCall
  <2> DEFINE next == [call[c] EXCEPT !.read = IF GitAnswer(c) THEN "ok" ELSE "bad"]
  <2>2. /\ next.pc = call[c].pc /\ next.workspace = call[c].workspace
        /\ next.repository = call[c].repository /\ next.refs = call[c].refs
        /\ next.whole = call[c].whole /\ next.policy = call[c].policy
        /\ next.read = "ok" => GitAnswer(c)
    BY <2>1 DEF CallRecords
  <2>3. Continue(c, next)
    BY <1>3 DEF GitReads
  <2> HIDE DEF next
  <2>4. call[c].pc = "range" /\ GitAnswer(c) => Proven(c, Found(c))
    BY DEF GitAnswer, Proven
  <2>5. TruthLocals(c, next)
    BY <2>1, <2>2, <2>4 DEF TruthInv, TruthLocals, Found
  <2> QED
    BY <2>1, <2>3, <2>5, TruthMoves
<1>4. ASSUME NEW c \in Calls, Prepare(c) PROVE TruthInv'
  <2>1. UNCHANGED <<at, ticket, retained>> /\ call[c].pc = "prepare" /\ call[c] \in CallRecords
    BY <1>0, <1>4 DEF Prepare, CallInv
  <2> DEFINE next == [call[c] EXCEPT !.pc = "open", !.policy = config.policy,
                                     !.workspace = config.workspace,
                                     !.readable = config.readable]
  <2>2. next.pc = "open" /\ next.read = call[c].read
    BY <2>1 DEF CallRecords
  <2>3. Continue(c, next) \/ Refuse(c)
    BY <1>4 DEF Prepare
  <2> HIDE DEF next
  <2>4. TruthLocals(c, next)
    BY <2>1, <2>2 DEF TruthInv, TruthLocals
  <2> QED
    BY <2>1, <2>3, <2>4, TruthMoves, TruthRefused
<1>5. ASSUME NEW c \in Calls, OpenRepository(c) PROVE TruthInv'
  <2>1. UNCHANGED <<at, ticket, retained>> /\ call[c].pc = "open" /\ call[c] \in CallRecords
    BY <1>0, <1>5 DEF OpenRepository, CallInv
  <2> DEFINE next == [call[c] EXCEPT !.pc = "range", !.repository = Found(c)]
  <2>2. next.pc = "range" /\ next.read = call[c].read
    BY <2>1 DEF CallRecords
  <2>3. Continue(c, next) \/ Refuse(c)
    BY <1>5 DEF OpenRepository
  <2> HIDE DEF next
  <2>4. TruthLocals(c, next)
    BY <2>1, <2>2 DEF TruthInv, TruthLocals
  <2> QED
    BY <2>1, <2>3, <2>4, TruthMoves, TruthRefused
<1>6. ASSUME NEW c \in Calls, BeginCommand(c) PROVE TruthInv'
  BY <1>6 DEF BeginCommand, TruthInv, TruthLocals, EvidenceSound
<1>7. ASSUME NEW c \in Calls, RangeRead(c) PROVE TruthInv'
  <2>1. UNCHANGED <<at, ticket, retained>> /\ call[c].pc = "range" /\ call[c] \in CallRecords
    BY <1>0, <1>7 DEF RangeRead, CallInv
  <2> DEFINE whole == PromptReaders \/ sup.whole
             next == [call[c] EXCEPT !.pc = "select", !.read = "no", !.whole = whole]
             good == call[c].read = "ok" /\ Found(c) = call[c].repository
  <2>2. (good /\ Continue(c, next)) \/ Refuse(c)
    BY <1>7 DEF RangeRead, CommandGood
  <2>3. whole = TRUE
    OBVIOUS
  <2> HIDE DEF whole
  <2>4. /\ next.pc = "select" /\ next.workspace = call[c].workspace
        /\ next.repository = call[c].repository /\ next.whole = TRUE
    BY <2>1, <2>3 DEF CallRecords
  <2> HIDE DEF next
  <2>5. good => TruthLocals(c, next)
    BY <2>1, <2>4 DEF TruthInv, TruthLocals, Found
  <2> QED
    BY <2>1, <2>2, <2>5, TruthMoves, TruthRefused
<1>8. ASSUME NEW c \in Calls, SelectRef(c) PROVE TruthInv'
  <2>1. UNCHANGED <<at, ticket, retained>> /\ call[c].pc = "select" /\ call[c] \in CallRecords
    BY <1>0, <1>8 DEF SelectRef, CallInv
  <2> DEFINE seen == IF Found(c) = NoRepository \/ call[c].ref = NoRef THEN NoCommit
                     ELSE heads[Found(c)][call[c].ref]
             plain == [call[c] EXCEPT !.pc = "commit"]
             probe == [call[c] EXCEPT !.pc = "probe", !.seen = seen, !.refs = Found(c)]
  <2>2. \/ AllowedRefs[call[c].policy] = {} /\ Continue(c, plain)
        \/ Continue(c, probe)
        \/ Refuse(c)
    BY <1>8 DEF SelectRef
  <2> HIDE DEF seen
  <2>3. /\ plain.pc = "commit" /\ plain.repository = call[c].repository
        /\ plain.policy = call[c].policy /\ plain.whole = call[c].whole
    BY <2>1 DEF CallRecords
  <2>4. /\ probe.pc = "probe" /\ probe.repository = call[c].repository
        /\ probe.workspace = call[c].workspace /\ probe.whole = call[c].whole
        /\ probe.refs = Found(c)
    BY <2>1 DEF CallRecords
  <2> HIDE DEF plain, probe
  <2>5. AllowedRefs[call[c].policy] = {} => TruthLocals(c, plain)
    BY <2>1, <2>3 DEF TruthInv, TruthLocals
  <2>6. TruthLocals(c, probe)
    BY <2>1, <2>4 DEF TruthInv, TruthLocals, Found
  <2> QED
    BY <2>1, <2>2, <2>5, <2>6, TruthMoves, TruthRefused
<1>9. ASSUME NEW c \in Calls, RefProven(c) PROVE TruthInv'
  <2>1. UNCHANGED <<at, ticket, retained>> /\ call[c].pc = "probe" /\ call[c] \in CallRecords
    BY <1>0, <1>9 DEF RefProven, CallInv
  <2> DEFINE next == [call[c] EXCEPT !.pc = "commit", !.read = "no", !.seen = NoCommit]
  <2>2. Continue(c, next) \/ Refuse(c)
    BY <1>9 DEF RefProven
  <2>3. /\ next.pc = "commit" /\ next.repository = call[c].repository
        /\ next.refs = call[c].refs /\ next.whole = call[c].whole
    BY <2>1 DEF CallRecords
  <2> HIDE DEF next
  <2>4. TruthLocals(c, next)
    BY <2>1, <2>3 DEF TruthInv, TruthLocals
  <2> QED
    BY <2>1, <2>2, <2>4, TruthMoves, TruthRefused
<1>10. ASSUME NEW c \in Calls, CommitCapture(c) PROVE TruthInv'
  <2>1. UNCHANGED <<at, ticket, retained>> /\ call[c].pc = "commit" /\ call[c] \in CallRecords
    BY <1>0, <1>10 DEF CommitCapture, CallInv
  <2> DEFINE next == [call[c] EXCEPT !.pc = "apply", !.readable = config.readable]
  <2>2. Continue(c, next) \/ Refuse(c)
    BY <1>10 DEF CommitCapture
  <2>3. /\ next.pc = "apply" /\ next.repository = call[c].repository
        /\ next.refs = call[c].refs /\ next.whole = call[c].whole
        /\ next.policy = call[c].policy
    BY <2>1 DEF CallRecords
  <2> HIDE DEF next
  <2>4. TruthLocals(c, next)
    BY <2>1, <2>3 DEF TruthInv, TruthLocals
  <2> QED
    BY <2>1, <2>2, <2>4, TruthMoves, TruthRefused
<1>11. ASSUME NEW c \in Calls, PutArtifact(c) PROVE TruthInv'
  <2>1. /\ UNCHANGED <<at, ticket>> /\ retained \subseteq retained'
        /\ call[c].pc = "apply" /\ call[c] \in CallRecords
    BY <1>0, <1>11 DEF PutArtifact, CallInv
  <2> DEFINE next == [call[c] EXCEPT !.pc = "write"]
  <2>2. Continue(c, next) \/ \E how \in Ended : Continue(c, Over(c, how))
    BY <1>11 DEF PutArtifact, Ended
  <2>3. /\ next.pc = "write" /\ next.repository = call[c].repository
        /\ next.refs = call[c].refs /\ next.whole = call[c].whole
        /\ next.policy = call[c].policy
    BY <2>1 DEF CallRecords
  <2> HIDE DEF next
  <2>4. TruthLocals(c, next)
    BY <2>1, <2>3 DEF TruthInv, TruthLocals
  <2> QED
    BY <1>0, <2>1, <2>2, <2>4, TruthMoves, TruthOver
<1>12. ASSUME NEW c \in Calls, WriteRecord(c) PROVE TruthInv'
  <2>1. /\ call[c].pc = "write" /\ Continue(c, Over(c, "captured"))
        /\ UNCHANGED <<at, retained>>
    BY <1>12 DEF WriteRecord
  <2>2. ticket'.events = ticket.events \cup {Manifest(c)}
    BY <1>0, <1>12 DEF WriteRecord, CallInv, TicketRecords
  <2>3. ASSUME NEW d \in Calls PROVE TruthLocals(d, call[d])'
    <3>1. TruthLocals(c, Over(c, "captured"))
      BY <1>0, TruthOver DEF Ended
    <3>2. call'[c] = Over(c, "captured") /\ \A e \in Calls : e # c => call'[e] = call[e]
      BY <1>0, <2>1 DEF CallInv, Continue
    <3> QED
      BY <2>1, <3>1, <3>2 DEF TruthInv, TruthLocals
  <2>4. /\ Manifest(c) \in retained /\ Manifest(c).whole = TRUE
        /\ Manifest(c).end \in Objects[Manifest(c).repository]
        /\ BaseCommit \in Ancestors[Manifest(c).end]
        /\ AllowedRefs[Manifest(c).policy] # {} => Manifest(c).refs = Manifest(c).repository
    BY <2>1 DEF GitInv, ReceiptInv, TruthInv, TruthLocals, Proven, Manifest
  <2>5. EvidenceSound'
    BY <2>1, <2>2, <2>4 DEF TruthInv, EvidenceSound
  <2> QED
    BY <2>3, <2>5 DEF TruthInv
<1>13. ASSUME NEW j \in Jobs, WorkerDies(j) PROVE TruthInv'
  <2>1. UNCHANGED <<at, ticket, retained>>
    BY <1>13 DEF WorkerDies
  <2>2. \A d \in Calls : call'[d] = call[d] \/ call'[d] = Over(d, "dead")
    BY <1>13 DEF WorkerDies
  <2>3. ASSUME NEW d \in Calls PROVE TruthLocals(d, call[d])'
    <3>1. TruthLocals(d, Over(d, "dead"))
      BY <1>0, TruthOver DEF Ended
    <3> QED
      BY <2>1, <2>2, <3>1 DEF TruthInv, TruthLocals
  <2> QED
    BY <2>1, <2>3 DEF TruthInv, EvidenceSound
<1> QED
  BY <1>1, <1>2, <1>3, <1>4, <1>5, <1>6, <1>7, <1>8, <1>9, <1>10, <1>11, <1>12, <1>13
     DEF Next, CallStep, ReadGitEvidence, AroundStep

\* What a ticket vouches for is true and recorded once, and every read has a
\* session of its own.
THEOREM CaptureSoundAlways ==
  ASSUME LateSwaps = FALSE, PromptReaders = TRUE
  PROVE  Spec => []CaptureSound
<1>1. Init => TruthInv
  BY DEF Init, Idle, TruthInv, TruthLocals, EvidenceSound
<1>2. GitInv /\ TruthInv /\ [Next]_vars => TruthInv'
  BY TruthStep
<1>3. GitInv /\ TruthInv => CaptureSound
  BY DEF GitInv, TruthInv, CaptureSound
<1> QED
  BY <1>1, <1>2, <1>3, GitInvariance, PTL DEF Spec

-----------------------------------------------------------------------------
(* Currency and confirmation *)

\* An artifact is stored only by a call that has just verified its version.
LEMMA StoredIsCurrent ==
  ASSUME GitInv, [Next]_vars, NEW a \in retained' \ retained
  PROVE  /\ ticket.owner = CallJob[a.call]
         /\ call[a.call].version.revision = ticket.revision
         /\ a.policy = config.policy /\ a.workspace = config.workspace
         /\ a.files \subseteq LaunchRead[CallJob[a.call]] \cap call[a.call].readable
<1>0. TypeOK /\ CallInv
  BY DEF GitInv
<1>1. PICK c \in Calls : PutArtifact(c) /\ a = Manifest(c)
  <2>1. AroundStep => UNCHANGED retained
    BY <1>0, AroundLeavesCalls
  <2>2. ASSUME NEW c \in Calls
        PROVE  /\ Call(c) \/ GitReads(c) \/ Prepare(c) \/ ReadGitEvidence(c) \/ CommitCapture(c)
                    \/ WriteRecord(c) => UNCHANGED retained
               /\ PutArtifact(c) => retained' \subseteq retained \cup {Manifest(c)}
    BY DEF Call, GitReads, Prepare, ReadGitEvidence, OpenRepository, BeginCommand, RangeRead,
           SelectRef, RefProven, CommitCapture, WriteRecord, PutArtifact
  <2>3. ASSUME NEW j \in Jobs PROVE WorkerDies(j) => UNCHANGED retained
    BY DEF WorkerDies
  <2> QED
    BY <2>1, <2>2, <2>3 DEF Next, CallStep, AroundStep
<1>2. call[c].pc = "apply" /\ CaptureRecord(c)
  BY <1>1 DEF PutArtifact
<1>3. /\ call[c].version.context = <<call[c].policy, call[c].workspace>>
      /\ Authorized(c, call[c].readable) /\ call[c].policy \in Policies
  BY <1>0, <1>2 DEF GitInv, PlanInv, CallInv, InCall
<1>4. ContextDigest = <<call[c].policy, call[c].workspace>> /\ ticket.owner = CallJob[c]
      /\ call[c].version.revision = ticket.revision
  BY <1>2, <1>3 DEF CaptureRecord, Version, ActiveOwner
<1>5. config.policy = call[c].policy /\ config.workspace = call[c].workspace
  BY <1>3, <1>4, GitAssumption DEF ContextDigest
<1>6. /\ a.call = c /\ a.policy = call[c].policy /\ a.workspace = call[c].workspace
      /\ a.files = Changed[CallEnd[c]]
  BY <1>1 DEF Manifest
<1> QED
  BY <1>3, <1>4, <1>5, <1>6 DEF Authorized

\* Nothing of a stale read is retained, however policy, permissions, workspace,
\* workflow and owner change while the repository is read.
THEOREM CurrentWhenRetainedAlways == Spec => CurrentWhenRetained
<1>1. GitInv /\ [Next]_vars =>
        [\A a \in retained' \ retained :
           /\ ticket.owner = CallJob[a.call]
           /\ call[a.call].version.revision = ticket.revision
           /\ a.policy = config.policy /\ a.workspace = config.workspace
           /\ a.files \subseteq LaunchRead[CallJob[a.call]] \cap call[a.call].readable]_vars
  BY StoredIsCurrent
<1> QED
  BY <1>1, GitInvariance, PTL DEF Spec, CurrentWhenRetained

\* Every step moves the supervisor, resets it, or leaves it alone.
LEMMA SupMoves ==
  ASSUME [Next]_vars
  PROVE  \/ SupMove
         \/ /\ sup' = NoRun /\ holds' = {} /\ proc' = [p \in Procs |-> "none"]
            /\ UNCHANGED platform
<1>1. AroundStep => SupMove
  BY AroundSupervises
<1>2. ASSUME NEW c \in Calls
      PROVE  Call(c) \/ GitReads(c) \/ CallStep(c) => SupMove
  BY DEF Call, GitReads, CallStep, Prepare, ReadGitEvidence, OpenRepository, BeginCommand,
         RangeRead, SelectRef, RefProven, CommitCapture, WriteRecord, PutArtifact, SupMove
<1> QED
  BY <1>1, <1>2 DEF Next, AroundStep, WorkerDies, SupMove

\* A run that is reported as stopped has stopped, whatever its program forks,
\* exits and writes: on Windows, and where no descendant lets go of the output
\* it inherited.
THEOREM ConfirmedMeansGoneAlways ==
  ASSUME Detaches = FALSE \/ Platforms = {"windows"}
  PROVE  Spec => []ConfirmedMeansGone
<1>1. CASE Detaches = FALSE
  <2>1. Init => PipesInv
    BY DEF Init, SupInit, PipesInv, Live, NoRun
  <2>2. GitInv /\ PipesInv /\ [Next]_vars => PipesInv'
    <3> SUFFICES ASSUME GitInv, PipesInv, [Next]_vars PROVE PipesInv'
      OBVIOUS
    <3>1. CASE SupMove
      BY <1>1, <3>1, PipesStep DEF GitInv, TypeOK
    <3>2. CASE sup' = NoRun /\ holds' = {} /\ proc' = [p \in Procs |-> "none"]
      BY <3>2 DEF PipesInv, Live, NoRun
    <3> QED
      BY <3>1, <3>2, SupMoves
  <2>3. PipesInv => ConfirmedMeansGone
    BY DEF PipesInv, ConfirmedMeansGone
  <2> QED
    BY <2>1, <2>2, <2>3, GitInvariance, PTL DEF Spec
<1>2. CASE Platforms = {"windows"}
  <2>1. Init => JobInv
    BY <1>2 DEF Init, SupInit, JobInv, Live, NoRun
  <2>2. GitInv /\ JobInv /\ [Next]_vars => JobInv'
    <3> SUFFICES ASSUME GitInv, JobInv, [Next]_vars PROVE JobInv'
      OBVIOUS
    <3>1. CASE SupMove
      BY <3>1, JobStep DEF GitInv, TypeOK
    <3>2. CASE /\ sup' = NoRun /\ holds' = {} /\ proc' = [p \in Procs |-> "none"]
               /\ UNCHANGED platform
      BY <3>2 DEF JobInv, Live, NoRun
    <3> QED
      BY <3>1, <3>2, SupMoves
  <2>3. JobInv => ConfirmedMeansGone
    BY DEF JobInv, ConfirmedMeansGone
  <2> QED
    BY <2>1, <2>2, <2>3, GitInvariance, PTL DEF Spec
<1> QED
  BY <1>1, <1>2
=============================================================================
