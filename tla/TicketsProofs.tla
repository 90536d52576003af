---------------------------- MODULE TicketsProofs ----------------------------
(***************************************************************************)
(* Theorems about module Tickets, for any requests, prompt jobs, agents,   *)
(* workflow and settings, any number of faults, and whether or not a       *)
(* broker gives up on a call.                                              *)
(***************************************************************************)
EXTENDS Tickets, TLAPS

(* A job that has not started has left no trace: no session, no process, no
   call, no cleanup, and it owns nothing. *)
NotStarted(j) == job[j] \in {"none", "queued"}

UntouchedByQueued ==
    \A j \in Jobs : NotStarted(j) =>
        /\ j \notin sessions /\ j \notin alive /\ j \notin working
        /\ request[j] = NoRequest /\ cleanup[j] = "none" /\ ticket.active # j

(* Who is told it owns the ticket has processes that run. *)
WorkingAlive == working \subseteq alive

(* The owner is the assignee's run. *)
OwnerAssigned == ticket.active # NoRun => ticket.assignee = AgentOf(ticket.active)

(* A call under way was registered, names a tool, and has a broker. *)
CallsRegistered ==
    \A j \in Jobs : request[j] # NoRequest =>
        registered[j] /\ request[j].kind \in Kinds /\ j \in workers

(* A run whose broker was closed serves no more calls, unless it gave up on one. *)
ClosedStaysClosed ==
    \A j \in Jobs : cleanup[j] # "none" \/ job[j] \in Terminal =>
        j \notin sessions /\ (j \notin late => request[j] = NoRequest)

(* A cleanup is retried only for processes that are gone, and a finished one
   leaves no owner. *)
CleanupSound ==
    \A j \in Jobs : /\ cleanup[j] = "retry" => j \notin alive
                    /\ cleanup[j] = "done" /\ j \notin late => ticket.active # j

(* Requests and their jobs are for a configured agent. *)
TargetsAssigned ==
    \A o \in Requests : /\ ~At(o, "idle") => submission[o].target.agent \in Agents
                        /\ job[o] # "none" => target[o].agent \in Agents

(* Only a request with a reservation is reconciled, and only one without is
   writing it. *)
ReservationsSound ==
    \A o \in Requests :
        /\ At(o, "reserving") => reservation[o].status = "none"
        /\ recovery[o] # NoRecovery => /\ reservation[o].status # "none"
                                       /\ recovery[o].status # "none"
                                       /\ recovery[o].reason # "none"

(* The inductive invariant. *)
Inv ==
    /\ TypeOK /\ UntouchedByQueued /\ WorkingAlive /\ NoStolenWork /\ OwnerAssigned
    /\ CallsRegistered /\ OwnerIsTarget /\ ClosedStaysClosed /\ CleanupSound
    /\ NoOrphanOwner /\ TargetsAssigned /\ ReservationsSound /\ PendingAccounted
-----------------------------------------------------------------------------
(* The operators of the model. *)

(* Constants with different roles are different values. *)
LEMMA Distinct ==
    /\ NoRun \notin Jobs
    /\ "home" \in Contexts /\ NoTarget \in Targets /\ NoPending \in PendingRuns
    /\ Idle \in RequestStates /\ NoReservation \in Reservations
    /\ NoRecovery \in Recoveries /\ NoRequest \in Calls
BY TicketConstants
   DEF Jobs, NoTarget, NoPending, Idle, NoReservation, NoRecovery, NoRequest, Targets,
       PendingRuns, RequestStates, Pcs, Reservations, Recoveries, Calls

(* The committed write of a record keeps all but its revision and its receipts. *)
LEMMA CommitKeeps ==
    ASSUME NEW record \in TicketRecords,
           NEW op, op = <<>> \/ op \in Operations
    PROVE  /\ Commit(record, op) \in TicketRecords
           /\ Commit(record, op).assignee = record.assignee
           /\ Commit(record, op).active = record.active
           /\ Commit(record, op).pending = record.pending
           /\ Commit(record, op).event = record.event
           /\ Commit(record, op).state = record.state
<1> DEFINE one == [record EXCEPT !.revision = record.revision + 1]
           more == record.receipts \cup (IF op = <<>> THEN {} ELSE {op})
<1>1. more \in SUBSET Operations
  BY DEF TicketRecords
<1>2. /\ one \in TicketRecords
      /\ one.assignee = record.assignee /\ one.active = record.active
      /\ one.pending = record.pending /\ one.event = record.event /\ one.state = record.state
  BY DEF TicketRecords
<1>3. Commit(record, op) = [one EXCEPT !.receipts = more]
  BY DEF Commit
<1> HIDE DEF one, more
<1> QED
  BY <1>1, <1>2, <1>3 DEF TicketRecords

(* The write of an operation with an identity: committed, or replayed without
   effect. *)
LEMMA ApplyWrites ==
    ASSUME ticket \in TicketRecords, NEW record \in TicketRecords,
           NEW op \in Operations, Apply(op, record)
    PROVE  /\ ticket' \in TicketRecords
           /\ \/ ticket' = ticket
              \/ /\ ticket'.assignee = record.assignee /\ ticket'.active = record.active
                 /\ ticket'.pending = record.pending /\ ticket'.state = record.state
<1>1. CASE Replayed(op)
  BY <1>1 DEF Apply
<1>2. CASE ~Replayed(op)
  <2>1. ticket' = Commit(record, op)
    BY <1>2 DEF Apply
  <2> QED
    BY <2>1, CommitKeeps
<1> QED
  BY <1>1, <1>2

(* A request moves on: its own program counter, and its target when it ends. *)
LEMMA GotoMoves ==
    ASSUME submission \in [Requests -> RequestStates], NEW o \in Requests, NEW pc \in Pcs,
           Goto(o, pc)
    PROVE  /\ submission' \in [Requests -> RequestStates]
           /\ submission'[o].pc = pc
           /\ pc # "idle" => submission'[o].target = submission[o].target
           /\ \A p \in Requests \ {o} : submission'[p] = submission[p]
<1>1. CASE pc = "idle"
  BY <1>1, Distinct DEF Goto, Idle, RequestStates
<1>2. CASE pc # "idle"
  <2>1. submission' = [submission EXCEPT ![o] = [submission[o] EXCEPT !.pc = pc]]
    BY <1>2 DEF Goto
  <2>2. [submission[o] EXCEPT !.pc = pc] \in RequestStates
    BY DEF RequestStates
  <2> QED
    BY <2>1, <2>2 DEF RequestStates
<1> QED
  BY <1>1, <1>2

-----------------------------------------------------------------------------
(* What a step does not touch, it does not disturb. *)

OwnerInv == /\ UntouchedByQueued /\ WorkingAlive /\ NoStolenWork /\ OwnerAssigned
            /\ CallsRegistered /\ OwnerIsTarget /\ ClosedStaysClosed /\ CleanupSound
            /\ NoOrphanOwner

RequestInv == TargetsAssigned /\ ReservationsSound /\ PendingAccounted

(* Ownership is a matter of the assignee, the owner and the jobs. *)
LEMMA OwnerFrame ==
    ASSUME TypeOK, OwnerInv,
           ticket'.assignee = ticket.assignee, ticket'.active = ticket.active,
           UNCHANGED jobVars, UNCHANGED <<working, late>>
    PROVE  OwnerInv'
<1> USE DEF jobVars, OwnerInv
<1>1. UntouchedByQueued' /\ WorkingAlive' /\ CallsRegistered' /\ ClosedStaysClosed' /\ CleanupSound'
  BY DEF UntouchedByQueued, NotStarted, WorkingAlive, CallsRegistered, ClosedStaysClosed,
         CleanupSound
<1>2. NoStolenWork' /\ OwnerAssigned' /\ OwnerIsTarget' /\ NoOrphanOwner'
  BY DEF NoStolenWork, OwnerAssigned, AgentOf, OwnerIsTarget, NoOrphanOwner
<1> QED
  BY <1>1, <1>2

(* Requests are a matter of the pending run, the reservations and the jobs. *)
LEMMA RequestFrame ==
    ASSUME TypeOK, RequestInv,
           ticket'.pending.job \in {ticket.pending.job, NoRun},
           UNCHANGED <<job, target, torn>>, UNCHANGED requestVars
    PROVE  RequestInv'
BY DEF RequestInv, TargetsAssigned, ReservationsSound, PendingAccounted, At, requestVars

-----------------------------------------------------------------------------
(* Users *)

(* The steps of users: saving the assignee, updating the ticket, changing the
   board's settings and cancelling a job keep the invariant. *)
LEMMA UserStep == Inv /\ Users => Inv'
<1> SUFFICES ASSUME Inv, Users PROVE Inv'
  OBVIOUS
<1> USE Distinct DEF Inv, OwnerInv, RequestInv
<1>1. ASSUME NEW a \in Agents \cup {NoAgent}, SaveAssignee(a) PROVE Inv'
  <2> USE DEF SaveAssignee, Assign, RouteCurrent
  <2>1. /\ AssignRecord(ticket, a) \in TicketRecords
        /\ AssignRecord(ticket, a).active = ticket.active
        /\ AssignRecord(ticket, a).pending = ticket.pending
    <3> DEFINE one == [ticket EXCEPT !.assignee = a]
    <3>1. one \in TicketRecords /\ one.active = ticket.active /\ one.pending = ticket.pending
      BY DEF TypeOK, TicketRecords
    <3>2. AssignRecord(ticket, a) = [one EXCEPT !.event = one.event + 1]
      BY DEF AssignRecord, TypeOK, TicketRecords
    <3> HIDE DEF one
    <3> QED
      BY <3>1, <3>2 DEF TicketRecords
  <2>2. ticket.active = NoRun
    BY <1>1
  <2>3. ticket' \in TicketRecords /\ ticket'.active = NoRun /\ ticket'.pending = ticket.pending
    BY <1>1, <2>1, <2>2, CommitKeeps
  <2>4. TypeOK'
    BY <1>1, <2>3 DEF TypeOK, jobVars, requestVars, history
  <2>5. working = {}
    BY <1>1 DEF NoStolenWork, TypeOK
  <2>6. OwnerInv'
    BY <1>1, <2>3, <2>5 DEF UntouchedByQueued, NotStarted, WorkingAlive, NoStolenWork,
       OwnerAssigned, CallsRegistered, OwnerIsTarget, ClosedStaysClosed, CleanupSound,
       NoOrphanOwner, jobVars, history
  <2>7. RequestInv'
    BY <1>1, <2>3, RequestFrame DEF jobVars, history
  <2> QED
    BY <2>4, <2>6, <2>7
<1>2. ASSUME UpdateTicket PROVE Inv'
  <2> USE DEF UpdateTicket, UserUpdate, UpdateRecord
  <2>1. /\ ticket' \in TicketRecords /\ ticket'.pending = ticket.pending
        /\ ticket'.assignee = ticket.assignee /\ ticket'.active = ticket.active
    BY <1>2, CommitKeeps DEF TypeOK
  <2>2. TypeOK'
    BY <1>2, <2>1 DEF TypeOK, jobVars, requestVars, history
  <2>3. OwnerInv' /\ RequestInv'
    BY <1>2, <2>1, OwnerFrame, RequestFrame DEF jobVars, history
  <2> QED
    BY <2>2, <2>3
<1>3. ASSUME NEW c \in Contexts, ChangeSettings(c) PROVE Inv'
  <2>1. TypeOK'
    BY <1>3 DEF ChangeSettings, TypeOK, jobVars, requestVars, history
  <2>2. OwnerInv' /\ RequestInv'
    BY <1>3, OwnerFrame, RequestFrame DEF ChangeSettings, jobVars, history
  <2> QED
    BY <2>1, <2>2
<1>4. ASSUME NEW j \in Jobs, CancelJob(j) PROVE Inv'
  <2> USE <1>4 DEF CancelJob
  <2>1. TypeOK'
    BY DEF TypeOK, Terminal, requestVars, history
  <2>2. OwnerInv'
    BY DEF TypeOK, UntouchedByQueued, NotStarted, WorkingAlive, NoStolenWork, AgentOf,
       OwnerAssigned, CallsRegistered, OwnerIsTarget, ClosedStaysClosed, CleanupSound,
       NoOrphanOwner, Terminal, history
  <2>3. RequestInv'
    BY DEF TypeOK, TargetsAssigned, ReservationsSound, PendingAccounted, At, requestVars, history
  <2> QED
    BY <2>1, <2>2, <2>3
<1> QED
  BY <1>1, <1>2, <1>3, <1>4 DEF Users

-----------------------------------------------------------------------------
(* Run requests *)

(* A write that only marks the ticket for a run, or takes its mark away. *)
LEMMA PendingWrite ==
    ASSUME TypeOK, NEW p \in PendingRuns, NEW op \in Operations,
           Apply(op, [ticket EXCEPT !.pending = p])
    PROVE  /\ ticket' \in TicketRecords
           /\ ticket'.assignee = ticket.assignee /\ ticket'.active = ticket.active
           /\ ticket'.state = ticket.state
           /\ ticket'.pending \in {ticket.pending, p}
<1> DEFINE record == [ticket EXCEPT !.pending = p]
<1>1. /\ record \in TicketRecords /\ record.pending = p
      /\ record.assignee = ticket.assignee /\ record.active = ticket.active
      /\ record.state = ticket.state
  BY DEF TypeOK, TicketRecords
<1>2. Apply(op, record)
  OBVIOUS
<1> HIDE DEF record
<1> QED
  BY <1>1, <1>2, ApplyWrites DEF TypeOK

(* The stages of a requested run, from its reservation to its submission,
   keep the invariant. *)
LEMMA SubmissionStep == Inv /\ Submissions => Inv'
<1> SUFFICES ASSUME Inv, NEW o \in Requests,
                    \/ RunTicket(o) \/ WriteReservation(o) \/ ReserveAgain(o)
                    \/ SubmitJob(o) \/ SubmitFails(o)
             PROVE  Inv'
  BY DEF Submissions
<1> USE Distinct DEF Inv, OwnerInv, RequestInv
<1>a. o \in Jobs
  BY DEF Jobs
<1>b. ticket.assignee # NoAgent => CurrentTarget \in Targets /\ CurrentTarget.agent \in Agents
  BY DEF TypeOK, TicketRecords, CurrentTarget, LatestAssignment, Targets
<1>1. ASSUME Reserve(o) PROVE Inv'
  <2> USE <1>1 DEF Reserve
  <2>1. CurrentTarget \in Targets /\ CurrentTarget.agent \in Agents
    BY <1>b DEF MayReserve
  <2>2. Pending(o, CurrentTarget) \in PendingRuns /\ Pending(o, CurrentTarget).job = o
    BY <2>1 DEF Pending, PendingRuns, Targets
  <2>3. /\ ticket' \in TicketRecords
        /\ ticket'.assignee = ticket.assignee /\ ticket'.active = ticket.active
        /\ ticket'.pending \in {ticket.pending, Pending(o, CurrentTarget)}
    <3>1. <<"run", o>> \in Operations
      BY <1>a DEF Operations
    <3> QED
      BY <2>2, <3>1, PendingWrite
  <2>4. /\ submission' \in [Requests -> RequestStates]
        /\ submission'[o].pc = "reserving" /\ submission'[o].target = CurrentTarget
        /\ \A p \in Requests \ {o} : submission'[p] = submission[p]
    BY <2>1 DEF TypeOK, RequestStates, Pcs
  <2>5. TypeOK'
    BY <2>3, <2>4 DEF TypeOK, jobVars, history
  <2>6. OwnerInv'
    BY <2>3, OwnerFrame DEF history
  <2>7. TargetsAssigned' /\ ReservationsSound'
    BY <2>1, <2>4 DEF TargetsAssigned, ReservationsSound, At, jobVars
  <2>8. PendingAccounted'
    BY <2>2, <2>3, <2>4 DEF PendingAccounted, At, history, TypeOK, TicketRecords, PendingRuns
  <2> QED
    BY <2>5, <2>6, <2>7, <2>8
<1>2. ASSUME Resubmit(o) PROVE Inv'
  <2> USE <1>2 DEF Resubmit
  <2>1. /\ submission' \in [Requests -> RequestStates]
        /\ submission'[o].pc = "replaying" /\ submission'[o].target.agent \in Agents
        /\ \A p \in Requests \ {o} : submission'[p] = submission[p]
    BY <1>b DEF TypeOK, RequestStates, Pcs
  <2>2. TypeOK'
    BY <2>1 DEF TypeOK, jobVars, history
  <2>3. OwnerInv'
    BY OwnerFrame DEF history
  <2>4. RequestInv'
    BY <2>1 DEF TargetsAssigned, ReservationsSound, PendingAccounted, At, jobVars, history,
                TypeOK, TicketRecords, PendingRuns
  <2> QED
    BY <2>2, <2>3, <2>4
<1>3. ASSUME WriteReservation(o) PROVE Inv'
  <2> USE <1>3 DEF WriteReservation
  <2>1. /\ submission' \in [Requests -> RequestStates]
        /\ submission'[o].pc = "reserved" /\ submission'[o].target = submission[o].target
        /\ \A p \in Requests \ {o} : submission'[p] = submission[p]
    BY GotoMoves DEF TypeOK, Pcs
  <2>2. /\ reservation' \in [Requests -> Reservations] /\ reservation'[o].status = "reserved"
        /\ \A p \in Requests \ {o} : reservation'[p] = reservation[p]
    BY DEF TypeOK, Reservations, RequestStates
  <2>3. TypeOK'
    BY <2>1, <2>2 DEF TypeOK, jobVars, history
  <2>4. OwnerInv'
    BY OwnerFrame DEF history
  <2>5. RequestInv'
    BY <2>1, <2>2 DEF TargetsAssigned, ReservationsSound, PendingAccounted, At, jobVars, history,
                TypeOK, TicketRecords, PendingRuns
  <2> QED
    BY <2>3, <2>4, <2>5
<1>4. ASSUME ReserveAgain(o) PROVE Inv'
  <2> USE <1>4 DEF ReserveAgain
  <2>1. /\ submission' \in [Requests -> RequestStates]
        /\ submission'[o].pc \in {"idle", "reserved"}
        /\ submission'[o].pc # "idle" => submission'[o].target = submission[o].target
        /\ \A p \in Requests \ {o} : submission'[p] = submission[p]
    BY GotoMoves DEF TypeOK, Pcs
  <2>2. /\ reservation' \in [Requests -> Reservations]
        /\ reservation'[o].status \in {reservation[o].status, "reserved"}
        /\ \A p \in Requests \ {o} : reservation'[p] = reservation[p]
    <3>1. CASE reservation' = reservation
      BY <3>1 DEF TypeOK
    <3>2. CASE reservation' = [reservation EXCEPT ![o].status = "reserved"]
      BY <3>2 DEF TypeOK, Reservations
    <3> QED
      BY <3>1, <3>2
  <2>3. TypeOK'
    BY <2>1, <2>2 DEF TypeOK, jobVars, history
  <2>4. OwnerInv'
    BY OwnerFrame DEF history
  <2>5. RequestInv'
    BY <2>1, <2>2 DEF TargetsAssigned, ReservationsSound, PendingAccounted, At, jobVars, history,
                TypeOK, TicketRecords, PendingRuns
  <2> QED
    BY <2>3, <2>4, <2>5
<1>5. ASSUME SubmitJob(o) PROVE Inv'
  <2> USE <1>5, <1>a DEF SubmitJob
  <2>1. /\ submission' \in [Requests -> RequestStates]
        /\ submission'[o].pc = "created" /\ submission'[o].target = submission[o].target
        /\ \A p \in Requests \ {o} : submission'[p] = submission[p]
    BY GotoMoves DEF TypeOK, Pcs
  <2>2. /\ job' \in [Jobs -> Terminal \cup {"none", "queued", "running"}]
        /\ job'[o] = "queued" /\ \A j \in Jobs \ {o} : job'[j] = job[j]
    BY DEF TypeOK
  <2>3. /\ target' \in [Jobs -> Targets] /\ target'[o] = submission[o].target
        /\ \A j \in Jobs \ {o} : target'[j] = target[j]
    BY DEF TypeOK, RequestStates
  <2>4. TypeOK'
    BY <2>1, <2>2, <2>3 DEF TypeOK, history
  <2>5. OwnerInv'
    <3>1. \A j \in Jobs : NotStarted(j)' <=> NotStarted(j)
      BY <2>2 DEF NotStarted
    <3>2. UntouchedByQueued' /\ WorkingAlive' /\ CallsRegistered' /\ CleanupSound'
      BY <3>1 DEF UntouchedByQueued, WorkingAlive, CallsRegistered, CleanupSound, history
    <3>3. ClosedStaysClosed' /\ NoOrphanOwner' /\ OwnerIsTarget'
      BY <2>2 DEF ClosedStaysClosed, NoOrphanOwner, OwnerIsTarget, Terminal, history
    <3>4. o \notin working /\ ticket.active # o
      BY DEF UntouchedByQueued, NotStarted
    <3>5. NoStolenWork' /\ OwnerAssigned'
      BY <2>3, <3>4 DEF NoStolenWork, OwnerAssigned, AgentOf, TypeOK, TicketRecords, history
    <3> QED
      BY <3>2, <3>3, <3>5
  <2>6. TargetsAssigned'
    BY <2>1, <2>2, <2>3 DEF TargetsAssigned, At, Jobs
  <2>7. ReservationsSound' /\ PendingAccounted'
    BY <2>1 DEF ReservationsSound, PendingAccounted, At, history, TypeOK, TicketRecords, PendingRuns
  <2> QED
    BY <2>4, <2>5, <2>6, <2>7
<1>6. ASSUME SubmitFails(o) PROVE Inv'
  <2> USE <1>6 DEF SubmitFails
  <2>1. /\ submission' \in [Requests -> RequestStates]
        /\ submission'[o].pc = "failed" /\ submission'[o].target = submission[o].target
        /\ \A p \in Requests \ {o} : submission'[p] = submission[p]
    BY GotoMoves DEF TypeOK, Pcs
  <2>2. TypeOK'
    BY <2>1 DEF TypeOK, jobVars, history
  <2>3. OwnerInv'
    BY OwnerFrame DEF history
  <2>4. RequestInv'
    BY <2>1 DEF TargetsAssigned, ReservationsSound, PendingAccounted, At, jobVars, history,
                TypeOK, TicketRecords, PendingRuns
  <2> QED
    BY <2>2, <2>3, <2>4
<1> QED
  BY <1>1, <1>2, <1>3, <1>4, <1>5, <1>6 DEF RunTicket

(* The server stops: a request that was writing its reservation is remembered. *)
LEMMA CrashStep == Inv /\ ServerCrash => Inv'
<1> SUFFICES ASSUME Inv, ServerCrash PROVE Inv'
  OBVIOUS
<1> USE Distinct DEF Inv, OwnerInv, RequestInv, ServerCrash
<1>1. TypeOK'
  BY DEF TypeOK, jobVars
<1>2. OwnerInv'
  BY OwnerFrame
<1>3. RequestInv'
  BY DEF TargetsAssigned, ReservationsSound, PendingAccounted, At, Idle, jobVars,
         TypeOK, TicketRecords, PendingRuns
<1> QED
  BY <1>1, <1>2, <1>3

-----------------------------------------------------------------------------
(* Reconciliation *)

(* A reservation that is settled is one. *)
LEMMA NotedType ==
    ASSUME TypeOK, NEW o \in Requests,
           NEW status \in {"reserved", "linked", "retryable", "stale", "recovery-pending"}
    PROVE  Noted(o, status) \in Reservations /\ Noted(o, status).status = status
BY DEF TypeOK, Reservations, Noted

(* The end of a reconciliation leaves a reservation with a status, and the
   request that waited for it goes on. *)
LEMMA RecoveredMoves ==
    ASSUME TypeOK, NEW o \in Requests,
           NEW status \in {"linked", "retryable", "stale", "recovery-pending"},
           Recovered(o, status)
    PROVE  /\ submission' \in [Requests -> RequestStates]
           /\ recovery' \in [Requests -> Recoveries] /\ recovery'[o] = NoRecovery
           /\ reservation' \in [Requests -> Reservations] /\ reservation'[o].status = status
           /\ \A p \in Requests \ {o} : /\ submission'[p] = submission[p]
                                        /\ reservation'[p] = reservation[p]
                                        /\ recovery'[p] = recovery[p]
           /\ submission'[o].pc # "idle" =>
                 /\ submission[o].pc # "idle"
                 /\ submission'[o].target = submission[o].target
           /\ submission'[o].pc = "reserving" => submission[o].pc = "reserving"
<1> USE Distinct DEF Recovered
<1>1. /\ Next1(o) \in Pcs
      /\ Next1(o) # "idle" => submission[o].pc # "idle"
      /\ Next1(o) = "reserving" => submission[o].pc = "reserving"
  BY DEF TypeOK, Next1, At, RequestStates, Pcs
<1>2. /\ submission' \in [Requests -> RequestStates] /\ submission'[o].pc = Next1(o)
      /\ Next1(o) # "idle" => submission'[o].target = submission[o].target
      /\ \A p \in Requests \ {o} : submission'[p] = submission[p]
  BY <1>1, GotoMoves DEF TypeOK
<1>3. /\ recovery' \in [Requests -> Recoveries] /\ recovery'[o] = NoRecovery
      /\ \A p \in Requests \ {o} : recovery'[p] = recovery[p]
  BY DEF TypeOK
<1>4. /\ reservation' \in [Requests -> Reservations] /\ reservation'[o].status = status
      /\ \A p \in Requests \ {o} : reservation'[p] = reservation[p]
  BY NotedType DEF TypeOK, Reservations
<1> QED
  BY <1>1, <1>2, <1>3, <1>4

(* One that raised ends the request that waited for it. *)
LEMMA NotRecoveredMoves ==
    ASSUME TypeOK, NEW o \in Requests, NotRecovered(o)
    PROVE  /\ submission' \in [Requests -> RequestStates]
           /\ recovery' \in [Requests -> Recoveries] /\ recovery'[o] = NoRecovery
           /\ \A p \in Requests \ {o} : /\ submission'[p] = submission[p]
                                        /\ recovery'[p] = recovery[p]
           /\ submission'[o].pc # "idle" =>
                 /\ submission[o].pc # "idle"
                 /\ submission'[o].target = submission[o].target
           /\ submission'[o].pc # "reserving"
<1> USE Distinct DEF NotRecovered
<1>1. /\ recovery' \in [Requests -> Recoveries] /\ recovery'[o] = NoRecovery
      /\ \A p \in Requests \ {o} : recovery'[p] = recovery[p]
  BY DEF TypeOK
<1>2. CASE At(o, "reserved")
  BY <1>1, <1>2, GotoMoves DEF TypeOK, At, Pcs
<1>3. CASE ~At(o, "reserved")
  BY <1>1, <1>3, GotoMoves DEF TypeOK, Pcs
<1> QED
  BY <1>2, <1>3

(* What reconciliation decides is one of its reasons. *)
LEMMA DecisionType ==
    ASSUME TypeOK, NEW o \in Requests
    PROVE  /\ Decision(o) \in Reasons \cup {"write"}
           /\ Settled(o) \in {"linked", "retryable", "stale"}
<1>1. job[o] \in Terminal \cup {"none", "queued", "running"}
  BY DEF TypeOK, Jobs
<1>2. Settled(o) \in {"linked", "retryable", "stale"}
  BY DEF Settled
<1>3. CASE job[o] = "none"
  BY <1>3, <1>2 DEF Decision, Reasons, Terminal
<1>4. CASE job[o] \in Terminal
  BY <1>4, <1>2 DEF Decision, Reasons, Terminal
<1>5. CASE job[o] \in {"queued", "running"}
  BY <1>5, <1>2 DEF Decision, Reasons, Terminal
<1> QED
  BY <1>1, <1>3, <1>4, <1>5

(* Reconciliation keeps what the requests rest on. *)
LEMMA ReconciledRequests ==
    ASSUME TypeOK, RequestInv, NEW o \in Requests, reservation[o].status # "none",
           reservation'[o].status # "none",
           recovery'[o] # NoRecovery => /\ recovery'[o].status # "none"
                                        /\ recovery'[o].reason # "none",
           \A p \in Requests \ {o} : /\ submission'[p] = submission[p]
                                     /\ reservation'[p] = reservation[p]
                                     /\ recovery'[p] = recovery[p],
           submission'[o].pc # "idle" => /\ submission[o].pc # "idle"
                                         /\ submission'[o].target = submission[o].target,
           submission'[o].pc = "reserving" => submission[o].pc = "reserving",
           ticket'.pending.job \in {ticket.pending.job, o, NoRun},
           \A p \in Requests : job'[p] = "none" <=> job[p] = "none",
           UNCHANGED <<target, torn>>
    PROVE  RequestInv'
<1> USE DEF RequestInv
<1>1. TargetsAssigned'
  BY DEF TargetsAssigned, At
<1>2. ReservationsSound'
  BY DEF ReservationsSound, At
<1>3. PendingAccounted'
  BY DEF PendingAccounted, At, TypeOK, TicketRecords, PendingRuns
<1> QED
  BY <1>1, <1>2, <1>3

(* A queued job that ends has nothing to clean up. *)
LEMMA QueuedEnds ==
    ASSUME TypeOK, OwnerInv, NEW j \in Jobs, job[j] = "queued", NEW s \in Terminal,
           job' = [job EXCEPT ![j] = s], workers \subseteq workers',
           UNCHANGED <<ticket, target, alive, sessions, registered, request, cleanup,
                       working, late>>
    PROVE  OwnerInv'
<1> USE DEF OwnerInv
<1>1. \A k \in Jobs : NotStarted(k)' => NotStarted(k)
  BY DEF TypeOK, NotStarted, Terminal
<1>2. UntouchedByQueued' /\ WorkingAlive' /\ CallsRegistered' /\ CleanupSound'
  BY <1>1 DEF UntouchedByQueued, WorkingAlive, CallsRegistered, CleanupSound
<1>3. NoStolenWork' /\ OwnerAssigned' /\ OwnerIsTarget'
  BY DEF NoStolenWork, OwnerAssigned, AgentOf, OwnerIsTarget
<1>4. ClosedStaysClosed' /\ NoOrphanOwner'
  BY DEF TypeOK, ClosedStaysClosed, NoOrphanOwner, UntouchedByQueued, NotStarted
<1> QED
  BY <1>2, <1>3, <1>4

(* The reconciliation of a reservation, from its read of the job to its write
   of the ticket, keeps the invariant. *)
LEMMA ReconciliationStep == Inv /\ Reconciliation => Inv'
<1> SUFFICES ASSUME Inv, NEW o \in Requests,
                    ReconcileRead(o) \/ ReconcileWrite(o) \/ ReconcileUnavailable(o)
             PROVE  Inv'
  BY DEF Reconciliation
<1> USE Distinct DEF Inv, OwnerInv, RequestInv
<1>a. o \in Jobs
  BY DEF Jobs
<1>1. ASSUME ReconcileRead(o) PROVE Inv'
  <2> USE <1>1
  <2> DEFINE stale == job[o] = "queued" /\ StaleTarget(reservation[o].target)
  <2>a. /\ reservation[o].status # "none"
        /\ UNCHANGED <<ticket, context, target, workers, alive, sessions, registered,
                       request, cleanup, working, torn, late, faults>>
    BY DEF ReconcileRead, history
  <2>1. CASE Mismatched(o) /\ NotRecovered(o) /\ UNCHANGED <<job, reservation>>
    <3>1. TypeOK'
      BY <2>1, <2>a, NotRecoveredMoves DEF TypeOK
    <3>2. OwnerInv'
      BY <2>1, <2>a, OwnerFrame DEF jobVars
    <3>3. RequestInv'
      BY <2>1, <2>a, NotRecoveredMoves, ReconciledRequests
    <3> QED
      BY <3>1, <3>2, <3>3
  <2>2. ASSUME job' = [job EXCEPT ![o] = IF stale THEN "cancelled" ELSE @]
        PROVE  /\ job' \in [Jobs -> Terminal \cup {"none", "queued", "running"}]
               /\ OwnerInv'
               /\ \A p \in Requests : job'[p] = "none" <=> job[p] = "none"
    <3>1. CASE stale
      <4>1. job' = [job EXCEPT ![o] = "cancelled"] /\ job[o] = "queued"
        BY <2>2, <3>1
      <4> QED
        BY <1>a, <2>a, <4>1, QueuedEnds DEF TypeOK, Terminal, Jobs
    <3>2. CASE ~stale
      <4>1. job' = job
        BY <1>a, <2>2, <3>2 DEF TypeOK
      <4> QED
        BY <2>a, <4>1, OwnerFrame DEF jobVars, TypeOK
    <3> QED
      BY <3>1, <3>2
  <2>3. CASE /\ ~Mismatched(o) /\ Decision(o) = "write"
             /\ Recovered(o, Settled(o))
             /\ job' = [job EXCEPT ![o] = IF stale THEN "cancelled" ELSE @]
    <3>0. Settled(o) \in {"linked", "retryable", "stale"}
      BY DecisionType
    <3>1. TypeOK'
      BY <2>2, <2>3, <2>a, <3>0, RecoveredMoves DEF TypeOK
    <3>2. RequestInv'
      BY <2>2, <2>3, <2>a, <3>0, RecoveredMoves, ReconciledRequests
    <3> QED
      BY <2>2, <2>3, <3>1, <3>2
  <2>4. CASE /\ ~Mismatched(o) /\ Decision(o) # "write"
             /\ recovery' = [recovery EXCEPT ![o] =
                    [reason |-> Decision(o), revision |-> ticket.revision, status |-> Settled(o)]]
             /\ reservation' = [reservation EXCEPT ![o] =
                    Noted(o, IF job[o] # "none" /\ ~@.linked THEN "linked" ELSE @.status)]
             /\ job' = [job EXCEPT ![o] = IF stale THEN "cancelled" ELSE @]
             /\ UNCHANGED submission
    <3>1. /\ recovery' \in [Requests -> Recoveries]
          /\ recovery'[o].status # "none" /\ recovery'[o].reason # "none"
          /\ \A p \in Requests \ {o} : recovery'[p] = recovery[p]
      BY <2>4, DecisionType DEF TypeOK, Recoveries, TicketRecords, Reasons, Terminal
    <3>2. /\ reservation' \in [Requests -> Reservations] /\ reservation'[o].status # "none"
          /\ \A p \in Requests \ {o} : reservation'[p] = reservation[p]
      <4> DEFINE st == IF job[o] # "none" /\ ~reservation[o].linked
                       THEN "linked" ELSE reservation[o].status
      <4>1. st # "none" /\ st \in {"reserved", "linked", "retryable", "stale", "recovery-pending"}
        BY <2>a DEF TypeOK, Reservations
      <4>2. reservation' = [reservation EXCEPT ![o] = Noted(o, st)]
        BY <2>4
      <4> HIDE DEF st
      <4> QED
        BY <4>1, <4>2, NotedType DEF TypeOK
    <3>3. TypeOK'
      BY <2>2, <2>4, <2>a, <3>1, <3>2 DEF TypeOK
    <3>4. RequestInv'
      BY <2>2, <2>4, <2>a, <3>1, <3>2, ReconciledRequests
    <3> QED
      BY <2>2, <2>4, <3>3, <3>4
  <2> QED
    BY <2>1, <2>3, <2>4 DEF ReconcileRead
<1>2. ASSUME ReconcileWrite(o) PROVE Inv'
  <2> USE <1>2
  <2> DEFINE reason == recovery[o].reason
             op == <<reason, o>>
             pending == IF reason = "linked" THEN Pending(o, reservation[o].target) ELSE NoPending
  <2>a. /\ recovery[o] # NoRecovery /\ UNCHANGED <<context, faults>>
        /\ UNCHANGED jobVars /\ UNCHANGED history
    BY DEF ReconcileWrite
  <2>b. reservation[o].status # "none" /\ recovery[o].status \in {"linked", "retryable", "stale"}
    BY <2>a DEF ReservationsSound, TypeOK, Recoveries
  <2>c. pending \in PendingRuns /\ pending.job \in {o, NoRun}
    BY DEF TypeOK, Reservations, Targets, Pending, PendingRuns, NoPending
  <2> HIDE DEF pending
  <2>1. CASE Apply(op, [ticket EXCEPT !.pending = pending]) /\ Recovered(o, recovery[o].status)
    <3>1. /\ ticket' \in TicketRecords
          /\ ticket'.assignee = ticket.assignee /\ ticket'.active = ticket.active
          /\ ticket'.pending.job \in {ticket.pending.job, o, NoRun}
      <4>1. CASE reason \in Reasons
        <5>1. op \in Operations
          BY <4>1, <1>a DEF Operations
        <5> QED
          BY <2>1, <2>c, <5>1, PendingWrite
      <4>2. CASE reason \notin Reasons
        BY <4>2, <2>a DEF TypeOK, Recoveries, ReservationsSound
      <4> QED
        BY <4>1, <4>2
    <3>2. TypeOK'
      BY <2>1, <2>a, <2>b, <3>1, RecoveredMoves DEF TypeOK, jobVars, history
    <3>3. OwnerInv'
      BY <2>a, <3>1, OwnerFrame DEF history
    <3>4. RequestInv'
      BY <2>1, <2>a, <2>b, <3>1, RecoveredMoves, ReconciledRequests DEF jobVars, history
    <3> QED
      BY <3>2, <3>3, <3>4
  <2>2. CASE NotRecovered(o) /\ UNCHANGED <<ticket, reservation>>
    <3>1. TypeOK'
      BY <2>2, <2>a, NotRecoveredMoves DEF TypeOK, jobVars, history
    <3>2. OwnerInv'
      BY <2>2, <2>a, OwnerFrame DEF history
    <3>3. RequestInv'
      BY <2>2, <2>a, <2>b, NotRecoveredMoves, ReconciledRequests DEF jobVars, history
    <3> QED
      BY <3>1, <3>2, <3>3
  <2> QED
    BY <2>1, <2>2 DEF ReconcileWrite, pending
<1>3. ASSUME ReconcileUnavailable(o) PROVE Inv'
  <2> USE <1>3 DEF ReconcileUnavailable
  <2>1. reservation[o].status # "none"
    BY DEF ReservationsSound
  <2>2. TypeOK'
    BY RecoveredMoves DEF TypeOK, jobVars, history
  <2>3. OwnerInv'
    BY OwnerFrame DEF history
  <2>4. RequestInv'
    BY <2>1, RecoveredMoves, ReconciledRequests DEF jobVars, history
  <2> QED
    BY <2>2, <2>3, <2>4
<1> QED
  BY <1>1, <1>2, <1>3

-----------------------------------------------------------------------------
(* Runs *)

(* Transitions lead to states of the workflow. *)
LEMMA DestinationsType == \A s \in States : Destinations[s] \subseteq States
BY TicketConstants DEF Destinations

(* A run that calls its tools is the run of a configured agent. *)
LEMMA StartedAgent ==
    ASSUME Inv, NEW j \in Jobs, ~NotStarted(j)
    PROVE  AgentOf(j) \in Agents
BY TicketConstants DEF Inv, NotStarted, TargetsAssigned, AgentOf, Jobs

(* What a served call writes: the ticket is taken, given up, or changed by its
   owner. *)
Taken(record, j) ==
    /\ ticket.active \in {NoRun, j} /\ ticket.assignee \in {NoAgent, AgentOf(j)}
    /\ record.active = j /\ record.assignee = AgentOf(j) /\ record.state = ticket.state

GivenUp(record, j) ==
    /\ ticket.active = j /\ record.active = NoRun
    /\ record.assignee \in {ticket.assignee, NoAgent} /\ record.state = ticket.state

Moved(record, j) ==
    /\ ticket.active = j /\ record.active = j /\ record.assignee = ticket.assignee

(* What one request of an agent writes into the records of its ticket. *)
LEMMA ServedRecords ==
    ASSUME Inv, NEW j \in Jobs, request[j] # NoRequest, NEW record \in Served(j)
    PROVE  /\ record \in TicketRecords
           /\ record.pending.job \in {ticket.pending.job, NoRun}
           /\ \/ request[j].kind = "start" /\ Taken(record, j)
              \/ request[j].kind \in {"end", "sign_off"} /\ GivenUp(record, j)
              \/ request[j].kind \notin {"start", "end", "sign_off"} /\ Moved(record, j)
<1> USE Distinct, TicketConstants
<1>1. request[j].kind \in AllKinds
  BY DEF Inv, CallsRegistered
<1>2. AgentOf(j) \in Agents
  BY StartedAgent DEF Inv, UntouchedByQueued
<1>t. ticket \in TicketRecords
  BY DEF Inv, TypeOK
<1>3. CASE request[j].kind = "start"
  <2>1. MayStartWork(ticket, j) /\ record = StartWorkRecord(ticket, j)
    BY <1>3 DEF Served, StartWork
  <2> DEFINE one == [ticket EXCEPT !.assignee = AgentOf(j)]
             two == [one EXCEPT !.pending = NoPending]
  <2>2. /\ one \in TicketRecords /\ one.assignee = AgentOf(j) /\ one.state = ticket.state
    BY <1>2, <1>t DEF TicketRecords
  <2>3. /\ two \in TicketRecords /\ two.assignee = AgentOf(j) /\ two.state = ticket.state
        /\ two.pending = NoPending
    <3> HIDE DEF one
    <3> QED
      BY <2>2 DEF TicketRecords
  <2>4. record = [two EXCEPT !.active = j]
    BY <2>1 DEF StartWorkRecord
  <2> HIDE DEF one, two
  <2>5. /\ record \in TicketRecords /\ record.assignee = AgentOf(j) /\ record.active = j
        /\ record.state = ticket.state /\ record.pending = NoPending
    BY <2>3, <2>4 DEF TicketRecords
  <2> QED
    BY <1>3, <2>1, <2>5 DEF MayStartWork, Taken, NoPending
<1>4. CASE request[j].kind = "end"
  <2>1. RequireActiveOwner(ticket, j) /\ record = EndWorkRecord(ticket)
    BY <1>4 DEF Served, EndWork
  <2> QED
    BY <1>4, <1>t, <2>1 DEF EndWorkRecord, RequireActiveOwner, TicketRecords, GivenUp
<1>5. CASE request[j].kind = "sign_off"
  <2>1. RequireActiveOwner(ticket, j) /\ record = SignOffRecord(ticket)
    BY <1>5 DEF Served, SignOff
  <2> DEFINE one == [ticket EXCEPT !.assignee = NoAgent]
  <2>2. /\ one \in TicketRecords /\ one.assignee = NoAgent /\ one.state = ticket.state
        /\ one.pending = ticket.pending
    BY <1>t DEF TicketRecords
  <2>3. record = [one EXCEPT !.active = NoRun]
    BY <2>1 DEF SignOffRecord
  <2> HIDE DEF one
  <2>4. /\ record \in TicketRecords /\ record.assignee = NoAgent /\ record.active = NoRun
        /\ record.state = ticket.state /\ record.pending = ticket.pending
    BY <2>2, <2>3 DEF TicketRecords
  <2> QED
    BY <1>5, <2>1, <2>4 DEF RequireActiveOwner, GivenUp
<1>6. CASE request[j].kind = "transition"
  <2>1. RequireActiveOwner(ticket, j)
        /\ \E s \in Destinations[ticket.state] : record = TransitionRecord(ticket, s)
    BY <1>6 DEF Served, Transition
  <2>2. PICK s \in States : record = TransitionRecord(ticket, s)
    BY <2>1, <1>t, DestinationsType DEF TicketRecords
  <2> QED
    BY <1>6, <1>t, <2>1, <2>2 DEF TransitionRecord, RequireActiveOwner, TicketRecords, Moved
<1>7. CASE request[j].kind \in {"report", "update"}
  <2>1. RequireActiveOwner(ticket, j) /\ record = ticket
    BY <1>7 DEF Served, Report, AgentUpdate, ReportRecord, UpdateRecord
  <2> QED
    BY <1>7, <1>t, <2>1 DEF RequireActiveOwner, Moved
<1> QED
  BY <1>1, <1>3, <1>4, <1>5, <1>6, <1>7 DEF AllKinds

(* Serving a request keeps the invariant: a ticket that another job owns is
   refused. *)
LEMMA ServeStep == ASSUME Inv, NEW j \in Jobs, ServeRequest(j) PROVE Inv'
<1> USE Distinct DEF Inv, OwnerInv, RequestInv
<1>a. /\ request[j] # NoRequest /\ request' = [request EXCEPT ![j] = NoRequest]
      /\ UNCHANGED <<context, job, target, workers, alive, sessions, registered, cleanup>>
      /\ UNCHANGED requestVars /\ UNCHANGED <<torn, late, faults>>
  BY DEF ServeRequest
<1>b. /\ request' \in [Jobs -> Calls] /\ request'[j] = NoRequest
      /\ \A k \in Jobs \ {j} : request'[k] = request[k]
  BY <1>a DEF TypeOK
<1>c. registered[j] /\ ~NotStarted(j) /\ (j \notin late => cleanup[j] = "none" /\ job[j] \notin Terminal)
  BY <1>a DEF CallsRegistered, UntouchedByQueued, ClosedStaysClosed
<1>d. ASSUME ticket' \in TicketRecords, working' \subseteq Jobs PROVE TypeOK'
  BY <1>a, <1>b, <1>d DEF TypeOK, requestVars
<1>e. /\ CallsRegistered' /\ ClosedStaysClosed'
  BY <1>a, <1>b DEF CallsRegistered, ClosedStaysClosed
<1>f. ASSUME ticket'.pending.job \in {ticket.pending.job, NoRun} PROVE RequestInv'
  BY <1>a, <1>f, RequestFrame
<1>1. CASE UNCHANGED <<ticket, working>>
  <2>1. TypeOK' /\ RequestInv'
    BY <1>1, <1>d, <1>f DEF TypeOK
  <2>2. UntouchedByQueued' /\ WorkingAlive' /\ NoStolenWork' /\ OwnerAssigned' /\ OwnerIsTarget'
    BY <1>1, <1>a, <1>b DEF UntouchedByQueued, NotStarted, WorkingAlive, NoStolenWork,
                            OwnerAssigned, AgentOf, OwnerIsTarget
  <2>3. CleanupSound' /\ NoOrphanOwner'
    BY <1>1, <1>a DEF CleanupSound, NoOrphanOwner
  <2> QED
    BY <1>e, <2>1, <2>2, <2>3
<1>2. ASSUME NEW record \in Served(j), ticket' = Commit(record, <<>>),
             working' = CASE request[j].kind = "start" /\ j \in alive -> working \cup {j}
                          [] request[j].kind \in {"end", "sign_off"} -> working \ {j}
                          [] OTHER -> working
      PROVE  Inv'
  <2>1. /\ record \in TicketRecords /\ record.pending.job \in {ticket.pending.job, NoRun}
        /\ \/ request[j].kind = "start" /\ Taken(record, j)
           \/ request[j].kind \in {"end", "sign_off"} /\ GivenUp(record, j)
           \/ request[j].kind \notin {"start", "end", "sign_off"} /\ Moved(record, j)
    BY <1>a, ServedRecords
  <2>2. /\ ticket' \in TicketRecords /\ ticket'.pending = record.pending
        /\ ticket'.assignee = record.assignee /\ ticket'.active = record.active
    BY <1>2, <2>1, CommitKeeps
  <2>3. ticket'.active \in {j, NoRun}
    BY <2>1, <2>2 DEF Taken, GivenUp, Moved
  <2>4. working \subseteq Jobs /\ \A k \in working : k = ticket.active
    BY DEF TypeOK, NoStolenWork
  <2>5. working' \subseteq Jobs /\ working' \subseteq alive
    BY <1>2 DEF TypeOK, WorkingAlive
  <2>6. \A k \in working' : k = j /\ ticket'.active = j /\ ticket'.assignee = AgentOf(j)
    <3>1. CASE request[j].kind = "start"
      BY <1>2, <2>1, <2>2, <2>4, <3>1 DEF Taken
    <3>2. CASE request[j].kind \in {"end", "sign_off"}
      BY <1>2, <2>1, <2>4, <3>2 DEF GivenUp
    <3>3. CASE request[j].kind \notin {"start", "end", "sign_off"}
      BY <1>2, <2>1, <2>2, <2>4, <3>3 DEF Moved, NoStolenWork
    <3> QED
      BY <3>1, <3>2, <3>3
  <2>7. ticket'.active = j => ticket'.assignee = AgentOf(j)
    BY <2>1, <2>2 DEF Taken, GivenUp, Moved, OwnerAssigned
  <2>8. TypeOK' /\ RequestInv'
    BY <2>1, <2>2, <2>5, <1>d, <1>f
  <2>9. UntouchedByQueued'
    BY <1>a, <1>b, <1>c, <2>3, <2>6 DEF UntouchedByQueued, NotStarted
  <2>10. WorkingAlive' /\ NoStolenWork' /\ OwnerAssigned' /\ OwnerIsTarget'
    BY <1>a, <1>c, <2>3, <2>5, <2>6, <2>7 DEF WorkingAlive, NoStolenWork, OwnerAssigned,
                                              AgentOf, OwnerIsTarget
  <2>11. CleanupSound' /\ NoOrphanOwner'
    BY <1>a, <1>c, <2>3 DEF CleanupSound, NoOrphanOwner
  <2> QED
    BY <1>e, <2>8, <2>9, <2>10, <2>11
<1> QED
  BY <1>1, <1>2 DEF ServeRequest

(* The steps of a worker and its agent process keep the invariant. *)
LEMMA RunningStep == Inv /\ Running => Inv'
<1> SUFFICES ASSUME Inv, NEW j \in Jobs,
                    \/ StartRun(j) \/ BrokerFails(j) \/ LaunchFails(j) \/ ProcessExits(j)
                    \/ \E k \in Kinds : BeginRequest(j, k)
                    \/ ServeRequest(j) \/ WorkerDies(j)
             PROVE  Inv'
  BY DEF Running
<1> USE Distinct DEF Inv, OwnerInv, RequestInv
<1>1. ASSUME StartRun(j) PROVE Inv'
  <2> USE <1>1
  <2>1. /\ job[j] = "queued" /\ job' = [job EXCEPT ![j] = "running"]
        /\ workers' = workers \cup {j}
        /\ UNCHANGED <<ticket, context, target, registered, request, working, torn, late, faults>>
        /\ UNCHANGED requestVars
    BY DEF StartRun, history
  <2>2. /\ j \notin sessions /\ j \notin alive /\ j \notin working
        /\ request[j] = NoRequest /\ cleanup[j] = "none" /\ ticket.active # j
    BY <2>1 DEF UntouchedByQueued, NotStarted
  <2>3. \/ sessions' = sessions \cup {j} /\ alive' = alive \cup {j} /\ cleanup' = cleanup
        \/ /\ sessions' = sessions /\ alive' = alive
           /\ cleanup' = [cleanup EXCEPT ![j] = "unconfirmed"]
    BY DEF StartRun, StartBroker, OpenSession
  <2>4. TypeOK'
    BY <2>1, <2>3 DEF TypeOK, requestVars
  <2>5. \A k \in Jobs : /\ NotStarted(k)' => NotStarted(k) /\ k # j
                        /\ k # j => job'[k] = job[k]
    BY <2>1 DEF TypeOK, NotStarted
  <2>6. UntouchedByQueued' /\ WorkingAlive' /\ CallsRegistered'
    BY <2>1, <2>3, <2>5 DEF TypeOK, UntouchedByQueued, WorkingAlive, CallsRegistered
  <2>7. NoStolenWork' /\ OwnerAssigned' /\ OwnerIsTarget'
    BY <2>1 DEF NoStolenWork, OwnerAssigned, AgentOf, OwnerIsTarget
  <2>8. ClosedStaysClosed' /\ CleanupSound' /\ NoOrphanOwner'
    <3>1. job'[j] = "running" /\ "running" \notin Terminal
      BY <2>1 DEF TypeOK, Terminal
    <3>2. \A k \in Jobs \ {j} : /\ cleanup'[k] = cleanup[k]
                                /\ k \in sessions' <=> k \in sessions
                                /\ k \in alive' <=> k \in alive
      BY <2>3 DEF TypeOK
    <3>3. \/ j \in sessions' /\ cleanup'[j] = "none"
          \/ j \notin sessions' /\ cleanup'[j] = "unconfirmed"
      BY <2>2, <2>3 DEF TypeOK
    <3> QED
      BY <2>1, <2>2, <2>5, <3>1, <3>2, <3>3 DEF ClosedStaysClosed, CleanupSound, NoOrphanOwner
  <2>9. RequestInv'
    BY <2>1, <2>5 DEF TargetsAssigned, ReservationsSound, PendingAccounted, At, requestVars, Jobs
  <2> QED
    BY <2>4, <2>6, <2>7, <2>8, <2>9
<1>2. ASSUME BrokerFails(j) PROVE Inv'
  <2> USE <1>2 DEF BrokerFails
  <2>1. TypeOK'
    BY DEF TypeOK, Terminal, requestVars, history
  <2>2. OwnerInv'
    BY QueuedEnds DEF Terminal, history
  <2>3. RequestInv'
    BY DEF TypeOK, TargetsAssigned, ReservationsSound, PendingAccounted, At, requestVars, history
  <2> QED
    BY <2>1, <2>2, <2>3
<1>3. ASSUME LaunchFails(j) PROVE Inv'
  <2> USE <1>3 DEF LaunchFails
  <2>1. TypeOK'
    BY DEF TypeOK, Terminal, requestVars, history
  <2>2. OwnerInv'
    BY QueuedEnds DEF Terminal, history
  <2>3. RequestInv'
    BY DEF TypeOK, TargetsAssigned, ReservationsSound, PendingAccounted, At, requestVars, history
  <2> QED
    BY <2>1, <2>2, <2>3
<1>4. ASSUME ProcessExits(j) PROVE Inv'
  <2> USE <1>4 DEF ProcessExits
  <2>1. TypeOK'
    BY DEF TypeOK, requestVars
  <2>2. OwnerInv'
    BY DEF UntouchedByQueued, NotStarted, WorkingAlive, NoStolenWork, AgentOf,
       OwnerAssigned, CallsRegistered, OwnerIsTarget, ClosedStaysClosed, CleanupSound, NoOrphanOwner
  <2>3. RequestInv'
    BY RequestFrame
  <2> QED
    BY <2>1, <2>2, <2>3
<1>5. ASSUME NEW k \in Kinds, BeginRequest(j, k) PROVE Inv'
  <2> USE <1>5 DEF BeginRequest, Guarded, Authenticated, RegisterTarget
  <2>1. /\ request' \in [Jobs -> Calls] /\ request'[j].kind = k
        /\ \A i \in Jobs \ {j} : request'[i] = request[i]
    BY DEF TypeOK, Calls, TicketRecords
  <2>2. /\ registered' \in [Jobs -> BOOLEAN] /\ registered'[j]
        /\ \A i \in Jobs \ {j} : registered'[i] = registered[i]
    BY DEF TypeOK
  <2>3. TypeOK'
    BY <2>1, <2>2 DEF TypeOK, requestVars, history
  <2>4. UntouchedByQueued' /\ CallsRegistered'
    BY <2>1, <2>2 DEF UntouchedByQueued, NotStarted, CallsRegistered, history
  <2>5. OwnerIsTarget' /\ WorkingAlive' /\ NoStolenWork' /\ OwnerAssigned'
    BY <2>2 DEF OwnerIsTarget, WorkingAlive, NoStolenWork, OwnerAssigned, AgentOf, TypeOK,
                TicketRecords, history
  <2>6. ClosedStaysClosed' /\ CleanupSound' /\ NoOrphanOwner'
    BY <2>1 DEF ClosedStaysClosed, CleanupSound, NoOrphanOwner, history
  <2>7. RequestInv'
    BY RequestFrame DEF history
  <2> QED
    BY <2>3, <2>4, <2>5, <2>6, <2>7
<1>6. ASSUME WorkerDies(j) PROVE Inv'
  <2> USE <1>6 DEF WorkerDies
  <2>1. TypeOK'
    BY DEF TypeOK, requestVars, history
  <2>2. OwnerInv'
    BY DEF TypeOK, UntouchedByQueued, NotStarted, WorkingAlive, NoStolenWork, AgentOf,
       OwnerAssigned, CallsRegistered, OwnerIsTarget, ClosedStaysClosed, CleanupSound,
       NoOrphanOwner, history
  <2>3. RequestInv'
    BY RequestFrame DEF history
  <2> QED
    BY <2>1, <2>2, <2>3
<1> QED
  BY <1>1, <1>2, <1>3, <1>4, <1>5, <1>6, ServeStep

-----------------------------------------------------------------------------
(* Cleanup *)

(* A cleanup takes the ticket only from its own run, and calls itself done only
   when nobody owns the ticket. *)
LEMMA CleanupWrites ==
    ASSUME TypeOK, NEW j \in Jobs, CleanupTargets(j)
    PROVE  /\ ticket' \in TicketRecords
           /\ ticket'.assignee = ticket.assignee /\ ticket'.state = ticket.state
           /\ \/ ticket'.active = ticket.active
              \/ ticket.active = j /\ ticket'.active = NoRun
           /\ ticket'.pending.job \in {ticket.pending.job, NoRun}
           /\ cleanup' \in [Jobs -> {"none", "unconfirmed", "retry", "done"}]
           /\ \A k \in Jobs \ {j} : cleanup'[k] = cleanup[k]
           /\ cleanup'[j] \in {cleanup[j], "retry", "done"}
           /\ cleanup'[j] = "done" => cleanup[j] = "done" \/ ticket'.active = NoRun
           /\ faults' \in Nat
<1> USE Distinct
<1>1. /\ Cleaned(j) \in TicketRecords
      /\ Cleaned(j).assignee = ticket.assignee /\ Cleaned(j).state = ticket.state
      /\ Cleaned(j).pending.job \in {ticket.pending.job, NoRun}
      /\ \/ Cleaned(j).active = ticket.active
         \/ ticket.active = j /\ Cleaned(j).active = NoRun
  <2> DEFINE p == IF ClearPending(j) THEN NoPending ELSE ticket.pending
             a == IF ClearActive(j) THEN NoRun ELSE ticket.active
             one == [ticket EXCEPT !.pending = p]
  <2>1. p \in PendingRuns /\ p.job \in {ticket.pending.job, NoRun}
    BY DEF TypeOK, TicketRecords, NoPending
  <2>2. /\ a \in Jobs \cup {NoRun}
        /\ \/ a = ticket.active
           \/ ticket.active = j /\ a = NoRun
    <3>1. ticket.active \in Jobs \cup {NoRun}
      BY DEF TypeOK, TicketRecords
    <3>2. CASE ClearActive(j)
      BY <3>2 DEF ClearActive
    <3>3. CASE ~ClearActive(j)
      BY <3>1, <3>3
    <3> QED
      BY <3>2, <3>3
  <2> HIDE DEF p, a
  <2>3. /\ one \in TicketRecords /\ one.pending = p /\ one.assignee = ticket.assignee
        /\ one.state = ticket.state
    BY <2>1 DEF TypeOK, TicketRecords
  <2>4. Cleaned(j) = [one EXCEPT !.active = a]
    BY DEF Cleaned, p, a, TypeOK, TicketRecords
  <2> HIDE DEF one
  <2> QED
    BY <2>1, <2>2, <2>3, <2>4 DEF TicketRecords
<1>2. \A record : CleanupMetadata(j, record) \in {"retry", "done"}
  BY DEF CleanupMetadata
<1>3. CASE /\ Apply(<<"cleanup", j>>, Cleaned(j)) /\ UNCHANGED faults
           /\ cleanup' = [cleanup EXCEPT ![j] = IF Replayed(<<"cleanup", j>>) THEN @
                                                ELSE CleanupMetadata(j, Cleaned(j))]
  <2>1. <<"cleanup", j>> \in Operations
    BY DEF Operations
  <2>2. CASE Replayed(<<"cleanup", j>>)
    BY <1>3, <2>2 DEF Apply, TypeOK
  <2>3. CASE ~Replayed(<<"cleanup", j>>)
    <3>1. ticket' = Commit(Cleaned(j), <<"cleanup", j>>)
      BY <1>3, <2>3 DEF Apply
    <3>2. /\ ticket' \in TicketRecords /\ ticket'.assignee = Cleaned(j).assignee
          /\ ticket'.state = Cleaned(j).state /\ ticket'.active = Cleaned(j).active
          /\ ticket'.pending = Cleaned(j).pending
      BY <1>1, <2>1, <3>1, CommitKeeps
    <3>3. cleanup' = [cleanup EXCEPT ![j] = CleanupMetadata(j, Cleaned(j))]
      BY <1>3, <2>3
    <3>4. CleanupMetadata(j, Cleaned(j)) = "done" => Cleaned(j).active = NoRun
      BY DEF CleanupMetadata
    <3> QED
      BY <1>1, <1>2, <1>3, <3>2, <3>3, <3>4 DEF TypeOK
  <2> QED
    BY <2>2, <2>3
<1>4. CASE cleanup' = [cleanup EXCEPT ![j] = CleanupMetadata(j, ticket)]
           /\ UNCHANGED <<ticket, faults>>
  <2>1. CleanupMetadata(j, ticket) = "done" => ticket.active = NoRun
    BY DEF CleanupMetadata
  <2> QED
    BY <1>2, <1>4, <2>1 DEF TypeOK
<1>5. CASE /\ cleanup' = [cleanup EXCEPT ![j] = "retry"] /\ faults' = faults + 1
           /\ UNCHANGED ticket
  BY <1>5 DEF TypeOK
<1> QED
  BY <1>3, <1>4, <1>5 DEF CleanupTargets

(* The end of a run gives up the ownership of its own job only. *)
LEMMA FinalizeStep == ASSUME Inv, NEW j \in Jobs, NEW c \in BOOLEAN, FinalizeRun(j, c) PROVE Inv'
<1> USE Distinct DEF Inv, OwnerInv, RequestInv
<1>a. /\ job[j] = "running" /\ cleanup[j] = "none" /\ sessions' = sessions \ {j}
      /\ late' = IF request[j] = NoRequest THEN late ELSE late \cup {j}
      /\ UNCHANGED <<context, job, target, workers, alive, registered, request, working, torn>>
      /\ UNCHANGED requestVars
  BY DEF FinalizeRun, CloseBroker, RevokeSession
<1>1. /\ ticket' \in TicketRecords
      /\ ticket'.assignee = ticket.assignee
      /\ \/ ticket'.active = ticket.active
         \/ ticket.active = j /\ ticket'.active = NoRun /\ j \notin alive
      /\ ticket'.pending.job \in {ticket.pending.job, NoRun}
      /\ cleanup' \in [Jobs -> {"none", "unconfirmed", "retry", "done"}]
      /\ \A k \in Jobs \ {j} : cleanup'[k] = cleanup[k]
      /\ cleanup'[j] = "done" => ticket'.active # j
      /\ cleanup'[j] = "retry" => j \notin alive
      /\ faults' \in Nat
  <2>1. CASE c /\ HasTargets(j)
    <3>1. CleanupTargets(j) /\ j \notin alive
      BY <2>1 DEF FinalizeRun
    <3> QED
      BY <1>a, <3>1, CleanupWrites
  <2>2. CASE ~(c /\ HasTargets(j))
    <3>1. /\ cleanup' = [cleanup EXCEPT ![j] = IF HasTargets(j) THEN "unconfirmed" ELSE "done"]
          /\ UNCHANGED <<ticket, faults>>
      BY <2>2 DEF FinalizeRun
    <3>2. ~HasTargets(j) => ticket.active # j
      BY DEF HasTargets, OwnerIsTarget
    <3> QED
      BY <3>1, <3>2 DEF TypeOK
  <2> QED
    BY <2>1, <2>2
<1>2. TypeOK'
  BY <1>a, <1>1 DEF TypeOK, requestVars
<1>3. ticket'.active # ticket.active => working = {}
  BY <1>1 DEF TypeOK, NoStolenWork, WorkingAlive
<1>4. UntouchedByQueued' /\ WorkingAlive' /\ CallsRegistered'
  BY <1>a, <1>1 DEF UntouchedByQueued, NotStarted, WorkingAlive, CallsRegistered
<1>5. NoStolenWork' /\ OwnerAssigned' /\ OwnerIsTarget'
  BY <1>a, <1>1, <1>3 DEF NoStolenWork, OwnerAssigned, AgentOf, OwnerIsTarget
<1>6. ClosedStaysClosed' /\ CleanupSound'
  BY <1>a, <1>1 DEF ClosedStaysClosed, CleanupSound, Terminal
<1>7. NoOrphanOwner'
  BY <1>a, <1>1 DEF NoOrphanOwner, Terminal
<1>8. RequestInv'
  BY <1>a, <1>1, RequestFrame
<1> QED
  BY <1>2, <1>4, <1>5, <1>6, <1>7, <1>8

(* Ending a run, failing a dead worker and retrying a cleanup keep the
   invariant. *)
LEMMA EndingStep == Inv /\ Ending => Inv'
<1> SUFFICES ASSUME Inv, NEW j \in Jobs,
                    \/ \E c \in BOOLEAN : FinalizeRun(j, c)
                    \/ EndRun(j) \/ FailDeadWorker(j) \/ RetryCleanup(j)
             PROVE  Inv'
  BY DEF Ending
<1> USE Distinct DEF Inv, OwnerInv, RequestInv
<1>1. ASSUME EndRun(j) PROVE Inv'
  <2> USE <1>1 DEF EndRun
  <2>1. /\ job' \in [Jobs -> Terminal \cup {"none", "queued", "running"}] /\ job'[j] = "ended"
        /\ \A k \in Jobs \ {j} : job'[k] = job[k]
    BY DEF TypeOK, Terminal
  <2>2. TypeOK'
    BY <2>1 DEF TypeOK, requestVars, history
  <2>3. UntouchedByQueued' /\ WorkingAlive' /\ CallsRegistered' /\ CleanupSound'
    BY <2>1 DEF UntouchedByQueued, NotStarted, WorkingAlive, CallsRegistered, CleanupSound, history
  <2>4. NoStolenWork' /\ OwnerAssigned' /\ OwnerIsTarget'
    BY DEF NoStolenWork, OwnerAssigned, AgentOf, OwnerIsTarget, history
  <2>5. ClosedStaysClosed'
    BY <2>1 DEF ClosedStaysClosed, history
  <2>6. NoOrphanOwner'
    BY <2>1 DEF NoOrphanOwner, CleanupSound, TypeOK, history
  <2>7. RequestInv'
    BY <2>1 DEF TargetsAssigned, ReservationsSound, PendingAccounted, At, requestVars, Jobs, history
  <2> QED
    BY <2>2, <2>3, <2>4, <2>5, <2>6, <2>7
<1>2. ASSUME FailDeadWorker(j) PROVE Inv'
  <2> USE <1>2 DEF FailDeadWorker, RevokeSession
  <2>1. /\ job' \in [Jobs -> Terminal \cup {"none", "queued", "running"}] /\ job'[j] = "ended"
        /\ \A k \in Jobs \ {j} : job'[k] = job[k]
    BY DEF TypeOK, Terminal
  <2>2. /\ cleanup' \in [Jobs -> {"none", "unconfirmed", "retry", "done"}]
        /\ cleanup'[j] = IF registered[j] THEN "unconfirmed" ELSE cleanup[j]
        /\ \A k \in Jobs \ {j} : cleanup'[k] = cleanup[k]
    BY DEF TypeOK
  <2>3. request[j] = NoRequest
    BY DEF CallsRegistered
  <2>4. TypeOK'
    BY <2>1, <2>2 DEF TypeOK, requestVars, history
  <2>5. UntouchedByQueued' /\ WorkingAlive' /\ CallsRegistered' /\ CleanupSound'
    BY <2>1, <2>2 DEF UntouchedByQueued, NotStarted, WorkingAlive, CallsRegistered, CleanupSound,
                      history
  <2>6. NoStolenWork' /\ OwnerAssigned' /\ OwnerIsTarget'
    BY DEF NoStolenWork, OwnerAssigned, AgentOf, OwnerIsTarget, history
  <2>7. ClosedStaysClosed'
    BY <2>1, <2>2, <2>3 DEF ClosedStaysClosed, history
  <2>8. NoOrphanOwner'
    BY <2>1, <2>2 DEF NoOrphanOwner, OwnerIsTarget, history
  <2>9. RequestInv'
    BY <2>1 DEF TargetsAssigned, ReservationsSound, PendingAccounted, At, requestVars, Jobs, history
  <2> QED
    BY <2>4, <2>5, <2>6, <2>7, <2>8, <2>9
<1>3. ASSUME RetryCleanup(j) PROVE Inv'
  <2> USE <1>3 DEF RetryCleanup, Retryable
  <2>1. /\ ticket' \in TicketRecords
        /\ ticket'.assignee = ticket.assignee
        /\ \/ ticket'.active = ticket.active
           \/ ticket.active = j /\ ticket'.active = NoRun
        /\ ticket'.pending.job \in {ticket.pending.job, NoRun}
        /\ cleanup' \in [Jobs -> {"none", "unconfirmed", "retry", "done"}]
        /\ \A k \in Jobs \ {j} : cleanup'[k] = cleanup[k]
        /\ cleanup'[j] \in {"retry", "done"}
        /\ cleanup'[j] = "done" => ticket'.active = NoRun
        /\ faults' \in Nat
    BY CleanupWrites
  <2>2. j \notin alive /\ j \notin working
    BY DEF CleanupSound, WorkingAlive
  <2>3. TypeOK'
    BY <2>1 DEF TypeOK, requestVars, history
  <2>4. ~NotStarted(j)
    BY DEF NotStarted, Terminal
  <2>5. UntouchedByQueued' /\ WorkingAlive' /\ CallsRegistered'
    BY <2>1, <2>4 DEF UntouchedByQueued, NotStarted, WorkingAlive, CallsRegistered, history
  <2>6. NoStolenWork' /\ OwnerAssigned' /\ OwnerIsTarget'
    BY <2>1, <2>2 DEF NoStolenWork, OwnerAssigned, AgentOf, OwnerIsTarget, history
  <2>7. ClosedStaysClosed' /\ CleanupSound' /\ NoOrphanOwner'
    BY <2>1, <2>2 DEF ClosedStaysClosed, CleanupSound, NoOrphanOwner, history
  <2>8. RequestInv'
    BY <2>1, RequestFrame DEF history
  <2> QED
    BY <2>3, <2>5, <2>6, <2>7, <2>8
<1> QED
  BY <1>1, <1>2, <1>3, FinalizeStep

-----------------------------------------------------------------------------
(* The invariant holds at first and is kept by every step. *)

(* The invariant holds at first: nothing is owned or reserved by a job. *)
LEMMA InvInit == Init => Inv
<1> SUFFICES ASSUME Init PROVE Inv
  OBVIOUS
<1> USE Distinct, TicketConstants DEF Init
<1>1. PICK s \in States : ticket = [revision |-> 1, assignee |-> NoAgent, event |-> 0,
                                    pending |-> NoPending, active |-> NoRun,
                                    state |-> s, receipts |-> {}]
  OBVIOUS
<1>2. TypeOK
  BY <1>1 DEF TypeOK, TicketRecords, NoRequest
<1>3. UntouchedByQueued /\ WorkingAlive /\ NoStolenWork /\ OwnerAssigned /\ OwnerIsTarget
  BY <1>1 DEF UntouchedByQueued, NotStarted, WorkingAlive, NoStolenWork, OwnerAssigned, OwnerIsTarget
<1>4. CallsRegistered /\ ClosedStaysClosed /\ CleanupSound /\ NoOrphanOwner
  BY <1>1 DEF CallsRegistered, ClosedStaysClosed, CleanupSound, NoOrphanOwner, Terminal
<1>5. TargetsAssigned /\ ReservationsSound /\ PendingAccounted
  BY <1>1 DEF TargetsAssigned, ReservationsSound, PendingAccounted, At, Idle, NoPending, Jobs
<1> QED
  BY <1>2, <1>3, <1>4, <1>5 DEF Inv

(* Every step keeps the invariant. *)
LEMMA InvStep == Inv /\ [Next]_vars => Inv'
<1> SUFFICES ASSUME Inv, [Next]_vars PROVE Inv'
  OBVIOUS
<1>1. CASE UNCHANGED vars
  BY <1>1 DEF vars, jobVars, requestVars, history, Inv, TypeOK, UntouchedByQueued, NotStarted,
     WorkingAlive, NoStolenWork, OwnerAssigned, AgentOf, CallsRegistered, OwnerIsTarget,
     ClosedStaysClosed, CleanupSound, NoOrphanOwner, TargetsAssigned, ReservationsSound,
     PendingAccounted, At
<1> QED
  BY <1>1, UserStep, SubmissionStep, CrashStep, ReconciliationStep, RunningStep, EndingStep
     DEF Next

(* The inductive invariant holds in every reachable state. *)
LEMMA InvAlways == Spec => []Inv
BY InvInit, InvStep, PTL DEF Spec

-----------------------------------------------------------------------------
(* Whatever the users, agents, workers, recovery passes and crashes do, in any
   number, an agent that was told it owns the ticket owns it, an ended owner is
   accounted for in its job record, every owner is a target of its job's cleanup,
   and every mark has a reservation, a request or a recorded crash behind it. *)
THEOREM OwnersAccountedAlways == Spec => []OwnersAccounted
<1>1. Inv => OwnersAccounted
  BY DEF Inv, OwnersAccounted
<1> QED
  BY <1>1, InvAlways, PTL

(* The protocol of revisions, sessions, reservations and cleanups implements the
   ownership contract of module TicketOwnership: every write is an assignment of
   an unowned ticket, a claim, a step of the owner, or a withdrawal from a run
   whose processes are gone. *)
THEOREM TicketsImplementOwnership == Spec => ImplementsOwnership
<1> USE Distinct
<1>1. Init => Ownership!Init
  BY DEF Init, Ownership!Init
<1>2. ASSUME Inv, [Next]_vars PROVE [Ownership!Next]_(Ownership!vars)
  <2> USE <1>2
  <2> USE DEF Ownership!vars
  <2>t. ticket \in TicketRecords /\ alive \subseteq Jobs
    BY DEF Inv, TypeOK
  <2>0. CASE UNCHANGED vars
    BY <2>0 DEF vars, jobVars
  <2>1. CASE Users
    <3>1. ASSUME NEW a \in Agents \cup {NoAgent}, SaveAssignee(a) PROVE Ownership!Assign(a)
      <4>1. ticket.active = NoRun /\ ticket' = Commit(AssignRecord(ticket, a), <<>>) /\ UNCHANGED jobVars
        BY <3>1 DEF SaveAssignee, Assign
      <4> DEFINE one == [ticket EXCEPT !.assignee = a]
      <4>2. /\ one \in TicketRecords /\ one.assignee = a /\ one.active = ticket.active
            /\ one.state = ticket.state
        BY <2>t DEF TicketRecords
      <4>3. AssignRecord(ticket, a) = [one EXCEPT !.event = one.event + 1]
        BY <2>t DEF AssignRecord, TicketRecords
      <4> HIDE DEF one
      <4>4. /\ AssignRecord(ticket, a) \in TicketRecords
            /\ AssignRecord(ticket, a).assignee = a
            /\ AssignRecord(ticket, a).active = ticket.active
            /\ AssignRecord(ticket, a).state = ticket.state
        BY <4>2, <4>3 DEF TicketRecords
      <4> QED
        BY <4>1, <4>4, CommitKeeps DEF Ownership!Assign, jobVars
    <3>2. ASSUME UpdateTicket PROVE UNCHANGED Ownership!vars
      BY <3>2, <2>t, CommitKeeps DEF UpdateTicket, UserUpdate, UpdateRecord, jobVars
    <3>3. ASSUME NEW c \in Contexts, ChangeSettings(c) PROVE UNCHANGED Ownership!vars
      BY <3>3 DEF ChangeSettings, jobVars
    <3>4. ASSUME NEW j \in Jobs, CancelJob(j) PROVE UNCHANGED Ownership!vars
      BY <3>4 DEF CancelJob
    <3> QED
      BY <2>1, <3>1, <3>2, <3>3, <3>4 DEF Users, Ownership!Next
  <2>2. CASE Submissions
    <3>1. ASSUME NEW o \in Requests, Reserve(o) PROVE UNCHANGED Ownership!vars
      <4>1. <<"run", o>> \in Operations /\ Pending(o, CurrentTarget) \in PendingRuns
        BY <2>t DEF Operations, Jobs, Pending, CurrentTarget, LatestAssignment, PendingRuns,
                    TicketRecords
      <4>2. Apply(<<"run", o>>, [ticket EXCEPT !.pending = Pending(o, CurrentTarget)])
            /\ UNCHANGED jobVars
        BY <3>1 DEF Reserve
      <4> QED
        BY <4>1, <4>2, PendingWrite DEF Inv, jobVars
    <3> QED
      BY <2>2, <3>1 DEF Submissions, RunTicket, Resubmit, WriteReservation, ReserveAgain,
                        SubmitJob, SubmitFails, jobVars
  <2>3. CASE ServerCrash
    BY <2>3 DEF ServerCrash, jobVars
  <2>4. CASE Reconciliation
    <3>1. ASSUME NEW o \in Requests, ReconcileWrite(o) PROVE UNCHANGED Ownership!vars
      <4> DEFINE p == IF recovery[o].reason = "linked" THEN Pending(o, reservation[o].target)
                      ELSE NoPending
      <4>1. <<recovery[o].reason, o>> \in Operations /\ p \in PendingRuns
        BY <3>1 DEF Operations, Jobs, Pending, PendingRuns, Inv, TypeOK, ReservationsSound,
                    ReconcileWrite, Recoveries, Reservations, Targets
      <4>2. /\ UNCHANGED jobVars
            /\ \/ UNCHANGED ticket
               \/ Apply(<<recovery[o].reason, o>>, [ticket EXCEPT !.pending = p])
        BY <3>1 DEF ReconcileWrite
      <4> HIDE DEF p
      <4> QED
        BY <4>1, <4>2, PendingWrite DEF Inv, jobVars
    <3> QED
      BY <2>4, <3>1 DEF Reconciliation, ReconcileRead, ReconcileUnavailable, jobVars
  <2>5. CASE Running
    <3>1. ASSUME NEW j \in Jobs, StartRun(j) \/ ProcessExits(j) PROVE Ownership!Live
      BY <3>1, <2>t DEF StartRun, StartBroker, OpenSession, ProcessExits, Ownership!Live
    <3>2. ASSUME NEW j \in Jobs, ServeRequest(j), ~UNCHANGED Ownership!vars
          PROVE  Ownership!Next
      <4>1. PICK record \in Served(j) : ticket' = Commit(record, <<>>)
        BY <3>2 DEF ServeRequest
      <4>2. request[j] # NoRequest /\ alive' = alive
        BY <3>2 DEF ServeRequest
      <4>3. /\ record \in TicketRecords
            /\ Taken(record, j) \/ GivenUp(record, j) \/ Moved(record, j)
        BY <4>1, <4>2, ServedRecords
      <4>4. /\ ticket' \in TicketRecords /\ ticket'.assignee = record.assignee
            /\ ticket'.active = record.active /\ ticket'.state = record.state
        BY <4>1, <4>3, CommitKeeps
      <4>5. AgentOf(j) \in Agents
        BY <4>2, StartedAgent DEF Inv, UntouchedByQueued
      <4>6. CASE Taken(record, j)
        <5>1. ticket.active # j
          BY <3>2, <4>2, <4>4, <4>6 DEF Taken, Inv, OwnerAssigned
        <5>2. Ownership!Claim(j, AgentOf(j))
          BY <4>2, <4>4, <4>6, <5>1 DEF Taken, Ownership!Claim
        <5> QED
          BY <4>5, <5>2 DEF Ownership!Next
      <4>7. CASE GivenUp(record, j)
        BY <4>2, <4>4, <4>7 DEF GivenUp, Ownership!GiveUp, Ownership!Next
      <4>8. CASE Moved(record, j)
        BY <4>2, <4>4, <4>8 DEF Moved, Ownership!Move, Ownership!Next, TicketRecords
      <4> QED
        BY <4>3, <4>6, <4>7, <4>8
    <3> QED
      BY <2>5, <3>1, <3>2 DEF Running, BrokerFails, LaunchFails, BeginRequest, WorkerDies,
                              Ownership!Next
  <2>6. CASE Ending
    <3>1. ASSUME NEW j \in Jobs, CleanupTargets(j), j \notin alive, alive' = alive
          PROVE  Ownership!Withdraw(j) \/ UNCHANGED Ownership!vars
      BY <3>1, CleanupWrites DEF Inv, Ownership!Withdraw
    <3>2. ASSUME NEW j \in Jobs, NEW c \in BOOLEAN, FinalizeRun(j, c)
          PROVE  Ownership!Withdraw(j) \/ UNCHANGED Ownership!vars
      <4>1. CASE c /\ HasTargets(j)
        BY <3>1, <3>2, <4>1 DEF FinalizeRun
      <4>2. CASE ~(c /\ HasTargets(j))
        BY <3>2, <4>2 DEF FinalizeRun
      <4> QED
        BY <4>1, <4>2
    <3>3. ASSUME NEW j \in Jobs, RetryCleanup(j)
          PROVE  Ownership!Withdraw(j) \/ UNCHANGED Ownership!vars
      BY <3>1, <3>3 DEF RetryCleanup, Retryable, Inv, CleanupSound
    <3> QED
      BY <2>6, <3>2, <3>3 DEF Ending, EndRun, FailDeadWorker, Ownership!Next
  <2> QED
    BY <2>0, <2>1, <2>2, <2>3, <2>4, <2>5, <2>6 DEF Next
<1> QED
  BY <1>1, <1>2, InvAlways, PTL DEF Spec, ImplementsOwnership, Ownership!Spec

=============================================================================
