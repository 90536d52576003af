------------------------------ MODULE Tickets ------------------------------
(***************************************************************************)
(* One ticket of a workflow board and everything that competes for it:     *)
(* users who assign, edit and run it, the agents of several jobs that work *)
(* on it through their brokers, the durable reservation of every run       *)
(* request, the recovery of interrupted requests, and the cleanup of runs  *)
(* that ended or died.                                                     *)
(*                                                                         *)
(*   ticket       the stored document (tickets/models.py TicketRecord)     *)
(*   context      the board's settings: binding and workflow digest        *)
(*   job, target  the durable job records and the ticket they are for      *)
(*   workers      jobs whose worker process, with its broker, is up        *)
(*   alive        jobs whose agent processes may still be running          *)
(*   sessions     jobs with a ticket access session (tickets/access.py)    *)
(*   registered   jobs with this ticket among their original targets       *)
(*   request      the agent call a job's broker is serving                 *)
(*   submission   the run request a server thread is handling              *)
(*   reservation  the durable reservation of a run request                 *)
(*   recovery     a reconciliation between its read and its write          *)
(*   cleanup      the "ticket_cleanup" metadata of a job record            *)
(*                                                                         *)
(* A run request's operation id determines its job id, so requests are     *)
(* identified with the jobs they create.  Operations of users and agents   *)
(* carry the ticket version they were prepared against; one that is stale  *)
(* is refused without effect, so only current versions are enumerated,     *)
(* except for calls already under way.                                     *)
(***************************************************************************)
EXTENDS Integers, FiniteSets, WorkflowRules

CONSTANTS
    Requests,      \* run requests of users, and the jobs they create
    PromptJobs,    \* jobs of routines and prompts, which may pick up tickets
    Agents,        \* the configured agents of the team
    PromptAgent,   \* the agent of each prompt job
    NoAgent,       \* an unassigned ticket
    NoRun,         \* no job
    States,        \* the workflow's states
    Transitions,   \* the workflow's transitions, as in WorkflowRules
    FieldKinds,    \* the kind of every field of the workflow
    FieldValues,   \* the field values a ticket may hold or an agent supply
    Assessments,   \* the assessments an agent may give
    Kinds,         \* the ticket tools the agents call
    Contexts,      \* the board's settings: "home", edited ones, and "moved"
                   \* when its storage has been switched to another place
    MaxRevision,   \* bound: no user operation from this revision on
    MaxFaults,     \* bound: storage failures and torn writes
    LateRequests   \* a broker may give up on joining a call that is under way

AllKinds == {"start", "update", "report", "transition", "end", "sign_off"}

ASSUME TicketConstants ==
    /\ Requests \cap PromptJobs = {}
    /\ NoRun \notin Requests \cup PromptJobs
    /\ NoAgent \notin Agents
    /\ PromptAgent \in [PromptJobs -> Agents]
    /\ \A t \in Transitions : t.from \in States /\ t.to \in States
    /\ States # {} /\ Kinds \subseteq AllKinds /\ "home" \in Contexts
    /\ MaxRevision \in Nat
    /\ MaxFaults \in Nat
    /\ LateRequests \in BOOLEAN

VARIABLES ticket, context, job, target, workers, alive, sessions, registered,
          request, submission, reservation, recovery, cleanup,
          working,     \* history: agents that were told they own the ticket
          torn,        \* history: requests cut between their two writes
          late,        \* history: jobs whose broker left a call behind
          faults

jobVars     == <<job, target, workers, alive, sessions, registered, request, cleanup>>
requestVars == <<submission, reservation, recovery>>
history     == <<working, torn, late>>
vars == <<ticket, context, jobVars, requestVars, history, faults>>

Jobs == Requests \cup PromptJobs
NoTarget == [agent |-> NoAgent, event |-> 0, context |-> "home"]
Idle == [pc |-> "idle", target |-> NoTarget]
NoReservation == [target |-> NoTarget, status |-> "none", linked |-> FALSE]
NoRequest == [kind |-> "none", revision |-> 0, context |-> "home"]
NoRecovery == [reason |-> "none", revision |-> 0, status |-> "none"]
Terminal == {"ended", "unlaunched", "cancelled"}
Reasons == Terminal \cup {"missing", "stale", "linked"}

-----------------------------------------------------------------------------
(* The stored ticket. *)

Pending(j, t) == [job |-> j, agent |-> t.agent, event |-> t.event]
NoPending == [job |-> NoRun, agent |-> NoAgent, event |-> 0]

(* The accepted write of a mutated record: the revision advances and the
   receipt of a system operation is sealed in. *)
Commit(record, op) ==
    [record EXCEPT !.revision = @ + 1,
                   !.receipts = @ \cup (IF op = <<>> THEN {} ELSE {op})]

(* LocalTicketStorage.apply: a known operation is replayed without effect, a
   stale revision is refused, and otherwise the mutation is committed. *)
Replayed(op) == op \in ticket.receipts
Accepted(op, revision) == Replayed(op) \/ revision = ticket.revision
Apply(op, record) == ticket' = IF Replayed(op) THEN ticket ELSE Commit(record, op)

(* _latest_assignment_event_id: the number of the latest assigned event. *)
LatestAssignment(record) == record.event

AgentOf(j) == IF j \in PromptJobs THEN PromptAgent[j] ELSE target[j].agent

\* Mutant: any run of the assigned agent counts as the owner.
RequireAssignedOnly(record, j) == record.assignee = AgentOf(j)

(* require_active_owner *)
RequireActiveOwner(record, j) ==
    record.assignee = AgentOf(j) /\ record.active = j

AssignRecord(record, a) == [record EXCEPT !.assignee = a, !.event = @ + 1]

\* Mutant: a ticket that another run works on may be started.
MayStartWorkShared(record, j) ==
    /\ record.assignee \in {NoAgent, AgentOf(j)}
    /\ record.pending.job \in {NoRun, j}

(* _start_work_record: its refusals, and its result. *)
MayStartWork(record, j) ==
    /\ record.assignee \in {NoAgent, AgentOf(j)}
    /\ \/ record.pending = NoPending
       \/ record.pending = [job |-> j, agent |-> AgentOf(j),
                            event |-> LatestAssignment(record)]
    /\ record.active \in {NoRun, j}

StartWorkRecord(record, j) ==
    [record EXCEPT !.assignee = AgentOf(j), !.pending = NoPending, !.active = j]

EndWorkRecord(record) == [record EXCEPT !.active = NoRun]

SignOffRecord(record) == [record EXCEPT !.assignee = NoAgent, !.active = NoRun]

(* Where a ticket in state s can go, when it holds and is given the right values:
   its contents are not part of the model, so all of them are possible. *)
Destinations == [s \in States |->
    {t.to : t \in {t \in Transitions :
        \E current, supplied, outputs \in FieldValues, a \in Assessments :
            EvaluateTransition(FieldKinds, t, s, current, supplied, outputs, a)}}]

(* _transition_record: the destination of an accepted transition. *)
TransitionRecord(record, s) == [record EXCEPT !.state = s]

(* _update_record and _report_record append an event and change contents that
   no property tells apart. *)
UpdateRecord(record) == record
ReportRecord(record) == record

(* The service's contract check: the settings the caller evaluated hold. *)
CurrentContract(c) == c = context /\ context # "moved"

(* The bounds: users and requests stop at MaxRevision, and the agents' calls
   one revision later. *)
Bounded == ticket.revision < MaxRevision
AgentsBounded == ticket.revision <= MaxRevision
-----------------------------------------------------------------------------
(* Users. *)

(* require_route_ref: the page's ticket is on the board the route leads to now. *)
RouteCurrent == context # "moved"

(* TicketService.assign *)
Assign(a) ==
    /\ Bounded /\ CurrentContract(context)
    /\ ticket.active = NoRun
    /\ ticket' = Commit(AssignRecord(ticket, a), <<>>)
    /\ UNCHANGED <<context, jobVars, requestVars, history, faults>>

(* TicketService.update by a user, allowed at any time. *)
UserUpdate ==
    /\ Bounded /\ CurrentContract(context)
    /\ ticket' = Commit(UpdateRecord(ticket), <<>>)
    /\ UNCHANGED <<context, jobVars, requestVars, history, faults>>

(* The dashboard's handlers: a page whose ticket moved is sent back. *)
SaveAssignee(a) == RouteCurrent /\ Assign(a)
UpdateTicket == RouteCurrent /\ UserUpdate

(* The board's workflow is edited, or its storage switched away and back. *)
ChangeSettings(c) ==
    /\ Bounded /\ c # context
    /\ context' = c
    /\ UNCHANGED <<ticket, jobVars, requestVars, history, faults>>

(* cancel_job, from the job's page *)
CancelJob(j) ==
    /\ job[j] = "queued"
    /\ job' = [job EXCEPT ![j] = "cancelled"]
    /\ UNCHANGED <<ticket, context, target, workers, alive, sessions, registered,
                   request, cleanup, requestVars, history, faults>>
-----------------------------------------------------------------------------
(* Run requests: TicketJobCoordinator.submit. *)

CurrentTarget == [agent |-> ticket.assignee, event |-> LatestAssignment(ticket),
                  context |-> context]

(* _may_replace_terminal_pending *)
MayReplacePending(p) ==
    /\ p.job \in Requests
    /\ reservation[p.job].status # "none"
    /\ job[p.job] \in Terminal
    /\ target[p.job] = reservation[p.job].target

(* The refusals of _reserve that do not depend on an earlier attempt. *)
MayReserve(o) ==
    /\ CurrentContract(context)
    /\ ticket.assignee # NoAgent
    /\ ticket.active = NoRun
    /\ LatestAssignment(ticket) > 0
    /\ LET p == ticket.pending IN
       \/ p = NoPending
       \/ p.agent # ticket.assignee \/ p.event # LatestAssignment(ticket)
       \/ p.job = o
       \/ MayReplacePending(p)

At(o, pc) == submission[o].pc = pc
Goto(o, pc) == submission' = [submission EXCEPT ![o] =
                   IF pc = "idle" THEN Idle ELSE [@ EXCEPT !.pc = pc]]

(* _reserve, first attempt: the ticket is marked ... *)
Reserve(o) ==
    /\ Bounded /\ At(o, "idle") /\ reservation[o].status = "none"
    /\ MayReserve(o)
    /\ submission' = [submission EXCEPT ![o] = [pc |-> "reserving", target |-> CurrentTarget]]
    /\ Apply(<<"run", o>>, [ticket EXCEPT !.pending = Pending(o, CurrentTarget)])
    /\ UNCHANGED <<context, jobVars, reservation, recovery, history, faults>>

(* ... and then the durable reservation is written. *)
WriteReservation(o) ==
    /\ At(o, "reserving")
    /\ reservation' = [reservation EXCEPT ![o] =
           [target |-> submission[o].target, status |-> "reserved", linked |-> FALSE]]
    /\ Goto(o, "reserved")
    /\ UNCHANGED <<ticket, context, jobVars, recovery, history, faults>>

(* A repeated request first reconciles what the earlier attempt left. *)
Resubmit(o) ==
    /\ Bounded /\ At(o, "idle") /\ reservation[o].status # "none"
    /\ reservation[o].target.context = context
    /\ ticket.assignee # NoAgent /\ ticket.active = NoRun
    /\ submission' = [submission EXCEPT ![o] = [pc |-> "replaying", target |-> CurrentTarget]]
    /\ UNCHANGED <<ticket, context, jobVars, reservation, recovery, history, faults>>

(* The Run button: the request is made, or made again with its operation id. *)
RunTicket(o) == RouteCurrent /\ (Reserve(o) \/ Resubmit(o))

(* Then it returns the job's handle or a conflict, or goes on to submit: the
   ticket's own mark is replayed from its receipt. *)
ReserveAgain(o) ==
    /\ At(o, "replayed") /\ recovery[o] = NoRecovery
    /\ IF reservation[o].linked \/ ~MayReserve(o)
       THEN Goto(o, "idle") /\ UNCHANGED reservation
       ELSE Goto(o, "reserved") /\ reservation' = [reservation EXCEPT ![o].status = "reserved"]
    /\ UNCHANGED <<ticket, context, jobVars, recovery, history, faults>>

(* The submitter creates the job, or raises. *)
SubmitJob(o) ==
    /\ At(o, "reserved") /\ job[o] = "none"
    /\ job' = [job EXCEPT ![o] = "queued"]
    /\ target' = [target EXCEPT ![o] = submission[o].target]
    /\ Goto(o, "created")
    /\ UNCHANGED <<ticket, context, workers, alive, sessions, registered, request,
                   cleanup, reservation, recovery, history, faults>>

SubmitFails(o) ==
    /\ At(o, "reserved") /\ faults < MaxFaults
    /\ Goto(o, "failed")
    /\ faults' = faults + 1
    /\ UNCHANGED <<ticket, context, jobVars, reservation, recovery, history>>

(* The server stops: its threads are gone, what they wrote stays. *)
ServerCrash ==
    /\ faults < MaxFaults
    /\ \E o \in Requests : ~At(o, "idle") \/ recovery[o] # NoRecovery
    /\ submission' = [o \in Requests |-> Idle]
    /\ recovery' = [o \in Requests |-> NoRecovery]
    /\ torn' = torn \cup {o \in Requests : At(o, "reserving")}
    /\ faults' = faults + 1
    /\ UNCHANGED <<ticket, context, jobVars, reservation, working, late>>
-----------------------------------------------------------------------------
(* Reconciliation of one reservation: _reconcile_pending. *)

Next1(o) == IF At(o, "replaying") THEN "replayed"
            ELSE IF At(o, "failed") \/ At(o, "created") THEN "idle"
            ELSE submission[o].pc

(* The board no longer offers the ticket to the reserved target. *)
StaleTarget(t) ==
    \/ ticket.assignee # t.agent
    \/ LatestAssignment(ticket) # t.event
    \/ context # t.context

(* _may_clear_terminal_pending *)
MayClearTerminal(o) ==
    /\ ticket.pending.job = o
    /\ ticket.active = NoRun
    /\ ~registered[o]
    /\ job[o] \in {"cancelled", "unlaunched"}

\* Mutant: a reservation whose job was never created is left alone.
DecisionIgnoresMissing(o) ==
    IF job[o] \in Terminal /\ MayClearTerminal(o) THEN job[o] ELSE "write"

(* What reconciliation decides to write, from what it reads. *)
Decision(o) ==
    LET t == reservation[o].target
        holds == ticket.pending.job = o IN
    CASE job[o] = "none" -> IF holds THEN "missing" ELSE "write"
      [] job[o] \in Terminal -> IF MayClearTerminal(o) THEN job[o] ELSE "write"
      [] job[o] \notin Terminal \cup {"none"} /\ StaleTarget(t) ->
             IF holds THEN "stale" ELSE "write"
      [] OTHER -> IF holds THEN "write" ELSE "linked"

(* The status the reservation gets when the decision has been carried out. *)
Settled(o) == IF job[o] = "none" THEN "retryable"
              ELSE IF job[o] \notin Terminal /\ StaleTarget(reservation[o].target)
                   THEN "stale" ELSE "linked"

Mismatched(o) == job[o] # "none" /\ target[o] # reservation[o].target

(* The reservation with a new status, linked to its job once that is found. *)
Noted(o, status) == [target |-> reservation[o].target, status |-> status,
                     linked |-> reservation[o].linked \/ job[o] # "none"]

(* The end of a reconciliation: the reservation's status, and the request that
   waited for it goes on. *)
Recovered(o, status) ==
    /\ recovery' = [recovery EXCEPT ![o] = NoRecovery]
    /\ reservation' = [reservation EXCEPT ![o] = Noted(o, status)]
    /\ Goto(o, Next1(o))

(* It raised: the request that waited for it raises too. *)
NotRecovered(o) ==
    /\ recovery' = [recovery EXCEPT ![o] = NoRecovery]
    /\ Goto(o, IF At(o, "reserved") THEN "reserved" ELSE "idle")

(* The reads: job, reservation, ticket.  A found job is linked at once and a
   queued one whose target went stale is cancelled. *)
ReconcileRead(o) ==
    LET stale == job[o] = "queued" /\ StaleTarget(reservation[o].target) IN
    /\ reservation[o].status # "none" /\ recovery[o] = NoRecovery
    /\ ~At(o, "reserving") /\ ~At(o, "replayed")
    /\ \/ Mismatched(o) /\ NotRecovered(o) /\ UNCHANGED <<job, reservation>>
       \/ /\ ~Mismatched(o) /\ Decision(o) = "write"
          /\ Recovered(o, Settled(o))
          /\ job' = [job EXCEPT ![o] = IF stale THEN "cancelled" ELSE @]
       \/ /\ ~Mismatched(o) /\ Decision(o) # "write"
          /\ recovery' = [recovery EXCEPT ![o] =
                 [reason |-> Decision(o), revision |-> ticket.revision, status |-> Settled(o)]]
          /\ reservation' = [reservation EXCEPT ![o] =
                 Noted(o, IF job[o] # "none" /\ ~@.linked THEN "linked" ELSE @.status)]
          /\ job' = [job EXCEPT ![o] = IF stale THEN "cancelled" ELSE @]
          /\ UNCHANGED submission
    /\ UNCHANGED <<ticket, context, target, workers, alive, sessions, registered,
                   request, cleanup, history, faults>>

(* The write: refused when the ticket moved on since the read, replayed when
   the same decision was carried out before. *)
ReconcileWrite(o) ==
    LET reason == recovery[o].reason
        op == <<reason, o>>
        pending == IF reason = "linked" THEN Pending(o, reservation[o].target)
                   ELSE NoPending IN
    /\ recovery[o] # NoRecovery
    /\ IF Accepted(op, recovery[o].revision)
       THEN Apply(op, [ticket EXCEPT !.pending = pending]) /\ Recovered(o, recovery[o].status)
       ELSE NotRecovered(o) /\ UNCHANGED <<ticket, reservation>>
    /\ UNCHANGED <<context, jobVars, history, faults>>

(* The ticket's storage is unavailable: the reservation says so. *)
ReconcileUnavailable(o) ==
    /\ recovery[o] # NoRecovery
    /\ faults < MaxFaults
    /\ Recovered(o, "recovery-pending")
    /\ faults' = faults + 1
    /\ UNCHANGED <<ticket, context, jobVars, history>>
-----------------------------------------------------------------------------
(* Workers. *)

(* TicketJobCoordinator.preflight *)
Preflight(j) ==
    /\ CurrentContract(target[j].context)
    /\ ticket.assignee = target[j].agent
    /\ LatestAssignment(ticket) = target[j].event
    /\ ticket.pending = Pending(j, target[j])

(* TicketAccessRegistry: a session is opened for a running job, its token is good
   while the session and the job's running state last, and closing the broker or
   finding its worker dead revokes it. *)
OpenSession(j) == sessions' = sessions \cup {j}
Authenticated(j) == j \in sessions /\ job[j] = "running"
RevokeSession(j) == sessions' = sessions \ {j}

(* register_target: the ticket joins the targets that the job's cleanup visits. *)
RegisterTarget(j) == registered' = [registered EXCEPT ![j] = TRUE]

(* TicketBroker.start: the endpoint serves under a session of its own, unless it
   does not come up and the session is closed again. *)
StartBroker(j) == OpenSession(j)

(* _McpAuthGuard: every call reaches the endpoint of a live worker with the token
   of its session. *)
Guarded(j) == j \in workers /\ Authenticated(j)

(* execute_job up to the runtime: the broker starts, and a ticket's own job checks
   that the ticket still waits for it. *)
StartRun(j) ==
    /\ job[j] = "queued"
    /\ workers' = workers \cup {j}
    /\ job' = [job EXCEPT ![j] = "running"]
    /\ IF j \in PromptJobs \/ Preflight(j)
       THEN StartBroker(j) /\ alive' = alive \cup {j} /\ UNCHANGED cleanup
       ELSE cleanup' = [cleanup EXCEPT ![j] = "unconfirmed"] /\ UNCHANGED <<sessions, alive>>
    /\ UNCHANGED <<ticket, context, target, registered, request, requestVars, history, faults>>

(* The broker does not come up: its session is closed and the job fails before
   the runtime, with no cleanup to record. *)
BrokerFails(j) ==
    /\ job[j] = "queued" /\ faults < MaxFaults
    /\ workers' = workers \cup {j}
    /\ job' = [job EXCEPT ![j] = "ended"]
    /\ faults' = faults + 1
    /\ UNCHANGED <<ticket, context, target, alive, sessions, registered, request, cleanup,
                   requestVars, history>>

(* A queued job whose worker never came up is failed by the launcher. *)
LaunchFails(j) ==
    /\ job[j] = "queued" /\ faults < MaxFaults
    /\ job' = [job EXCEPT ![j] = "unlaunched"]
    /\ faults' = faults + 1
    /\ UNCHANGED <<ticket, context, target, workers, alive, sessions, registered,
                   request, cleanup, requestVars, history>>

(* The agent's processes end. *)
ProcessExits(j) ==
    /\ j \in alive
    /\ alive' = alive \ {j}
    /\ working' = working \ {j}
    /\ UNCHANGED <<ticket, context, job, target, workers, sessions, registered, request,
                   cleanup, requestVars, torn, late, faults>>

(* An agent calls a ticket tool: the broker authenticates the token, registers
   the ticket as one of the job's targets and validates the session. *)
BeginRequest(j, kind) ==
    /\ AgentsBounded
    /\ j \in alive /\ Guarded(j)
    /\ request[j] = NoRequest
    /\ context # "moved"
    /\ RegisterTarget(j)
    /\ request' = [request EXCEPT ![j] =
           [kind |-> kind, revision |-> ticket.revision, context |-> context]]
    /\ UNCHANGED <<ticket, context, job, target, workers, alive, sessions, cleanup,
                   requestVars, history, faults>>

(* The service's calls: the records each may write, none when it refuses.  Only
   the owner's own run gets past _require_agent_ownership. *)
StartWork(j) == IF MayStartWork(ticket, j) THEN {StartWorkRecord(ticket, j)} ELSE {}

EndWork(j) == IF RequireActiveOwner(ticket, j) THEN {EndWorkRecord(ticket)} ELSE {}

SignOff(j) == IF RequireActiveOwner(ticket, j) THEN {SignOffRecord(ticket)} ELSE {}

Transition(j) ==
    IF RequireActiveOwner(ticket, j)
    THEN {TransitionRecord(ticket, s) : s \in Destinations[ticket.state]} ELSE {}

Report(j) == IF RequireActiveOwner(ticket, j) THEN {ReportRecord(ticket)} ELSE {}

AgentUpdate(j) == IF RequireActiveOwner(ticket, j) THEN {UpdateRecord(ticket)} ELSE {}

(* dispatch_ticket_command *)
Served(j) ==
    CASE request[j].kind = "start"      -> StartWork(j)
      [] request[j].kind = "end"        -> EndWork(j)
      [] request[j].kind = "sign_off"   -> SignOff(j)
      [] request[j].kind = "transition" -> Transition(j)
      [] request[j].kind = "report"     -> Report(j)
      [] request[j].kind = "update"     -> AgentUpdate(j)

(* _mutate, under the workflow and ticket locks: the call is still about the
   board and the revision it was prepared against ... *)
CurrentCall(j) == CurrentContract(request[j].context) /\ request[j].revision = ticket.revision

(* ... and commits, or is refused. *)
ServeRequest(j) ==
    /\ request[j] # NoRequest /\ j \in workers
    /\ request' = [request EXCEPT ![j] = NoRequest]
    /\ \/ /\ CurrentCall(j)
          /\ \E record \in Served(j) : ticket' = Commit(record, <<>>)
          /\ working' = CASE request[j].kind = "start" /\ j \in alive -> working \cup {j}
                          [] request[j].kind \in {"end", "sign_off"} -> working \ {j}
                          [] OTHER -> working
       \/ /\ ~(CurrentCall(j) /\ Served(j) # {})
          /\ UNCHANGED <<ticket, working>>
    /\ UNCHANGED <<context, job, target, workers, alive, sessions, registered, cleanup,
                   requestVars, torn, late, faults>>

(* The broker's thread dies with its worker. *)
WorkerDies(j) ==
    /\ j \in workers
    /\ job[j] \in Terminal \/ faults < MaxFaults
    /\ faults' = IF job[j] \in Terminal THEN faults ELSE faults + 1
    /\ workers' = workers \ {j}
    /\ request' = [request EXCEPT ![j] = NoRequest]
    /\ UNCHANGED <<ticket, context, job, target, alive, sessions, registered, cleanup,
                   requestVars, history>>
-----------------------------------------------------------------------------
(* Cleanup of a run: TicketJobCoordinator.cleanup, for confirmed evidence. *)

(* _cleanup_job_target and may_clear_active_work *)
ClearPending(j) == ticket.pending.job = j /\ ticket.pending.event = target[j].event
\* Mutant: a retry after the end of the job no longer clears.
ClearActiveWhileRunning(j) == registered[j] /\ ticket.active = j /\ job[j] = "running"

ClearActive(j) == registered[j] /\ ticket.active = j

HasTargets(j) == registered[j] \/ j \in Requests

Cleaned(j) == [ticket EXCEPT !.pending = IF ClearPending(j) THEN NoPending ELSE @,
                             !.active  = IF ClearActive(j) THEN NoRun ELSE @]

(* _ticket_cleanup_metadata, for a confirmed stop: a target that is not cleared,
   or an error, asks for a retry. *)
CleanupMetadata(j, record) ==
    IF record.active = NoRun /\ record.pending.job # j THEN "done" ELSE "retry"

(* The original storage is written, or the target is reported as pending. *)
CleanupTargets(j) ==
    \/ /\ ClearPending(j) \/ ClearActive(j)
       /\ Apply(<<"cleanup", j>>, Cleaned(j))
       /\ cleanup' = [cleanup EXCEPT ![j] =
              IF Replayed(<<"cleanup", j>>) THEN @
              ELSE CleanupMetadata(j, Cleaned(j))]
       /\ UNCHANGED faults
    \/ /\ ~ClearPending(j) /\ ~ClearActive(j)
       /\ cleanup' = [cleanup EXCEPT ![j] = CleanupMetadata(j, ticket)]
       /\ UNCHANGED <<ticket, faults>>
    \/ /\ faults < MaxFaults
       /\ cleanup' = [cleanup EXCEPT ![j] = "retry"]
       /\ faults' = faults + 1
       /\ UNCHANGED ticket

(* TicketBroker.close: its thread is joined, unless a call outlasts the join. *)
CloseBroker(j) ==
    /\ request[j] = NoRequest \/ LateRequests
    /\ late' = IF request[j] = NoRequest THEN late ELSE late \cup {j}

(* _finalize_ticket_runtime: the broker is closed, the session revoked, and the tickets are cleaned up if the stop of every
   process was confirmed. *)
FinalizeRun(j, confirmed) ==
    /\ job[j] = "running" /\ j \in workers /\ j \in sessions /\ cleanup[j] = "none"
    /\ confirmed => j \notin alive
    /\ CloseBroker(j)
    /\ RevokeSession(j)
    /\ IF confirmed /\ HasTargets(j)
       THEN CleanupTargets(j)
       ELSE /\ cleanup' = [cleanup EXCEPT ![j] = IF HasTargets(j) THEN "unconfirmed" ELSE "done"]
            /\ UNCHANGED <<ticket, faults>>
    /\ UNCHANGED <<context, job, target, workers, alive, registered, request, requestVars,
                   working, torn>>

(* The worker writes the terminal status of its job. *)
EndRun(j) ==
    /\ job[j] = "running" /\ j \in workers /\ cleanup[j] # "none"
    /\ job' = [job EXCEPT ![j] = "ended"]
    /\ UNCHANGED <<ticket, context, target, workers, alive, sessions, registered, request,
                   cleanup, requestVars, history, faults>>

(* reconcile_jobs on a running job whose worker is gone. *)
FailDeadWorker(j) ==
    /\ job[j] = "running" /\ j \notin workers
    /\ job' = [job EXCEPT ![j] = "ended"]
    /\ RevokeSession(j)
    /\ cleanup' = [cleanup EXCEPT ![j] = IF registered[j] THEN "unconfirmed" ELSE @]
    /\ UNCHANGED <<ticket, context, target, workers, alive, registered, request,
                   requestVars, history, faults>>

(* _ticket_cleanup_evidence: only confirmed evidence is ever retried. *)
Retryable(j) == cleanup[j] = "retry"

(* _retry_ticket_cleanup, for a job that ended. *)
RetryCleanup(j) ==
    /\ job[j] \in Terminal /\ Retryable(j)
    /\ CleanupTargets(j)
    /\ UNCHANGED <<context, job, target, workers, alive, sessions, registered, request,
                   requestVars, history>>
-----------------------------------------------------------------------------
Init ==
    /\ \E s \in States : ticket = [revision |-> 1, assignee |-> NoAgent, event |-> 0,
                                   pending |-> NoPending, active |-> NoRun,
                                   state |-> s, receipts |-> {}]
    /\ context = "home"
    /\ job = [j \in Jobs |-> IF j \in PromptJobs THEN "queued" ELSE "none"]
    /\ target = [j \in Jobs |-> NoTarget]
    /\ workers = {} /\ alive = {} /\ sessions = {}
    /\ registered = [j \in Jobs |-> FALSE]
    /\ request = [j \in Jobs |-> NoRequest]
    /\ submission = [o \in Requests |-> Idle]
    /\ reservation = [o \in Requests |-> NoReservation]
    /\ recovery = [o \in Requests |-> NoRecovery]
    /\ cleanup = [j \in Jobs |-> "none"]
    /\ working = {} /\ torn = {} /\ late = {}
    /\ faults = 0

Users == \/ \E a \in Agents \cup {NoAgent} : SaveAssignee(a)
         \/ UpdateTicket
         \/ \E c \in Contexts : ChangeSettings(c)
         \/ \E j \in Jobs : CancelJob(j)

Submissions == \E o \in Requests : \/ RunTicket(o) \/ WriteReservation(o) \/ ReserveAgain(o)
                                   \/ SubmitJob(o) \/ SubmitFails(o)

Reconciliation == \E o \in Requests : \/ ReconcileRead(o) \/ ReconcileWrite(o)
                                      \/ ReconcileUnavailable(o)

Running == \E j \in Jobs :
              \/ StartRun(j) \/ BrokerFails(j) \/ LaunchFails(j) \/ ProcessExits(j)
              \/ \E k \in Kinds : BeginRequest(j, k)
              \/ ServeRequest(j) \/ WorkerDies(j)

Ending == \E j \in Jobs : \/ \E c \in BOOLEAN : FinalizeRun(j, c)
                          \/ EndRun(j) \/ FailDeadWorker(j) \/ RetryCleanup(j)

Next == Users \/ Submissions \/ ServerCrash \/ Reconciliation \/ Running \/ Ending

Spec == Init /\ [][Next]_vars

(* Drains reconcile reservations and dead workers again and again, every start
   of the server retries the cleanups that are left, and a request or a worker
   that only has to write its result goes on.  Nothing obliges users, agents or processes. *)
Fairness ==
    /\ \A o \in Requests : WF_vars(ReserveAgain(o)) /\ WF_vars(ReconcileRead(o))
                                                  /\ WF_vars(ReconcileWrite(o))
    /\ \A j \in Jobs : WF_vars(EndRun(j)) /\ WF_vars(FailDeadWorker(j))
                                          /\ WF_vars(RetryCleanup(j))

FairSpec == Spec /\ Fairness

-----------------------------------------------------------------------------
(* Properties. *)

PendingRuns == [job : Requests \cup {NoRun}, agent : Agents \cup {NoAgent}, event : Nat]
Targets == [agent : Agents \cup {NoAgent}, event : Nat, context : Contexts]

Operations == ({"run", "cleanup"} \cup Reasons) \X Jobs
TicketRecords ==
    [revision : Nat, assignee : Agents \cup {NoAgent}, event : Nat,
     pending : PendingRuns, active : Jobs \cup {NoRun}, state : States,
     receipts : SUBSET Operations]
Pcs == {"idle", "reserving", "reserved", "replaying", "replayed", "created", "failed"}
RequestStates == [pc : Pcs, target : Targets]
Reservations ==
    [target : Targets, linked : BOOLEAN,
     status : {"none", "reserved", "linked", "retryable", "stale", "recovery-pending"}]
Recoveries == [reason : Reasons \cup {"none"}, revision : Nat,
               status : {"none", "linked", "retryable", "stale"}]
Calls == [kind : Kinds \cup {"none"}, revision : Nat, context : Contexts]

TypeOK ==
    /\ ticket \in TicketRecords
    /\ context \in Contexts
    /\ job \in [Jobs -> Terminal \cup {"none", "queued", "running"}]
    /\ target \in [Jobs -> Targets]
    /\ workers \subseteq Jobs /\ alive \subseteq Jobs /\ sessions \subseteq Jobs
    /\ working \subseteq Jobs /\ late \subseteq Jobs
    /\ torn \subseteq Requests
    /\ registered \in [Jobs -> BOOLEAN]
    /\ request \in [Jobs -> Calls]
    /\ submission \in [Requests -> RequestStates]
    /\ reservation \in [Requests -> Reservations]
    /\ recovery \in [Requests -> Recoveries]
    /\ cleanup \in [Jobs -> {"none", "unconfirmed", "retry", "done"}]
    /\ faults \in Nat

(* An agent that was told it owns the ticket, and whose processes still run,
   owns it: neither another run, a user, a reconciliation nor a cleanup takes
   the ticket from under it (_start_work_record, _assign_record,
   may_clear_active_work). *)
NoStolenWork == \A j \in working : ticket.active = j /\ ticket.assignee = AgentOf(j)

(* An ended run that the ticket still names as its owner is always accounted
   for in the run's job record: its cleanup is either to be retried or reported
   as unconfirmed.  It fails only when a broker gave up on a call. *)
NoOrphanOwner ==
    \A j \in Jobs \ late :
        ticket.active = j /\ job[j] \in Terminal => cleanup[j] \in {"retry", "unconfirmed"}

(* A ticket's owner is always among the targets its job's cleanup will visit,
   because the broker registers the ticket before it serves the call. *)
OwnerIsTarget == ticket.active # NoRun => registered[ticket.active]

(* One assignment of a ticket never has two runs at work at once.  The code does
   not keep this: a recovery pass of another process that reads "no job yet" between
   the reservation and the creation of its job removes the ticket's mark when
   the job has meanwhile been started, and the next request is let in. *)
OneEffectiveRun ==
    \A o, p \in Requests \cap alive :
        target[o].event = target[p].event => o = p

(* A ticket marked for a run always has a durable reservation behind it that
   recovery can settle, or a request still writing one, unless a crash fell
   between the two writes. *)
PendingAccounted ==
    LET o == ticket.pending.job IN
    o # NoRun => reservation[o].status # "none" \/ At(o, "reserving") \/ o \in torn

(* A ticket marked for a run whose job was never created, by a request that is
   no longer under way, is offered again or gets its job (_reconcile_pending,
   "missing"), unless a crash left no reservation to find it by. *)
MissingRunCleared ==
    \A o \in Requests :
        (ticket.pending.job = o /\ job[o] = "none" /\ At(o, "idle") /\ o \notin torn)
        ~> (ticket.pending.job # o \/ job[o] # "none")

(* A run that ended with its processes confirmed gone releases its ticket, also
   when its storage was unavailable at first (cleanup, _retry_ticket_cleanup),
   unless the worker's death afterwards replaced the evidence. *)
ConfirmedStopReleases ==
    \A j \in Jobs :
        (ticket.active = j /\ cleanup[j] = "retry")
        ~> (ticket.active # j \/ cleanup[j] = "unconfirmed")

(* The detailed protocol implements the ownership contract. *)
Ownership == INSTANCE TicketOwnership WITH
    Runs <- Jobs, assignee <- ticket.assignee, owner <- ticket.active,
    state <- ticket.state, alive <- alive
ImplementsOwnership == Ownership!Spec

(* What the tickets say of their owners and runs holds together in every state. *)
OwnersAccounted ==
    TypeOK /\ NoStolenWork /\ NoOrphanOwner /\ OwnerIsTarget /\ PendingAccounted
=============================================================================
