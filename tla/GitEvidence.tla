----------------------------- MODULE GitEvidence -----------------------------
(***************************************************************************)
(* Capture of committed Git changes as trusted evidence of a ticket:       *)
(*   src/flowgency/tickets/service.py   capture_git_evidence and the       *)
(*                                      checks on later field values       *)
(*   src/flowgency/tickets/git_evidence.py, tickets/artifacts.py           *)
(*   src/flowgency/git_evidence/        the isolated Git reads             *)
(*   src/flowgency/tickets/storages/local.py   artifact and record files   *)
(*                                                                         *)
(* A call of an agent checks its rights under the team's lock, reads the   *)
(* repository with every lock released (two groups of Git commands, each   *)
(* run under Supervision), and commits under the lock again.  Meanwhile    *)
(* the publication policy, the workspace, the agent's read permissions and *)
(* the workflow may be edited, the ticket may change hands, branches may   *)
(* move and the repository at the path may be replaced.  An agent whose    *)
(* answer was lost repeats the call with the same operation id.            *)
(*                                                                         *)
(* The Git commands of different calls share nothing and take their data   *)
(* at one moment each, so running one supervised command at a time loses   *)
(* no interleaving of their results.                                       *)
(***************************************************************************)
EXTENDS Supervision, Integers

CONSTANTS
  Calls,          \* capture calls an agent makes
  CallJob,        \* the job a call belongs to
  CallOp,         \* its operation id: a repeated call has the same
  CallEnd,        \* the end commit it selects
  Jobs, Files, Commits,
  Ancestors,      \* of each commit, itself included
  BaseCommit,     \* the base of every selected range
  Changed,        \* the paths that differ between the base and a commit
  LaunchRead,     \* what a job could read when it was launched
  LaunchSpace,    \* the workspace a job was launched in
  Refs, NoRef,
  Policies,       \* publication policies
  AllowedRefs,    \* the allowlist of a policy: empty for no restriction
  NoPolicy,
  Workspaces,
  Repositories, NoRepository,
  Objects,        \* the commits a repository has
  FirstRepository,\* the repository first found at each workspace path
  NoJob, NoCommit, NoArtifact, NoCall,
  LateSwaps,      \* see Replace
  MaxEdits,       \* edits of the configuration and of the workflow
  MaxMoves,       \* changes of the repositories
  MaxRevision     \* revisions of the ticket by others than captures

ASSUME GitAssumption ==
  /\ CallJob \in [Calls -> Jobs] /\ NoCall \notin Calls
  /\ CallEnd \in [Calls -> Commits] /\ NoRef \notin Refs
  /\ Ancestors \in [Commits -> SUBSET Commits]
  /\ Changed \in [Commits -> SUBSET Files]
  /\ LaunchRead \in [Jobs -> SUBSET Files] /\ LaunchSpace \in [Jobs -> Workspaces]
  /\ AllowedRefs \in [Policies -> SUBSET Refs] /\ NoPolicy \notin Policies
  /\ Objects \in [Repositories -> SUBSET Commits]
  /\ FirstRepository \in [Workspaces -> Repositories] /\ NoRepository \notin Repositories
  /\ LateSwaps \in BOOLEAN /\ {MaxEdits, MaxMoves, MaxRevision} \subseteq Nat

VARIABLES
  config,    \* policy, workspace, readable paths and workflow digest in force
  at,        \* the usable repository at each workspace path
  heads,     \* the refs of each repository
  ticket,    \* the record: owner, revision, capture events, receipts, value
  retained,  \* artifact files beside the ticket
  call,      \* the locals of each capture call
  sessions,  \* calls whose private Git session exists on disk
  open,      \* jobs whose broker session is open
  lock,      \* the call that holds the team's operation lock
  using,     \* the call whose Git command is supervised
  edits, moves

gitVars == <<config, at, heads, ticket, retained, call, sessions, open, lock, using,
             edits, moves>>
vars == <<supVars, gitVars>>

-----------------------------------------------------------------------------
(* Data *)

\* _context_digest: with a policy the context a ticket version names covers
\* the policy and the workspace path.
ContextDigest ==
  IF config.policy = NoPolicy THEN <<NoPolicy>> ELSE <<config.policy, config.workspace>>

\* The TicketVersion a client sends back.
Version == [revision |-> ticket.revision, context |-> ContextDigest,
            workflow |-> config.workflow]

NoVersion == [revision |-> 0, context |-> <<NoPolicy>>, workflow |-> 0]

\* The locals of a capture call: the version and the publication ref it names,
\* the plan, and what its read has found so far.
Idle == [pc |-> "idle", version |-> NoVersion, ref |-> NoRef, policy |-> NoPolicy,
         workspace |-> NoRepository, readable |-> {}, repository |-> NoRepository,
         read |-> "no", whole |-> FALSE, seen |-> NoCommit, refs |-> NoRepository]

\* GitEvidenceManifest and GitCaptureReceipt: who captured what, from which
\* repository, under which policy. Two captures never share their bytes, each
\* carries its own time.
Manifest(c) ==
  [call |-> c, repository |-> call[c].repository, workspace |-> call[c].workspace,
   end |-> CallEnd[c], files |-> Changed[CallEnd[c]], policy |-> call[c].policy,
   refs |-> call[c].refs, whole |-> call[c].whole]

Artifacts == [call : Calls, repository : Repositories, workspace : Workspaces,
              end : Commits, files : SUBSET Files, policy : Policies,
              refs : Repositories \cup {NoRepository}, whole : BOOLEAN]

\* find_receipt: the operation is on record.
Recorded(c) == CallOp[c] \in ticket.receipts

\* require_active_owner
ActiveOwner(c) == ticket.owner = CallJob[c]

\* authorize_changed_paths: each path must be readable under the policy frozen
\* at the launch of the job and under the current one.
Authorized(c, current) == Changed[CallEnd[c]] \subseteq LaunchRead[CallJob[c]] \cap current

\* _require_capture_context and _resolve_git_plan
ContextHolds(c) ==
  /\ call[c].version = Version
  /\ ActiveOwner(c)
  /\ config.policy # NoPolicy
  /\ LaunchSpace[CallJob[c]] = config.workspace

\* The repository the private view of a call reads: whatever is at the path.
Found(c) == at[call[c].workspace]

InCall == {"prepare", "open", "range", "select", "probe", "commit", "apply", "write"}
Ended == {"replayed", "refused", "captured", "dead"}

TypeOK ==
  /\ SupTypeOK
  /\ config \in [policy : Policies \cup {NoPolicy}, workspace : Workspaces,
                 readable : SUBSET Files, workflow : 0..MaxEdits]
  /\ at \in [Workspaces -> Repositories \cup {NoRepository}]
  /\ heads \in [Repositories -> [Refs -> Commits \cup {NoCommit}]]
  /\ ticket.owner \in Jobs \cup {NoJob}
  /\ ticket.revision \in Nat
  /\ ticket.events \subseteq retained /\ ticket.value \in ticket.events \cup {NoArtifact}
  /\ retained \subseteq Artifacts
  /\ \A c \in Calls : call[c].pc \in {"idle"} \cup InCall \cup Ended
  /\ sessions \subseteq Calls /\ open \subseteq Jobs
  /\ lock \in Calls \cup {NoCall} /\ using \in Calls \cup {NoCall}

Init ==
  /\ SupInit
  /\ config \in [policy : Policies, workspace : Workspaces, readable : {Files},
                 workflow : {0}]
  /\ at = FirstRepository
  /\ heads \in [Repositories -> [Refs -> Commits]]
  /\ \A r \in Repositories, f \in Refs : heads[r][f] \in Objects[r]
  /\ \E j \in Jobs \cup {NoJob} :
       ticket = [owner |-> j, revision |-> 1, events |-> {}, receipts |-> {},
                 value |-> NoArtifact]
  /\ retained = {} /\ sessions = {}
  /\ call = [c \in Calls |-> Idle]
  /\ open = Jobs
  /\ lock = NoCall /\ using = NoCall
  /\ edits = 0 /\ moves = 0

-----------------------------------------------------------------------------
(* A capture call *)

Continue(c, next) == call' = [call EXCEPT ![c] = next]

\* What is left of a call that is over.
Over(c, how) == [Idle EXCEPT !.pc = how, !.version = call[c].version, !.ref = call[c].ref]

\* Every failed check raises out of the call: the private session is removed
\* and the lock released on the way.
Refuse(c) ==
  /\ Continue(c, Over(c, "refused"))
  /\ sessions' = sessions \ {c}
  /\ lock' = IF lock = c THEN NoCall ELSE lock

\* capture_git_evidence up to the replay: a call must come from the active
\* owner; an operation whose receipt is recorded is answered from it. A
\* repeated call is the first one again, its version and its ref.
Call(c) ==
  /\ call[c].pc = "idle" /\ CallJob[c] \in open
  /\ LET earlier == {d \in Calls \ {c} : CallOp[d] = CallOp[c] /\ call[d].pc # "idle"}
         requests == IF earlier = {} THEN {Version} \X (Refs \cup {NoRef})
                     ELSE {<<call[d].version, call[d].ref>> : d \in earlier}
     IN \E request \in requests :
          Continue(c, [Idle EXCEPT !.version = request[1], !.ref = request[2],
                                   !.pc = IF ~ActiveOwner(c) THEN "refused"
                                          ELSE IF Recorded(c) THEN "replayed"
                                          ELSE "prepare"])
  /\ UNCHANGED <<supVars, config, at, heads, ticket, retained, sessions, open, lock, using,
                 edits, moves>>

\* _prepare_git_capture, under the team's and the blueprint's lock.
Prepare(c) ==
  /\ call[c].pc = "prepare" /\ lock = NoCall
  /\ IF ContextHolds(c)
       THEN /\ Continue(c, [call[c] EXCEPT !.pc = "open", !.policy = config.policy,
                                           !.workspace = config.workspace,
                                           !.readable = config.readable])
            /\ UNCHANGED <<sessions, lock>>
       ELSE Refuse(c)
  /\ UNCHANGED <<supVars, config, at, heads, ticket, retained, open, using, edits, moves>>

\* open_git_repository: a usable repository at the path, a fresh private
\* session, and the identity everything after it is compared with.
OpenRepository(c) ==
  /\ call[c].pc = "open"
  /\ IF Found(c) # NoRepository
       THEN /\ Continue(c, [call[c] EXCEPT !.pc = "range", !.repository = Found(c)])
            /\ sessions' = sessions \cup {c}
            /\ UNCHANGED lock
       ELSE Refuse(c)
  /\ UNCHANGED <<supVars, config, at, heads, ticket, retained, open, using, edits, moves>>

\* _run_git_raw hands a command to the supervisor.
BeginCommand(c) ==
  /\ call[c].pc \in {"range", "probe"} /\ using = NoCall
  /\ Start \/ StartFails
  /\ using' = c
  /\ UNCHANGED <<config, at, heads, ticket, retained, call, sessions, open, lock, edits, moves>>

\* What Git answers about the selected range (_require_commit, merge-base,
\* rev-list and the diffs) or about the observed ref (_require_ancestor), read
\* from the objects at the path while the command runs.
GitAnswer(c) ==
  LET r == Found(c)
      objects == IF r = NoRepository THEN {} ELSE Objects[r]
  IN IF call[c].pc = "range"
       THEN {BaseCommit, CallEnd[c]} \subseteq objects /\ BaseCommit \in Ancestors[CallEnd[c]]
       ELSE call[c].seen \in objects /\ CallEnd[c] \in Ancestors[call[c].seen]

GitReads(c) ==
  /\ using = c /\ proc[Root] = "running" /\ call[c].read = "no"
  /\ Continue(c, [call[c] EXCEPT !.read = IF GitAnswer(c) THEN "ok" ELSE "bad"])
  /\ UNCHANGED <<supVars, config, at, heads, ticket, retained, sessions, open, lock, using,
                 edits, moves>>

\* A command is good when it ended by itself within its budget with the answer
\* the caller needs; its stop evidence is not looked at.
CommandGood(c) == sup.outcome = "exited" /\ ~sup.over /\ call[c].read = "ok"

\* Mutant of RangeRead: the repository's identity is not verified again.
RangeReadUnverified(c) ==
  /\ call[c].pc = "range" /\ using = c /\ Collect /\ using' = NoCall
  /\ IF CommandGood(c) /\ Authorized(c, call[c].readable)
       THEN /\ Continue(c, [call[c] EXCEPT !.pc = "select", !.read = "no",
                                           !.whole = PromptReaders \/ sup.whole])
            /\ UNCHANGED <<sessions, lock>>
       ELSE Refuse(c)
  /\ UNCHANGED <<config, at, heads, ticket, retained, open, edits, moves>>

\* capture_committed_range: every changed path must be readable under the plan,
\* and the repository at the path must still be the one that was opened.
RangeRead(c) ==
  /\ call[c].pc = "range" /\ using = c /\ Collect /\ using' = NoCall
  /\ IF /\ CommandGood(c)
        /\ Authorized(c, call[c].readable)
        /\ Found(c) = call[c].repository
       THEN /\ Continue(c, [call[c] EXCEPT !.pc = "select", !.read = "no",
                                           !.whole = PromptReaders \/ sup.whole])
            /\ UNCHANGED <<sessions, lock>>
       ELSE Refuse(c)
  /\ UNCHANGED <<config, at, heads, ticket, retained, open, edits, moves>>

\* verify_publication: without a restriction the range is its own proof; a
\* restricted policy needs an allowed ref, read from the path's refs.
SelectRef(c) ==
  LET ref == call[c].ref
      allowed == AllowedRefs[call[c].policy]
      seen == IF Found(c) = NoRepository \/ ref = NoRef THEN NoCommit ELSE heads[Found(c)][ref]
  IN
  /\ call[c].pc = "select"
  /\ IF ref = NoRef /\ allowed = {}
       THEN /\ Continue(c, [call[c] EXCEPT !.pc = "commit"])
            /\ sessions' = sessions \ {c}
            /\ UNCHANGED lock
       ELSE IF ref # NoRef /\ (allowed = {} \/ ref \in allowed) /\ seen # NoCommit
         THEN /\ Continue(c, [call[c] EXCEPT !.pc = "probe", !.seen = seen,
                                             !.refs = Found(c)])
              /\ UNCHANGED <<sessions, lock>>
         ELSE Refuse(c)
  /\ UNCHANGED <<supVars, config, at, heads, ticket, retained, open, using, edits, moves>>

\* The observed commit contains the end commit; the session goes with the read.
RefProven(c) ==
  /\ call[c].pc = "probe" /\ using = c /\ Collect /\ using' = NoCall
  /\ IF CommandGood(c)
       THEN /\ Continue(c, [call[c] EXCEPT !.pc = "commit", !.read = "no", !.seen = NoCommit])
            /\ sessions' = sessions \ {c}
            /\ UNCHANGED lock
       ELSE Refuse(c)
  /\ UNCHANGED <<config, at, heads, ticket, retained, open, edits, moves>>

\* Mutant of CommitCapture: today's permissions are not asked.
CommitCaptureStale(c) ==
  /\ call[c].pc = "commit" /\ lock = NoCall
  /\ IF CallJob[c] \in open /\ ContextHolds(c)
       THEN /\ Continue(c, [call[c] EXCEPT !.pc = "apply", !.readable = config.readable])
            /\ lock' = c
            /\ UNCHANGED sessions
       ELSE Refuse(c)
  /\ UNCHANGED <<supVars, config, at, heads, ticket, retained, open, using, edits, moves>>

\* _commit_git_capture: under the locks the session, the ownership, the whole
\* contract and the plan are proven again, and the captured paths against the
\* permissions of today.
CommitCapture(c) ==
  /\ call[c].pc = "commit" /\ lock = NoCall
  /\ IF /\ CallJob[c] \in open
        /\ ContextHolds(c)
        /\ config.workspace = call[c].workspace /\ config.policy = call[c].policy
        /\ Authorized(c, config.readable)
       THEN /\ Continue(c, [call[c] EXCEPT !.pc = "apply", !.readable = config.readable])
            /\ lock' = c
            /\ UNCHANGED sessions
       ELSE Refuse(c)
  /\ UNCHANGED <<supVars, config, at, heads, ticket, retained, open, using, edits, moves>>

\* LocalTicketStorage.apply and _capture_record: the revision, the current
\* contract and the owner are checked once more.
CaptureRecord(c) == call[c].version = Version /\ ActiveOwner(c)

\* LocalTicketStorage.apply takes the ticket's lock, and _capture_record the
\* artifact's inside it: a recorded operation is answered from its receipt;
\* otherwise the artifact file is written.
PutArtifact(c) ==
  /\ call[c].pc = "apply"
  /\ IF ~Recorded(c) /\ CaptureRecord(c)
       THEN /\ retained' = retained \cup {Manifest(c)}
            /\ Continue(c, [call[c] EXCEPT !.pc = "write"])
            /\ UNCHANGED lock
       ELSE /\ Continue(c, Over(c, IF Recorded(c) THEN "replayed" ELSE "refused"))
            /\ lock' = NoCall
            /\ UNCHANGED retained
  /\ UNCHANGED <<supVars, config, at, heads, ticket, sessions, open, using, edits, moves>>

\* write_record: the event and the operation's receipt in one atomic document.
WriteRecord(c) ==
  /\ call[c].pc = "write"
  /\ ticket' = [ticket EXCEPT !.events = @ \cup {Manifest(c)},
                              !.receipts = @ \cup {CallOp[c]},
                              !.revision = @ + 1]
  /\ Continue(c, Over(c, "captured"))
  /\ lock' = NoCall
  /\ UNCHANGED <<supVars, config, at, heads, retained, sessions, open, using, edits, moves>>

-----------------------------------------------------------------------------
(* Everyone else *)

TicketFree == \A c \in Calls : call[c].pc # "write"

Revise(next) ==
  /\ ticket.revision - Cardinality(ticket.events) < MaxRevision
  /\ ticket' = [next EXCEPT !.revision = @ + 1]
  /\ UNCHANGED <<supVars, config, at, heads, retained, call, sessions, open, lock, using,
                 edits, moves>>

\* Ticket operations of the service hold the team's lock: an agent starts work,
\* or reports and signs off.
StartWork(j) == lock = NoCall /\ ticket.owner = NoJob /\ j \in open
                /\ Revise([ticket EXCEPT !.owner = j])

Report == lock = NoCall /\ ticket.owner # NoJob /\ Revise(ticket)

\* The owner signs off under the team's lock, or the reconciliation of a lost
\* run takes the ticket from it under the ticket's lock alone.
Release == TicketFree /\ ticket.owner # NoJob /\ Revise([ticket EXCEPT !.owner = NoJob])

\* read_artifact: a reference is the digest of the content it finds.
Retained(a) == a \in retained

\* _require_trusted_git_values: a transition or an edit stores only an artifact
\* this ticket captured, under the policy and the workspace of today.
Trustworthy(a) ==
  /\ Retained(a) /\ a \in ticket.events
  /\ config.policy # NoPolicy
  /\ a.workspace = config.workspace /\ a.policy = config.policy

UseEvidence(a) ==
  /\ lock = NoCall /\ Trustworthy(a) /\ ticket.value # a
  /\ Revise([ticket EXCEPT !.value = a])

Edit(next) ==
  /\ edits < MaxEdits /\ edits' = edits + 1
  /\ config' = next /\ next # config
  /\ UNCHANGED <<supVars, at, heads, ticket, retained, call, sessions, open, lock, using, moves>>

\* Configuration patches that take no team lock: publication policy and agent
\* permissions. Team settings and the blueprint are edited under the locks.
EditPolicy == \E p \in Policies \cup {NoPolicy} : Edit([config EXCEPT !.policy = p])
EditReadable == \E f \in SUBSET Files : Edit([config EXCEPT !.readable = f])
EditWorkspace == lock = NoCall /\ \E w \in Workspaces : Edit([config EXCEPT !.workspace = w])
EditWorkflow == lock = NoCall /\ Edit([config EXCEPT !.workflow = edits + 1])

Move ==
  /\ moves < MaxMoves /\ moves' = moves + 1
  /\ UNCHANGED <<supVars, config, ticket, retained, call, sessions, open, lock, using, edits>>

\* A branch is moved, forward or back.
MoveRef ==
  /\ Move /\ UNCHANGED at
  /\ \E r \in Repositories, f \in Refs : \E x \in Objects[r] \ {heads[r][f]} :
       heads' = [heads EXCEPT ![r][f] = x]

\* Another repository, or none that can be used, takes the place of the one at
\* a path. Unless LateSwaps, this does not happen between the identity check of
\* a call and its look at the ref, and no call's repository comes back.
Replace ==
  /\ Move /\ UNCHANGED heads
  /\ \E w \in Workspaces, r \in Repositories \cup {NoRepository} :
       /\ r # at[w]
       /\ LateSwaps \/ \A c \in Calls : call[c].workspace = w =>
                          call[c].pc \notin {"select", "probe"} /\ call[c].repository # r
       /\ at' = [at EXCEPT ![w] = r]

\* The run is over and the broker closes its session, calls under way or not.
CloseSession(j) ==
  /\ j \in open /\ open' = open \ {j}
  /\ UNCHANGED <<supVars, config, at, heads, ticket, retained, call, sessions, lock, using,
                 edits, moves>>

\* The worker process dies with its calls: locks are released by the operating
\* system, private sessions and orphaned processes stay behind.
WorkerDies(j) ==
  LET dead == {c \in Calls : CallJob[c] = j /\ call[c].pc \in InCall} IN
  /\ dead # {}
  /\ call' = [c \in Calls |-> IF c \in dead
                                    THEN Over(c, "dead") ELSE call[c]]
  /\ lock' = IF lock \in dead THEN NoCall ELSE lock
  /\ IF using \in dead
       THEN /\ using' = NoCall /\ sup' = NoRun /\ holds' = {}
            /\ proc' = [p \in Procs |-> "none"] /\ UNCHANGED platform
       ELSE UNCHANGED <<supVars, using>>
  /\ open' = open \ {j}
  /\ UNCHANGED <<config, at, heads, ticket, retained, sessions, edits, moves>>

-----------------------------------------------------------------------------
Supervise == SupStep /\ UNCHANGED gitVars

\* _read_git_evidence: the private session, the range, then the publication.
ReadGitEvidence(c) ==
  OpenRepository(c) \/ BeginCommand(c) \/ RangeRead(c) \/ SelectRef(c) \/ RefProven(c)

CallStep(c) ==
  Prepare(c) \/ ReadGitEvidence(c) \/ CommitCapture(c) \/ PutArtifact(c) \/ WriteRecord(c)

Next ==
  \/ Supervise
  \/ \E c \in Calls : Call(c) \/ GitReads(c) \/ CallStep(c)
  \/ \E j \in Jobs : StartWork(j) \/ CloseSession(j) \/ WorkerDies(j)
  \/ Report \/ Release
  \/ \E a \in retained : UseEvidence(a)
  \/ EditPolicy \/ EditReadable \/ EditWorkspace \/ EditWorkflow
  \/ MoveRef \/ Replace

Spec == Init /\ [][Next]_vars

\* The broker's threads go on, and so does the supervisor. A process that is not
\* killed need never end, and nobody need close or use anything.
Fairness ==
  /\ \A c \in Calls : WF_vars(CallStep(c))
  /\ SupFairness

-----------------------------------------------------------------------------
(* Properties *)

\* What a ticket vouches for is true: each capture event names a retained
\* artifact whose end commit is in the recorded repository after the base,
\* completely read, and where the policy restricts refs the ref that contained
\* it was looked up in that same repository ("Fail rather than bind to a
\* different repository swapped in mid-capture", git_evidence/git.py).
EvidenceSound ==
  \A a \in ticket.events :
    /\ a \in retained /\ a.whole
    /\ a.end \in Objects[a.repository] /\ BaseCommit \in Ancestors[a.end]
    /\ AllowedRefs[a.policy] # {} => a.refs = a.repository

\* Nothing of a stale read is retained (_commit_git_capture: "the read above ran
\* without any of these locks"): when an artifact is stored its job owns the
\* ticket at the revision it named, policy and workspace are those the read
\* was made under, and no path is among those the agent may not read by the
\* time the locks are held again.
CurrentWhenRetained ==
  [][\A a \in retained' \ retained :
       /\ ticket.owner = CallJob[a.call]
       /\ call[a.call].version.revision = ticket.revision
       /\ a.policy = config.policy /\ a.workspace = config.workspace
       /\ a.files \subseteq LaunchRead[CallJob[a.call]] \cap call[a.call].readable]_vars

\* A repeated or concurrent call with one operation id records its evidence
\* once: the agent that lost the answer never doubles the event.
OneEventPerOperation ==
  \A a, b \in ticket.events : CallOp[a.call] = CallOp[b.call] => a = b

\* A private session exists exactly while its call reads, unless the worker
\* died, and no supervised command runs in a session that is gone.
SessionsOwned ==
  /\ \A c \in sessions : call[c].pc \in {"range", "select", "probe", "dead"}
  /\ using # NoCall => using \in sessions

\* Every capture call is answered, whatever the program it supervises does: no
\* command outlasts its deadline and the kill after it, and no call waits for
\* ever for the lock of another.
CapturesEnd ==
  \A c \in Calls : call[c].pc \in InCall ~> call[c].pc \in Ended

\* What was captured is true, recorded once, and read in a session of its own.
CaptureSound == TypeOK /\ EvidenceSound /\ OneEventPerOperation /\ SessionsOwned
=============================================================================
