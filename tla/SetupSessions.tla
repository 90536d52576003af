---------------------------- MODULE SetupSessions ----------------------------
(* The setup session manager (web/setup_sessions.py), the connected process  *)
(* it owns (jobs/connected_process.py) and the request handlers that drive   *)
(* it (web/routes/setup_terminal.py, web/routes/admin_teams.py).             *)
(*                                                                           *)
(* The handlers are coroutines of one event loop: a step is what runs        *)
(* between two awaits.  _state_lock is never held across an await, so its    *)
(* critical sections are atomic; _lifecycle_lock is held across threads and  *)
(* is the FIFO queue lifecycle, whose head owns it.  A handler that finds it  *)
(* free goes on without suspending.  Spawning, stopping, writing and         *)
(* validating run on threads and interleave with everything.                 *)
EXTENDS Naturals, Sequences, FiniteSets

CONSTANTS
  Requests,        \* request tasks of the server
  Sweeper,         \* the task of _sweep
  Shutdown,        \* the task of the lifespan's end
  Owners,          \* browsers
  Selections,      \* (integration, data root) pairs a launch may choose
  Connected,       \* the selections with a connected terminal
  Conns,           \* WebSocket connections
  Revisions,       \* configuration revisions
  Ready,           \* the revisions that validate as ready
  ExitVerified,    \* the exit adapter's measured capability
  None,            \* nobody / no value
  MaxLaunches,     \* bound on launch requests
  MaxRequests,     \* bound on requests of every kind
  MaxCancels       \* bound on handlers cancelled at a thread

ASSUME SetupAssumption ==
  /\ Requests \cap {Sweeper, Shutdown} = {} /\ Sweeper # Shutdown
  /\ (Requests \cup {Sweeper, Shutdown}) \cap 1 .. MaxLaunches = {}
  /\ None \notin Owners \cup Selections \cup Revisions \cup {0, 1}
  /\ Connected \subseteq Selections
  /\ Ready \subseteq Revisions
  /\ ExitVerified \in BOOLEAN
  /\ MaxLaunches \in Nat /\ MaxRequests \in Nat /\ MaxCancels \in Nat

VARIABLES
  m,            \* the manager: its sessions, current attempt and flags
  lifecycle,    \* _lifecycle_lock: the holder, then the waiters
  task,         \* where each task stands, and its locals
  thr,          \* the _stop_tree thread of each task and of each reader
  procs,        \* the process tree of each session
  unconfirmed,  \* connected_process._unconfirmed
  conn,         \* the session each client listens to, or 0
  revision,     \* the configuration's current revision
  terminals,    \* attempts whose credentials an external terminal holds
  used          \* launches, requests and cancellations so far

vars == <<m, lifecycle, task, thr, procs, unconfirmed, conn, revision,
          terminals, used>>

MaxSessions == MaxLaunches
SessionIds == 1 .. MaxSessions
Tasks == Requests \cup {Sweeper, Shutdown}

----------------------------------------------------------------------------
(* Objects of the manager.                                                   *)

\* The current attempt is all the manager keeps; an older one is only a
\* launch id that no longer matches.
NewAttempt(id, o, sel) ==
  [id |-> id, owner |-> o, sel |-> sel, session |-> 0, ack |-> None,
   cancelled |-> FALSE, failed |-> FALSE, expired |-> FALSE]

NoAttempt == NewAttempt(0, None, None)

NewSession(o, sel) ==
  [owner |-> o, sel |-> sel, state |-> "starting", proc |-> FALSE,
   cleanup |-> {}, finalized |-> FALSE, eof |-> FALSE, evidence |-> "none",
   code |-> None, subs |-> {}, reader |-> "none"]

Idle == [pc |-> "idle", owner |-> None, sel |-> None, token |-> 0, n |-> 0,
         out |-> "pending", cleanup |-> {}, rev |-> None]

NoThread == [pc |-> "none", on |-> {}]

NoProcess == [tree |-> "none", closed |-> FALSE, stopped |-> FALSE, code |-> 1,
              token |-> 0]

Active == {"starting", "running"}

\* _confirmed_gone: a Stop proved the whole tree gone.
ConfirmedGone(s) == s.finalized /\ s.evidence = "confirmed"

----------------------------------------------------------------------------
(* Completion attempts.                                                      *)

\* _holds_slot: an external launch gives the slot up when it reports, or when
\* it is older than the lifetime limit.
HoldsSlot(mm) ==
  LET x == mm.att IN
    /\ x.id # 0 /\ ~x.cancelled /\ ~x.failed
    /\ IF x.session # 0 THEN ~mm.ses[x.session].finalized
                        ELSE x.ack = None /\ ~x.expired

\* _supersedable: only its owner's launch that nothing has used yet.
Supersedable(x, o) == x.owner = o /\ x.session = 0 /\ x.ack = None

\* _claimable_attempt: whether it raised, whether it returns the current
\* attempt, and the manager after it.
Claim(mm, o, sel) ==
  LET x == mm.att
      other == x.owner # o \/ x.sel # sel
  IN IF ~HoldsSlot(mm) THEN [ok |-> TRUE, mine |-> FALSE, m |-> mm]
     ELSE IF other /\ Supersedable(x, o)
     THEN [ok |-> TRUE, mine |-> FALSE, m |-> [mm EXCEPT !.att = NoAttempt]]
     ELSE [ok |-> ~other, mine |-> ~other /\ x.session = 0, m |-> mm]

\* _end_attempt: mark the attempt of session n cancelled or failed.
EndAttempt(mm, n, failed) ==
  IF mm.att.session # n THEN mm
  ELSE IF failed THEN [mm EXCEPT !.att.failed = TRUE]
                 ELSE [mm EXCEPT !.att.cancelled = TRUE]

\* prepare_completion: reuse the live attempt of the same launch, supersede
\* an unused one, or refuse.
PrepareCompletion(mm, o, sel) ==
  LET x == mm.att
      held == HoldsSlot(mm)
      same == /\ held /\ x.owner = o /\ x.sel = sel /\ x.session # 0
              /\ mm.ses[x.session].state \in Active
              /\ ~mm.ses[x.session].eof
      refused == \/ held /\ ~Supersedable(x, o)
                 \/ /\ mm.session # 0
                    /\ mm.ses[mm.session].state \in Active \cup {"failed"}
  IN IF mm.closing THEN [ok |-> FALSE, token |-> 0, m |-> mm]
     ELSE IF same THEN [ok |-> TRUE, token |-> x.id, m |-> mm]
     ELSE IF refused THEN [ok |-> FALSE, token |-> 0, m |-> mm]
     ELSE [ok |-> TRUE, token |-> mm.prepared + 1,
           m |-> [mm EXCEPT !.att = NewAttempt(mm.prepared + 1, o, sel),
                            !.prepared = @ + 1]]

\* _attempt_for_token: credentials of the current attempt, while it is open.
AttemptForToken(mm, a) ==
  LET x == mm.att IN
    /\ x.id = a
    /\ ~x.cancelled /\ ~x.failed
    /\ x.session # 0 => (mm.ses[x.session].eof => mm.ses[x.session].finalized)

\* Mutant: any exit code is clean.
ExitIsCleanAnyCode(s) == s.state = "exited" /\ s.evidence = "confirmed"

\* _exit_is_clean.
ExitIsClean(s) == s.state = "exited" /\ s.code = 0 /\ s.evidence = "confirmed"

\* _decide: the attempt's phase for a configuration at revision rev.
Decide(mm, rev) ==
  LET x == mm.att
      s == mm.ses[x.session]
  IN IF x.cancelled THEN "cancelled"
     ELSE IF x.failed THEN "attention"
     ELSE IF rev \notin Ready \/ x.ack # rev THEN "pending"
     ELSE IF x.session = 0 THEN "complete"
     ELSE IF s.finalized THEN IF ExitIsClean(s) THEN "complete" ELSE "attention"
     ELSE IF ExitVerified \/ s.eof THEN "acknowledged" ELSE "complete"

\* setup_navigation_decision and navigation_permitted: no attempt of this
\* browser, or a complete one.
NavigationPermitted(mm, o, rev) ==
  mm.att.owner # o \/ Decide(mm, rev) = "complete"

----------------------------------------------------------------------------
(* Ending a session.                                                         *)

\* _close_subscribers, as far as the session is concerned.
CloseSubscribers(mm, n) ==
  [mm EXCEPT !.ses[n].subs = {}]

\* The clients whose queue gets the end-of-stream mark.
Hang(cs) == [c \in Conns |-> IF c \in cs THEN 0 ELSE conn[c]]

\* Mutant: every failed launch frees the slot.
FailSpawnFreesSlot(mm, n, clean, cleanup) ==
  [CloseSubscribers(EndAttempt(mm, n, FALSE), n) EXCEPT !.session = 0]

\* _fail_spawn: only a proven-clean launch error frees the slot.
FailSpawn(mm, n, clean, cleanup) ==
  LET e == CloseSubscribers(EndAttempt(mm, n, ~clean), n) IN
  IF clean THEN [e EXCEPT !.session = 0]
  ELSE [e EXCEPT !.ses[n] = [@ EXCEPT !.cleanup = cleanup, !.state = "failed",
                                      !.finalized = TRUE]]

\* The record of a session that is over.
Ended(s, confirmed, natural, code) ==
  [s EXCEPT !.finalized = TRUE,
            !.evidence = IF confirmed THEN "confirmed" ELSE "unconfirmed",
            !.code = IF natural /\ s.proc /\ confirmed THEN code ELSE @,
            !.state = IF ~confirmed THEN "failed" ELSE IF natural THEN "exited" ELSE "stopped"]

\* _finalize: a confirmed end is terminal, an unconfirmed one may be retried.
Finalize(mm, n, confirmed, naturalExit, code) ==
  LET s == mm.ses[n]
      natural == naturalExit \/ s.eof
      e == [mm EXCEPT !.ses[n] = Ended(s, confirmed, natural, code)]
      f == IF mm.att.session # n THEN e
           ELSE [e EXCEPT !.att.cancelled = @ \/ (confirmed /\ ~natural),
                          !.att.failed = @ \/ ~confirmed
                                           \/ (natural /\ mm.att.ack = None)]
  IN IF ConfirmedGone(s) THEN mm ELSE CloseSubscribers(f, n)

----------------------------------------------------------------------------
(* The process tree (jobs/connected_process.py).                             *)

Stopping(x) == thr[x].pc = "in"

\* _stops_in_flight
StopsInFlight == \E x \in DOMAIN thr : Stopping(x)

\* _stop_tree takes _stop_lock; a tree already stopped answers at once.
StopEnter(x) ==
  /\ thr[x].pc = "enter"
  /\ \A y \in DOMAIN thr : Stopping(y) => thr[y].on \cap thr[x].on = {}
  /\ thr' = [thr EXCEPT ![x].pc =
               IF \A p \in thr[x].on : procs[p].stopped THEN "yes" ELSE "in"]
  /\ UNCHANGED <<m, lifecycle, task, procs, unconfirmed, conn, revision,
                 terminals, used>>

\* _stop_tree ends within its deadline: either the whole group is proven gone
\* and the tree is untracked, or the tree is tracked as unconfirmed.
StopLeave(x) ==
  /\ Stopping(x)
  /\ \E yes \in BOOLEAN :
       /\ procs' = [p \in SessionIds |->
            IF p \notin thr[x].on THEN procs[p]
            ELSE [procs[p] EXCEPT !.tree = IF yes THEN "gone" ELSE @,
                                  !.closed = TRUE, !.stopped = @ \/ yes]]
       /\ unconfirmed' = IF yes THEN unconfirmed \ thr[x].on
                                ELSE unconfirmed \cup thr[x].on
       /\ thr' = [thr EXCEPT ![x].pc = IF yes THEN "yes" ELSE "no"]
  /\ UNCHANGED <<m, lifecycle, task, conn, revision, terminals, used>>

\* The child ends its stream: it exits, or leaves descendants in its group.
ProcessEnds(p) ==
  /\ procs[p].tree = "live" /\ ~procs[p].closed
  /\ \E end \in {<<"gone", 0>>, <<"gone", 1>>, <<"live", 0>>} :
       procs' = [procs EXCEPT ![p].tree = end[1], ![p].closed = TRUE, ![p].code = end[2]]
  /\ UNCHANGED <<m, lifecycle, task, thr, unconfirmed, conn, revision,
                 terminals, used>>

\* start_connected_process on its thread: wait for stops in flight, retry the
\* unconfirmed trees, then spawn and prove ownership of the group.
Spawn(r) ==
  LET n == task[r].n
      finish(out, cleanup) == task' = [task EXCEPT ![r].out = out, ![r].cleanup = cleanup]
      child(tree, dead) == procs' = [procs EXCEPT ![n] =
        [NoProcess EXCEPT !.tree = tree, !.token = task[r].token,
                          !.closed = dead, !.stopped = dead /\ tree = "gone"]]
  IN /\ task[r].pc \in {"spawning", "reaping"} /\ task[r].out = "pending"
     /\ ~StopsInFlight
     /\ \E remaining \in SUBSET unconfirmed, out \in {"ok", "unspawned", "unproven", "uncertain"} :
          IF remaining # {}
          THEN finish("uncertain", remaining) /\ unconfirmed' = remaining /\ UNCHANGED procs
          ELSE CASE out = "ok" -> child("live", FALSE) /\ finish("ok", {}) /\ unconfirmed' = {}
                 [] out = "unspawned" -> UNCHANGED procs /\ finish("clean", {}) /\ unconfirmed' = {}
                 [] out = "unproven" -> \* the group is not ours, but proven gone
                      child("gone", TRUE) /\ finish("clean", {}) /\ unconfirmed' = {}
                 [] out = "uncertain" -> child("live", TRUE) /\ finish("uncertain", {}) /\ unconfirmed' = {n}
     /\ UNCHANGED <<m, lifecycle, thr, conn, revision, terminals, used>>

----------------------------------------------------------------------------
(* Launching.  Each body runs with the lifecycle lock held: q is the queue   *)
(* with r at its head.                                                       *)

\* The handler answers and lets the next waiter in.
Answer(r, q) ==
  /\ lifecycle' = Tail(q)
  /\ task' = [task EXCEPT ![r] = IF r = Shutdown THEN [Idle EXCEPT !.pc = "down"] ELSE Idle]

\* A replaced session's record is kept only while the attempt refers to it.
Forget(mm) ==
  [n \in DOMAIN mm.ses |-> IF n = mm.att.session THEN mm.ses[n] ELSE NewSession(None, None)]

\* start, up to its spawn thread.
StartBody(mm, r, l, q) ==
  LET c == Claim(mm, l.owner, l.sel)
      n == Len(mm.ses) + 1
      busy == /\ mm.session # 0
              /\ mm.ses[mm.session].state \in Active \cup {"failed"}
  IN IF mm.closing \/ busy \/ ~c.ok THEN m' = mm /\ Answer(r, q)
     ELSE /\ m' = [c.m EXCEPT !.ses = Append(Forget(c.m), NewSession(l.owner, l.sel)),
                              !.session = n,
                              !.att.session = IF c.mine THEN n ELSE @]
          /\ task' = [task EXCEPT ![r] = [l EXCEPT !.pc = "spawning", !.n = n]]
          /\ lifecycle' = q

\* _launch_external, up to its _retry_unconfirmed thread.
ExternalBody(mm, r, l, q) ==
  LET c == Claim(mm, l.owner, l.sel)
      busy == /\ mm.session # 0
              /\ mm.ses[mm.session].state \in Active \cup {"failed"}
  IN IF mm.closing \/ ~c.ok \/ busy
     THEN m' = (IF mm.closing THEN mm ELSE c.m) /\ Answer(r, q)
     ELSE /\ m' = c.m /\ lifecycle' = q
          /\ task' = [task EXCEPT ![r] = [l EXCEPT !.pc = "retrying"]]

\* The launch mode follows the selection; a taken lock is waited for.
Proceed(mm, r, l, q, connected) ==
  IF Head(q) = r
  THEN IF connected THEN StartBody(mm, r, l, q) ELSE ExternalBody(mm, r, l, q)
  ELSE /\ m' = mm /\ lifecycle' = q
       /\ task' = [task EXCEPT ![r] =
            [l EXCEPT !.pc = IF connected THEN "lockStart" ELSE "lockExternal"]]

\* setup_launch: refused when the browser may leave setup, else prepare and
\* launch.  The readiness it read on a thread may be stale by now.
Launch(r) ==
  /\ task[r] = Idle /\ used.launch < MaxLaunches /\ used.all < MaxRequests
  /\ \E o \in Owners, sel \in Selections, seen \in Revisions :
       /\ ~(seen \in Ready /\ NavigationPermitted(m, o, seen))
       /\ LET p == PrepareCompletion(m, o, sel) IN
            /\ p.ok
            /\ Proceed(p.m, r, [Idle EXCEPT !.owner = o, !.sel = sel, !.token = p.token],
                       Append(lifecycle, r), sel \in Connected)
  /\ used' = [used EXCEPT !.launch = @ + 1, !.all = @ + 1]
  /\ UNCHANGED <<thr, procs, unconfirmed, conn, revision, terminals>>

\* A launch gets the lifecycle lock it waited for.
LaunchResumes(r) ==
  /\ task[r].pc \in {"lockStart", "lockExternal"} /\ Head(lifecycle) = r
  /\ Proceed(m, r, task[r], lifecycle, task[r].pc = "lockStart")
  /\ UNCHANGED <<thr, procs, unconfirmed, conn, revision, terminals, used>>

\* The spawn thread is back: run the session, fall back to an external
\* terminal with a fresh attempt after a proven-clean failure, or block.
StartReturns(r) ==
  LET n == task[r].n
      failed == FailSpawn(m, n, task[r].out = "clean", task[r].cleanup)
      q == Tail(lifecycle)
  IN /\ task[r].pc = "spawning" /\ task[r].out # "pending"
     /\ CASE task[r].out = "ok" ->
               /\ m' = [m EXCEPT !.ses[n] = [@ EXCEPT !.proc = TRUE, !.state = "running",
                                                      !.reader = "reading"]]
               /\ lifecycle' = q
               /\ task' = [task EXCEPT ![r] = Idle,
                             ![Sweeper] = IF @.pc = "off" THEN Idle ELSE @]
               /\ UNCHANGED conn
          [] task[r].out = "uncertain" ->
               m' = failed /\ Answer(r, lifecycle) /\ conn' = Hang(m.ses[n].subs)
          [] task[r].out = "clean" ->
               /\ conn' = Hang(m.ses[n].subs)
               /\ LET p == PrepareCompletion(failed, task[r].owner, task[r].sel) IN
                  IF p.ok
                  THEN Proceed(p.m, r, [task[r] EXCEPT !.token = p.token, !.n = 0, !.out = "pending"],
                               Append(q, r), FALSE)
                  ELSE m' = p.m /\ Answer(r, lifecycle)
     /\ UNCHANGED <<thr, procs, unconfirmed, revision, terminals, used>>

\* The launching request is cancelled while its spawn thread runs.
LaunchCancelled(r) ==
  /\ task[r].pc = "spawning" /\ used.cancel < MaxCancels
  /\ task' = [task EXCEPT ![r].pc = "reaping"]
  /\ used' = [used EXCEPT !.cancel = @ + 1]
  /\ UNCHANGED <<m, lifecycle, thr, procs, unconfirmed, conn, revision, terminals>>

\* _reap_cancelled_spawn: wait the spawn out, then stop what it made.
Reap(r) ==
  LET n == task[r].n IN
  /\ task[r].pc = "reaping" /\ task[r].out # "pending"
  /\ IF task[r].out = "ok"
     THEN /\ thr' = [thr EXCEPT ![r] = [pc |-> "enter", on |-> {n}]]
          /\ task' = [task EXCEPT ![r].pc = "reaped"]
          /\ UNCHANGED <<m, lifecycle, conn>>
     ELSE /\ m' = FailSpawn(m, n, task[r].out = "clean", task[r].cleanup)
          /\ conn' = Hang(m.ses[n].subs)
          /\ Answer(r, lifecycle) /\ UNCHANGED thr
  /\ UNCHANGED <<procs, unconfirmed, revision, terminals, used>>

\* Only a proven-gone tree frees the slot; otherwise the handle is kept.
ReapEnds(r) ==
  LET n == task[r].n
      gone == thr[r].pc = "yes"
      e == CloseSubscribers(EndAttempt(m, n, ~gone), n)
  IN /\ task[r].pc = "reaped" /\ thr[r].pc \in {"yes", "no"}
     /\ m' = IF gone THEN [e EXCEPT !.session = 0]
             ELSE [e EXCEPT !.ses[n] = [@ EXCEPT !.proc = TRUE, !.evidence = "unconfirmed",
                                                 !.state = "failed", !.finalized = TRUE]]
     /\ conn' = Hang(m.ses[n].subs)
     /\ thr' = [thr EXCEPT ![r] = NoThread]
     /\ Answer(r, lifecycle)
     /\ UNCHANGED <<procs, unconfirmed, revision, terminals, used>>

\* The _retry_unconfirmed thread of an external launch: trees that still
\* cannot be confirmed make a failed session that blocks the slot.
ExternalRetried(r) ==
  /\ task[r].pc = "retrying" /\ ~StopsInFlight
  /\ \E remaining \in SUBSET unconfirmed :
       /\ unconfirmed' = remaining
       /\ IF remaining = {}
          THEN task' = [task EXCEPT ![r].pc = "opening"] /\ UNCHANGED <<m, lifecycle>>
          ELSE LET n == Len(m.ses) + 1
                   made == [m EXCEPT !.ses = Append(@, NewSession(task[r].owner, task[r].sel)),
                                     !.session = n]
                   c == Claim(made, task[r].owner, task[r].sel)
                   bound == [c.m EXCEPT !.att.session = IF c.mine THEN n ELSE @]
               IN m' = FailSpawn(bound, n, FALSE, remaining) /\ Answer(r, lifecycle)
  /\ UNCHANGED <<thr, procs, conn, revision, terminals, used>>

\* The terminal opens with the credentials in its environment, or it does
\* not and the browser shows the command instead.
ExternalOpened(r) ==
  /\ task[r].pc = "opening"
  /\ \E delivered \in BOOLEAN :
       terminals' = IF delivered THEN terminals \cup {task[r].token} ELSE terminals
  /\ Answer(r, lifecycle)
  /\ UNCHANGED <<m, thr, procs, unconfirmed, conn, revision, used>>

\* An external launch that reported nothing outlives the lifetime limit.
AttemptExpires ==
  /\ m.att.id # 0 /\ m.att.session = 0 /\ m.att.ack = None /\ ~m.att.expired
  /\ m' = [m EXCEPT !.att.expired = TRUE]
  /\ UNCHANGED <<lifecycle, task, thr, procs, unconfirmed, conn, revision,
                 terminals, used>>

----------------------------------------------------------------------------
(* Stopping.                                                                 *)

\* _stop_session: cancel the attempt and the reader, then stop the tree on a
\* thread.  Without a handle there is nothing to prove.
StopSession(r, l, q) ==
  LET n == m.session
      s == m.ses[n]
      e == [EndAttempt(m, n, FALSE) EXCEPT
              !.ses[n].reader = IF @ \in {"reading", "stopping"} THEN "done" ELSE @]
      on == IF s.proc THEN {n} ELSE s.cleanup
  IN IF ConfirmedGone(s)
     THEN Answer(r, q) /\ UNCHANGED <<m, thr, conn>>
     ELSE IF on # {}
     THEN /\ m' = e
          /\ thr' = [thr EXCEPT ![r] = [pc |-> "enter", on |-> on]]
          /\ task' = [task EXCEPT ![r] = [l EXCEPT !.pc = "stopping", !.n = n]]
          /\ lifecycle' = q /\ UNCHANGED conn
     ELSE /\ m' = Finalize(e, n, FALSE, FALSE, None)
          /\ conn' = Hang(s.subs)
          /\ Answer(r, q) /\ UNCHANGED thr

\* The thread is back: finalize, answer, release the lock.
StopEnds(r) ==
  LET n == task[r].n IN
  /\ task[r].pc = "stopping" /\ thr[r].pc \in {"yes", "no"}
  /\ m' = Finalize(m, n, thr[r].pc = "yes", FALSE, procs[n].code)
  /\ conn' = Hang(IF ConfirmedGone(m.ses[n]) THEN {} ELSE m.ses[n].subs)
  /\ thr' = [thr EXCEPT ![r] = NoThread]
  /\ Answer(r, lifecycle)
  /\ UNCHANGED <<procs, unconfirmed, revision, terminals, used>>

\* stop, with the lock.
StopBody(r, l, q) ==
  IF m.session = 0 \/ m.ses[m.session].owner # l.owner
  THEN Answer(r, q) /\ UNCHANGED <<m, thr, conn>>
  ELSE StopSession(r, l, q)

\* stop_setup_session.
Stop(r) ==
  /\ task[r] = Idle /\ used.all < MaxRequests
  /\ \E o \in Owners :
       LET l == [Idle EXCEPT !.owner = o, !.pc = "lockStop"] IN
       IF lifecycle = <<>> THEN StopBody(r, l, <<r>>)
       ELSE /\ lifecycle' = Append(lifecycle, r) /\ task' = [task EXCEPT ![r] = l]
            /\ UNCHANGED <<m, thr, conn>>
  /\ used' = [used EXCEPT !.all = @ + 1]
  /\ UNCHANGED <<procs, unconfirmed, revision, terminals>>

StopResumes(r) ==
  /\ task[r].pc = "lockStop" /\ Head(lifecycle) = r
  /\ StopBody(r, task[r], lifecycle)
  /\ UNCHANGED <<procs, unconfirmed, revision, terminals, used>>

\* The stopping request is cancelled; its thread goes on without it.
StopCancelled(r) ==
  /\ task[r].pc = "stopping" /\ used.cancel < MaxCancels
  /\ task' = [task EXCEPT ![r] = [Idle EXCEPT !.pc = "orphan"]]
  /\ lifecycle' = Tail(lifecycle)
  /\ used' = [used EXCEPT !.cancel = @ + 1]
  /\ UNCHANGED <<m, thr, procs, unconfirmed, conn, revision, terminals>>

OrphanEnds(r) ==
  /\ task[r].pc = "orphan" /\ thr[r].pc \in {"yes", "no"}
  /\ thr' = [thr EXCEPT ![r] = NoThread]
  /\ task' = [task EXCEPT ![r] = IF r = Sweeper THEN [Idle EXCEPT !.pc = "off"] ELSE Idle]
  /\ UNCHANGED <<m, lifecycle, procs, unconfirmed, conn, revision, terminals, used>>

\* Mutant: the limits are enforced only while the session's reader runs.
LimitsBodyReaderOnly(q) ==
  IF m.session = 0 \/ m.ses[m.session].finalized \/ m.ses[m.session].reader # "reading"
  THEN Answer(Sweeper, q) /\ UNCHANGED <<m, thr, conn>>
  ELSE StopSession(Sweeper, Idle, q)

\* enforce_limits, with the lock: the session is idle or too old.
LimitsBody(q) ==
  IF m.session = 0 \/ m.ses[m.session].finalized \/ m.ses[m.session].state \notin Active
  THEN Answer(Sweeper, q) /\ UNCHANGED <<m, thr, conn>>
  ELSE StopSession(Sweeper, Idle, q)

\* _sweep wakes up and finds a limit passed.
Sweep ==
  /\ task[Sweeper] = Idle /\ m.session # 0 /\ m.ses[m.session].state \in Active
  /\ IF lifecycle = <<>> THEN LimitsBody(<<Sweeper>>)
     ELSE /\ lifecycle' = Append(lifecycle, Sweeper)
          /\ task' = [task EXCEPT ![Sweeper].pc = "lockLimits"]
          /\ UNCHANGED <<m, thr, conn>>
  /\ UNCHANGED <<procs, unconfirmed, revision, terminals, used>>

SweepResumes ==
  /\ task[Sweeper].pc = "lockLimits" /\ Head(lifecycle) = Sweeper
  /\ LimitsBody(lifecycle)
  /\ UNCHANGED <<procs, unconfirmed, revision, terminals, used>>

\* Cancelled, r leaves the queue of the lifecycle lock.
LeaveQueue(r) ==
  lifecycle' = IF \E i \in 1 .. Len(lifecycle) : lifecycle[i] = r
               THEN LET i == CHOOSE i \in 1 .. Len(lifecycle) : lifecycle[i] = r IN
                    SubSeq(lifecycle, 1, i - 1) \o SubSeq(lifecycle, i + 1, Len(lifecycle))
               ELSE lifecycle

\* shutdown: refuse new work and cancel the sweeper, wherever it stands.
ShutdownBegins ==
  /\ task[Shutdown] = Idle
  /\ m' = [m EXCEPT !.closing = TRUE]
  /\ LeaveQueue(Sweeper)
  /\ task' = [task EXCEPT ![Shutdown].pc = "closing",
                ![Sweeper] = [Idle EXCEPT !.pc = IF task[Sweeper].pc = "stopping" THEN "orphan" ELSE "off"]]
  /\ UNCHANGED <<thr, procs, unconfirmed, conn, revision, terminals, used>>

\* shutdown asks for the lifecycle lock.
ShutdownQueues ==
  /\ task[Shutdown].pc = "closing"
  /\ lifecycle' = Append(lifecycle, Shutdown)
  /\ task' = [task EXCEPT ![Shutdown].pc = "lockShutdown"]
  /\ UNCHANGED <<m, thr, procs, unconfirmed, conn, revision, terminals, used>>

\* shutdown, with the lock: stop whatever is not proven gone.
ShutdownResumes ==
  LET q == lifecycle IN
  /\ task[Shutdown].pc = "lockShutdown" /\ Head(q) = Shutdown
  /\ IF m.session = 0 \/ ConfirmedGone(m.ses[m.session])
     THEN /\ lifecycle' = Tail(q) /\ task' = [task EXCEPT ![Shutdown].pc = "down"]
          /\ UNCHANGED <<m, thr, conn>>
     ELSE StopSession(Shutdown, Idle, q)
  /\ UNCHANGED <<procs, unconfirmed, revision, terminals, used>>

----------------------------------------------------------------------------
(* The reader task and the clients.                                          *)

\* _read_loop takes a chunk: clients over their limit are dropped.
ReadChunk(n) ==
  /\ m.ses[n].reader = "reading" /\ ~procs[n].closed
  /\ m.session = n /\ ~m.ses[n].finalized
  /\ \E cs \in SUBSET m.ses[n].subs \ {{}} :
       /\ m' = [m EXCEPT !.ses[n].subs = @ \ cs]
       /\ conn' = Hang(cs)
  /\ UNCHANGED <<lifecycle, task, thr, procs, unconfirmed, revision, terminals, used>>

\* _read_loop reaches the end of the stream: note it, fail an attempt that
\* never reported, then confirm the tree stopped on a thread.
ReadEnds(n) ==
  LET e == IF m.att.ack = None THEN EndAttempt(m, n, TRUE) ELSE m
  IN /\ m.ses[n].reader = "reading" /\ procs[n].closed
     /\ IF m.session # n \/ m.ses[n].finalized
        THEN m' = [m EXCEPT !.ses[n].reader = "done"] /\ UNCHANGED thr
        ELSE /\ m' = [e EXCEPT !.ses[n] = [@ EXCEPT !.eof = TRUE, !.reader = "stopping"]]
             /\ thr' = [thr EXCEPT ![n] = [pc |-> "enter", on |-> {n}]]
     /\ UNCHANGED <<lifecycle, task, procs, unconfirmed, conn, revision, terminals, used>>

\* The reader's stop is back: finalize as a natural exit.
ReaderFinalizes(n) ==
  /\ m.ses[n].reader = "stopping" /\ thr[n].pc \in {"yes", "no"}
  /\ m' = [Finalize(m, n, thr[n].pc = "yes", TRUE, procs[n].code) EXCEPT !.ses[n].reader = "done"]
  /\ conn' = Hang(IF ConfirmedGone(m.ses[n]) THEN {} ELSE m.ses[n].subs)
  /\ thr' = [thr EXCEPT ![n] = NoThread]
  /\ UNCHANGED <<lifecycle, task, procs, unconfirmed, revision, terminals, used>>

\* attach: a finished session answers with its end of stream at once.
Attach(c) ==
  LET n == m.session IN
  /\ conn[c] = 0 /\ n # 0 /\ ~m.ses[n].finalized
  /\ m' = [m EXCEPT !.ses[n].subs = @ \cup {c}]
  /\ conn' = [conn EXCEPT ![c] = n]
  /\ UNCHANGED <<lifecycle, task, thr, procs, unconfirmed, revision, terminals, used>>

\* detach, as far as the session is concerned.
DropClient(mm, n, c) == [mm EXCEPT !.ses[n].subs = @ \ {c}]

\* setup_session_ws: however the client's sender or receiver ends, it detaches.
Detach(c) ==
  LET n == conn[c] IN
  /\ n # 0
  /\ m' = DropClient(m, n, c)
  /\ conn' = [conn EXCEPT ![c] = 0]
  /\ UNCHANGED <<lifecycle, task, thr, procs, unconfirmed, revision, terminals, used>>

----------------------------------------------------------------------------
(* Completion reports: acknowledge_validated.                                *)

\* The credentials some child or external terminal was given.
Credentials == terminals \cup {procs[p].token : p \in {q \in SessionIds : procs[q].tree # "none"}}

\* submit_completion: a report carries the credentials of one launch and the
\* revision the agent finished with.
Reports == Credentials \X Revisions

\* require_completion_peer_and_bearer: the credentials are those of the
\* current attempt.
Authenticated(a) == AttemptForToken(m, a)

\* acknowledge_validated: the attempt's reports are validated one by one.
ValidationFree(a) ==
  \A q \in Requests : task[q].pc \in {"validating", "validated"} => task[q].token # a

\* validate_current_completion and _require_ready, up to the second look.
CurrentAndReady(rev) == revision = rev /\ rev \in Ready

\* setup_completion_callback: a report gets to its validation; any other one
\* is refused.
Report(r) ==
  /\ task[r] = Idle /\ used.all < MaxRequests
  /\ \E report \in Reports :
       LET a == report[1] rev == report[2] IN
       /\ Authenticated(a) /\ ValidationFree(a) /\ CurrentAndReady(rev)
       /\ task' = [task EXCEPT ![r] = [Idle EXCEPT !.pc = "validating", !.token = a, !.rev = rev]]
  /\ used' = [used EXCEPT !.all = @ + 1]
  /\ UNCHANGED <<m, lifecycle, thr, procs, unconfirmed, conn, revision, terminals>>

\* validate_current_completion inspects the revision once more.
ReportInspects(r) ==
  /\ task[r].pc = "validating"
  /\ task' = [task EXCEPT ![r] =
       IF revision = @.rev THEN [@ EXCEPT !.pc = "validated"] ELSE Idle]
  /\ UNCHANGED <<m, lifecycle, thr, procs, unconfirmed, conn, revision, terminals, used>>

\* acknowledge_completion: record a new acknowledgement while the attempt is
\* open and its session has not ended; an identical one changes nothing.
ReportAcknowledges(r) ==
  LET n == m.att.session
      live == n = 0 \/ ~m.ses[n].finalized
      fresh == AttemptForToken(m, task[r].token) /\ m.att.ack # task[r].rev /\ live
  IN /\ task[r].pc = "validated"
     /\ m' = [m EXCEPT !.att.ack = IF fresh THEN task[r].rev ELSE @]
     /\ task' = [task EXCEPT ![r] = Idle]
     /\ UNCHANGED <<lifecycle, thr, procs, unconfirmed, conn, revision, terminals, used>>

\* The agent in the terminal, or anyone else, changes the configuration.
EditConfiguration ==
  /\ \E rev \in Revisions \ {revision} : revision' = rev
  /\ UNCHANGED <<m, lifecycle, task, thr, procs, unconfirmed, conn, terminals, used>>

----------------------------------------------------------------------------
Init ==
  /\ m = [session |-> 0, closing |-> FALSE, ses |-> <<>>, att |-> NoAttempt, prepared |-> 0]
  /\ lifecycle = <<>>
  /\ task = [r \in Tasks |-> IF r = Sweeper THEN [Idle EXCEPT !.pc = "off"] ELSE Idle]
  /\ thr = [x \in Tasks \cup SessionIds |-> NoThread]
  /\ procs = [p \in SessionIds |-> NoProcess]
  /\ unconfirmed = {}
  /\ conn = [c \in Conns |-> 0]
  /\ revision \in Revisions
  /\ terminals = {}
  /\ used = [launch |-> 0, all |-> 0, cancel |-> 0]

\* Steps the server takes by itself once a request, a thread or a stream
\* has put it there.
RequestStep(r) ==
  \/ LaunchResumes(r) \/ Spawn(r) \/ StartReturns(r) \/ Reap(r) \/ ReapEnds(r)
  \/ ExternalRetried(r) \/ ExternalOpened(r)
  \/ StopResumes(r)
  \/ ReportInspects(r) \/ ReportAcknowledges(r)

ThreadStep(x) == StopEnter(x) \/ StopLeave(x)
TaskStep(r) == StopEnds(r) \/ OrphanEnds(r)
ReaderStep(n) == n \in DOMAIN m.ses /\ (ReadEnds(n) \/ ReaderFinalizes(n))
ShutdownStep == ShutdownQueues \/ ShutdownResumes

\* What browsers, children and the operator do.
Environment ==
  \/ \E r \in Requests : Launch(r) \/ Stop(r) \/ Report(r)
                         \/ LaunchCancelled(r) \/ StopCancelled(r)
  \/ \E c \in Conns : Attach(c) \/ Detach(c)
  \/ \E n \in DOMAIN m.ses : ReadChunk(n)
  \/ \E p \in SessionIds : ProcessEnds(p)
  \/ AttemptExpires
  \/ EditConfiguration
  \/ ShutdownBegins

Next ==
  \/ \E r \in Requests : RequestStep(r)
  \/ \E r \in Tasks : TaskStep(r)
  \/ \E x \in Tasks \cup SessionIds : ThreadStep(x)
  \/ \E n \in SessionIds : ReaderStep(n)
  \/ Sweep \/ SweepResumes
  \/ ShutdownStep
  \/ Environment

\* The event loop runs every ready task, stop threads have a deadline, and
\* time passes for the sweeper.
Fairness ==
  /\ \A r \in Requests : WF_vars(RequestStep(r))
  /\ \A r \in Tasks : WF_vars(TaskStep(r))
  /\ \A x \in Tasks \cup SessionIds : WF_vars(ThreadStep(x))
  /\ \A n \in SessionIds : WF_vars(ReaderStep(n))
  /\ WF_vars(Sweep) /\ WF_vars(SweepResumes) /\ WF_vars(ShutdownStep)

Spec == Init /\ [][Next]_vars /\ Fairness

----------------------------------------------------------------------------
(* Properties.                                                               *)

Sessions == [owner : Owners \cup {None}, sel : Selections \cup {None},
             state : {"starting", "running", "exited", "stopped", "failed"},
             proc : BOOLEAN, cleanup : SUBSET SessionIds, finalized : BOOLEAN,
             eof : BOOLEAN, evidence : {"none", "confirmed", "unconfirmed"},
             code : {0, 1, None}, subs : SUBSET Conns,
             reader : {"none", "reading", "stopping", "done"}]

Attempts == [id : Nat, owner : Owners, sel : Selections, session : {0} \cup SessionIds,
             ack : Ready \cup {None}, cancelled : BOOLEAN, failed : BOOLEAN,
             expired : BOOLEAN]

\* The manager's objects stay well formed: sessions and attempts carry only
\* the states of the code, and the current ones exist.
TypeOK ==
  /\ \A n \in DOMAIN m.ses : n \in SessionIds /\ m.ses[n] \in Sessions
  /\ m.att \in Attempts \cup {NoAttempt}
  /\ m.session \in {0} \cup DOMAIN m.ses
  /\ \A c \in Conns : conn[c] \in {0} \cup DOMAIN m.ses
  /\ unconfirmed \subseteq SessionIds

\* A process tree outlives its Stop, its failed or cancelled launch and its
\* reader only inside the slot: while a tree may be alive its session is the
\* manager's current one and refuses every other launch, so at most one
\* setup process tree exists (start, _fail_spawn, _reap_cancelled_spawn,
\* _finalize).
OneSetupTree ==
  \A p \in SessionIds :
    (procs[p].tree = "live" \/ p \in unconfirmed)
      => m.session = p /\ m.ses[p].state \in Active \cup {"failed"}

\* Setup is declared complete only on evidence: the attempt's own report of
\* the current, ready revision, no Stop before the end, and, once the session
\* has ended, a tree that is really gone and exited with code 0 (_decide,
\* _exit_is_clean, _finalize).
CompletionIsEarned ==
  (m.att.id # 0 /\ Decide(m, revision) = "complete") =>
      LET n == m.att.session IN
      /\ m.att.id \in Credentials
      /\ n # 0 => \/ m.session = n /\ m.ses[n].state \in Active
                  \/ procs[n].tree = "gone" /\ procs[n].code = 0

\* No client waits on a stream that has ended: a client that is still
\* attached listens to the current session, which is not finalized, and is
\* among its subscribers (_close_subscribers on every way out, append_output).
NoLingeringClient ==
  \A c \in Conns : conn[c] # 0 =>
    /\ conn[c] = m.session /\ ~m.ses[m.session].finalized
    /\ c \in m.ses[m.session].subs

\* Once shutdown has returned, a tree may be alive only if a Stop reported it
\* unconfirmed: nothing was started behind it (shutdown, start).
ShutdownLeavesNothing ==
  task[Shutdown].pc = "down" =>
    \A p \in SessionIds : procs[p].tree = "live" => m.ses[p].state = "failed"

\* Each request that waits for the lifecycle lock or for a thread ends: no
\* launch, Stop or report waits for ever (lifecycle lock, stop threads).
RequestsEnd == \A r \in Requests : task[r] # Idle ~> task[r] = Idle

\* A running session ends: its stream ends, somebody stops it, or the
\* sweeper finds it idle or too old, even when a Stop was cancelled half way.
SessionsEnd ==
  \A n \in SessionIds :
    LET reached(what) == n \in DOMAIN m.ses /\ what IN
    reached(m.ses[n].state = "running") ~> reached(m.ses[n].finalized)

\* The child of a running session holds the credentials its attempt expects,
\* so that its report can be accepted (prepare_completion, start).
CredentialsMatch ==
  LET n == m.att.session IN
  (n # 0 /\ m.session = n /\ m.ses[n].state = "running") => procs[n].token = m.att.id

\* The manager's books agree with the processes and clients they stand for.
SessionsSound == TypeOK /\ OneSetupTree /\ ShutdownLeavesNothing /\ NoLingeringClient

\* Every request and every session comes to an end.
EverythingEnds == RequestsEnd /\ SessionsEnd
=============================================================================
