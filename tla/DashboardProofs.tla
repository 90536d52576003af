-------------------------- MODULE DashboardProofs --------------------------
(***************************************************************************)
(* Proofs about what the dashboard's requests may do at the same time: the *)
(* manager of setup sessions (SetupSessions) and the changes of agents,    *)
(* prompts, memories and channels (Agents).                                *)
(*                                                                         *)
(* SetupSessions: its books agree with the processes and clients they      *)
(* stand for (SessionsAreSound) and setup is complete only on evidence     *)
(* (CompletionEarned).  The heart of the invariant is that the manager's   *)
(* one slot is a lock on the machine: a process tree that may be alive is  *)
(* the tree of the session in the slot (ProcInv).  Start, Stop, the        *)
(* sweeper, shutdown and the reader all free the slot or mark its session  *)
(* over, in threads that run between one another's steps, so the proof     *)
(* needs what each of them may rely on while the others act: the queue of  *)
(* the lifecycle lock and its one holder (LockInv), what a thread that     *)
(* stops a process knows (ThreadInv), what each record claims (RecordInv)  *)
(* and what the locals of a request, the sweeper and shutdown claim of all *)
(* of these (TaskInv).  CountInv bounds the launches, so that a new        *)
(* session has an id.  Each operation of the manager is first described as *)
(* a rewriting of one record (Rewrites) and of the attempt (Keeps,         *)
(* Derived); then one lemma per action shows that the step keeps the       *)
(* invariant.                                                              *)
(*                                                                         *)
(* Agents: in two layers.  RequestsInv says which locks a request holds or *)
(* still needs at every step, that nobody else holds them and what it may  *)
(* therefore still rely on (Assured); each step is shown to leave alone    *)
(* what others have locked (Spares).  On top of it PromptsSound says that  *)
(* a prompt file is registered for its agent or claimed by the one request *)
(* that has created it or will delete it (ClaimsInv), and that a request   *)
(* that has read its page's configuration may go by it (FreshOK).          *)
(***************************************************************************)
EXTENDS SetupSessions, Agents, SequenceTheorems, FiniteSetTheorems, WellFoundedInduction, TLAPS

Waiting == {"lockStart", "lockExternal", "lockStop", "lockLimits", "lockShutdown"}
Launching == {"spawning", "reaping", "reaped"}
Holding == Launching \cup {"retrying", "opening", "stopping"}

Pcs(r) ==
  CASE r = Sweeper -> {"off", "idle", "lockLimits", "stopping", "orphan"}
    [] r = Shutdown -> {"idle", "closing", "lockShutdown", "stopping", "down"}
    [] OTHER -> {"idle", "lockStart", "lockExternal", "lockStop", "orphan",
                 "validating", "validated"} \cup Holding

Steps == {"idle", "off", "closing", "down", "orphan", "validating", "validated"}
         \cup Waiting \cup Holding

Locals == [pc : Steps, owner : Owners \cup {None}, sel : Selections \cup {None},
           token : Nat, n : {0} \cup SessionIds,
           out : {"pending", "ok", "clean", "uncertain"}, cleanup : {{}},
           rev : Revisions \cup {None}]

Managers == [session : {0} \cup SessionIds, closing : BOOLEAN, ses : Seq(Sessions),
             att : Attempts \cup {NoAttempt}, prepared : Nat]

Processes == [tree : {"none", "live", "gone"}, closed : BOOLEAN, stopped : BOOLEAN,
              code : {0, 1}, token : Nat]

Threads == [pc : {"none", "enter", "in", "yes", "no"}, on : SUBSET SessionIds]

Known == 1 .. Len(m.ses)

TypeInv ==
  /\ m \in Managers /\ Len(m.ses) \in 0 .. MaxSessions
  /\ m.session \in {0} \cup Known
  /\ lifecycle \in Seq(Tasks)
  /\ task \in [Tasks -> Locals] /\ \A r \in Tasks : task[r].pc \in Pcs(r)
  /\ thr \in [Tasks \cup SessionIds -> Threads]
  /\ procs \in [SessionIds -> Processes]
  /\ unconfirmed \subseteq SessionIds
  /\ conn \in [Conns -> {0} \cup SessionIds]
  /\ revision \in Revisions
  /\ terminals \subseteq Nat \ {0}
  /\ used \in [launch : Nat, all : Nat, cancel : Nat]

Members(q) == {q[i] : i \in 1 .. Len(q)}

Distinct(q) == \A i, j \in 1 .. Len(q) : q[i] = q[j] => i = j

\* The lock's queue has no doubles, its members wait, and its head holds.
LockInv ==
  /\ Distinct(lifecycle)
  /\ \A r \in Tasks :
       /\ task[r].pc \in Waiting \cup Holding <=> r \in Members(lifecycle)
       /\ task[r].pc \in Holding => Head(lifecycle) = r

WaitingStarts == {r \in Tasks : task[r].pc = "lockStart"}

CountInv ==
  /\ IsFiniteSet(WaitingStarts)
  /\ Len(m.ses) + Cardinality(WaitingStarts) <= used.launch /\ used.launch <= MaxLaunches

\* The tree of session p may be alive.
Unsettled(p) == (procs[p].tree # "none" /\ ~procs[p].stopped) \/ p \in unconfirmed

\* Nothing of session n has been started.
Unborn(n) ==
  /\ procs[n] = NoProcess /\ n \notin unconfirmed
  /\ \A x \in Tasks \cup SessionIds : thr[x].pc # "none" => thr[x].on # {n}

ThreadInv ==
  /\ \A x \in Tasks \cup SessionIds : thr[x].pc # "none" =>
       \E p \in Known :
         /\ thr[x].on = {p} /\ procs[p].tree # "none"
         /\ thr[x].pc = "in" => ~procs[p].stopped
         /\ thr[x].pc = "yes" => procs[p].stopped
  /\ \A x, y \in Tasks \cup SessionIds :
       thr[x].pc = "in" /\ thr[y].pc = "in" /\ thr[x].on = thr[y].on => x = y

ProcInv ==
  /\ \A p \in SessionIds :
       /\ procs[p].stopped => procs[p].tree = "gone" /\ p \notin unconfirmed
       /\ procs[p].tree = "none" => procs[p] = NoProcess
       /\ procs[p].tree # "none" => p \in Known /\ procs[p].token # 0
       /\ Unsettled(p) => m.session = p

Record(s, n) ==
  /\ s.finalized <=> s.state \notin Active
  /\ s.state \in {"exited", "stopped"} => s.evidence = "confirmed"
  /\ s.evidence = "confirmed" => procs[n].stopped
  /\ s.code # None => procs[n].stopped /\ procs[n].code = s.code
  /\ s.reader = "stopping" => thr[n].pc # "none" /\ thr[n].on = {n}
  /\ s.cleanup = {} /\ (s.proc => procs[n].tree # "none")

RecordInv == \A n \in Known : Record(m.ses[n], n)

Sound(x, ses, session) ==
  /\ x.session \in {0} \cup 1 .. Len(ses)
  /\ x.session # 0 /\ ~x.cancelled /\ x.session # session => ses[x.session].finalized
  /\ x.ack # None => x.id # 0 /\ x.id \in Credentials
  /\ x.id = 0 => x = NoAttempt

AttemptInv == Sound(m.att, m.ses, m.session)

Launches == {"lockStart", "lockExternal", "retrying", "opening"} \cup Launching

\* What a task's locals say of the manager, its thread and its credentials.
TaskOK(r) ==
  LET l == task[r] IN
    /\ l.pc \in Launches => l.owner \in Owners /\ l.sel \in Selections /\ l.token # 0
    /\ l.pc \in Launches \ Launching => l.out = "pending"
    /\ l.pc \in Launching =>
         /\ l.n # 0 /\ l.n = m.session /\ m.ses[l.n].state = "starting"
         /\ ~m.ses[l.n].proc /\ m.ses[l.n].reader = "none"
         /\ m.ses[l.n].code = None
         /\ l.out = "pending" => Unborn(l.n) /\ l.pc # "reaped"
         /\ l.out = "ok" => procs[l.n].tree # "none"
         /\ l.out = "clean" => ~Unsettled(l.n)
    /\ l.pc = "retrying" => m.session = 0 \/ ConfirmedGone(m.ses[m.session])
    /\ l.pc = "stopping" => l.n # 0 /\ l.n = m.session
    /\ l.pc \in {"stopping", "reaped"} => thr[r].pc # "none" /\ thr[r].on = {l.n}
    /\ l.pc \in {"validating", "validated"} => l.token \in Credentials /\ l.rev \in Ready

TaskInv == \A r \in Tasks : TaskOK(r)

ClosingInv ==
  /\ task[Shutdown].pc # "idle" => m.closing
  /\ task[Shutdown].pc = "down" =>
       /\ \A r \in Tasks : task[r].pc \notin Launching
       /\ m.session # 0 => m.ses[m.session].finalized

SetupInv == TypeInv /\ LockInv /\ CountInv /\ ThreadInv /\ ProcInv /\ RecordInv
            /\ AttemptInv /\ TaskInv /\ ClosingInv /\ NoLingeringClient

\* e is mm with another record for session n.
Rewrites(e, mm, n, s) ==
  /\ e \in Managers /\ Len(e.ses) = Len(mm.ses)
  /\ e.ses[n] = s /\ \A k \in 1 .. Len(mm.ses) : k # n => e.ses[k] = mm.ses[k]
  /\ e.closing = mm.closing /\ e.prepared = mm.prepared

----
\* Replacing one session's record changes nothing else of the manager.
LEMMA SessionExcept ==
  ASSUME NEW mm \in Managers, NEW n \in 1 .. Len(mm.ses), NEW s \in Sessions, NEW e,
         e = [mm EXCEPT !.ses[n] = s]
  PROVE  Rewrites(e, mm, n, s) /\ e.session = mm.session /\ e.att = mm.att
<1>1. mm.ses \in Seq(Sessions)
  BY DEF Managers
<1>2. /\ [mm.ses EXCEPT ![n] = s] \in Seq(Sessions)
      /\ Len([mm.ses EXCEPT ![n] = s]) = Len(mm.ses)
      /\ \A j \in 1 .. Len(mm.ses) : [mm.ses EXCEPT ![n] = s][j] = IF j = n THEN s ELSE mm.ses[j]
  BY <1>1, ExceptSeq
<1>3. e = [mm EXCEPT !.ses = [mm.ses EXCEPT ![n] = s]]
  OBVIOUS
<1> DEFINE q == [mm.ses EXCEPT ![n] = s]
<1>4. q \in Seq(Sessions) /\ Len(q) = Len(mm.ses)
      /\ \A j \in 1 .. Len(mm.ses) : q[j] = IF j = n THEN s ELSE mm.ses[j]
  BY <1>2
<1>5. e = [mm EXCEPT !.ses = q]
  BY <1>3
<1> HIDE DEF q
<1>6. QED
  BY <1>4, <1>5 DEF Managers, Rewrites

\* What is left of an attempt when its session's end is noted in it.
Keeps(x, y) ==
  /\ y.id = x.id /\ y.session = x.session /\ y.ack = x.ack
  /\ x.cancelled => y.cancelled
  /\ x = NoAttempt => y = NoAttempt

\* EndAttempt touches only the attempt, and cancels it when its session is cleanly
\* over (_end_attempt).
LEMMA EndAttemptFacts ==
  ASSUME NEW mm \in Managers, NEW n \in SessionIds, NEW failed \in BOOLEAN, NEW e,
         e = EndAttempt(mm, n, failed)
  PROVE  /\ e \in Managers /\ e.ses = mm.ses /\ e.session = mm.session
         /\ e.closing = mm.closing /\ e.prepared = mm.prepared
         /\ Keeps(mm.att, e.att)
         /\ mm.att.session = n /\ ~failed => e.att.cancelled
<1>1. CASE mm.att.session # n
  BY <1>1 DEF EndAttempt, Keeps
<1>2. CASE mm.att.session = n
  <2>1. mm.att # NoAttempt /\ mm.att \in Attempts
    BY <1>2 DEF Managers, NoAttempt, NewAttempt, SessionIds
  <2> DEFINE a == IF failed THEN [mm.att EXCEPT !.failed = TRUE]
                            ELSE [mm.att EXCEPT !.cancelled = TRUE]
  <2>2. a \in Attempts /\ Keeps(mm.att, a) /\ (~failed => a.cancelled)
    BY <2>1 DEF Attempts, Keeps
  <2>3. e = [mm EXCEPT !.att = a]
    BY <1>2 DEF EndAttempt
  <2> HIDE DEF a
  <2> QED
    BY <2>2, <2>3, <1>2 DEF Managers
<1> QED
  BY <1>1, <1>2

\* CloseSubscribers empties the subscribers of one session (_close_subscribers).
LEMMA CloseSubscribersFacts ==
  ASSUME NEW mm \in Managers, NEW n \in 1 .. Len(mm.ses), NEW e,
         e = CloseSubscribers(mm, n)
  PROVE  /\ Rewrites(e, mm, n, [mm.ses[n] EXCEPT !.subs = {}])
         /\ e.session = mm.session /\ e.att = mm.att
<1> DEFINE s == [mm.ses[n] EXCEPT !.subs = {}]
<1>1. mm.ses[n] \in Sessions
  BY DEF Managers
<1>2. s \in Sessions
  BY <1>1 DEF Sessions
<1>3. e = [mm EXCEPT !.ses[n] = s]
  BY DEF CloseSubscribers
<1> HIDE DEF s
<1>4. Rewrites(e, mm, n, s) /\ e.session = mm.session /\ e.att = mm.att
  BY <1>2, <1>3, SessionExcept
<1>5. QED
  BY <1>4 DEF s

FailedRecord(s) == [s EXCEPT !.cleanup = {}, !.state = "failed", !.finalized = TRUE]

\* What a failed launch leaves: the slot is freed only when nothing can remain of
\* the tree, otherwise the session stays in it as failed (_fail_spawn).
LEMMA FailSpawnFacts ==
  ASSUME NEW mm \in Managers, NEW n \in SessionIds, n \in 1 .. Len(mm.ses),
         NEW clean \in BOOLEAN, NEW e, e = FailSpawn(mm, n, clean, {})
  PROVE  /\ Keeps(mm.att, e.att)
         /\ clean => /\ Rewrites(e, mm, n, [mm.ses[n] EXCEPT !.subs = {}])
                     /\ e.session = 0
                     /\ mm.att.session = n => e.att.cancelled
         /\ ~clean => /\ Rewrites(e, mm, n, FailedRecord([mm.ses[n] EXCEPT !.subs = {}]))
                      /\ e.session = mm.session
<1> DEFINE d == ~clean
           a == EndAttempt(mm, n, d)
           c == CloseSubscribers(a, n)
           s == [mm.ses[n] EXCEPT !.subs = {}]
           f == FailedRecord(s)
<1>1. /\ a \in Managers /\ a.ses = mm.ses /\ a.session = mm.session
      /\ a.closing = mm.closing /\ a.prepared = mm.prepared
      /\ Keeps(mm.att, a.att)
      /\ mm.att.session = n /\ clean => a.att.cancelled
  <2>1. d \in BOOLEAN /\ (clean <=> ~d)
    OBVIOUS
  <2> HIDE DEF d
  <2> QED
    BY <2>1, EndAttemptFacts
<1>2. a \in Managers /\ n \in 1 .. Len(a.ses)
  BY <1>1
<1> HIDE DEF a
<1>3. /\ Rewrites(c, a, n, [a.ses[n] EXCEPT !.subs = {}])
      /\ c.session = a.session /\ c.att = a.att
  BY <1>2, CloseSubscribersFacts
<1>4. e = IF clean THEN [c EXCEPT !.session = 0]
          ELSE [c EXCEPT !.ses[n] = [@ EXCEPT !.cleanup = {}, !.state = "failed",
                                              !.finalized = TRUE]]
  BY DEF FailSpawn, a
<1> HIDE DEF c
<1>5. a.ses[n] = mm.ses[n] /\ c.ses[n] = s
  BY <1>1, <1>3 DEF Rewrites
<1>6. Rewrites(c, mm, n, s) /\ c.session = mm.session /\ c.att = a.att
  BY <1>1, <1>3, <1>5 DEF Rewrites
<1>7. CASE clean
  <2>1. e = [c EXCEPT !.session = 0]
    BY <1>4, <1>7
  <2> HIDE DEF s
  <2>2. Rewrites(e, mm, n, s) /\ e.session = 0 /\ e.att = c.att
    BY <1>6, <2>1 DEF Rewrites, Managers
  <2> QED
    BY <2>2, <1>7, <1>6, <1>1 DEF s
<1>8. CASE ~clean
  <2>1. e = [c EXCEPT !.ses[n] = [c.ses[n] EXCEPT !.cleanup = {}, !.state = "failed",
                                                  !.finalized = TRUE]]
    BY <1>4, <1>8
  <2>2. e = [c EXCEPT !.ses[n] = f]
    BY <2>1, <1>5 DEF FailedRecord
  <2>3. f \in Sessions
    <3>1. s \in Sessions
      BY <1>6 DEF Rewrites, Managers
    <3> HIDE DEF s
    <3> QED
      BY <3>1 DEF Sessions, FailedRecord
  <2> HIDE DEF f, s
  <2>4. c \in Managers /\ n \in 1 .. Len(c.ses)
    BY <1>6 DEF Rewrites
  <2>5. Rewrites(e, c, n, f) /\ e.session = c.session /\ e.att = c.att
    BY <2>2, <2>3, <2>4, SessionExcept
  <2>6. Rewrites(e, mm, n, f)
    BY <2>5, <1>6 DEF Rewrites
  <2> QED
    BY <2>5, <2>6, <1>8, <1>6, <1>1 DEF f, s
<1> QED
  BY <1>7, <1>8

\* Finalize rewrites one record and keeps the session in the slot (_finalize).
LEMMA FinalizeFacts ==
  ASSUME NEW mm \in Managers, NEW n \in SessionIds, n \in 1 .. Len(mm.ses),
         NEW confirmed \in BOOLEAN, NEW natural \in BOOLEAN, NEW code \in {0, 1, None},
         NEW e, e = Finalize(mm, n, confirmed, natural, code), ~ConfirmedGone(mm.ses[n])
  PROVE  /\ Rewrites(e, mm, n, [Ended(mm.ses[n], confirmed, natural \/ mm.ses[n].eof, code) EXCEPT !.subs = {}])
         /\ e.session = mm.session
         /\ Keeps(mm.att, e.att)
<1> DEFINE s == mm.ses[n]
           b == natural \/ s.eof
           g == Ended(s, confirmed, b, code)
           h == [mm EXCEPT !.ses[n] = g]
           f == IF mm.att.session # n THEN h
                ELSE [h EXCEPT !.att.cancelled = @ \/ (confirmed /\ ~b),
                               !.att.failed = @ \/ ~confirmed \/ (b /\ mm.att.ack = None)]
<1>1. s \in Sessions
  BY DEF Managers
<1>2. g \in Sessions
  <2> HIDE DEF s
  <2> QED
    BY <1>1 DEF Sessions, Ended
<1>4. e = CloseSubscribers(f, n)
  BY DEF Finalize
<1>5. Rewrites(h, mm, n, g) /\ h.session = mm.session /\ h.att = mm.att
  <2> HIDE DEF g
  <2> QED
    BY <1>2, SessionExcept
<1>6. Rewrites(f, mm, n, g) /\ f.session = mm.session /\ Keeps(mm.att, f.att)
  <2> HIDE DEF g, h, b, s
  <2>1. CASE mm.att.session # n
    BY <2>1, <1>5 DEF Keeps
  <2>2. CASE mm.att.session = n
    <3>1. mm.att # NoAttempt /\ mm.att \in Attempts
      BY <2>2 DEF Managers, NoAttempt, NewAttempt, SessionIds
    <3>2. b \in BOOLEAN
      BY <1>1 DEF b, Sessions
    <3> DEFINE x == [mm.att EXCEPT !.cancelled = @ \/ (confirmed /\ ~b),
                                   !.failed = @ \/ ~confirmed \/ (b /\ mm.att.ack = None)]
    <3>3. x \in Attempts
      BY <3>1, <3>2 DEF Attempts
    <3>4. Keeps(mm.att, x)
      BY <3>1, <3>2 DEF Attempts, Keeps
    <3>5. f = [h EXCEPT !.att = x]
      BY <2>2, <1>5
    <3> HIDE DEF x, f
    <3>6. Rewrites(f, mm, n, g) /\ f.session = mm.session /\ f.att = x
      BY <3>3, <3>5, <1>5 DEF Rewrites, Managers
    <3> QED
      BY <3>6, <3>4
  <2> QED
    BY <2>1, <2>2
<1> HIDE DEF f
<1>7. f \in Managers /\ n \in 1 .. Len(f.ses) /\ f.ses[n] = g
  BY <1>6 DEF Rewrites
<1>8. Rewrites(e, f, n, [f.ses[n] EXCEPT !.subs = {}]) /\ e.session = f.session /\ e.att = f.att
  BY <1>7, <1>4, CloseSubscribersFacts
<1> DEFINE k == [g EXCEPT !.subs = {}]
<1>9. Rewrites(e, f, n, k)
  BY <1>8, <1>7
<1> HIDE DEF k, g, s
<1>10. Rewrites(e, mm, n, k)
  BY <1>9, <1>6 DEF Rewrites
<1> QED
  BY <1>10, <1>8, <1>6 DEF k, g, s, b

\* e differs from mm in its attempt only.
SameSessions(e, mm) ==
  /\ e \in Managers /\ e.ses = mm.ses /\ e.session = mm.session /\ e.closing = mm.closing

\* What a launch makes of attempt x: it is kept, given up or replaced.
Derived(y, x) ==
  \/ y = x
  \/ y = NoAttempt
  \/ y \in Attempts /\ y.id # 0 /\ y.session = 0 /\ y.ack = None

\* Preparing a completion changes only the attempt (prepare_completion).
LEMMA PrepareFacts ==
  ASSUME NEW mm \in Managers, NEW o \in Owners, NEW sel \in Selections, NEW p,
         p = PrepareCompletion(mm, o, sel)
  PROVE  /\ SameSessions(p.m, mm) /\ Derived(p.m.att, mm.att)
         /\ p.ok => p.token \in Nat \ {0} /\ ~mm.closing
<1> USE DEF SameSessions, Derived
<1>1. CASE p = [ok |-> FALSE, token |-> 0, m |-> mm]
  BY <1>1
<1>2. CASE p = [ok |-> TRUE, token |-> mm.att.id, m |-> mm] /\ HoldsSlot(mm) /\ ~mm.closing
  <2>1. mm.att.id \in Nat \ {0}
    BY <1>2 DEF HoldsSlot, Managers, Attempts, NoAttempt, NewAttempt
  <2> QED
    BY <1>2, <2>1
<1>3. CASE /\ ~mm.closing
           /\ p = [ok |-> TRUE, token |-> mm.prepared + 1,
                   m |-> [mm EXCEPT !.att = NewAttempt(mm.prepared + 1, o, sel),
                                    !.prepared = @ + 1]]
  <2> DEFINE i == mm.prepared + 1
             a == NewAttempt(i, o, sel)
  <2>1. i \in Nat \ {0} /\ p.token = i /\ p.m = [mm EXCEPT !.att = a, !.prepared = i]
    BY <1>3 DEF Managers
  <2> HIDE DEF i
  <2>2. a \in Attempts /\ a.id # 0 /\ a.session = 0 /\ a.ack = None
    BY <2>1 DEF NewAttempt, Attempts
  <2> HIDE DEF a
  <2> QED
    BY <2>1, <2>2, <1>3 DEF Managers
<1> QED
  BY <1>1, <1>2, <1>3 DEF PrepareCompletion

\* Claiming an attempt for a launch changes at most the attempt (start).
LEMMA ClaimFacts ==
  ASSUME NEW mm \in Managers, NEW o, NEW sel, NEW c, c = Claim(mm, o, sel)
  PROVE  /\ SameSessions(c.m, mm) /\ c.ok \in BOOLEAN /\ c.mine \in BOOLEAN
         /\ c.m.att = mm.att \/ c.m.att = NoAttempt
         /\ c.mine => c.m.att = mm.att /\ mm.att.id # 0 /\ mm.att.session = 0
<1>1. CASE c = [ok |-> TRUE, mine |-> FALSE, m |-> mm]
  BY <1>1 DEF SameSessions
<1>2. CASE c = [ok |-> TRUE, mine |-> FALSE, m |-> [mm EXCEPT !.att = NoAttempt]]
  BY <1>2 DEF SameSessions, Managers
<1> DEFINE other == mm.att.owner # o \/ mm.att.sel # sel
<1>3. CASE c = [ok |-> ~other, mine |-> ~other /\ mm.att.session = 0, m |-> mm] /\ HoldsSlot(mm)
  <2>1. mm.att.id # 0
    BY <1>3 DEF HoldsSlot
  <2>2. other \in BOOLEAN
    OBVIOUS
  <2> DEFINE mine == ~other /\ mm.att.session = 0
  <2>3. mine \in BOOLEAN /\ (mine => mm.att.session = 0)
    OBVIOUS
  <2>4. c.m = mm /\ c.ok = ~other /\ c.mine = mine
    BY <1>3
  <2> HIDE DEF other, mine
  <2> QED
    BY <2>1, <2>2, <2>3, <2>4 DEF SameSessions
<1> QED
  BY <1>1, <1>2, <1>3 DEF Claim

\* The record a launch creates.
LEMMA NewSessionType ==
  ASSUME NEW o \in Owners \cup {None}, NEW sel \in Selections \cup {None}
  PROVE  /\ NewSession(o, sel) \in Sessions
         /\ NewSession(o, sel) = [owner |-> o, sel |-> sel, state |-> "starting", proc |-> FALSE,
              cleanup |-> {}, finalized |-> FALSE, eof |-> FALSE, evidence |-> "none",
              code |-> None, subs |-> {}, reader |-> "none"]
  BY DEF NewSession, Sessions

\* The sessions known to the manager have ids of the model.
LEMMA KnownIds == SetupInv => Known \subseteq SessionIds /\ Len(m.ses) \in Nat /\ Known = 1 .. Len(m.ses)
  BY SetupAssumption DEF SetupInv, TypeInv, Known, SessionIds, MaxSessions

\* Forget keeps only the record the attempt refers to (start).
LEMMA ForgetFacts ==
  ASSUME NEW mm \in Managers, NEW f, f = Forget(mm)
  PROVE  /\ f \in Seq(Sessions) /\ Len(f) = Len(mm.ses)
         /\ \A k \in 1 .. Len(mm.ses) :
              f[k] = IF k = mm.att.session THEN mm.ses[k] ELSE NewSession(None, None)
<1>1. mm.ses \in Seq(Sessions) /\ DOMAIN mm.ses = 1 .. Len(mm.ses) /\ Len(mm.ses) \in Nat
  BY LenProperties DEF Managers
<1>2. NewSession(None, None) \in Sessions
  BY NewSessionType
<1>3. f = [k \in 1 .. Len(mm.ses) |-> IF k = mm.att.session THEN mm.ses[k] ELSE NewSession(None, None)]
  BY <1>1 DEF Forget
<1> DEFINE len == Len(mm.ses)
<1>4. \A k \in 1 .. len : mm.ses[k] \in Sessions
  BY <1>1
<1>5. f \in [1 .. len -> Sessions] /\ len \in Nat
  BY <1>1, <1>2, <1>3, <1>4
<1> HIDE DEF len
<1>6. f \in Seq(Sessions) /\ Len(f) = len
  BY <1>5, IsASeq, LenProperties
<1> QED
  BY <1>3, <1>6 DEF len

\* The slot is free for a launch.
SlotFree(mm) ==
  ~mm.closing /\ (mm.session # 0 => mm.ses[mm.session].state \in {"exited", "stopped"})

\* What start and _launch_external do with manager mm and the lock's queue q.
Answered(r, mm, q) ==
  SameSessions(m', mm) /\ Derived(m'.att, mm.att) /\ Answer(r, q)

Opening(r, mm, l, q) ==
  /\ SameSessions(m', mm) /\ Derived(m'.att, mm.att) /\ SlotFree(mm)
  /\ lifecycle' = q /\ task' = [task EXCEPT ![r] = [l EXCEPT !.pc = "retrying"]]

Started(r, mm, l, q) ==
  LET n == Len(mm.ses) + 1 IN
  /\ SlotFree(mm) /\ m' \in Managers
  /\ Len(m'.ses) = n /\ m'.session = n /\ m'.closing = mm.closing
  /\ m'.ses[n] = NewSession(l.owner, l.sel)
  /\ \A k \in 1 .. Len(mm.ses) :
       m'.ses[k] = IF k = m'.att.session THEN mm.ses[k] ELSE NewSession(None, None)
  /\ \E x \in Attempts \cup {NoAttempt} :
       /\ Derived(x, mm.att)
       /\ m'.att = x \/ (x.id # 0 /\ x.session = 0 /\ m'.att = [x EXCEPT !.session = n])
  /\ lifecycle' = q /\ task' = [task EXCEPT ![r] = [l EXCEPT !.pc = "spawning", !.n = n]]

Waits(r, mm, l, q) ==
  /\ m' = mm /\ lifecycle' = q /\ Head(q) # r
  /\ \E pc \in {"lockStart", "lockExternal"} : task' = [task EXCEPT ![r] = [l EXCEPT !.pc = pc]]

\* A launch with the lock held answers at once, or it has made its session the
\* current one and spawns (start).
LEMMA StartBodyFacts ==
  ASSUME NEW mm \in Managers, NEW r, NEW l, l.owner \in Owners, l.sel \in Selections, NEW q,
         mm.session \in {0} \cup 1 .. Len(mm.ses), Len(mm.ses) + 1 \in SessionIds,
         mm.att.session \in {0} \cup 1 .. Len(mm.ses),
         StartBody(mm, r, l, q)
  PROVE  Answered(r, mm, q) \/ Started(r, mm, l, q)
<1> DEFINE c == Claim(mm, l.owner, l.sel)
           n == Len(mm.ses) + 1
           busy == /\ mm.session # 0
                   /\ mm.ses[mm.session].state \in Active \cup {"failed"}
           s == NewSession(l.owner, l.sel)
           f == Forget(c.m)
           q1 == Append(f, s)
<1>1. /\ SameSessions(c.m, mm) /\ c.ok \in BOOLEAN /\ c.mine \in BOOLEAN
      /\ c.m.att = mm.att \/ c.m.att = NoAttempt
      /\ c.mine => c.m.att = mm.att /\ mm.att.id # 0 /\ mm.att.session = 0
  BY ClaimFacts
<1>2. CASE mm.closing \/ busy \/ ~c.ok
  BY <1>2 DEF StartBody, Answered, SameSessions, Derived
<1>3. CASE ~(mm.closing \/ busy \/ ~c.ok)
  <2>1. SlotFree(mm)
    <3>1. mm.session # 0 => mm.ses[mm.session] \in Sessions
      BY DEF Managers
    <3> QED
      BY <1>3, <3>1 DEF SlotFree, Sessions, Active
  <2>2. /\ m' = [c.m EXCEPT !.ses = q1, !.session = n, !.att.session = IF c.mine THEN n ELSE @]
        /\ task' = [task EXCEPT ![r] = [l EXCEPT !.pc = "spawning", !.n = n]]
        /\ lifecycle' = q
    BY <1>3 DEF StartBody
  <2> HIDE DEF c, busy
  <2>3. c.m \in Managers /\ c.m.ses = mm.ses
    BY <1>1 DEF SameSessions
  <2>4. /\ f \in Seq(Sessions) /\ Len(f) = Len(mm.ses)
        /\ \A k \in 1 .. Len(mm.ses) :
              f[k] = IF k = c.m.att.session THEN mm.ses[k] ELSE NewSession(None, None)
    BY <2>3, ForgetFacts
  <2>5. s \in Sessions
    BY NewSessionType
  <2> HIDE DEF f, s
  <2>6. /\ q1 \in Seq(Sessions) /\ Len(q1) = n /\ q1[n] = s
        /\ \A k \in 1 .. Len(mm.ses) : q1[k] = f[k]
    BY <2>4, <2>5, AppendProperties
  <2> DEFINE x == c.m.att
             y == [x EXCEPT !.session = IF c.mine THEN n ELSE @]
  <2>7. x \in Attempts \cup {NoAttempt} /\ Derived(x, mm.att)
    BY <1>1, <2>3 DEF Managers, Derived
  <2>8. /\ y \in Attempts \cup {NoAttempt}
        /\ y = x \/ (x.id # 0 /\ x.session = 0 /\ y = [x EXCEPT !.session = n])
        /\ y.session = IF c.mine THEN n ELSE x.session
        /\ c.mine => x.session = 0
    <3>1. CASE c.mine
      <4>1. x.id # 0 /\ x.session = 0 /\ x \in Attempts
        BY <1>1, <3>1, <2>7 DEF NoAttempt, NewAttempt
      <4>2. y = [x EXCEPT !.session = n]
        BY <3>1
      <4> HIDE DEF x
      <4> QED
        BY <4>1, <4>2, <3>1 DEF Attempts
    <3>2. CASE ~c.mine
      <4> HIDE DEF x
      <4>1. y = x
        BY <3>2, <2>7 DEF Attempts, NoAttempt, NewAttempt
      <4> QED
        BY <4>1, <3>2, <2>7
    <3> QED
      BY <3>1, <3>2
  <2>9. m' = [c.m EXCEPT !.ses = q1, !.session = n, !.att = y]
    BY <2>2
  <2> HIDE DEF q1, y, n
  <2>10. /\ m' \in Managers /\ m'.ses = q1 /\ m'.session = n /\ m'.att = y
         /\ m'.closing = mm.closing
    BY <2>9, <2>3, <2>6, <2>8, <1>1 DEF Managers, SameSessions, n
  <2>11. \A k \in 1 .. Len(mm.ses) :
           q1[k] = IF k = y.session THEN mm.ses[k] ELSE NewSession(None, None)
    <3> SUFFICES ASSUME NEW k \in 1 .. Len(mm.ses)
                 PROVE  q1[k] = IF k = y.session THEN mm.ses[k] ELSE NewSession(None, None)
      OBVIOUS
    <3>1. k # n /\ k # 0
      BY DEF n
    <3> QED
      BY <3>1, <2>4, <2>6, <2>8
  <2> QED
    BY <2>1, <2>2, <2>6, <2>7, <2>8, <2>10, <2>11 DEF Started, n, s
<1> QED
  BY <1>2, <1>3

\* A launch in an external terminal answers, or it opens one (start).
LEMMA ExternalBodyFacts ==
  ASSUME NEW mm \in Managers, NEW r, NEW l, NEW q,
         mm.session \in {0} \cup 1 .. Len(mm.ses), ExternalBody(mm, r, l, q)
  PROVE  Answered(r, mm, q) \/ Opening(r, mm, l, q)
<1> DEFINE c == Claim(mm, l.owner, l.sel)
           busy == /\ mm.session # 0
                   /\ mm.ses[mm.session].state \in Active \cup {"failed"}
<1>1. /\ SameSessions(c.m, mm)
      /\ c.m.att = mm.att \/ c.m.att = NoAttempt
  BY ClaimFacts
<1>2. CASE mm.closing \/ ~c.ok \/ busy
  <2>1. m' = (IF mm.closing THEN mm ELSE c.m) /\ Answer(r, q)
    BY <1>2 DEF ExternalBody
  <2> HIDE DEF c
  <2> QED
    BY <2>1, <1>1 DEF Answered, SameSessions, Derived
<1>3. CASE ~(mm.closing \/ ~c.ok \/ busy)
  <2>1. SlotFree(mm)
    <3>1. mm.session # 0 => mm.ses[mm.session] \in Sessions
      BY DEF Managers
    <3> QED
      BY <1>3, <3>1 DEF SlotFree, Sessions, Active
  <2>2. /\ m' = c.m /\ lifecycle' = q
        /\ task' = [task EXCEPT ![r] = [l EXCEPT !.pc = "retrying"]]
    BY <1>3 DEF ExternalBody
  <2> HIDE DEF c
  <2> QED
    BY <2>1, <2>2, <1>1 DEF Opening, Derived
<1> QED
  BY <1>2, <1>3

\* The four ways a launch goes on with the lock's queue q.
Proceeds(mm, r, l, q, connected) ==
  \/ Head(q) = r /\ Answered(r, mm, q)
  \/ connected /\ Head(q) = r /\ Started(r, mm, l, q)
  \/ ~connected /\ Head(q) = r /\ Opening(r, mm, l, q)
  \/ /\ Head(q) # r /\ Waits(r, mm, l, q)
     /\ task' = [task EXCEPT ![r] = [l EXCEPT !.pc =
                   IF connected THEN "lockStart" ELSE "lockExternal"]]

\* A launch that has the lock does one of the two; without it, it waits.
LEMMA ProceedFacts ==
  ASSUME NEW mm \in Managers, NEW r, NEW l, l.owner \in Owners, l.sel \in Selections, NEW q,
         mm.session \in {0} \cup 1 .. Len(mm.ses),
         mm.att.session \in {0} \cup 1 .. Len(mm.ses),
         NEW connected \in BOOLEAN, connected /\ Head(q) = r => Len(mm.ses) + 1 \in SessionIds,
         Proceed(mm, r, l, q, connected)
  PROVE  Proceeds(mm, r, l, q, connected)
<1>1. CASE Head(q) = r /\ connected
  BY <1>1, StartBodyFacts DEF Proceed, Proceeds
<1>2. CASE Head(q) = r /\ ~connected
  BY <1>2, ExternalBodyFacts DEF Proceed, Proceeds
<1>3. CASE Head(q) # r
  <2>1. /\ m' = mm /\ lifecycle' = q
        /\ task' = [task EXCEPT ![r] = [l EXCEPT !.pc =
                            IF connected THEN "lockStart" ELSE "lockExternal"]]
    BY <1>3 DEF Proceed
  <2> QED
    BY <2>1, <1>3 DEF Waits, Proceeds
<1> QED
  BY <1>1, <1>2, <1>3

----
\* A queue has no members exactly when it is empty.
LEMMA EmptyMembers ==
  ASSUME NEW q \in Seq(Tasks)
  PROVE  Members(q) = {} <=> q = <<>>
<1>1. Len(q) \in Nat /\ (q = <<>> <=> Len(q) = 0)
  BY EmptySeq, LenProperties
<1>2. q # <<>> => q[1] \in Members(q)
  BY <1>1 DEF Members
<1> QED
  BY <1>1, <1>2 DEF Members

\* Serving the head of a queue without doubles removes exactly the head.
LEMMA TailQueue ==
  ASSUME NEW q \in Seq(Tasks), Distinct(q), Members(q) # {}
  PROVE  /\ Tail(q) \in Seq(Tasks) /\ Distinct(Tail(q))
         /\ Members(Tail(q)) = Members(q) \ {Head(q)} /\ Head(q) \in Members(q)
<1>1. q # <<>> /\ Len(q) \in Nat \ {0} /\ Head(q) = q[1]
  BY EmptyMembers, EmptySeq, LenProperties
<1> DEFINE t == Tail(q)
<1>2. t \in Seq(Tasks) /\ Len(t) = Len(q) - 1 /\ \A i \in 1 .. Len(t) : t[i] = q[i + 1]
  BY <1>1, HeadTailProperties
<1> HIDE DEF t
<1>3. Distinct(t)
  BY <1>1, <1>2 DEF Distinct
<1>4. ASSUME NEW x \in Members(t) PROVE x \in Members(q) /\ x # Head(q)
  <2>1. PICK i \in 1 .. Len(t) : x = t[i]
    BY <1>4 DEF Members
  <2>2. i + 1 \in 1 .. Len(q) /\ x = q[i + 1] /\ i + 1 # 1 /\ 1 \in 1 .. Len(q)
    BY <2>1, <1>1, <1>2
  <2> QED
    BY <2>2, <1>1 DEF Members, Distinct
<1>5. ASSUME NEW x \in Members(q), x # Head(q) PROVE x \in Members(t)
  <2>1. PICK i \in 1 .. Len(q) : x = q[i]
    BY <1>5 DEF Members
  <2>2. i - 1 \in 1 .. Len(t) /\ x = t[i - 1]
    BY <2>1, <1>1, <1>2, <1>5
  <2> QED
    BY <2>2 DEF Members
<1>6. Head(q) \in Members(q)
  BY <1>1 DEF Members
<1> QED
  BY <1>2, <1>3, <1>4, <1>5, <1>6 DEF t

\* A queue stays without doubles when a newcomer joins it.
LEMMA AppendQueue ==
  ASSUME NEW q \in Seq(Tasks), NEW r \in Tasks, Distinct(q), r \notin Members(q)
  PROVE  /\ Append(q, r) \in Seq(Tasks) /\ Distinct(Append(q, r))
         /\ Members(Append(q, r)) = Members(q) \cup {r}
         /\ Head(Append(q, r)) = IF Members(q) = {} THEN r ELSE Head(q)
<1> DEFINE t == Append(q, r)
<1>1. /\ t \in Seq(Tasks) /\ Len(t) = Len(q) + 1 /\ \A i \in 1 .. Len(q) : t[i] = q[i]
      /\ t[Len(q) + 1] = r
      /\ Head(t) = IF q = <<>> THEN r ELSE Head(q)
      /\ Len(q) \in Nat
  BY AppendProperties, HeadTailAppend, LenProperties
<1> HIDE DEF t
<1>2. \A i \in 1 .. Len(q) : q[i] # r
  BY DEF Members
<1>3. Distinct(t)
  BY <1>1, <1>2 DEF Distinct
<1>4. Members(t) = Members(q) \cup {r}
  <2>1. \A x \in Members(t) : x \in Members(q) \cup {r}
    BY <1>1 DEF Members
  <2>2. \A x \in Members(q) : x \in Members(t)
    BY <1>1 DEF Members
  <2>3. r \in Members(t)
    BY <1>1 DEF Members
  <2> QED
    BY <2>1, <2>2, <2>3
<1> QED
  BY <1>1, <1>3, <1>4, EmptyMembers DEF t

\* A cancelled waiter leaves the queue, and the holder at its head stays there.
LEMMA LeaveQueueFacts ==
  ASSUME lifecycle \in Seq(Tasks), NEW r \in Tasks, Distinct(lifecycle), LeaveQueue(r)
  PROVE  /\ lifecycle' \in Seq(Tasks) /\ Distinct(lifecycle')
         /\ Members(lifecycle') = Members(lifecycle) \ {r}
         /\ Members(lifecycle) # {} /\ Head(lifecycle) # r => Head(lifecycle') = Head(lifecycle)
<1> DEFINE q == lifecycle  len == Len(q)
<1>0. len \in Nat /\ q \in [1 .. len -> Tasks]
  BY LenProperties
<1>1. CASE r \notin Members(q)
  BY <1>1 DEF LeaveQueue, Members
<1>2. CASE r \in Members(q)
  <2>1. PICK i \in 1 .. len : q[i] = r /\ lifecycle' = SubSeq(q, 1, i - 1) \o SubSeq(q, i + 1, len)
    <3>1. \E i \in 1 .. len : q[i] = r
      BY <1>2 DEF Members
    <3> QED
      BY <3>1 DEF LeaveQueue
  <2> DEFINE a == SubSeq(q, 1, i - 1)
             b == SubSeq(q, i + 1, len)
  <2>2. a \in Seq(Tasks) /\ Len(a) = i - 1 /\ \A j \in 1 .. i - 1 : a[j] = q[j]
    <3>1. \A j \in 1 .. i - 1 : q[j] \in Tasks
      BY <1>0, <2>1
    <3>2. 1 \in Int /\ i - 1 \in Int /\ i >= 1
      BY <1>0, <2>1
    <3> HIDE DEF q
    <3>3. /\ a \in Seq(Tasks) /\ Len(a) = IF 1 <= i - 1 THEN i - 1 - 1 + 1 ELSE 0
          /\ \A j \in 1 .. i - 1 - 1 + 1 : a[j] = q[1 + j - 1]
      BY <3>1, <3>2, SubSeqProperties
    <3> HIDE DEF a
    <3> QED
      BY <3>2, <3>3
  <2>3. b \in Seq(Tasks) /\ Len(b) = len - i /\ \A j \in 1 .. len - i : b[j] = q[i + j]
    <3>1. \A j \in i + 1 .. len : q[j] \in Tasks
      BY <1>0, <2>1
    <3>2. i + 1 \in Int /\ len \in Int /\ i <= len
      BY <1>0, <2>1
    <3> HIDE DEF q, len
    <3>3. /\ b \in Seq(Tasks) /\ Len(b) = IF i + 1 <= len THEN len - (i + 1) + 1 ELSE 0
          /\ \A j \in 1 .. len - (i + 1) + 1 : b[j] = q[i + 1 + j - 1]
      BY <3>1, <3>2, SubSeqProperties
    <3> HIDE DEF b
    <3> QED
      BY <3>2, <3>3
  <2> DEFINE t == a \o b
  <2> HIDE DEF a, b
  <2>4. /\ t \in Seq(Tasks) /\ Len(t) = Len(a) + Len(b)
        /\ \A j \in 1 .. Len(a) + Len(b) : t[j] = IF j <= Len(a) THEN a[j] ELSE b[j - Len(a)]
    BY <2>2, <2>3, ConcatProperties
  <2>5. lifecycle' = t
    BY <2>1 DEF a, b
  <2> HIDE DEF q, len, t
  <2>6. Len(t) = len - 1 /\ \A j \in 1 .. len - 1 : t[j] = IF j < i THEN q[j] ELSE q[j + 1]
    BY <1>0, <2>2, <2>3, <2>4
  <2>7. Distinct(q) /\ len = Len(q)
    BY DEF q, len
  <2>8. Distinct(t)
    BY <1>0, <2>6, <2>7 DEF Distinct
  <2>9. ASSUME NEW x \in Members(t) PROVE x \in Members(q) /\ x # r
    <3>1. PICK j \in 1 .. len - 1 : x = t[j]
      BY <2>6 DEF Members
    <3> DEFINE k == IF j < i THEN j ELSE j + 1
    <3>2. k \in 1 .. Len(q) /\ k # i /\ x = q[k]
      BY <3>1, <2>6, <2>7, <1>0
    <3> HIDE DEF k
    <3> QED
      BY <3>2, <2>1, <2>7, <1>0 DEF Members, Distinct
  <2>10. ASSUME NEW x \in Members(q), x # r PROVE x \in Members(t)
    <3>1. PICK k \in 1 .. len : x = q[k]
      BY <2>7 DEF Members
    <3> DEFINE j == IF k < i THEN k ELSE k - 1
    <3>2. k # i
      BY <3>1, <2>10, <2>1 DEF q
    <3>3. j \in 1 .. Len(t) /\ x = t[j]
      BY <3>1, <3>2, <2>6, <1>0
    <3> HIDE DEF j
    <3> QED
      BY <3>3 DEF Members
  <2>11. Members(q) # {} /\ Head(q) # r => Head(t) = Head(q)
    <3>1. SUFFICES ASSUME Members(q) # {}, Head(q) # r PROVE Head(t) = Head(q)
      OBVIOUS
    <3>2. Head(q) = q[1] /\ i # 1 /\ Head(t) = t[1]
      BY <3>1, <2>1 DEF q
    <3> QED
      BY <3>2, <2>6, <1>0
  <2> QED
    BY <2>4, <2>5, <2>8, <2>9, <2>10, <2>11 DEF q
<1> QED
  BY <1>1, <1>2

Queued == Waiting \cup Holding

\* Task x stands with the lock as it did.
SameClass(x) ==
  /\ task'[x].pc \in Queued <=> task[x].pc \in Queued
  /\ task'[x].pc \in Holding => task[x].pc \in Holding

\* q is the lock's queue with task r in it, whatever r did before.
QueueFor(q, r) ==
  /\ q \in Seq(Tasks) /\ Distinct(q) /\ r \in Members(q)
  /\ \A x \in Tasks \ {r} :
       /\ task[x].pc \in Queued <=> x \in Members(q)
       /\ task[x].pc \in Holding => Head(q) = x

\* The holder that lets go hands the lock to the next in the queue.
LEMMA Release ==
  ASSUME NEW r \in Tasks, NEW q, QueueFor(q, r), Head(q) = r, lifecycle' = Tail(q),
         task'[r].pc \notin Queued, \A x \in Tasks \ {r} : SameClass(x)
  PROVE  LockInv' /\ lifecycle' \in Seq(Tasks)
<1>1. /\ Tail(q) \in Seq(Tasks) /\ Distinct(Tail(q))
      /\ Members(Tail(q)) = Members(q) \ {r}
  BY TailQueue DEF QueueFor
<1>2. \A x \in Tasks : task'[x].pc \in Queued <=> x \in Members(Tail(q))
  BY <1>1 DEF QueueFor, SameClass
<1>3. \A x \in Tasks : task'[x].pc \notin Holding
  BY DEF QueueFor, SameClass, Queued
<1> QED
  BY <1>1, <1>2, <1>3 DEF LockInv, Queued

\* A task in the queue waits or, at its head, holds.
LEMMA Hold ==
  ASSUME NEW r \in Tasks, NEW q, QueueFor(q, r), lifecycle' = q,
         task'[r].pc \in Queued, task'[r].pc \in Holding => Head(q) = r,
         \A x \in Tasks \ {r} : SameClass(x)
  PROVE  LockInv' /\ lifecycle' \in Seq(Tasks)
  BY DEF QueueFor, SameClass, LockInv, Queued

\* A step that moves no task across the lock keeps the lock invariant.
LEMMA Rest ==
  ASSUME lifecycle \in Seq(Tasks), LockInv, lifecycle' = lifecycle, \A x \in Tasks : SameClass(x)
  PROVE  LockInv' /\ lifecycle' \in Seq(Tasks)
  BY DEF SameClass, LockInv, Queued

\* The queue as it is serves a task that is in it.
LEMMA QueueHere ==
  ASSUME lifecycle \in Seq(Tasks), LockInv, NEW r \in Tasks, task[r].pc \in Queued
  PROVE  QueueFor(lifecycle, r)
  BY DEF LockInv, QueueFor, Queued

\* The queue as it will be serves a task that joins it; it holds the lock at once
\* only when the queue was empty.
LEMMA QueueJoined ==
  ASSUME lifecycle \in Seq(Tasks), LockInv, NEW r \in Tasks, task[r].pc \notin Queued
  PROVE  /\ QueueFor(Append(lifecycle, r), r)
         /\ Head(Append(lifecycle, r)) = r <=> lifecycle = <<>>
         /\ lifecycle # <<>> => Head(Append(lifecycle, r)) # r
<1> DEFINE t == Append(lifecycle, r)
<1>1. r \notin Members(lifecycle) /\ Distinct(lifecycle)
  BY DEF LockInv, Queued
<1>2. /\ t \in Seq(Tasks) /\ Distinct(t)
      /\ Members(t) = Members(lifecycle) \cup {r}
      /\ Head(t) = IF Members(lifecycle) = {} THEN r ELSE Head(lifecycle)
  BY <1>1, AppendQueue
<1> HIDE DEF t
<1>3. Members(lifecycle) = {} <=> lifecycle = <<>>
  BY EmptyMembers
<1>4. Members(lifecycle) # {} => Head(lifecycle) \in Members(lifecycle)
  BY <1>1, TailQueue
<1>5. QueueFor(t, r)
  BY <1>1, <1>2 DEF QueueFor, LockInv, Queued
<1> QED
  BY <1>1, <1>2, <1>3, <1>4, <1>5 DEF t

\* A holder that lets go and asks again queues behind the others.
LEMMA QueueRejoined ==
  ASSUME lifecycle \in Seq(Tasks), LockInv, NEW r \in Tasks, task[r].pc \in Holding
  PROVE  /\ QueueFor(Append(Tail(lifecycle), r), r)
         /\ QueueFor(lifecycle, r) /\ Head(lifecycle) = r
         /\ \A x \in Tasks \ {r} : task[x].pc \notin Holding
<1> DEFINE s == Tail(lifecycle)
           t == Append(s, r)
<1>1. Distinct(lifecycle) /\ r \in Members(lifecycle) /\ Head(lifecycle) = r
  BY DEF LockInv
<1>2. s \in Seq(Tasks) /\ Distinct(s) /\ Members(s) = Members(lifecycle) \ {r}
  BY <1>1, TailQueue
<1> HIDE DEF s
<1>3. t \in Seq(Tasks) /\ Distinct(t) /\ Members(t) = Members(lifecycle)
  <2>1. r \notin Members(s) /\ Members(lifecycle) = Members(s) \cup {r}
    BY <1>1, <1>2
  <2>2. t \in Seq(Tasks) /\ Distinct(t) /\ Members(t) = Members(s) \cup {r}
    BY <1>2, <2>1, AppendQueue
  <2> QED
    BY <2>1, <2>2
<1>4. \A x \in Tasks \ {r} : task[x].pc \notin Holding
  BY <1>1 DEF LockInv
<1> HIDE DEF t
<1>5. QueueFor(t, r)
  BY <1>1, <1>3, <1>4 DEF QueueFor, LockInv, Queued
<1> QED
  BY <1>1, <1>4, <1>5, QueueHere DEF Queued, s, t

\* Only the head of the queue holds the lifecycle lock.
LEMMA HolderAlone ==
  ASSUME LockInv, NEW r \in Tasks, Head(lifecycle) = r \/ task[r].pc \in Holding
  PROVE  \A x \in Tasks \ {r} : task[x].pc \notin Holding
  BY DEF LockInv

----
\* The count of launches stands when no session and no waiting launch is added.
LEMMA CountKept ==
  ASSUME CountInv, Len(m'.ses) = Len(m.ses), used'.launch \in Nat, used.launch \in Nat,
         MaxLaunches \in Nat,
         used'.launch = used.launch, Len(m.ses) \in Nat,
         \A x \in Tasks : task'[x].pc = "lockStart" => task[x].pc = "lockStart"
  PROVE  CountInv'
<1>1. WaitingStarts' \subseteq WaitingStarts
  BY DEF WaitingStarts
<1>2. /\ IsFiniteSet(WaitingStarts') /\ Cardinality(WaitingStarts') <= Cardinality(WaitingStarts)
      /\ Cardinality(WaitingStarts) \in Nat /\ Cardinality(WaitingStarts') \in Nat
  BY <1>1, FS_Subset, FS_CardinalityType DEF CountInv
<1> DEFINE a == Cardinality(WaitingStarts)  b == Cardinality(WaitingStarts')
<1>3. Len(m'.ses) + b <= used'.launch /\ used'.launch <= MaxLaunches
  <2>1. Len(m.ses) + a <= used.launch /\ used.launch <= MaxLaunches
    BY DEF CountInv
  <2>2. b <= a /\ a \in Nat /\ b \in Nat
    BY <1>2
  <2> HIDE DEF a, b
  <2> QED
    BY <2>1, <2>2
<1> QED
  BY <1>2, <1>3 DEF CountInv

\* A new launch request pays for the session or the place in the queue it takes.
LEMMA CountAdded ==
  ASSUME CountInv, NEW r \in Tasks, used'.launch = used.launch + 1,
         used.launch \in Nat, used'.launch <= MaxLaunches, MaxLaunches \in Nat, Len(m.ses) \in Nat,
         \/ Len(m'.ses) = Len(m.ses)
         \/ Len(m'.ses) = Len(m.ses) + 1 /\ task'[r].pc # "lockStart" /\ task[r].pc # "lockStart",
         \A x \in Tasks \ {r} : task'[x].pc = "lockStart" => task[x].pc = "lockStart"
  PROVE  CountInv'
<1>1. WaitingStarts' \subseteq WaitingStarts \cup {r}
  BY DEF WaitingStarts
<1>2. /\ IsFiniteSet(WaitingStarts \cup {r})
      /\ Cardinality(WaitingStarts \cup {r}) <= Cardinality(WaitingStarts) + 1
      /\ Cardinality(WaitingStarts) \in Nat /\ Cardinality(WaitingStarts \cup {r}) \in Nat
  <2> DEFINE w == WaitingStarts
  <2>1. IsFiniteSet(w)
    BY DEF CountInv
  <2> HIDE DEF w
  <2>2. /\ IsFiniteSet(w \cup {r})
        /\ Cardinality(w \cup {r}) = IF r \in w THEN Cardinality(w) ELSE Cardinality(w) + 1
    BY <2>1, FS_AddElement
  <2>3. Cardinality(w) \in Nat /\ Cardinality(w \cup {r}) \in Nat
    BY <2>1, <2>2, FS_CardinalityType
  <2> QED
    BY <2>2, <2>3 DEF w
<1>3. /\ IsFiniteSet(WaitingStarts') /\ Cardinality(WaitingStarts') <= Cardinality(WaitingStarts) + 1
      /\ Cardinality(WaitingStarts') \in Nat
  <2>1. /\ IsFiniteSet(WaitingStarts')
        /\ Cardinality(WaitingStarts') <= Cardinality(WaitingStarts \cup {r})
        /\ Cardinality(WaitingStarts') \in Nat
    BY <1>1, <1>2, FS_Subset, FS_CardinalityType
  <2> QED
    BY <2>1, <1>2
<1>4. Len(m'.ses) = Len(m.ses) + 1 /\ task'[r].pc # "lockStart" /\ task[r].pc # "lockStart"
        => Cardinality(WaitingStarts') <= Cardinality(WaitingStarts)
  <2>1. SUFFICES ASSUME task'[r].pc # "lockStart" PROVE Cardinality(WaitingStarts') <= Cardinality(WaitingStarts)
    OBVIOUS
  <2>2. WaitingStarts' \subseteq WaitingStarts
    BY <2>1 DEF WaitingStarts
  <2> QED
    BY <2>2, FS_Subset DEF CountInv
<1> DEFINE a == Cardinality(WaitingStarts)  b == Cardinality(WaitingStarts')
<1>5. Len(m'.ses) + b <= used'.launch
  <2>1. Len(m.ses) + a <= used.launch
    BY DEF CountInv
  <2>2. a \in Nat /\ b \in Nat /\ b <= a + 1
        /\ (Len(m'.ses) = Len(m.ses) \/ (Len(m'.ses) = Len(m.ses) + 1 /\ b <= a))
    BY <1>2, <1>3, <1>4
  <2> HIDE DEF a, b
  <2> QED
    BY <2>1, <2>2
<1> QED
  BY <1>3, <1>5 DEF CountInv

\* A waiting launch that gets its session moves from one side of the count to the
\* other.
LEMMA CountMoved ==
  ASSUME CountInv, NEW r \in Tasks, used'.launch = used.launch,
         used.launch \in Nat, Len(m.ses) \in Nat,
         Len(m'.ses) = Len(m.ses) + 1, task[r].pc = "lockStart", task'[r].pc # "lockStart",
         \A x \in Tasks \ {r} : task'[x].pc = "lockStart" => task[x].pc = "lockStart"
  PROVE  CountInv'
<1>1. WaitingStarts' \subseteq WaitingStarts \ {r} /\ r \in WaitingStarts
  BY DEF WaitingStarts
<1>2. /\ IsFiniteSet(WaitingStarts \ {r})
      /\ Cardinality(WaitingStarts \ {r}) = Cardinality(WaitingStarts) - 1
      /\ Cardinality(WaitingStarts) \in Nat
  BY <1>1, FS_RemoveElement, FS_CardinalityType DEF CountInv
<1>3. /\ IsFiniteSet(WaitingStarts')
      /\ Cardinality(WaitingStarts') <= Cardinality(WaitingStarts \ {r})
      /\ Cardinality(WaitingStarts') \in Nat
  BY <1>1, <1>2, FS_Subset, FS_CardinalityType
<1> DEFINE a == Cardinality(WaitingStarts)  b == Cardinality(WaitingStarts')
<1>4. Len(m'.ses) + b <= used'.launch
  <2>1. Len(m.ses) + a <= used.launch
    BY DEF CountInv
  <2>2. a \in Nat /\ b \in Nat /\ b <= a - 1
    BY <1>2, <1>3
  <2> HIDE DEF a, b
  <2> QED
    BY <2>1, <2>2
<1> QED
  BY <1>3, <1>4 DEF CountInv

----
\* Constant facts.
LEMMA TaskNames ==
  /\ Shutdown \in Tasks /\ Sweeper \in Tasks /\ Shutdown # Sweeper
  /\ \A r \in Requests : r \in Tasks /\ r # Shutdown /\ r # Sweeper
  /\ Tasks \cap SessionIds = {}
  BY SetupAssumption DEF Tasks, SessionIds, MaxSessions

\* The locals of a task that does nothing.
LEMMA IdleType ==
  /\ Idle \in Locals /\ Idle.pc = "idle" /\ Idle.out = "pending"
  /\ Idle.pc \notin Queued
<1>1. Idle \in Locals
  BY DEF Idle, Locals, Steps, Waiting, Holding, Launching
<1>2. Idle.pc = "idle" /\ Idle.out = "pending"
  BY DEF Idle
<1> QED
  BY <1>1, <1>2 DEF Queued, Waiting, Holding, Launching

\* The locals of a task that has only a control state.
LEMMA IdlePc ==
  ASSUME NEW pc \in Steps, NEW l, l = [Idle EXCEPT !.pc = pc]
  PROVE  l \in Locals /\ l.pc = pc
<1>1. Idle \in Locals
  BY IdleType
<1>2. QED
  BY <1>1 DEF Locals

\* The control states of a request.
LEMMA RequestPcs ==
  ASSUME NEW r \in Requests
  PROVE  Pcs(r) = {"idle", "lockStart", "lockExternal", "lockStop", "orphan",
                   "validating", "validated"} \cup Holding
  BY TaskNames DEF Pcs

\* What a launch finds: manager mm is m with r's last session undone, if any.
Base(mm, r) ==
  /\ mm \in Managers /\ Len(mm.ses) = Len(m.ses) /\ mm.closing = m.closing
  /\ mm.session \in {0} \cup Known
  /\ \A k \in Known : Record(mm.ses[k], k)
  /\ Sound(mm.att, mm.ses, mm.session)
  /\ \A p \in SessionIds : Unsettled(p) => mm.session = p
  /\ \/ \A x \in Tasks \ {r} : task[x].pc \notin Holding
     \/ mm.session = m.session /\ mm.ses = m.ses
  /\ task[Shutdown].pc = "down" => (mm.session # 0 => mm.ses[mm.session].finalized)
  /\ \A c \in Conns : conn'[c] # 0 =>
       /\ conn'[c] = mm.session /\ ~mm.ses[mm.session].finalized
       /\ c \in mm.ses[mm.session].subs

\* The attempt invariant survives what PrepareCompletion and Claim do to it.
LEMMA DerivedSound ==
  ASSUME NEW x, NEW y, NEW ses, NEW session, Sound(x, ses, session), Derived(y, x)
  PROVE  Sound(y, ses, session)
<1>1. CASE y = x
  BY <1>1
<1>2. CASE y = NoAttempt
  BY <1>2 DEF Sound, NoAttempt, NewAttempt
<1>3. CASE y \in Attempts /\ y.id # 0 /\ y.session = 0 /\ y.ack = None
  BY <1>3 DEF Sound
<1> QED
  BY <1>1, <1>2, <1>3 DEF Derived

\* Two such changes in a row are one.
LEMMA DerivedTwice ==
  ASSUME NEW x, NEW y, NEW z, Derived(y, x), Derived(z, y)
  PROVE  Derived(z, x)
  BY DEF Derived

SetupRest == TypeInv /\ LockInv /\ ThreadInv /\ ProcInv /\ RecordInv
             /\ AttemptInv /\ TaskInv /\ ClosingInv /\ NoLingeringClient

\* Task x keeps what TaskInv says of it when it does not hold the lock.
LEMMA TaskKept ==
  ASSUME TaskInv, TypeInv, NEW x \in Tasks, task[x].pc \notin Holding, task'[x] = task[x],
         Credentials \subseteq Credentials'
  PROVE  TaskOK(x)'
  BY DEF TaskInv, TaskOK, Holding, Launches, Launching

\* The locals of a launch keep its owner, selection and credentials.
LEMMA LaunchLocals ==
  ASSUME NEW l \in Locals, NEW n \in SessionIds, NEW k,
         \/ \E pc \in Launches : k = [l EXCEPT !.pc = pc]
         \/ k = [l EXCEPT !.pc = "spawning", !.n = n]
  PROVE  /\ k \in Locals /\ k.pc \in Launches /\ k.owner = l.owner /\ k.sel = l.sel
         /\ k.token = l.token /\ k.out = l.out
         /\ k = [l EXCEPT !.pc = "spawning", !.n = n] => k.pc = "spawning" /\ k.n = n
         /\ \A pc \in Launches : k = [l EXCEPT !.pc = pc] => k.pc = pc
<1>1. Launches \subseteq Steps
  BY DEF Launches, Steps, Waiting, Holding
<1>2. CASE k = [l EXCEPT !.pc = "spawning", !.n = n]
  <2>1. "spawning" \in Launches
    BY DEF Launches, Launching
  <2> QED
    BY <1>1, <1>2, <2>1 DEF Locals
<1>3. CASE \E pc \in Launches : k = [l EXCEPT !.pc = pc]
  <2>1. PICK pc \in Launches : k = [l EXCEPT !.pc = pc]
    BY <1>3
  <2>2. k \in Locals /\ k.pc = pc /\ k.owner = l.owner /\ k.sel = l.sel
        /\ k.token = l.token /\ k.out = l.out
    BY <1>1, <2>1 DEF Locals
  <2>3. k = [l EXCEPT !.pc = "spawning", !.n = n] => k.n = n /\ k.pc = "spawning"
    BY <2>2 DEF Locals
  <2>4. ASSUME NEW c \in Launches, k = [l EXCEPT !.pc = c] PROVE k.pc = c
    BY <2>4 DEF Locals
  <2> QED
    BY <2>2, <2>3, <2>4
<1> QED
  BY <1>2, <1>3

\* A launch that changes no session: its task's new locals are k.
LEMMA LaunchSame ==
  ASSUME SetupInv, NEW r \in Requests, NEW mm, Base(mm, r),
         SameSessions(m', mm), Derived(m'.att, mm.att),
         NEW k \in Locals, k.pc \in Pcs(r), task' = [task EXCEPT ![r] = k],
         TaskOK(r)', LockInv', lifecycle' \in Seq(Tasks),
         UNCHANGED <<thr, procs, unconfirmed, revision, terminals>>,
         used' \in [launch : Nat, all : Nat, cancel : Nat],
         conn' \in [Conns -> {0} \cup SessionIds]
  PROVE  SetupRest'
<1> USE TaskNames
<1>1. /\ m' \in Managers /\ m'.ses = mm.ses /\ m'.session = mm.session /\ m'.closing = m.closing
      /\ Sound(m'.att, mm.ses, mm.session)
  BY DerivedSound DEF SameSessions, Base
<1>3. Len(m'.ses) = Len(m.ses) /\ Known' = Known
  BY <1>1 DEF Base, Known
<1>4. /\ task \in [Tasks -> Locals] /\ task'[r] = k
      /\ \A x \in Tasks \ {r} : task'[x] = task[x]
      /\ task' \in [Tasks -> Locals]
  BY DEF SetupInv, TypeInv
<1>6. TypeInv'
  <2>1. \A x \in Tasks : task'[x].pc \in Pcs(x)
    BY <1>4 DEF SetupInv, TypeInv
  <2> QED
    BY <1>1, <1>3, <1>4, <2>1 DEF SetupInv, TypeInv, Base
<1>7. ThreadInv'
  BY <1>3 DEF SetupInv, ThreadInv
<1>8. ProcInv'
  BY <1>1, <1>3 DEF SetupInv, ProcInv, Base, Unsettled
<1>9. RecordInv'
  BY <1>1, <1>3 DEF RecordInv, Base, Record
<1>10. AttemptInv'
  BY <1>1 DEF AttemptInv, Sound, Credentials
<1>11. TaskInv'
  <2>1. ASSUME NEW x \in Tasks \ {r} PROVE TaskOK(x)'
    <3>1. task'[x] = task[x] /\ Credentials' = Credentials
      BY <1>4 DEF Credentials
    <3>2. CASE task[x].pc \notin Holding
      BY <3>1, <3>2, TaskKept DEF SetupInv
    <3>3. CASE mm.session = m.session /\ mm.ses = m.ses
      <4>1. TaskOK(x) /\ m'.session = m.session /\ m'.ses = m.ses
        BY <1>1, <3>3 DEF SetupInv, TaskInv
      <4>2. Unborn(task[x].n)' <=> Unborn(task[x].n)
        BY <3>1 DEF Unborn
      <4>3. ConfirmedGone(m.ses[m.session])' <=> ConfirmedGone(m.ses[m.session])
        BY <4>1 DEF ConfirmedGone
      <4> QED
        BY <3>1, <4>1, <4>2, <4>3 DEF TaskOK, Unsettled
    <3> QED
      BY <3>2, <3>3 DEF Base
  <2> QED
    BY <2>1 DEF TaskInv
<1>12. ClosingInv'
  <2>1. ASSUME task'[Shutdown].pc = "down", NEW x \in Tasks PROVE task'[x].pc \notin Launching
    <3>1. CASE x = r
      <4>1. task[Shutdown].pc = "down" /\ m.closing
        BY <1>4, <2>1 DEF SetupInv, ClosingInv
      <4>2. k.pc \in Launching => m'.session # 0 /\ m'.ses[m'.session].state = "starting"
        BY <1>4 DEF TaskOK
      <4>3. m'.session # 0 => m'.ses[m'.session].finalized /\ m'.session \in Known
        BY <1>1, <4>1 DEF Base
      <4>4. m'.session # 0 => m'.ses[m'.session].state \notin Active
        BY <4>3, <1>1 DEF Base, Record
      <4> QED
        BY <1>4, <3>1, <4>2, <4>4 DEF Active
    <3>2. CASE x # r
      BY <3>2, <1>4, <2>1 DEF SetupInv, ClosingInv
    <3> QED
      BY <3>1, <3>2
  <2> QED
    BY <2>1, <1>1, <1>4 DEF SetupInv, ClosingInv, Base
<1>13. NoLingeringClient'
  BY <1>1 DEF Base, NoLingeringClient
<1> QED
  BY <1>6, <1>7, <1>8, <1>9, <1>10, <1>11, <1>12, <1>13 DEF SetupRest

\* A launch that answers keeps the invariant.
LEMMA LaunchAnswered ==
  ASSUME SetupInv, NEW r \in Requests, NEW mm, NEW q, QueueFor(q, r), Base(mm, r),
         Head(q) = r, Answered(r, mm, q),
         UNCHANGED <<thr, procs, unconfirmed, revision, terminals>>,
         used' \in [launch : Nat, all : Nat, cancel : Nat],
         conn' \in [Conns -> {0} \cup SessionIds]
  PROVE  SetupRest'
<1> USE TaskNames
<1>1. lifecycle' = Tail(q) /\ task' = [task EXCEPT ![r] = Idle]
  BY DEF Answered, Answer
<1>2. task'[r] = Idle /\ \A x \in Tasks \ {r} : task'[x] = task[x]
  BY <1>1 DEF SetupInv, TypeInv
<1>3. LockInv' /\ lifecycle' \in Seq(Tasks)
  BY <1>1, <1>2, IdleType, Release DEF SameClass
<1>4. TaskOK(r)' /\ Idle.pc \in Pcs(r)
  BY <1>2, IdleType, RequestPcs DEF TaskOK, Launches, Launching, Idle
<1> QED
  BY <1>1, <1>3, <1>4, IdleType, LaunchSame DEF Answered

\* A launch that queues for the lifecycle lock keeps the invariant.
LEMMA LaunchWaits ==
  ASSUME SetupInv, NEW r \in Requests, NEW mm, NEW l \in Locals, NEW q, QueueFor(q, r), Base(mm, r),
         l.owner \in Owners, l.sel \in Selections, l.token # 0, l.out = "pending",
         Head(q) # r, Waits(r, mm, l, q),
         UNCHANGED <<thr, procs, unconfirmed, revision, terminals>>,
         used' \in [launch : Nat, all : Nat, cancel : Nat],
         conn' \in [Conns -> {0} \cup SessionIds]
  PROVE  SetupRest'
<1> USE TaskNames
<1>1. PICK pc \in {"lockStart", "lockExternal"} : task' = [task EXCEPT ![r] = [l EXCEPT !.pc = pc]]
  BY DEF Waits
<1> DEFINE k == [l EXCEPT !.pc = pc]
<1>2. pc \in Launches /\ pc \in Steps
  BY DEF Launches, Steps, Waiting
<1>3. /\ k \in Locals /\ k.pc = pc /\ k.owner = l.owner /\ k.sel = l.sel
      /\ k.token = l.token /\ k.out = l.out
  BY <1>2 DEF Locals
<1> HIDE DEF k
<1>4. task' = [task EXCEPT ![r] = k] /\ task'[r] = k /\ \A x \in Tasks \ {r} : task'[x] = task[x]
  BY <1>1 DEF SetupInv, TypeInv, k
<1>5. k.pc \in Queued /\ k.pc \notin Holding
  BY <1>3 DEF Queued, Waiting, Holding, Launching
<1>6. LockInv' /\ lifecycle' \in Seq(Tasks)
  BY <1>4, <1>5, Hold DEF SameClass, Waits
<1>7. TaskOK(r)' /\ k.pc \in Pcs(r)
  BY <1>3, <1>4, RequestPcs DEF TaskOK, Launching, Launches
<1>8. SameSessions(m', mm) /\ Derived(m'.att, mm.att)
  BY DEF Waits, SameSessions, Derived, Base
<1> QED
  BY <1>3, <1>4, <1>6, <1>7, <1>8, LaunchSame

\* A launch that opens an external terminal keeps the invariant.
LEMMA LaunchOpening ==
  ASSUME SetupInv, NEW r \in Requests, NEW mm, NEW l \in Locals, NEW q, QueueFor(q, r), Base(mm, r),
         l.owner \in Owners, l.sel \in Selections, l.token # 0, l.out = "pending",
         Head(q) = r, Opening(r, mm, l, q),
         UNCHANGED <<thr, procs, unconfirmed, revision, terminals>>,
         used' \in [launch : Nat, all : Nat, cancel : Nat],
         conn' \in [Conns -> {0} \cup SessionIds]
  PROVE  SetupRest'
<1> USE TaskNames
<1> DEFINE k == [l EXCEPT !.pc = "retrying"]
<1>2. "retrying" \in Launches /\ "retrying" \in Steps
  BY DEF Launches, Steps, Holding
<1>3. /\ k \in Locals /\ k.pc = "retrying" /\ k.owner = l.owner /\ k.sel = l.sel
      /\ k.token = l.token /\ k.out = l.out
  BY <1>2 DEF Locals
<1>4. task' = [task EXCEPT ![r] = k]
  BY DEF Opening
<1> HIDE DEF k
<1>5. task'[r] = k /\ \A x \in Tasks \ {r} : task'[x] = task[x]
  BY <1>4 DEF SetupInv, TypeInv
<1>6. k.pc \in Queued
  BY <1>3 DEF Queued, Holding
<1>7. LockInv' /\ lifecycle' \in Seq(Tasks)
  BY <1>5, <1>6, Hold DEF SameClass, Opening
<1>8. m'.session = 0 \/ ConfirmedGone(m'.ses[m'.session])
  <2>1. m'.session = mm.session /\ m'.ses = mm.ses
    BY DEF Opening, SameSessions
  <2>2. mm.session # 0 => Record(mm.ses[mm.session], mm.session)
        /\ mm.ses[mm.session].state \in {"exited", "stopped"}
    BY DEF Opening, SlotFree, Base
  <2> QED
    BY <2>1, <2>2 DEF Record, ConfirmedGone, Active
<1>9. TaskOK(r)' /\ k.pc \in Pcs(r)
  BY <1>3, <1>5, <1>8, RequestPcs DEF TaskOK, Launching, Launches, Holding, ConfirmedGone
<1> QED
  BY <1>3, <1>4, <1>7, <1>9, LaunchSame DEF Opening

\* The record of a new session satisfies the record invariant.
LEMMA BlankRecord ==
  ASSUME NEW o \in Owners \cup {None}, NEW sel \in Selections \cup {None}, NEW n
  PROVE  Record(NewSession(o, sel), n)
  BY DEF Record, NewSession, Active

\* A launch that makes its session the current one keeps the invariant: the slot
\* was free, so no other tree is unsettled.
LEMMA LaunchStarted ==
  ASSUME SetupInv, NEW r \in Requests, NEW mm, NEW l \in Locals, NEW q, QueueFor(q, r), Base(mm, r),
         l.owner \in Owners, l.sel \in Selections, l.token # 0, l.out = "pending",
         Head(q) = r, Started(r, mm, l, q), Len(m.ses) + 1 \in SessionIds,
         UNCHANGED <<thr, procs, unconfirmed, revision, terminals>>,
         used' \in [launch : Nat, all : Nat, cancel : Nat],
         conn' \in [Conns -> {0} \cup SessionIds]
  PROVE  SetupRest'
<1> USE TaskNames
<1>n. PICK n \in SessionIds : n = Len(m.ses) + 1
  OBVIOUS
<1>0. /\ SlotFree(mm) /\ m' \in Managers
      /\ Len(m'.ses) = n /\ m'.session = n /\ m'.closing = m.closing
      /\ m'.ses[n] = NewSession(l.owner, l.sel)
      /\ \A k \in Known :
           m'.ses[k] = IF k = m'.att.session THEN mm.ses[k] ELSE NewSession(None, None)
      /\ lifecycle' = q /\ task' = [task EXCEPT ![r] = [l EXCEPT !.pc = "spawning", !.n = n]]
  BY <1>n DEF Started, Base, Known
<1>1. n \in SessionIds /\ n \notin Known /\ n # 0 /\ Known' = Known \cup {n}
      /\ Len(m.ses) \in Nat /\ n \in Nat /\ n = Len(m'.ses)
      /\ \A k \in Known : k \in Known' /\ k # n
  <2>1. Len(m.ses) \in Nat /\ Len(m'.ses) = n /\ n = Len(m.ses) + 1 /\ n \in SessionIds
    BY <1>0, <1>n, KnownIds
  <2>2. /\ n \notin 1 .. Len(m.ses) /\ n # 0 /\ n \in Nat /\ 1 .. Len(m'.ses) = (1 .. Len(m.ses)) \cup {n}
    BY <2>1
  <2> QED
    BY <2>1, <2>2 DEF Known
<1> DEFINE k0 == [l EXCEPT !.pc = "spawning", !.n = n]
<1>2. /\ k0 \in Locals /\ k0.pc = "spawning" /\ k0.owner = l.owner /\ k0.sel = l.sel
      /\ k0.token = l.token /\ k0.out = l.out /\ k0.n = n
  <2>1. "spawning" \in Steps
    BY DEF Steps, Holding, Launching
  <2> QED
    BY <1>1, <2>1 DEF Locals
<1>3. task' = [task EXCEPT ![r] = k0]
  BY <1>0
<1> HIDE DEF k0
<1>4. /\ task'[r] = k0 /\ \A x \in Tasks \ {r} : task'[x] = task[x]
      /\ task' \in [Tasks -> Locals]
  BY <1>2, <1>3 DEF SetupInv, TypeInv
<1>5. k0.pc \in Queued /\ k0.pc \in Pcs(r)
  BY <1>2, RequestPcs DEF Queued, Holding, Launching
<1>6. LockInv' /\ lifecycle' \in Seq(Tasks)
  BY <1>0, <1>4, <1>5, Hold DEF SameClass
\* The slot was free: no process tree is alive.
<1>7. \A p \in SessionIds : ~Unsettled(p)
  <2>1. ASSUME mm.session # 0 PROVE procs[mm.session].stopped
    BY <1>0, <2>1 DEF SlotFree, Base, Record
  <2>2. ASSUME NEW p \in SessionIds, Unsettled(p) PROVE FALSE
    <3>1. mm.session = p /\ p # 0
      BY <2>2 DEF Base, SessionIds
    <3>2. procs[p].stopped
      BY <2>1, <3>1
    <3> QED
      BY <3>2, <2>2 DEF SetupInv, ProcInv, Unsettled
  <2> QED
    BY <2>2
<1>8. TypeInv'
  <2>1. \A x \in Tasks : task'[x].pc \in Pcs(x)
    BY <1>4, <1>5 DEF SetupInv, TypeInv
  <2>2. Len(m'.ses) \in 0 .. MaxSessions
    BY <1>0, <1>1, SetupAssumption DEF SessionIds, MaxSessions
  <2> QED
    BY <1>0, <1>1, <1>4, <1>6, <2>1, <2>2 DEF SetupInv, TypeInv
<1>9. ThreadInv'
  BY <1>1 DEF SetupInv, ThreadInv
<1>10. ProcInv'
  BY <1>1, <1>7 DEF SetupInv, ProcInv, Unsettled
<1>11. RecordInv'
  <2>1. ASSUME NEW k \in Known PROVE Record(m'.ses[k], k)
    <3>1. Record(mm.ses[k], k)
      BY DEF Base
    <3>2. Record(NewSession(None, None), k)
      BY BlankRecord
    <3> QED
      BY <1>0, <3>1, <3>2
  <2>2. Record(m'.ses[n], n)
    BY <1>0, BlankRecord
  <2>3. \A k \in Known' : Record(m'.ses[k], k)
    BY <1>1, <2>1, <2>2
  <2> QED
    BY <2>3 DEF RecordInv, Record
<1>12. AttemptInv'
  <2>1. PICK x \in Attempts \cup {NoAttempt} :
          /\ Derived(x, mm.att)
          /\ m'.att = x \/ (x.id # 0 /\ x.session = 0 /\ m'.att = [x EXCEPT !.session = n])
    BY <1>n DEF Started, Base
  <2>2. Sound(x, mm.ses, mm.session)
    BY <2>1, DerivedSound DEF Base
  <2>3. CASE m'.att = x
    <3>1. x.session \in {0} \cup Known
      BY <2>2 DEF Sound, Base, Known
    <3>2. ASSUME x.session # 0, ~x.cancelled PROVE m'.ses[x.session].finalized
      <4>1. m'.ses[x.session] = mm.ses[x.session] /\ x.session \in Known
        BY <1>0, <2>3, <3>1, <3>2
      <4>2. CASE x.session # mm.session
        BY <4>1, <4>2, <2>2, <3>2 DEF Sound
      <4>3. CASE x.session = mm.session
        BY <4>1, <4>3, <3>2, <1>0 DEF SlotFree, Base, Record, Active
      <4> QED
        BY <4>2, <4>3
    <3> QED
      BY <2>2, <2>3, <3>1, <3>2, <1>1, <1>0 DEF AttemptInv, Sound, Known, Credentials
  <2>4. CASE x.id # 0 /\ x.session = 0 /\ m'.att = [x EXCEPT !.session = n]
    <3>1. x \in Attempts
      BY <2>4 DEF NoAttempt, NewAttempt
    <3>2. m'.att.session = n /\ m'.att.id = x.id /\ m'.att.ack = x.ack
      BY <2>4, <3>1 DEF Attempts
    <3> QED
      BY <3>2, <2>2, <2>4, <1>0, <1>1 DEF AttemptInv, Sound, Credentials, Known
  <2> QED
    BY <2>1, <2>3, <2>4
<1>13. TaskInv'
  <2>1. TaskOK(r)'
    <3>1. Unborn(n)'
      <4>1. procs[n] = NoProcess
        BY <1>1 DEF SetupInv, ProcInv
      <4>2. ASSUME NEW x \in Tasks \cup SessionIds, thr[x].pc # "none" PROVE thr[x].on # {n}
        <5>1. PICK p \in Known : thr[x].on = {p}
          BY <4>2 DEF SetupInv, ThreadInv
        <5> QED
          BY <5>1, <1>1
      <4> QED
        BY <4>1, <4>2, <1>1, <1>7 DEF Unborn, Unsettled
    <3>2. m'.ses[n].state = "starting" /\ ~m'.ses[n].proc /\ m'.ses[n].reader = "none"
          /\ m'.ses[n].code = None
      BY <1>0 DEF NewSession
    <3> QED
      <4>1. Unborn(task[r].n)' /\ task'[r].n = n /\ task'[r].pc = "spawning"
            /\ task'[r].out = "pending"
        BY <3>1, <1>2, <1>4 DEF Unborn
      <4>2. /\ task'[r].owner \in Owners /\ task'[r].sel \in Selections /\ task'[r].token # 0
            /\ m'.session = n /\ n # 0
        BY <1>0, <1>1, <1>2, <1>4
      <4> QED
        BY <3>2, <4>1, <4>2 DEF TaskOK, Launching
  <2>2. ASSUME NEW x \in Tasks \ {r} PROVE TaskOK(x)'
    <3>1. task'[x] = task[x] /\ task[x].pc \notin Holding /\ Credentials' = Credentials
      BY <1>4 DEF QueueFor, Credentials
    <3> QED
      BY <3>1, TaskKept DEF SetupInv
  <2> QED
    BY <2>1, <2>2 DEF TaskInv
<1>14. ClosingInv'
  BY <1>0, <1>4 DEF SetupInv, ClosingInv, Base, SlotFree
<1>15. NoLingeringClient'
  <2>1. \A c \in Conns : conn'[c] = 0
    <3>1. ASSUME mm.session # 0 PROVE mm.ses[mm.session].finalized
      BY <1>0, <3>1 DEF SlotFree, Base, Record, Active
    <3> QED
      BY <3>1 DEF Base
  <2> QED
    BY <2>1 DEF NoLingeringClient
<1> QED
  BY <1>6, <1>8, <1>9, <1>10, <1>11, <1>12, <1>13, <1>14, <1>15 DEF SetupRest

\* The current manager, after the attempt was prepared, is a base for a launch.
LEMMA BaseHere ==
  ASSUME SetupInv, NEW r \in Requests, NEW mm, SameSessions(mm, m), Derived(mm.att, m.att), conn' = conn
  PROVE  Base(mm, r)
<1>1. Sound(mm.att, mm.ses, mm.session)
  BY DerivedSound DEF SameSessions, SetupInv, AttemptInv
<1>2. \A k \in Known : Record(mm.ses[k], k)
  BY DEF SameSessions, SetupInv, RecordInv
<1>3. \A p \in SessionIds : Unsettled(p) => mm.session = p
  BY DEF SameSessions, SetupInv, ProcInv
<1>4. task[Shutdown].pc = "down" => (mm.session # 0 => mm.ses[mm.session].finalized)
  BY DEF SameSessions, SetupInv, ClosingInv
<1>5. \A c \in Conns : conn'[c] # 0 =>
       /\ conn'[c] = mm.session /\ ~mm.ses[mm.session].finalized
       /\ c \in mm.ses[mm.session].subs
  BY DEF SameSessions, SetupInv, NoLingeringClient
<1>6. mm \in Managers /\ Len(mm.ses) = Len(m.ses) /\ mm.closing = m.closing
      /\ mm.session \in {0} \cup Known /\ mm.session = m.session /\ mm.ses = m.ses
  BY DEF SameSessions, SetupInv, TypeInv
<1> QED
  BY <1>1, <1>2, <1>3, <1>4, <1>5, <1>6 DEF Base

\* A launch that gets or waits for the lifecycle lock keeps the invariant.
LEMMA ProceedStep ==
  ASSUME SetupInv, NEW r \in Requests, NEW mm, NEW l \in Locals, NEW q, QueueFor(q, r), Base(mm, r),
         l.owner \in Owners, l.sel \in Selections, l.token # 0, l.out = "pending",
         NEW connected \in BOOLEAN, connected /\ Head(q) = r => Len(m.ses) + 1 \in SessionIds,
         Proceed(mm, r, l, q, connected),
         UNCHANGED <<thr, procs, unconfirmed, revision, terminals>>,
         used' \in [launch : Nat, all : Nat, cancel : Nat],
         conn' \in [Conns -> {0} \cup SessionIds]
  PROVE  /\ SetupRest'
         /\ \A x \in Tasks \ {r} : task'[x] = task[x]
         /\ \/ Len(m'.ses) = Len(m.ses)
            \/ connected /\ Len(m'.ses) = Len(m.ses) + 1
         /\ task'[r].pc = "lockStart" => connected /\ Head(q) # r
         /\ Head(q) # r => Len(m'.ses) = Len(m.ses)
<1>1. /\ mm \in Managers /\ mm.session \in {0} \cup 1 .. Len(mm.ses)
      /\ mm.att.session \in {0} \cup 1 .. Len(mm.ses) /\ Len(mm.ses) = Len(m.ses)
  BY DEF Base, Sound, Known
<1>2. Proceeds(mm, r, l, q, connected)
  <2>1. connected /\ Head(q) = r => Len(mm.ses) + 1 \in SessionIds
    BY <1>1
  <2> QED
    BY <1>1, <2>1, ProceedFacts
<1>3. task \in [Tasks -> Locals] /\ r \in Tasks /\ r # Shutdown
  BY TaskNames DEF SetupInv, TypeInv
<1>4. CASE Head(q) = r /\ Answered(r, mm, q)
  <2>1. SetupRest'
    BY <1>4, LaunchAnswered
  <2>2. task' = [task EXCEPT ![r] = Idle] /\ Len(m'.ses) = Len(m.ses)
    BY <1>3, <1>4, <1>1 DEF Answered, Answer, SameSessions
  <2> QED
    BY <2>1, <2>2, <1>3, <1>4, IdleType
<1>5. CASE connected /\ Head(q) = r /\ Started(r, mm, l, q)
  <2>1. SetupRest'
    BY <1>5, LaunchStarted
  <2> DEFINE k == [l EXCEPT !.pc = "spawning", !.n = Len(mm.ses) + 1]
  <2>2. task' = [task EXCEPT ![r] = k] /\ Len(m'.ses) = Len(m.ses) + 1
    BY <1>1, <1>5 DEF Started
  <2>3. k.pc = "spawning"
    BY DEF Locals
  <2> HIDE DEF k
  <2> QED
    BY <2>1, <2>2, <2>3, <1>3, <1>5
<1>6. CASE ~connected /\ Head(q) = r /\ Opening(r, mm, l, q)
  <2>1. SetupRest'
    BY <1>6, LaunchOpening
  <2> DEFINE k == [l EXCEPT !.pc = "retrying"]
  <2>2. task' = [task EXCEPT ![r] = k] /\ Len(m'.ses) = Len(m.ses)
    BY <1>1, <1>6 DEF Opening, SameSessions
  <2>3. k.pc = "retrying"
    BY DEF Locals
  <2> HIDE DEF k
  <2> QED
    BY <2>1, <2>2, <2>3, <1>3, <1>6
<1>7. CASE Head(q) # r /\ Waits(r, mm, l, q)
             /\ task' = [task EXCEPT ![r] = [l EXCEPT !.pc =
                           IF connected THEN "lockStart" ELSE "lockExternal"]]
  <2>1. SetupRest'
    BY <1>7, LaunchWaits
  <2> DEFINE pc == IF connected THEN "lockStart" ELSE "lockExternal"
             k == [l EXCEPT !.pc = pc]
  <2>2. task' = [task EXCEPT ![r] = k] /\ Len(m'.ses) = Len(m.ses)
    BY <1>1, <1>7 DEF Waits
  <2>3. k.pc = pc
    BY DEF Locals
  <2>4. pc = "lockStart" => connected
    OBVIOUS
  <2> HIDE DEF k, pc
  <2> QED
    BY <2>1, <2>2, <2>3, <2>4, <1>3, <1>7
<1> QED
  BY <1>2, <1>4, <1>5, <1>6, <1>7 DEF Proceeds

\* A launch that was counted has a session id left.
LEMMA RoomForLaunch ==
  ASSUME SetupInv,
         used.launch < MaxLaunches \/ \E r \in Tasks : task[r].pc = "lockStart"
  PROVE  Len(m.ses) + 1 \in SessionIds
<1> DEFINE c == Cardinality(WaitingStarts)
<1>1. c \in Nat /\ Len(m.ses) + c <= used.launch /\ used.launch <= MaxLaunches
  BY FS_CardinalityType DEF SetupInv, CountInv
<1>2. Len(m.ses) \in Nat /\ used.launch \in Nat /\ MaxLaunches \in Nat
  BY SetupAssumption DEF SetupInv, TypeInv
<1>3. (\E r \in Tasks : task[r].pc = "lockStart") => c # 0
  <2>1. ASSUME NEW r \in Tasks, task[r].pc = "lockStart" PROVE r \in WaitingStarts
    BY <2>1 DEF WaitingStarts
  <2> QED
    BY <2>1, FS_EmptySet DEF SetupInv, CountInv
<1> HIDE DEF c
<1> QED
  BY <1>1, <1>2, <1>3 DEF SessionIds, MaxSessions

\* A launch request, answered, queued or under way, keeps the invariant (start).
LEMMA LaunchStep ==
  ASSUME SetupInv, NEW r \in Requests, Launch(r)
  PROVE  SetupInv'
<1> USE TaskNames
<1>1. PICK o \in Owners, sel \in Selections :
        LET p == PrepareCompletion(m, o, sel) IN
          /\ p.ok
          /\ Proceed(p.m, r, [Idle EXCEPT !.owner = o, !.sel = sel, !.token = p.token],
                     Append(lifecycle, r), sel \in Connected)
  BY DEF Launch
<1>2. /\ task[r] = Idle /\ used.launch < MaxLaunches /\ used.all < MaxRequests
      /\ used' = [used EXCEPT !.launch = @ + 1, !.all = @ + 1]
      /\ UNCHANGED <<thr, procs, unconfirmed, conn, revision, terminals>>
  BY DEF Launch
<1> DEFINE p == PrepareCompletion(m, o, sel)
           mm == p.m
           l == [Idle EXCEPT !.owner = o, !.sel = sel, !.token = p.token]
           q == Append(lifecycle, r)
           connected == sel \in Connected
<1>3. p.ok /\ Proceed(mm, r, l, q, connected)
  BY <1>1
<1>4. SameSessions(mm, m) /\ Derived(mm.att, m.att) /\ p.token \in Nat \ {0}
  <2>1. m \in Managers
    BY DEF SetupInv, TypeInv
  <2> QED
    BY <2>1, <1>3, PrepareFacts
<1>5. Base(mm, r)
  BY <1>2, <1>4, BaseHere
<1>6. l \in Locals /\ l.owner = o /\ l.sel = sel /\ l.token # 0 /\ l.out = "pending"
  <2> DEFINE t == p.token
  <2>1. t \in Nat /\ t # 0 /\ l = [Idle EXCEPT !.owner = o, !.sel = sel, !.token = t]
        /\ o \in Owners /\ sel \in Selections
    BY <1>1, <1>4
  <2> HIDE DEF t, l
  <2>2. l \in Locals /\ l.owner = o /\ l.sel = sel /\ l.token = t /\ l.out = "pending"
    BY <2>1, IdleType DEF Locals
  <2> QED
    BY <2>1, <2>2
<1>7. QueueFor(q, r)
  BY <1>2, IdleType, QueueJoined DEF SetupInv, TypeInv
<1>8. Len(m.ses) + 1 \in SessionIds /\ connected \in BOOLEAN
  BY <1>2, RoomForLaunch
<1>9. /\ used' \in [launch : Nat, all : Nat, cancel : Nat] /\ used'.launch = used.launch + 1
      /\ used.launch \in Nat /\ used'.launch <= MaxLaunches /\ MaxLaunches \in Nat
  <2>1. used \in [launch : Nat, all : Nat, cancel : Nat] /\ MaxLaunches \in Nat
    BY SetupAssumption DEF SetupInv, TypeInv
  <2> DEFINE i == used.launch + 1  j == used.all + 1
  <2>2. /\ i \in Nat /\ j \in Nat /\ i <= MaxLaunches /\ used.launch \in Nat
        /\ used' = [used EXCEPT !.launch = i, !.all = j]
    BY <2>1, <1>2
  <2>3. i = used.launch + 1
    OBVIOUS
  <2> HIDE DEF i, j
  <2>4. used' \in [launch : Nat, all : Nat, cancel : Nat] /\ used'.launch = i
    BY <2>1, <2>2
  <2> QED
    BY <2>1, <2>2, <2>3, <2>4
<1>10. conn' \in [Conns -> {0} \cup SessionIds] /\ Len(m.ses) \in Nat
  BY <1>2 DEF SetupInv, TypeInv
<1> HIDE DEF p, mm, l, q, connected
<1>11. /\ SetupRest'
       /\ \A x \in Tasks \ {r} : task'[x] = task[x]
       /\ Len(m'.ses) = Len(m.ses) \/ Len(m'.ses) = Len(m.ses) + 1
       /\ task'[r].pc = "lockStart" => Head(q) # r
       /\ Head(q) # r => Len(m'.ses) = Len(m.ses)
  BY <1>2, <1>3, <1>5, <1>6, <1>7, <1>8, <1>9, <1>10, ProceedStep
<1>12. CountInv'
  <2>1. task[r].pc # "lockStart"
    BY <1>2, IdleType DEF Queued, Waiting
  <2>2. \/ Len(m'.ses) = Len(m.ses)
        \/ Len(m'.ses) = Len(m.ses) + 1 /\ task'[r].pc # "lockStart" /\ task[r].pc # "lockStart"
    BY <1>11, <2>1, <1>10
  <2>3. \A x \in Tasks \ {r} : task'[x].pc = "lockStart" => task[x].pc = "lockStart"
    BY <1>11
  <2>4. CountInv
    BY DEF SetupInv
  <2> QED
    BY <1>9, <1>10, <2>2, <2>3, <2>4, CountAdded
<1> QED
  BY <1>11, <1>12 DEF SetupInv, SetupRest

----
(* Pieces of a step. *)

\* A step that rewrites the record of session n, or also gives the slot up.
LEMMA Rewritten ==
  ASSUME SetupInv, NEW n \in Known, NEW s, Rewrites(m', m, n, s), Keeps(m.att, m'.att),
         \/ m'.session = m.session
         \/ /\ m'.session = 0 /\ m.session = n /\ ~Unsettled(n)
            /\ m.att.session = n => m'.att.cancelled,
         m.ses[n].finalized => s.finalized, Record(s, n)',
         UNCHANGED <<procs, unconfirmed, revision, terminals>>,
         \A k \in Known \ {n} : thr'[k] = thr[k]
  PROVE  /\ m' \in Managers /\ Len(m'.ses) = Len(m.ses) /\ Known' = Known
         /\ m'.session \in {0} \cup Known
         /\ m'.ses[n] = s /\ \A k \in Known \ {n} : m'.ses[k] = m.ses[k]
         /\ ProcInv' /\ RecordInv' /\ AttemptInv' /\ Credentials' = Credentials
<1>1. /\ m' \in Managers /\ Len(m'.ses) = Len(m.ses) /\ Known' = Known
      /\ m'.ses[n] = s /\ \A k \in Known \ {n} : m'.ses[k] = m.ses[k]
  BY DEF Rewrites, Known
<1>2. m'.session \in {0} \cup Known /\ m.session \in {0} \cup Known
  BY DEF SetupInv, TypeInv
<1>3. ProcInv'
  <2>1. \A p \in SessionIds : Unsettled(p)' <=> Unsettled(p)
    BY DEF Unsettled
  <2>2. \A p \in SessionIds : Unsettled(p) => m'.session = p
    BY DEF SetupInv, ProcInv
  <2> QED
    BY <1>1, <2>1, <2>2 DEF SetupInv, ProcInv
<1>4. RecordInv'
  <2>1. ASSUME NEW k \in Known \ {n} PROVE Record(m.ses[k], k)'
    <3>1. Record(m.ses[k], k) /\ m'.ses[k] = m.ses[k] /\ thr'[k] = thr[k]
      BY <1>1 DEF SetupInv, RecordInv
    <3> QED
      BY <3>1 DEF Record
  <2>2. Record(m.ses[n], n)'
    BY <1>1 DEF Record
  <2> QED
    BY <1>1, <2>1, <2>2 DEF RecordInv
<1>5. Credentials' = Credentials
  BY DEF Credentials
<1>6. AttemptInv'
  <2>1. Sound(m.att, m.ses, m.session)
    BY DEF SetupInv, AttemptInv
  <2>2. /\ m'.att.id = m.att.id /\ m'.att.session = m.att.session /\ m'.att.ack = m.att.ack
        /\ m.att.cancelled => m'.att.cancelled
        /\ m.att = NoAttempt => m'.att = NoAttempt
    BY DEF Keeps
  <2>3. ASSUME m'.att.session # 0, ~m'.att.cancelled, m'.att.session # m'.session
        PROVE  m'.ses[m'.att.session].finalized
    <3>1. m.att.session # m.session
      BY <2>2, <2>3
    <3>2. m.ses[m.att.session].finalized /\ m.att.session \in Known
      BY <2>1, <2>2, <2>3, <3>1 DEF Sound, Known
    <3> QED
      BY <3>2, <2>2, <1>1
  <2> QED
    BY <1>1, <1>5, <2>1, <2>2, <2>3 DEF AttemptInv, Sound, Known
<1> QED
  BY <1>1, <1>2, <1>3, <1>4, <1>5, <1>6

\* Starting or ending one stop thread keeps the thread invariant.
LEMMA ThreadSet ==
  ASSUME SetupInv, NEW x \in Tasks \cup SessionIds, NEW k,
         \/ k = NoThread
         \/ \E n \in Known : k = [pc |-> "enter", on |-> {n}] /\ procs[n].tree # "none",
         thr' = [thr EXCEPT ![x] = k], Known' = Known, procs' = procs
  PROVE  /\ ThreadInv' /\ thr' \in [Tasks \cup SessionIds -> Threads] /\ thr'[x] = k
         /\ \A y \in (Tasks \cup SessionIds) \ {x} : thr'[y] = thr[y]
<1>1. Known \subseteq SessionIds
  BY SetupAssumption DEF SetupInv, TypeInv, Known, SessionIds, MaxSessions
<1>2. /\ k \in Threads /\ k.pc \in {"none", "enter"}
      /\ k.pc # "none" => \E n \in Known : k.on = {n} /\ procs[n].tree # "none"
  BY <1>1 DEF NoThread, Threads
<1>3. /\ thr'[x] = k /\ thr' \in [Tasks \cup SessionIds -> Threads]
      /\ \A y \in (Tasks \cup SessionIds) \ {x} : thr'[y] = thr[y]
  <2>1. thr \in [Tasks \cup SessionIds -> Threads] /\ k \in Threads
    BY <1>2 DEF SetupInv, TypeInv
  <2> DEFINE all == Tasks \cup SessionIds
  <2>2. thr \in [all -> Threads] /\ x \in all
    BY <2>1
  <2> HIDE DEF all
  <2>3. thr'[x] = k /\ thr' \in [all -> Threads] /\ \A y \in all \ {x} : thr'[y] = thr[y]
    BY <2>1, <2>2
  <2> QED
    BY <2>3 DEF all
<1>4. ThreadInv'
  <2>1. ASSUME NEW y \in Tasks \cup SessionIds, thr'[y].pc # "none"
        PROVE  \E p \in Known' :
                 /\ thr'[y].on = {p} /\ procs'[p].tree # "none"
                 /\ thr'[y].pc = "in" => ~procs'[p].stopped
                 /\ thr'[y].pc = "yes" => procs'[p].stopped
    <3>1. CASE y = x
      BY <3>1, <2>1, <1>2, <1>3
    <3>2. CASE y # x
      BY <3>2, <2>1, <1>3 DEF SetupInv, ThreadInv
    <3> QED
      BY <3>1, <3>2
  <2>2. ASSUME NEW y \in Tasks \cup SessionIds, NEW z \in Tasks \cup SessionIds,
               thr'[y].pc = "in", thr'[z].pc = "in", thr'[y].on = thr'[z].on
        PROVE  y = z
    BY <2>2, <1>2, <1>3 DEF SetupInv, ThreadInv
  <2> QED
    BY <2>1, <2>2 DEF ThreadInv
<1> QED
  BY <1>3, <1>4

\* A step of one task types the tasks and leaves the others alone.
LEMMA OneTask ==
  ASSUME SetupInv, NEW r \in Tasks, NEW k \in Locals, k.pc \in Pcs(r),
         task' = [task EXCEPT ![r] = k]
  PROVE  /\ task' \in [Tasks -> Locals] /\ \A x \in Tasks : task'[x].pc \in Pcs(x)
         /\ task'[r] = k /\ \A x \in Tasks \ {r} : task'[x] = task[x] /\ SameClass(x)
<1>1. task' \in [Tasks -> Locals] /\ task'[r] = k /\ \A x \in Tasks \ {r} : task'[x] = task[x]
  BY DEF SetupInv, TypeInv
<1> QED
  BY <1>1 DEF SetupInv, TypeInv, SameClass

\* While one task holds the lock, the locals of the others say nothing of the
\* manager, and they stay sound.
LEMMA HolderTasks ==
  ASSUME SetupInv, NEW r \in Tasks, Credentials \subseteq Credentials', TaskOK(r)',
         \A x \in Tasks \ {r} : task[x].pc \notin Holding /\ task'[x] = task[x]
  PROVE  TaskInv'
<1>1. ASSUME NEW x \in Tasks \ {r} PROVE TaskOK(x)'
  BY TaskKept DEF SetupInv
<1> QED
  BY <1>1 DEF TaskInv

\* A task that holds no lock and no thread has nothing to keep.
LEMMA QuietTask ==
  ASSUME NEW r, task'[r].pc \in {"idle", "off", "closing", "down", "orphan", "lockStop",
                                 "lockLimits", "lockShutdown"}
  PROVE  TaskOK(r)'
  BY DEF TaskOK, Launches, Launching

\* What a task relies on while others act: the slot, its session's record until it
\* runs, its process and its thread.
LEMMA TaskStands ==
  ASSUME TaskInv, NEW x \in Tasks, task'[x] = task[x], Credentials \subseteq Credentials',
         m'.session = m.session,
         \A n : task[x].pc \in Launching /\ task[x].n = n =>
           /\ m'.ses[n].state = m.ses[n].state /\ m'.ses[n].proc = m.ses[n].proc
           /\ m'.ses[n].reader = m.ses[n].reader /\ m'.ses[n].code = m.ses[n].code
           /\ Unborn(n) => Unborn(n)'
           /\ ~Unsettled(n) => ~Unsettled(n)'
           /\ procs[n].tree # "none" => procs'[n].tree # "none",
         m.session # 0 /\ ConfirmedGone(m.ses[m.session]) => ConfirmedGone(m'.ses[m.session]),
         task[x].pc \in {"stopping", "reaped"} =>
           (thr[x].pc # "none" => thr'[x].pc # "none") /\ thr'[x].on = thr[x].on
  PROVE  TaskOK(x)'
<1>1. PICK n : n = task[x].n
  OBVIOUS
<1>2. TaskOK(x)
  BY DEF TaskInv
<1>3. n = task'[x].n
  BY <1>1
<1>4. ASSUME task[x].pc \in Launching
      PROVE  /\ m'.ses[n].state = m.ses[n].state /\ m'.ses[n].proc = m.ses[n].proc
             /\ m'.ses[n].reader = m.ses[n].reader /\ m'.ses[n].code = m.ses[n].code
             /\ Unborn(n) => Unborn(n)'
             /\ ~Unsettled(n) => ~Unsettled(n)'
             /\ procs[n].tree # "none" => procs'[n].tree # "none"
  BY <1>1, <1>4
<1>5. Unborn(task[x].n)' <=> Unborn(n)'
  BY <1>3 DEF Unborn
<1>6. Unsettled(task[x].n)' <=> Unsettled(n)'
  BY <1>3 DEF Unsettled
<1>7. task[x].pc = "retrying" => m'.session = 0 \/ ConfirmedGone(m'.ses[m'.session])
  BY <1>2 DEF TaskOK
<1>8. ConfirmedGone(m.ses[m.session])' <=> ConfirmedGone(m'.ses[m'.session])
  BY DEF ConfirmedGone
<1>9. task'[x].pc \in Launching =>
         /\ task'[x].n # 0 /\ task'[x].n = m'.session /\ m'.ses[n].state = "starting"
         /\ ~m'.ses[n].proc /\ m'.ses[n].reader = "none"
         /\ m'.ses[n].code = None
         /\ task'[x].out = "pending" => Unborn(n)' /\ task'[x].pc # "reaped"
         /\ task'[x].out = "ok" => procs'[n].tree # "none"
         /\ task'[x].out = "clean" => ~Unsettled(n)'
  BY <1>1, <1>2, <1>4 DEF TaskOK
<1> QED
  BY <1>1, <1>2, <1>3, <1>5, <1>6, <1>7, <1>8, <1>9 DEF TaskOK

\* Shutdown stays the last word: once it is down, no launch is in flight.
LEMMA ClosingKept ==
  ASSUME SetupInv, NEW r \in Tasks, \A x \in Tasks \ {r} : task'[x] = task[x],
         m'.closing = m.closing,
         m'.session # 0 => m'.session = m.session /\
                           (m.ses[m.session].finalized => m'.ses[m.session].finalized),
         task'[r].pc \in Launching => task[r].pc \in Launching,
         r = Shutdown /\ task'[r].pc # "idle" => task[r].pc # "idle",
         r = Shutdown /\ task'[r].pc = "down" /\ task[r].pc # "down" =>
           /\ m'.session # 0 => m'.ses[m'.session].finalized
           /\ \A x \in Tasks : task[x].pc \notin Launching
  PROVE  ClosingInv'
<1>1. Shutdown \in Tasks
  BY TaskNames
<1>2. task'[Shutdown].pc # "idle" => m'.closing
  BY <1>1 DEF SetupInv, ClosingInv
<1>3. ASSUME task'[Shutdown].pc = "down"
      PROVE  /\ \A x \in Tasks : task[x].pc \notin Launching
             /\ m'.session # 0 => m'.ses[m'.session].finalized
  <2>1. CASE task[Shutdown].pc = "down"
    BY <2>1 DEF SetupInv, ClosingInv
  <2>2. CASE task[Shutdown].pc # "down"
    BY <2>2, <1>1, <1>3
  <2> QED
    BY <2>1, <2>2
<1>4. task'[Shutdown].pc = "down" => \A x \in Tasks : task'[x].pc \notin Launching
  BY <1>3
<1> QED
  BY <1>2, <1>3, <1>4 DEF ClosingInv

\* Nobody is hung up on when no stream ends.
LEMMA HangNone ==
  ASSUME SetupInv
  PROVE  Hang({}) = conn
  BY DEF SetupInv, TypeInv, Hang

\* The clients that are hung up leave; the others keep their stream.
LEMMA Clients ==
  ASSUME SetupInv, NEW cs, conn' = Hang(cs),
         m.session # 0 /\ ~m.ses[m.session].finalized =>
           \/ m.ses[m.session].subs \subseteq cs
           \/ /\ m'.session = m.session /\ ~m'.ses[m.session].finalized
              /\ m.ses[m.session].subs \ cs \subseteq m'.ses[m.session].subs
  PROVE  NoLingeringClient' /\ conn' \in [Conns -> {0} \cup SessionIds]
<1>1. conn \in [Conns -> {0} \cup SessionIds]
  BY DEF SetupInv, TypeInv
<1>2. /\ conn' \in [Conns -> {0} \cup SessionIds]
      /\ \A c \in Conns : conn'[c] # 0 => conn'[c] = conn[c] /\ c \notin cs
  BY <1>1 DEF Hang
<1>3. ASSUME NEW c \in Conns, conn'[c] # 0
      PROVE  /\ conn'[c] = m'.session /\ ~m'.ses[m'.session].finalized
             /\ c \in m'.ses[m'.session].subs
  <2>1. /\ conn[c] # 0 /\ conn[c] = m.session /\ ~m.ses[m.session].finalized
        /\ c \in m.ses[m.session].subs
    BY <1>2, <1>3 DEF SetupInv, NoLingeringClient
  <2>2. /\ m'.session = m.session /\ ~m'.ses[m.session].finalized
        /\ m.ses[m.session].subs \ cs \subseteq m'.ses[m.session].subs
    BY <2>1, <1>2, <1>3
  <2> QED
    BY <1>2, <1>3, <2>1, <2>2
<1> QED
  BY <1>2, <1>3 DEF NoLingeringClient

\* The count of launches stands for every step but a launch.
LEMMA Counted ==
  ASSUME SetupInv, Len(m'.ses) = Len(m.ses), used'.launch = used.launch,
         \A x \in Tasks : task'[x].pc = "lockStart" => task[x].pc = "lockStart"
  PROVE  CountInv'
<1>1. used.launch \in Nat /\ used'.launch \in Nat /\ MaxLaunches \in Nat /\ Len(m.ses) \in Nat
  BY SetupAssumption DEF SetupInv, TypeInv
<1> QED
  BY <1>1, CountKept DEF SetupInv

\* Only one task holds the lock (HolderAlone, under the invariant).
LEMMA Alone ==
  ASSUME SetupInv, NEW r \in Tasks, Head(lifecycle) = r \/ task[r].pc \in Holding
  PROVE  \A x \in Tasks \ {r} : task[x].pc \notin Holding
  BY HolderAlone DEF SetupInv

\* A step of task r alone, that leaves the sessions and the processes alone.
LEMMA TaskOnly ==
  ASSUME SetupInv, NEW r \in Tasks, NEW k \in Locals, k.pc \in Pcs(r),
         task' = [task EXCEPT ![r] = k], TaskOK(r)', LockInv', lifecycle' \in Seq(Tasks),
         UNCHANGED <<m, thr, procs, unconfirmed, conn, revision>>,
         terminals' \subseteq Nat \ {0}, terminals \subseteq terminals',
         used' \in [launch : Nat, all : Nat, cancel : Nat], used'.launch = used.launch,
         k.pc # "lockStart", k.pc \in Launching => task[r].pc \in Launching,
         r = Shutdown /\ k.pc # "idle" => task[r].pc # "idle",
         r = Shutdown /\ k.pc = "down" /\ task[r].pc # "down" =>
           /\ m.session # 0 => m.ses[m.session].finalized
           /\ \A x \in Tasks : task[x].pc \notin Launching
  PROVE  SetupInv'
<1>1. /\ task' \in [Tasks -> Locals] /\ \A x \in Tasks : task'[x].pc \in Pcs(x)
      /\ task'[r] = k /\ \A x \in Tasks \ {r} : task'[x] = task[x]
  BY OneTask
<1>2. Credentials \subseteq Credentials'
  BY DEF Credentials
<1>3. TypeInv'
  BY <1>1 DEF SetupInv, TypeInv, Known
<1>4. CountInv'
  BY <1>1, Counted
<1>5. ThreadInv' /\ ProcInv' /\ RecordInv' /\ NoLingeringClient'
  BY DEF SetupInv, ThreadInv, ProcInv, Unsettled, RecordInv, Record, NoLingeringClient, Known
<1>6. AttemptInv'
  BY <1>2 DEF SetupInv, AttemptInv, Sound
<1>7. TaskInv'
  <2>1. ASSUME NEW x \in Tasks \ {r} PROVE TaskOK(x)'
    <3>1. \A n : (Unborn(n) => Unborn(n)') /\ (Unsettled(n)' <=> Unsettled(n))
      BY DEF Unborn, Unsettled
    <3>2. task'[x] = task[x] /\ TaskInv
      BY <1>1 DEF SetupInv
    <3> QED
      BY <1>2, <3>1, <3>2, TaskStands
  <2> QED
    BY <2>1 DEF TaskInv
<1>8. ClosingInv'
  BY <1>1, ClosingKept
<1> QED
  BY <1>3, <1>4, <1>5, <1>6, <1>7, <1>8 DEF SetupInv

----
(* The actions.                                                              *)

\* A launch whose turn has come keeps the invariant (start).
LEMMA LaunchResumesStep ==
  ASSUME SetupInv, NEW r \in Requests, LaunchResumes(r)
  PROVE  SetupInv'
<1> USE TaskNames
<1> DEFINE l == task[r]
           connected == l.pc = "lockStart"
<1>1. /\ l.pc \in {"lockStart", "lockExternal"} /\ Head(lifecycle) = r
      /\ Proceed(m, r, l, lifecycle, connected)
      /\ UNCHANGED <<thr, procs, unconfirmed, conn, revision, terminals, used>>
  BY DEF LaunchResumes
<1>2. r \in Tasks /\ l \in Locals /\ task \in [Tasks -> Locals]
  BY DEF SetupInv, TypeInv
<1>3. l.owner \in Owners /\ l.sel \in Selections /\ l.token # 0 /\ l.out = "pending"
  <2>1. TaskOK(r) /\ l.pc \in Launches /\ l.pc \in Launches \ Launching
    BY <1>1 DEF SetupInv, TaskInv, Launches, Launching
  <2> QED
    BY <2>1 DEF TaskOK
<1>4. QueueFor(lifecycle, r)
  <2>1. task[r].pc \in Queued
    BY <1>1 DEF Queued, Waiting
  <2> QED
    BY <2>1, QueueHere DEF SetupInv, TypeInv
<1>5. Base(m, r)
  BY <1>1, BaseHere DEF SameSessions, Derived, SetupInv, TypeInv
<1>6. connected \in BOOLEAN /\ (connected => Len(m.ses) + 1 \in SessionIds)
  BY <1>2, RoomForLaunch
<1>7. /\ used' \in [launch : Nat, all : Nat, cancel : Nat] /\ used'.launch = used.launch
      /\ conn' \in [Conns -> {0} \cup SessionIds]
  BY <1>1 DEF SetupInv, TypeInv
<1> HIDE DEF l, connected
<1>8. /\ SetupRest'
      /\ \A x \in Tasks \ {r} : task'[x] = task[x]
      /\ \/ Len(m'.ses) = Len(m.ses)
         \/ connected /\ Len(m'.ses) = Len(m.ses) + 1
      /\ task'[r].pc = "lockStart" => connected /\ Head(lifecycle) # r
  BY <1>1, <1>2, <1>3, <1>4, <1>5, <1>6, <1>7, ProceedStep
<1>9. CountInv'
  <2>1. \A x \in Tasks : task'[x].pc = "lockStart" => task[x].pc = "lockStart"
    BY <1>1, <1>8
  <2>2. CASE Len(m'.ses) = Len(m.ses)
    BY <2>1, <2>2, <1>7, Counted
  <2>3. CASE connected /\ Len(m'.ses) = Len(m.ses) + 1
    <3>1. task[r].pc = "lockStart" /\ task'[r].pc # "lockStart"
      BY <2>3, <1>1, <1>8 DEF connected, l
    <3>2. used.launch \in Nat /\ Len(m.ses) \in Nat /\ CountInv
      BY DEF SetupInv, TypeInv
    <3> QED
      BY <2>1, <2>3, <3>1, <3>2, <1>2, <1>7, CountMoved
  <2> QED
    BY <2>2, <2>3, <1>8
<1> QED
  BY <1>8, <1>9 DEF SetupInv, SetupRest

\* A launch cancelled in the queue or while it opens a terminal keeps the
\* invariant (start).
LEMMA LaunchCancelledStep ==
  ASSUME SetupInv, NEW r \in Requests, LaunchCancelled(r)
  PROVE  SetupInv'
<1> USE TaskNames
<1>1. /\ task[r].pc = "spawning" /\ task' = [task EXCEPT ![r].pc = "reaping"]
      /\ used' = [used EXCEPT !.cancel = @ + 1]
      /\ UNCHANGED <<m, lifecycle, thr, procs, unconfirmed, conn, revision, terminals>>
  BY DEF LaunchCancelled
<1> DEFINE k0 == [task[r] EXCEPT !.pc = "reaping"]
<1>2. PICK k : k = k0
  OBVIOUS
<1>3. task[r] \in Locals
  BY DEF SetupInv, TypeInv
<1>4. "reaping" \in Steps
  BY DEF Steps, Holding, Launching
<1>5. /\ k \in Locals /\ k.pc = "reaping" /\ k.owner = task[r].owner /\ k.sel = task[r].sel
      /\ k.token = task[r].token /\ k.n = task[r].n /\ k.out = task[r].out
  BY <1>2, <1>3, <1>4 DEF Locals
<1>6. task' = [task EXCEPT ![r] = k]
  BY <1>1, <1>2
<1> HIDE DEF k0
<1>7. k.pc \in Pcs(r) /\ k.pc \in Holding /\ task[r].pc \in Holding
  BY <1>1, <1>5, RequestPcs DEF Holding, Launching
<1>8. task'[r] = k /\ \A x \in Tasks \ {r} : task'[x] = task[x] /\ SameClass(x)
  BY <1>5, <1>6, <1>7, OneTask
<1>9. LockInv' /\ lifecycle' \in Seq(Tasks)
  BY <1>1, <1>7, <1>8, Rest DEF SetupInv, TypeInv, SameClass, Queued
<1>10. TaskOK(r)'
  <2>1. TaskOK(r) /\ task[r].pc \in Launching /\ task[r].pc \in Launches
    BY <1>1 DEF SetupInv, TaskInv, Launching, Launches
  <2>2. PICK n : n = task[r].n
    OBVIOUS
  <2>3. (Unborn(task[r].n)' <=> Unborn(n)) /\ (Unsettled(task[r].n)' <=> Unsettled(n))
    BY <1>1, <1>5, <1>8, <2>2 DEF Unborn, Unsettled
  <2>4. /\ task[r].owner \in Owners /\ task[r].sel \in Selections /\ task[r].token # 0
        /\ n # 0 /\ n = m.session /\ m.ses[n].state = "starting"
        /\ ~m.ses[n].proc /\ m.ses[n].reader = "none" /\ m.ses[n].code = None
        /\ task[r].out = "pending" => Unborn(n)
        /\ task[r].out = "ok" => procs[n].tree # "none"
        /\ task[r].out = "clean" => ~Unsettled(n)
    BY <2>1, <2>2 DEF TaskOK
  <2> QED
    BY <1>1, <1>5, <1>8, <2>2, <2>3, <2>4 DEF TaskOK, Launching
<1>11. /\ used' \in [launch : Nat, all : Nat, cancel : Nat] /\ used'.launch = used.launch
       /\ terminals' \subseteq Nat \ {0}
  <2>1. used \in [launch : Nat, all : Nat, cancel : Nat] /\ terminals \subseteq Nat \ {0}
    BY DEF SetupInv, TypeInv
  <2> QED
    BY <2>1, <1>1
<1>12. k.pc \in Launching => task[r].pc \in Launching
  BY <1>1 DEF Launching
<1>13. k.pc # "lockStart"
  BY <1>5
<1> QED
  BY <1>1, <1>5, <1>6, <1>7, <1>9, <1>10, <1>11, <1>12, <1>13, TaskOnly

\* A task that lets go of everything but keeps to its own places.
LEMMA Answers ==
  ASSUME SetupInv, NEW r \in Tasks, NEW q, QueueFor(q, r), Head(q) = r, Answer(r, q)
  PROVE  \E k \in Locals :
           /\ k.pc \in Pcs(r) /\ task' = [task EXCEPT ![r] = k] /\ task'[r] = k
           /\ k.pc = IF r = Shutdown THEN "down" ELSE "idle"
           /\ TaskOK(r)' /\ LockInv' /\ lifecycle' \in Seq(Tasks)
           /\ \A x \in Tasks \ {r} : task'[x] = task[x]
<1> USE TaskNames
<1> DEFINE k0 == IF r = Shutdown THEN [Idle EXCEPT !.pc = "down"] ELSE Idle
<1>1. lifecycle' = Tail(q) /\ task' = [task EXCEPT ![r] = k0]
  BY DEF Answer
<1>2. PICK k : k = k0
  OBVIOUS
<1>3. "down" \in Steps
  BY DEF Steps
<1>4. /\ k \in Locals /\ k.pc = IF r = Shutdown THEN "down" ELSE "idle"
      /\ k.pc \in {"idle", "down"}
  BY <1>2, <1>3, IdleType, IdlePc
<1>5. task' = [task EXCEPT ![r] = k]
  BY <1>1, <1>2
<1> HIDE DEF k0
<1>6. k.pc \in Pcs(r)
  BY <1>4 DEF Pcs
<1>7. task'[r] = k /\ \A x \in Tasks \ {r} : task'[x] = task[x] /\ SameClass(x)
  BY <1>4, <1>5, <1>6, OneTask
<1>8. k.pc \notin Queued
  BY <1>4 DEF Queued, Waiting, Holding, Launching
<1>9. LockInv' /\ lifecycle' \in Seq(Tasks)
  BY <1>1, <1>7, <1>8, Release
<1>10. TaskOK(r)'
  BY <1>4, <1>7, QuietTask
<1> QED
  BY <1>4, <1>5, <1>6, <1>7, <1>9, <1>10

\* The external terminal that has opened keeps the invariant (start).
LEMMA ExternalOpenedStep ==
  ASSUME SetupInv, NEW r \in Requests, ExternalOpened(r)
  PROVE  SetupInv'
<1> USE TaskNames
<1>1. /\ task[r].pc = "opening" /\ Answer(r, lifecycle)
      /\ UNCHANGED <<m, thr, procs, unconfirmed, conn, revision, used>>
      /\ terminals' = terminals \/ terminals' = terminals \cup {task[r].token}
  BY DEF ExternalOpened
<1>2. task[r].pc \in Holding /\ task[r].pc \in Queued
  BY <1>1 DEF Holding, Queued
<1>3. QueueFor(lifecycle, r) /\ Head(lifecycle) = r
  BY <1>2, QueueHere DEF SetupInv, TypeInv, LockInv
<1>4. PICK k \in Locals :
           /\ k.pc \in Pcs(r) /\ task' = [task EXCEPT ![r] = k]
           /\ k.pc = "idle"
           /\ TaskOK(r)' /\ LockInv' /\ lifecycle' \in Seq(Tasks)
  BY <1>1, <1>3, Answers
<1>5. terminals' \subseteq Nat \ {0} /\ terminals \subseteq terminals'
  <2>1. task[r].token # 0
    BY <1>1 DEF SetupInv, TaskInv, TaskOK, Launches
  <2>2. task[r].token \in Nat
    BY DEF SetupInv, TypeInv, Locals
  <2> QED
    BY <1>1, <2>1, <2>2 DEF SetupInv, TypeInv
<1>6. used' \in [launch : Nat, all : Nat, cancel : Nat] /\ used'.launch = used.launch
  BY <1>1 DEF SetupInv, TypeInv
<1>7. k.pc # "lockStart" /\ k.pc \notin Launching
  BY <1>4 DEF Launching
<1> QED
  BY <1>1, <1>4, <1>5, <1>6, <1>7, TaskOnly

\* A handler that answers and changes nothing else.
LEMMA JustAnswers ==
  ASSUME SetupInv, NEW r \in Tasks, NEW q, QueueFor(q, r), Head(q) = r, Answer(r, q),
         r = Shutdown => task[r].pc # "idle" /\ (m.session # 0 => m.ses[m.session].finalized),
         UNCHANGED <<m, thr, procs, unconfirmed, conn, revision, terminals>>,
         used' \in [launch : Nat, all : Nat, cancel : Nat], used'.launch = used.launch
  PROVE  SetupInv'
<1>1. PICK k \in Locals :
           /\ k.pc \in Pcs(r) /\ task' = [task EXCEPT ![r] = k] /\ task'[r] = k
           /\ k.pc = IF r = Shutdown THEN "down" ELSE "idle"
           /\ TaskOK(r)' /\ LockInv' /\ lifecycle' \in Seq(Tasks)
  BY Answers
<1>2. k.pc # "lockStart" /\ k.pc \notin Launching
  BY <1>1 DEF Launching
<1>3. r = Shutdown => \A x \in Tasks : task[x].pc \notin Launching
  <2>1. ASSUME r = Shutdown PROVE task[r].pc \in Pcs(r) /\ task[r].pc \notin Launching
    BY <2>1, TaskNames DEF SetupInv, TypeInv, Pcs, Launching
  <2>2. ASSUME NEW x \in Tasks \ {r} PROVE task[x].pc \notin Holding
    BY DEF QueueFor, LockInv, SetupInv, Queued
  <2> QED
    BY <2>1, <2>2 DEF Holding
<1>4. terminals' \subseteq Nat \ {0}
  BY DEF SetupInv, TypeInv
<1> QED
  BY <1>1, <1>2, <1>3, <1>4, TaskOnly

\* The holder of the lock rewrites the current session's record.
LEMMA HolderStep ==
  ASSUME SetupInv, NEW r \in Tasks, NEW n \in Known, n = m.session,
         NEW s, Rewrites(m', m, n, s), Keeps(m.att, m'.att),
         \/ m'.session = m.session
         \/ /\ m'.session = 0 /\ ~Unsettled(n)
            /\ m.att.session = n => m'.att.cancelled,
         m.ses[n].finalized => s.finalized, Record(s, n)',
         UNCHANGED <<procs, unconfirmed, revision, terminals>>,
         ThreadInv', thr' \in [Tasks \cup SessionIds -> Threads],
         \A k \in Known \ {n} : thr'[k] = thr[k],
         NEW l \in Locals, l.pc \in Pcs(r), task' = [task EXCEPT ![r] = l], TaskOK(r)',
         LockInv', lifecycle' \in Seq(Tasks), \A x \in Tasks \ {r} : task[x].pc \notin Holding,
         NoLingeringClient', conn' \in [Conns -> {0} \cup SessionIds],
         used' \in [launch : Nat, all : Nat, cancel : Nat], used'.launch = used.launch,
         l.pc \notin Launching \cup {"lockStart"},
         r = Shutdown /\ l.pc # "idle" => task[r].pc # "idle",
         r = Shutdown /\ l.pc = "down" => s.finalized
  PROVE  SetupInv'
<1>1. /\ m' \in Managers /\ Len(m'.ses) = Len(m.ses) /\ Known' = Known
      /\ m'.session \in {0} \cup Known
      /\ m'.ses[n] = s /\ \A k \in Known \ {n} : m'.ses[k] = m.ses[k]
      /\ ProcInv' /\ RecordInv' /\ AttemptInv' /\ Credentials' = Credentials
  BY Rewritten
<1>2. /\ task' \in [Tasks -> Locals] /\ \A x \in Tasks : task'[x].pc \in Pcs(x)
      /\ task'[r] = l /\ \A x \in Tasks \ {r} : task'[x] = task[x]
  BY OneTask
<1>3. TypeInv'
  BY <1>1, <1>2 DEF SetupInv, TypeInv
<1>4. CountInv'
  BY <1>1, <1>2, Counted
<1>5. TaskInv'
  BY <1>1, <1>2, HolderTasks
<1>6. ClosingInv'
  <2>1. m'.closing = m.closing
    BY DEF Rewrites
  <2>2. m'.session # 0 => m'.session = m.session /\
                           (m.ses[m.session].finalized => m'.ses[m.session].finalized)
    BY <1>1
  <2>3. r = Shutdown => \A x \in Tasks : task[x].pc \notin Launching
    <3>1. ASSUME r = Shutdown PROVE task[r].pc \notin Launching
      BY <3>1, TaskNames DEF SetupInv, TypeInv, Pcs, Launching
    <3> QED
      BY <3>1 DEF Holding
  <2>4. r = Shutdown /\ l.pc = "down" => (m'.session # 0 => m'.ses[m'.session].finalized)
    BY <1>1
  <2> QED
    BY <1>2, <2>1, <2>2, <2>3, <2>4, ClosingKept
<1> QED
  BY <1>1, <1>3, <1>4, <1>5, <1>6 DEF SetupInv

\* The manager once a Stop has cancelled the attempt and the reader.
LEMMA StopMarks ==
  ASSUME SetupInv, NEW n \in Known, NEW e,
         e = [EndAttempt(m, n, FALSE) EXCEPT
                !.ses[n].reader = IF @ \in {"reading", "stopping"} THEN "done" ELSE @]
  PROVE  \E s \in Sessions :
           /\ s = [m.ses[n] EXCEPT !.reader = IF @ \in {"reading", "stopping"} THEN "done" ELSE @]
           /\ Rewrites(e, m, n, s) /\ e.session = m.session /\ Keeps(m.att, e.att)
<1> DEFINE a == EndAttempt(m, n, FALSE)
           s0 == [m.ses[n] EXCEPT !.reader = IF @ \in {"reading", "stopping"} THEN "done" ELSE @]
<1>1. m \in Managers /\ n \in SessionIds
  BY KnownIds DEF SetupInv, TypeInv
<1>2. /\ a \in Managers /\ a.ses = m.ses /\ a.session = m.session
      /\ a.closing = m.closing /\ a.prepared = m.prepared /\ Keeps(m.att, a.att)
  <2>1. \A b \in BOOLEAN : \A d : d = EndAttempt(m, n, b) =>
          /\ d \in Managers /\ d.ses = m.ses /\ d.session = m.session
          /\ d.closing = m.closing /\ d.prepared = m.prepared /\ Keeps(m.att, d.att)
    BY <1>1, EndAttemptFacts
  <2> QED
    BY <2>1
<1>3. PICK s : s = s0
  OBVIOUS
<1>4. s \in Sessions
  <2>1. m.ses[n] \in Sessions
    BY <1>1 DEF Managers, Known
  <2> QED
    BY <1>3, <2>1 DEF Sessions
<1> HIDE DEF a
<1>5. e = [a EXCEPT !.ses[n] = s]
  <2>1. e = [a EXCEPT !.ses[n].reader = IF @ \in {"reading", "stopping"} THEN "done" ELSE @]
    BY DEF a
  <2>2. e = [a EXCEPT !.ses[n] = [a.ses[n] EXCEPT !.reader = IF @ \in {"reading", "stopping"} THEN "done" ELSE @]]
    BY <2>1
  <2> QED
    BY <2>2, <1>2, <1>3
<1>6. n \in 1 .. Len(a.ses)
  BY <1>2 DEF Known
<1>7. Rewrites(e, a, n, s) /\ e.session = a.session /\ e.att = a.att
  <2>1. a \in Managers /\ s \in Sessions
    BY <1>2, <1>4
  <2>2. \A mm \in Managers : \A i \in 1 .. Len(mm.ses) : \A t \in Sessions : \A d :
          d = [mm EXCEPT !.ses[i] = t] =>
            Rewrites(d, mm, i, t) /\ d.session = mm.session /\ d.att = mm.att
    BY SessionExcept, Zenon
  <2>3. \A d : d = [a EXCEPT !.ses[n] = s] =>
            Rewrites(d, a, n, s) /\ d.session = a.session /\ d.att = a.att
    BY <2>1, <2>2, <1>6, Zenon
  <2> QED
    BY <2>3, <1>5, Zenon
<1>8. Rewrites(e, m, n, s)
  BY <1>2, <1>7 DEF Rewrites
<1> QED
  BY <1>2, <1>3, <1>4, <1>7, <1>8

\* Stopping the current session keeps the invariant, whoever asks: a request, the
\* sweeper or shutdown (_stop_session).
LEMMA StopSessionStep ==
  ASSUME SetupInv, NEW r \in Tasks, NEW q, QueueFor(q, r), Head(q) = r, NEW l \in Locals,
         m.session # 0, StopSession(r, l, q),
         "stopping" \in Pcs(r), r = Shutdown => task[r].pc # "idle",
         UNCHANGED <<procs, unconfirmed, revision, terminals>>,
         used' \in [launch : Nat, all : Nat, cancel : Nat], used'.launch = used.launch
  PROVE  SetupInv'
<1> DEFINE e == [EndAttempt(m, m.session, FALSE) EXCEPT
                   !.ses[m.session].reader = IF @ \in {"reading", "stopping"} THEN "done" ELSE @]
<1>1. PICK n : n = m.session
  OBVIOUS
<1>2. n \in Known /\ n \in SessionIds /\ m \in Managers /\ m.ses[n] \in Sessions /\ n # 0
  BY <1>1, KnownIds DEF SetupInv, TypeInv, Managers
<1>3. Record(m.ses[n], n)
  BY <1>2 DEF SetupInv, RecordInv
<1>4. \A x \in Tasks \ {r} : task[x].pc \notin Holding
  BY DEF QueueFor
<1>5. PICK s \in Sessions :
           /\ s = [m.ses[n] EXCEPT !.reader = IF @ \in {"reading", "stopping"} THEN "done" ELSE @]
           /\ Rewrites(e, m, n, s) /\ e.session = m.session /\ Keeps(m.att, e.att)
  BY <1>1, <1>2, StopMarks
<1>6. /\ s.finalized = m.ses[n].finalized /\ s.state = m.ses[n].state
      /\ s.evidence = m.ses[n].evidence /\ s.code = m.ses[n].code /\ s.proc = m.ses[n].proc
      /\ s.cleanup = m.ses[n].cleanup /\ s.subs = m.ses[n].subs
      /\ s.reader # "stopping"
  BY <1>2, <1>5 DEF Sessions
<1> HIDE DEF e
<1>7. CASE ConfirmedGone(m.ses[n])
  <2>1. Answer(r, q) /\ UNCHANGED <<m, thr, conn>>
    BY <1>1, <1>7 DEF StopSession
  <2>2. m.ses[m.session].finalized
    BY <1>1, <1>7 DEF ConfirmedGone
  <2> QED
    BY <2>1, <2>2, JustAnswers
<1>8. CASE ~ConfirmedGone(m.ses[n]) /\ m.ses[n].proc
  <2>1. /\ m' = e /\ thr' = [thr EXCEPT ![r] = [pc |-> "enter", on |-> {n}]]
        /\ task' = [task EXCEPT ![r] = [l EXCEPT !.pc = "stopping", !.n = n]]
        /\ lifecycle' = q /\ UNCHANGED conn
    BY <1>1, <1>8 DEF StopSession, e
  <2>2. Known' = Known /\ m'.ses[n] = s /\ m'.session = m.session
    BY <2>1, <1>5, <1>2 DEF Rewrites, Known
  <2> DEFINE k == [pc |-> "enter", on |-> {n}]
  <2>3. /\ ThreadInv' /\ thr' \in [Tasks \cup SessionIds -> Threads] /\ thr'[r] = k
        /\ \A y \in (Tasks \cup SessionIds) \ {r} : thr'[y] = thr[y]
    BY <2>1, <2>2, <1>2, <1>3, <1>8, ThreadSet DEF Record
  <2>4. Record(s, n)' /\ \A j \in Known : thr'[j] = thr[j]
    <3>1. \A j \in Known : j \in (Tasks \cup SessionIds) \ {r}
      BY TaskNames, KnownIds
    <3> QED
      BY <2>3, <3>1, <1>3, <1>6, <1>2 DEF Record
  <2>5. PICK j : j = [l EXCEPT !.pc = "stopping", !.n = n]
    OBVIOUS
  <2>6. "stopping" \in Steps
    BY DEF Steps, Holding
  <2>7. j \in Locals /\ j.pc = "stopping" /\ j.n = n
    BY <2>5, <2>6, <1>2 DEF Locals
  <2>8. task' = [task EXCEPT ![r] = j]
    BY <2>1, <2>5
  <2>9. task'[r] = j /\ \A x \in Tasks \ {r} : task'[x] = task[x] /\ SameClass(x)
    BY <2>7, <2>8, OneTask
  <2>10. TaskOK(r)'
    BY <1>1, <1>2, <2>2, <2>3, <2>7, <2>9 DEF TaskOK, Launches, Launching
  <2>11. j.pc \in Queued /\ j.pc \notin Launching \cup {"lockStart"}
    BY <2>7 DEF Queued, Holding, Launching
  <2>12. LockInv' /\ lifecycle' \in Seq(Tasks)
    BY <2>1, <2>9, <2>11, Hold
  <2>13. NoLingeringClient' /\ conn' \in [Conns -> {0} \cup SessionIds]
    <3>1. conn' = Hang({})
      BY <2>1, HangNone
    <3>2. m'.session = m.session /\ m'.ses[m.session].finalized = m.ses[m.session].finalized
          /\ m.ses[m.session].subs = m'.ses[m.session].subs
      BY <1>1, <2>2, <1>6
    <3> QED
      BY <3>1, <3>2, Clients
  <2>14. Rewrites(m', m, n, s) /\ Keeps(m.att, m'.att) /\ (m.ses[n].finalized => s.finalized)
    BY <2>1, <1>5, <1>6
  <2> QED
    BY <1>1, <1>2, <1>4, <2>2, <2>3, <2>4, <2>7, <2>8, <2>10, <2>11, <2>12, <2>13, <2>14, HolderStep
<1>9. CASE ~ConfirmedGone(m.ses[n]) /\ ~m.ses[n].proc
  <2>1. /\ m' = Finalize(e, n, FALSE, FALSE, None) /\ conn' = Hang(m.ses[n].subs)
        /\ Answer(r, q) /\ UNCHANGED thr
    <3>1. m.ses[n].cleanup = {}
      BY <1>3 DEF Record
    <3> QED
      BY <3>1, <1>1, <1>9 DEF StopSession, e
  <2>2. e \in Managers /\ n \in 1 .. Len(e.ses) /\ e.ses[n] = s /\ ~ConfirmedGone(e.ses[n])
    BY <1>2, <1>5, <1>6, <1>9 DEF Rewrites, Known, ConfirmedGone
  <2>3. PICK t : t = [Ended(s, FALSE, FALSE \/ s.eof, None) EXCEPT !.subs = {}]
    OBVIOUS
  <2>4. Rewrites(m', e, n, t) /\ m'.session = e.session /\ Keeps(e.att, m'.att)
    <3>1. \A b, c \in BOOLEAN : \A d : d = Finalize(e, n, b, c, None) =>
            /\ Rewrites(d, e, n, [Ended(e.ses[n], b, c \/ e.ses[n].eof, None) EXCEPT !.subs = {}])
            /\ d.session = e.session /\ Keeps(e.att, d.att)
      BY <2>2, <1>2, FinalizeFacts
    <3>2. /\ Rewrites(m', e, n, [Ended(e.ses[n], FALSE, FALSE \/ e.ses[n].eof, None) EXCEPT !.subs = {}])
          /\ m'.session = e.session /\ Keeps(e.att, m'.att)
      BY <2>1, <3>1
    <3> QED
      BY <2>2, <2>3, <3>2
  <2>5. /\ t.finalized = TRUE /\ t.evidence = "unconfirmed" /\ t.state = "failed"
        /\ t.code = s.code /\ t.reader = s.reader /\ t.cleanup = s.cleanup /\ t.proc = s.proc
    BY <2>3 DEF Ended, Sessions
  <2>6. Rewrites(m', m, n, t) /\ Keeps(m.att, m'.att) /\ m'.session = m.session
    BY <2>4, <1>5 DEF Rewrites, Keeps
  <2>7. Record(t, n)'
    BY <2>1, <2>5, <1>3, <1>6 DEF Record, Active
  <2>8. PICK k \in Locals :
           /\ k.pc \in Pcs(r) /\ task' = [task EXCEPT ![r] = k] /\ task'[r] = k
           /\ k.pc = IF r = Shutdown THEN "down" ELSE "idle"
           /\ TaskOK(r)' /\ LockInv' /\ lifecycle' \in Seq(Tasks)
           /\ \A x \in Tasks \ {r} : task'[x] = task[x]
    BY <2>1, Answers
  <2>9. Known' = Known
    BY <2>6 DEF Rewrites, Known
  <2>10. ThreadInv' /\ thr' \in [Tasks \cup SessionIds -> Threads]
    BY <2>1, <2>9 DEF SetupInv, TypeInv, ThreadInv
  <2>11. NoLingeringClient' /\ conn' \in [Conns -> {0} \cup SessionIds]
    BY <1>1, <2>1, Clients
  <2>12. k.pc \notin Launching \cup {"lockStart"}
    BY <2>8 DEF Launching
  <2> QED
    BY <1>1, <1>2, <1>4, <2>1, <2>5, <2>6, <2>7, <2>8, <2>10, <2>11, <2>12, HolderStep
<1> QED
  BY <1>7, <1>8, <1>9

\* A task that joins the lock's queue.
LEMMA Joins ==
  ASSUME SetupInv, NEW r \in Tasks, task[r].pc \notin Queued,
         lifecycle' = Append(lifecycle, r),
         NEW k \in Locals, k.pc \in Pcs(r), k.pc \in {"lockStop", "lockLimits", "lockShutdown"},
         task' = [task EXCEPT ![r] = k],
         UNCHANGED <<m, thr, procs, unconfirmed, conn, revision, terminals>>,
         r = Shutdown => task[r].pc # "idle",
         used' \in [launch : Nat, all : Nat, cancel : Nat], used'.launch = used.launch
  PROVE  SetupInv'
<1>1. QueueFor(Append(lifecycle, r), r)
  BY QueueJoined DEF SetupInv, TypeInv
<1>2. task'[r] = k /\ \A x \in Tasks \ {r} : task'[x] = task[x] /\ SameClass(x)
  BY OneTask
<1>3. k.pc \in Queued /\ k.pc \notin Holding /\ k.pc \notin Launching
  BY DEF Queued, Waiting, Holding, Launching
<1>4. LockInv' /\ lifecycle' \in Seq(Tasks)
  BY <1>1, <1>2, <1>3, Hold
<1>5. TaskOK(r)'
  BY <1>2, QuietTask
<1>6. terminals' \subseteq Nat \ {0}
  BY DEF SetupInv, TypeInv
<1>7. k.pc # "lockStart" /\ k.pc # "down"
  OBVIOUS
<1> QED
  BY <1>3, <1>4, <1>5, <1>6, <1>7, TaskOnly

\* A Stop with the lock held keeps the invariant (stop).
LEMMA StopBodyStep ==
  ASSUME SetupInv, NEW r \in Requests, NEW q, QueueFor(q, r), Head(q) = r, NEW l \in Locals,
         StopBody(r, l, q),
         UNCHANGED <<procs, unconfirmed, revision, terminals>>,
         used' \in [launch : Nat, all : Nat, cancel : Nat], used'.launch = used.launch
  PROVE  SetupInv'
<1> USE TaskNames
<1>1. "stopping" \in Pcs(r)
  BY RequestPcs DEF Holding
<1>2. CASE Answer(r, q) /\ UNCHANGED <<m, thr, conn>>
  BY <1>2, JustAnswers
<1>3. CASE m.session # 0 /\ StopSession(r, l, q)
  BY <1>1, <1>3, StopSessionStep
<1> QED
  BY <1>2, <1>3 DEF StopBody

\* The locals of a Stop.
LEMMA StopForm ==
  ASSUME NEW o \in Owners, NEW pc \in Steps, NEW l, l = [Idle EXCEPT !.owner = o, !.pc = pc]
  PROVE  l \in Locals /\ l.pc = pc
<1>1. Idle \in Locals
  BY IdleType
<1> QED
  BY <1>1 DEF Locals

\* A Stop request keeps the invariant (stop).
LEMMA StopStep ==
  ASSUME SetupInv, NEW r \in Requests, Stop(r)
  PROVE  SetupInv'
<1> USE TaskNames
<1>1. /\ task[r] = Idle /\ used' = [used EXCEPT !.all = @ + 1]
      /\ UNCHANGED <<procs, unconfirmed, revision, terminals>>
  BY DEF Stop
<1>2. PICK o \in Owners :
        LET l == [Idle EXCEPT !.owner = o, !.pc = "lockStop"] IN
        IF lifecycle = <<>> THEN StopBody(r, l, <<r>>)
        ELSE /\ lifecycle' = Append(lifecycle, r) /\ task' = [task EXCEPT ![r] = l]
             /\ UNCHANGED <<m, thr, conn>>
  BY DEF Stop
<1>3. PICK l : l = [Idle EXCEPT !.owner = o, !.pc = "lockStop"]
  OBVIOUS
<1>4. \/ lifecycle = <<>> /\ StopBody(r, l, <<r>>)
      \/ /\ lifecycle' = Append(lifecycle, r) /\ task' = [task EXCEPT ![r] = l]
         /\ UNCHANGED <<m, thr, conn>>
  BY <1>2, <1>3
<1>5. l \in Locals /\ l.pc = "lockStop"
  <2>1. "lockStop" \in Steps /\ o \in Owners
    BY <1>2 DEF Steps, Waiting
  <2> QED
    BY <2>1, <1>3, StopForm
<1>6. used' \in [launch : Nat, all : Nat, cancel : Nat] /\ used'.launch = used.launch
  BY <1>1 DEF SetupInv, TypeInv
<1>7. task[r].pc \notin Queued
  BY <1>1, IdleType
<1>8. l.pc \in Pcs(r)
  BY <1>5, RequestPcs
<1>9. CASE lifecycle = <<>> /\ StopBody(r, l, <<r>>)
  <2>1. Append(lifecycle, r) = <<r>>
    BY <1>9
  <2>2. QueueFor(<<r>>, r) /\ Head(<<r>>) = r
    BY <2>1, <1>7, <1>9, QueueJoined DEF SetupInv, TypeInv
  <2> QED
    BY <2>2, <1>1, <1>5, <1>6, <1>9, StopBodyStep
<1>10. CASE /\ lifecycle' = Append(lifecycle, r) /\ task' = [task EXCEPT ![r] = l]
            /\ UNCHANGED <<m, thr, conn>>
  BY <1>1, <1>5, <1>6, <1>7, <1>8, <1>10, Joins
<1> QED
  BY <1>4, <1>9, <1>10

\* A task in the queue is served by it (QueueHere, under the invariant).
LEMMA Waited ==
  ASSUME SetupInv, NEW r \in Tasks, task[r].pc \in Queued
  PROVE  QueueFor(lifecycle, r)
  BY QueueHere DEF SetupInv, TypeInv

\* A Stop whose turn has come keeps the invariant (stop).
LEMMA StopResumesStep ==
  ASSUME SetupInv, NEW r \in Requests, StopResumes(r)
  PROVE  SetupInv'
<1> USE TaskNames
<1>1. /\ task[r].pc = "lockStop" /\ Head(lifecycle) = r
      /\ StopBody(r, task[r], lifecycle)
      /\ UNCHANGED <<procs, unconfirmed, revision, terminals, used>>
  BY DEF StopResumes
<1>2. QueueFor(lifecycle, r)
  <2>1. task[r].pc \in Queued
    BY <1>1 DEF Queued, Waiting
  <2> QED
    BY <2>1, Waited
<1>3. used' \in [launch : Nat, all : Nat, cancel : Nat] /\ used'.launch = used.launch
      /\ task[r] \in Locals
  BY <1>1 DEF SetupInv, TypeInv
<1> QED
  BY <1>1, <1>2, <1>3, StopBodyStep

\* A cancelled Stop keeps the invariant: its thread goes on alone (stop).
LEMMA StopCancelledStep ==
  ASSUME SetupInv, NEW r \in Requests, StopCancelled(r)
  PROVE  SetupInv'
<1> USE TaskNames
<1>1. /\ task[r].pc = "stopping" /\ task' = [task EXCEPT ![r] = [Idle EXCEPT !.pc = "orphan"]]
      /\ lifecycle' = Tail(lifecycle) /\ used' = [used EXCEPT !.cancel = @ + 1]
      /\ UNCHANGED <<m, thr, procs, unconfirmed, conn, revision, terminals>>
  BY DEF StopCancelled
<1>2. PICK k : k = [Idle EXCEPT !.pc = "orphan"]
  OBVIOUS
<1>3. k \in Locals /\ k.pc = "orphan" /\ k.pc \in Pcs(r)
  <2>1. "orphan" \in Steps
    BY DEF Steps
  <2> QED
    BY <2>1, <1>2, IdlePc, RequestPcs
<1>4. task' = [task EXCEPT ![r] = k]
  BY <1>1, <1>2
<1>5. task'[r] = k /\ \A x \in Tasks \ {r} : task'[x] = task[x] /\ SameClass(x)
  BY <1>3, <1>4, OneTask
<1>6. task[r].pc \in Holding /\ task[r].pc \in Queued
      /\ k.pc \notin Queued /\ k.pc \notin Launching /\ k.pc # "lockStart"
  BY <1>1, <1>3 DEF Queued, Waiting, Holding, Launching
<1>7. QueueFor(lifecycle, r) /\ Head(lifecycle) = r
  BY <1>6, Waited DEF SetupInv, LockInv
<1>8. LockInv' /\ lifecycle' \in Seq(Tasks)
  BY <1>1, <1>5, <1>6, <1>7, Release
<1>9. TaskOK(r)'
  BY <1>3, <1>5, QuietTask
<1>10. /\ used' \in [launch : Nat, all : Nat, cancel : Nat] /\ used'.launch = used.launch
       /\ terminals' \subseteq Nat \ {0}
  BY <1>1 DEF SetupInv, TypeInv
<1> QED
  BY <1>1, <1>3, <1>4, <1>6, <1>8, <1>9, <1>10, TaskOnly

\* The control states of the sweeper and of shutdown.
LEMMA SweeperPcs ==
  /\ Pcs(Sweeper) = {"off", "idle", "lockLimits", "stopping", "orphan"}
  /\ Pcs(Shutdown) = {"idle", "closing", "lockShutdown", "stopping", "down"}
  BY TaskNames DEF Pcs

\* The sweeper with the lock held keeps the invariant (enforce_limits).
LEMMA LimitsBodyStep ==
  ASSUME SetupInv, NEW q, QueueFor(q, Sweeper), Head(q) = Sweeper, LimitsBody(q),
         UNCHANGED <<procs, unconfirmed, revision, terminals, used>>
  PROVE  SetupInv'
<1> USE TaskNames
<1>1. /\ used' \in [launch : Nat, all : Nat, cancel : Nat] /\ used'.launch = used.launch
      /\ "stopping" \in Pcs(Sweeper) /\ Idle \in Locals
  BY IdleType, SweeperPcs DEF SetupInv, TypeInv
<1>2. CASE Answer(Sweeper, q) /\ UNCHANGED <<m, thr, conn>>
  BY <1>1, <1>2, JustAnswers
<1>3. CASE m.session # 0 /\ StopSession(Sweeper, Idle, q)
  BY <1>1, <1>3, StopSessionStep
<1> QED
  BY <1>2, <1>3 DEF LimitsBody

\* The sweeper's round keeps the invariant (_sweep).
LEMMA SweepStep ==
  ASSUME SetupInv, Sweep
  PROVE  SetupInv'
<1> USE TaskNames
<1>1. /\ task[Sweeper] = Idle
      /\ UNCHANGED <<procs, unconfirmed, revision, terminals, used>>
      /\ \/ lifecycle = <<>> /\ LimitsBody(<<Sweeper>>)
         \/ /\ lifecycle' = Append(lifecycle, Sweeper)
            /\ task' = [task EXCEPT ![Sweeper].pc = "lockLimits"]
            /\ UNCHANGED <<m, thr, conn>>
  BY DEF Sweep
<1>2. task[Sweeper].pc \notin Queued
  BY <1>1, IdleType
<1>3. CASE lifecycle = <<>> /\ LimitsBody(<<Sweeper>>)
  <2>1. Append(lifecycle, Sweeper) = <<Sweeper>>
    BY <1>3
  <2>2. QueueFor(<<Sweeper>>, Sweeper) /\ Head(<<Sweeper>>) = Sweeper
    BY <2>1, <1>2, <1>3, QueueJoined DEF SetupInv, TypeInv
  <2> QED
    BY <2>2, <1>1, <1>3, LimitsBodyStep
<1>4. CASE /\ lifecycle' = Append(lifecycle, Sweeper)
           /\ task' = [task EXCEPT ![Sweeper].pc = "lockLimits"]
           /\ UNCHANGED <<m, thr, conn>>
  <2>1. PICK k : k = [Idle EXCEPT !.pc = "lockLimits"]
    OBVIOUS
  <2>2. "lockLimits" \in Steps
    BY DEF Steps, Waiting
  <2>3. k \in Locals /\ k.pc = "lockLimits" /\ k.pc \in Pcs(Sweeper)
    BY <2>1, <2>2, IdlePc, SweeperPcs
  <2>4. task' = [task EXCEPT ![Sweeper] = k]
    BY <1>1, <1>4, <2>1
  <2>5. used' \in [launch : Nat, all : Nat, cancel : Nat] /\ used'.launch = used.launch
    BY <1>1 DEF SetupInv, TypeInv
  <2> QED
    BY <1>1, <1>2, <1>4, <2>3, <2>4, <2>5, Joins
<1> QED
  BY <1>1, <1>3, <1>4

\* The sweeper whose turn has come keeps the invariant (enforce_limits).
LEMMA SweepResumesStep ==
  ASSUME SetupInv, SweepResumes
  PROVE  SetupInv'
<1> USE TaskNames
<1>1. /\ task[Sweeper].pc = "lockLimits" /\ Head(lifecycle) = Sweeper /\ LimitsBody(lifecycle)
      /\ UNCHANGED <<procs, unconfirmed, revision, terminals, used>>
  BY DEF SweepResumes
<1>2. QueueFor(lifecycle, Sweeper)
  <2>1. task[Sweeper].pc \in Queued
    BY <1>1 DEF Queued, Waiting
  <2> QED
    BY <2>1, Waited
<1> QED
  BY <1>1, <1>2, LimitsBodyStep

\* Shutdown's request for the lock keeps the invariant (shutdown).
LEMMA ShutdownQueuesStep ==
  ASSUME SetupInv, ShutdownQueues
  PROVE  SetupInv'
<1> USE TaskNames
<1>1. /\ task[Shutdown].pc = "closing" /\ lifecycle' = Append(lifecycle, Shutdown)
      /\ task' = [task EXCEPT ![Shutdown].pc = "lockShutdown"]
      /\ UNCHANGED <<m, thr, procs, unconfirmed, conn, revision, terminals, used>>
  BY DEF ShutdownQueues
<1>2. PICK k : k = [task[Shutdown] EXCEPT !.pc = "lockShutdown"]
  OBVIOUS
<1>3. "lockShutdown" \in Steps /\ task[Shutdown] \in Locals
  BY DEF Steps, Waiting, SetupInv, TypeInv
<1>4. k \in Locals /\ k.pc = "lockShutdown"
  BY <1>2, <1>3 DEF Locals
<1>5. k.pc \in Pcs(Shutdown)
  BY <1>4, SweeperPcs
<1>6. task' = [task EXCEPT ![Shutdown] = k]
  BY <1>1, <1>2
<1>7. used' \in [launch : Nat, all : Nat, cancel : Nat] /\ used'.launch = used.launch
  BY <1>1 DEF SetupInv, TypeInv
<1>8. task[Shutdown].pc \notin Queued
  BY <1>1 DEF Queued, Waiting, Holding, Launching
<1> QED
  BY <1>1, <1>4, <1>5, <1>6, <1>7, <1>8, Joins

\* Shutdown whose turn has come keeps the invariant (shutdown).
LEMMA ShutdownResumesStep ==
  ASSUME SetupInv, ShutdownResumes
  PROVE  SetupInv'
<1> USE TaskNames
<1> DEFINE gone == m.session = 0 \/ ConfirmedGone(m.ses[m.session])
<1>1. /\ task[Shutdown].pc = "lockShutdown" /\ Head(lifecycle) = Shutdown
      /\ UNCHANGED <<procs, unconfirmed, revision, terminals, used>>
      /\ \/ /\ gone /\ lifecycle' = Tail(lifecycle)
            /\ task' = [task EXCEPT ![Shutdown].pc = "down"]
            /\ UNCHANGED <<m, thr, conn>>
         \/ ~gone /\ StopSession(Shutdown, Idle, lifecycle)
  BY DEF ShutdownResumes
<1>2. QueueFor(lifecycle, Shutdown)
  <2>1. task[Shutdown].pc \in Queued
    BY <1>1 DEF Queued, Waiting
  <2> QED
    BY <2>1, Waited
<1>3. /\ used' \in [launch : Nat, all : Nat, cancel : Nat] /\ used'.launch = used.launch
      /\ "stopping" \in Pcs(Shutdown) /\ Idle \in Locals /\ task[Shutdown] \in Locals
      /\ terminals' \subseteq Nat \ {0}
  BY <1>1, IdleType, SweeperPcs DEF SetupInv, TypeInv
<1>4. CASE /\ gone /\ lifecycle' = Tail(lifecycle)
           /\ task' = [task EXCEPT ![Shutdown].pc = "down"]
           /\ UNCHANGED <<m, thr, conn>>
  <2>1. PICK k : k = [task[Shutdown] EXCEPT !.pc = "down"]
    OBVIOUS
  <2>2. "down" \in Steps
    BY DEF Steps
  <2>3. k \in Locals /\ k.pc = "down"
    BY <1>3, <2>1, <2>2 DEF Locals
  <2>4. task' = [task EXCEPT ![Shutdown] = k] /\ k.pc \in Pcs(Shutdown)
    BY <1>4, <2>1, <2>3, SweeperPcs
  <2>5. task'[Shutdown] = k /\ \A x \in Tasks \ {Shutdown} : task'[x] = task[x] /\ SameClass(x)
    BY <2>3, <2>4, OneTask
  <2>6. k.pc \notin Queued /\ k.pc \notin Launching /\ k.pc # "lockStart"
    BY <2>3 DEF Queued, Waiting, Holding, Launching
  <2>7. LockInv' /\ lifecycle' \in Seq(Tasks)
    BY <1>1, <1>2, <1>4, <2>5, <2>6, Release
  <2>8. TaskOK(Shutdown)'
    BY <2>3, <2>5, QuietTask
  <2>9. m.session # 0 => m.ses[m.session].finalized
    BY <1>4 DEF ConfirmedGone
  <2>10. \A x \in Tasks : task[x].pc \notin Launching
    <3>1. \A x \in Tasks \ {Shutdown} : task[x].pc \notin Holding
      BY <1>1, Alone
    <3> QED
      BY <3>1, <1>1 DEF Holding, Launching
  <2> QED
    BY <1>1, <1>3, <1>4, <2>3, <2>4, <2>6, <2>7, <2>8, <2>9, <2>10, TaskOnly
<1>5. CASE ~gone /\ StopSession(Shutdown, Idle, lifecycle)
  <2>1. m.session # 0 /\ task[Shutdown].pc # "idle"
    BY <1>1, <1>5
  <2> QED
    BY <1>1, <1>2, <1>3, <1>5, <2>1, StopSessionStep
<1> QED
  BY <1>1, <1>4, <1>5

\* What a thread that is back says of its tree.
LEMMA ThreadBack ==
  ASSUME SetupInv, NEW x \in Tasks \cup SessionIds, NEW n, thr[x].on = {n}, thr[x].pc # "none"
  PROVE  /\ n \in Known /\ procs[n].tree # "none"
         /\ thr[x].pc = "in" => ~procs[n].stopped
         /\ thr[x].pc = "yes" => procs[n].stopped
  BY DEF SetupInv, ThreadInv

\* The end of a stop thread, whatever it confirms, keeps the invariant
\* (_stop_session, _finalize).
LEMMA StopEndsStep ==
  ASSUME SetupInv, NEW r \in Tasks, StopEnds(r)
  PROVE  SetupInv'
<1>1. PICK n : n = task[r].n
  OBVIOUS
<1> DEFINE yes == thr[r].pc = "yes"
<1>2. /\ task[r].pc = "stopping" /\ thr[r].pc \in {"yes", "no"}
      /\ m' = Finalize(m, n, yes, FALSE, procs[n].code)
      /\ conn' = Hang(IF ConfirmedGone(m.ses[n]) THEN {} ELSE m.ses[n].subs)
      /\ thr' = [thr EXCEPT ![r] = NoThread]
      /\ Answer(r, lifecycle)
      /\ UNCHANGED <<procs, unconfirmed, revision, terminals, used>>
  BY <1>1 DEF StopEnds
<1>3. n # 0 /\ n = m.session /\ thr[r].on = {n}
  BY <1>1, <1>2 DEF SetupInv, TaskInv, TaskOK
<1>4. n \in Known /\ (yes => procs[n].stopped)
  BY <1>2, <1>3, ThreadBack
<1>5. n \in SessionIds /\ m \in Managers /\ m.ses[n] \in Sessions /\ Record(m.ses[n], n)
      /\ procs[n].code \in {0, 1} /\ n \in 1 .. Len(m.ses)
  <2>1. n \in SessionIds /\ n \in 1 .. Len(m.ses)
    BY <1>4, KnownIds
  <2>2. procs \in [SessionIds -> Processes] /\ m \in Managers
    BY DEF SetupInv, TypeInv
  <2> QED
    BY <2>1, <2>2, <1>4 DEF SetupInv, RecordInv, Managers, Processes
<1>6. task[r].pc \in Holding /\ task[r].pc \in Queued
  BY <1>2 DEF Queued, Holding
<1>7. QueueFor(lifecycle, r) /\ Head(lifecycle) = r /\ \A x \in Tasks \ {r} : task[x].pc \notin Holding
  BY <1>6, Waited, Alone DEF SetupInv, LockInv
<1>8. PICK k \in Locals :
           /\ k.pc \in Pcs(r) /\ task' = [task EXCEPT ![r] = k] /\ task'[r] = k
           /\ k.pc = IF r = Shutdown THEN "down" ELSE "idle"
           /\ TaskOK(r)' /\ LockInv' /\ lifecycle' \in Seq(Tasks)
  BY <1>2, <1>7, Answers
<1>9. /\ used' \in [launch : Nat, all : Nat, cancel : Nat] /\ used'.launch = used.launch
      /\ k.pc \notin Launching \cup {"lockStart"}
  BY <1>2, <1>8 DEF SetupInv, TypeInv, Launching
\* A reader that is still stopping is not the stopped session's.
<1>10. \E t : /\ Rewrites(m', m, n, t) /\ Keeps(m.att, m'.att) /\ m'.session = m.session
              /\ t.finalized /\ Record(t, n)'
  <2>1. \A j \in Known : thr'[j] = thr[j]
    <3>1. \A j \in Known : j \in Tasks \cup SessionIds /\ j # r
      BY TaskNames, KnownIds
    <3> QED
      BY <3>1, <1>2 DEF SetupInv, TypeInv
  <2>2. CASE ConfirmedGone(m.ses[n])
    <3>1. m' = m
      BY <1>2, <2>2 DEF Finalize
    <3>2. PICK t : t = m.ses[n]
      OBVIOUS
    <3>3. Rewrites(m', m, n, t) /\ Keeps(m.att, m'.att)
      BY <3>1, <3>2, <1>5 DEF Rewrites, Keeps
    <3>4. Record(t, n)'
      BY <3>2, <2>1, <1>2, <1>4, <1>5 DEF Record
    <3> QED
      BY <3>1, <3>2, <3>3, <3>4, <2>2 DEF ConfirmedGone
  <2>3. CASE ~ConfirmedGone(m.ses[n])
    <3>1. PICK t : t = [Ended(m.ses[n], yes, FALSE \/ m.ses[n].eof, procs[n].code) EXCEPT !.subs = {}]
      OBVIOUS
    <3>2. Rewrites(m', m, n, t) /\ m'.session = m.session /\ Keeps(m.att, m'.att)
      <4>1. PICK y \in BOOLEAN : y = yes
        OBVIOUS
      <4>2. PICK c \in {0, 1, None} : c = procs[n].code
        BY <1>5
      <4>3. /\ m' = Finalize(m, n, y, FALSE, c)
            /\ t = [Ended(m.ses[n], y, FALSE \/ m.ses[n].eof, c) EXCEPT !.subs = {}]
        BY <4>1, <4>2, <3>1, <1>2
      <4> HIDE DEF yes
      <4>4. \A b \in BOOLEAN : \A e : e = Finalize(m, n, y, b, c) =>
              /\ Rewrites(e, m, n, [Ended(m.ses[n], y, b \/ m.ses[n].eof, c) EXCEPT !.subs = {}])
              /\ e.session = m.session /\ Keeps(m.att, e.att)
        BY <1>5, <2>3, FinalizeFacts
      <4>5. /\ Rewrites(m', m, n, [Ended(m.ses[n], y, FALSE \/ m.ses[n].eof, c) EXCEPT !.subs = {}])
            /\ m'.session = m.session /\ Keeps(m.att, m'.att)
        BY <4>3, <4>4
      <4> QED
        BY <4>3, <4>5
    <3>3. /\ t.finalized = TRUE /\ t.evidence = IF yes THEN "confirmed" ELSE "unconfirmed"
          /\ t.state = IF ~yes THEN "failed" ELSE IF m.ses[n].eof THEN "exited" ELSE "stopped"
          /\ t.code = IF m.ses[n].eof /\ m.ses[n].proc /\ yes THEN procs[n].code ELSE m.ses[n].code
          /\ t.reader = m.ses[n].reader /\ t.cleanup = m.ses[n].cleanup /\ t.proc = m.ses[n].proc
      BY <3>1, <1>5 DEF Ended, Sessions
    <3>4. Record(t, n)'
      BY <3>3, <2>1, <1>2, <1>4, <1>5 DEF Record, Active
    <3> QED
      BY <3>2, <3>3, <3>4
  <2> QED
    BY <2>2, <2>3
<1>11. PICK t : /\ Rewrites(m', m, n, t) /\ Keeps(m.att, m'.att) /\ m'.session = m.session
                /\ t.finalized /\ Record(t, n)'
  BY <1>10
<1>12. Known' = Known
  BY <1>11 DEF Rewrites, Known
<1>13. /\ ThreadInv' /\ thr' \in [Tasks \cup SessionIds -> Threads]
       /\ \A y \in Known : thr'[y] = thr[y]
  <2>1. /\ ThreadInv' /\ thr' \in [Tasks \cup SessionIds -> Threads]
        /\ \A y \in (Tasks \cup SessionIds) \ {r} : thr'[y] = thr[y]
    BY <1>2, <1>12, ThreadSet
  <2>2. \A j \in Known : j \in (Tasks \cup SessionIds) \ {r}
    BY TaskNames, KnownIds
  <2> QED
    BY <2>1, <2>2
<1>14. NoLingeringClient' /\ conn' \in [Conns -> {0} \cup SessionIds]
  <2> DEFINE cs == IF ConfirmedGone(m.ses[n]) THEN {} ELSE m.ses[n].subs
  <2>1. m.session # 0 /\ ~m.ses[m.session].finalized => m.ses[m.session].subs \subseteq cs
    BY <1>3 DEF ConfirmedGone
  <2>2. conn' = Hang(cs)
    BY <1>2
  <2> HIDE DEF cs
  <2> QED
    BY <2>1, <2>2, Clients
<1>15. r = Shutdown => task[r].pc # "idle"
  BY <1>2
<1> QED
  BY <1>2, <1>3, <1>4, <1>7, <1>8, <1>9, <1>11, <1>13, <1>14, <1>15, HolderStep

\* The end of a thread whose request was cancelled keeps the invariant.
LEMMA OrphanEndsStep ==
  ASSUME SetupInv, NEW r \in Tasks, OrphanEnds(r)
  PROVE  SetupInv'
<1> USE TaskNames
<1>1. /\ task[r].pc = "orphan" /\ thr' = [thr EXCEPT ![r] = NoThread]
      /\ task' = [task EXCEPT ![r] = IF r = Sweeper THEN [Idle EXCEPT !.pc = "off"] ELSE Idle]
      /\ UNCHANGED <<m, lifecycle, procs, unconfirmed, conn, revision, terminals, used>>
  BY DEF OrphanEnds
<1>2. PICK k : k = IF r = Sweeper THEN [Idle EXCEPT !.pc = "off"] ELSE Idle
  OBVIOUS
<1>3. k \in Locals /\ k.pc = (IF r = Sweeper THEN "off" ELSE "idle") /\ k.pc \in {"idle", "off"}
  <2>1. "off" \in Steps
    BY DEF Steps
  <2> QED
    BY <2>1, <1>2, IdleType, IdlePc
<1>4. task' = [task EXCEPT ![r] = k] /\ k.pc \in Pcs(r)
  <2>1. r \in Tasks /\ task[r].pc \in Pcs(r)
    BY DEF SetupInv, TypeInv
  <2>2. k.pc \in Pcs(r)
    BY <1>3 DEF Pcs
  <2> QED
    BY <1>1, <1>2, <2>2
<1>5. /\ task' \in [Tasks -> Locals] /\ \A x \in Tasks : task'[x].pc \in Pcs(x)
      /\ task'[r] = k /\ \A x \in Tasks \ {r} : task'[x] = task[x] /\ SameClass(x)
  BY <1>3, <1>4, OneTask
<1>6. LockInv' /\ lifecycle' \in Seq(Tasks)
  <2>1. SameClass(r)
    BY <1>1, <1>3, <1>5 DEF SameClass, Queued, Waiting, Holding, Launching
  <2> QED
    BY <1>1, <1>5, <2>1, Rest DEF SetupInv, TypeInv
<1>7. Known' = Known
  BY <1>1 DEF Known
<1>8. /\ ThreadInv' /\ thr' \in [Tasks \cup SessionIds -> Threads] /\ thr'[r] = NoThread
      /\ \A y \in (Tasks \cup SessionIds) \ {r} : thr'[y] = thr[y]
  BY <1>1, <1>7, ThreadSet
<1>9. TypeInv'
  BY <1>1, <1>5, <1>6, <1>7, <1>8 DEF SetupInv, TypeInv
<1>10. CountInv'
  <2>1. \A x \in Tasks : task'[x].pc = "lockStart" => task[x].pc = "lockStart"
    BY <1>3, <1>5
  <2> QED
    BY <1>1, <2>1, Counted
<1>11. ProcInv' /\ NoLingeringClient' /\ Credentials' = Credentials
  BY <1>1 DEF SetupInv, ProcInv, Unsettled, NoLingeringClient, Known, Credentials
<1>12. RecordInv'
  <2>1. \A j \in Known : thr'[j] = thr[j]
    <3>1. \A j \in Known : j \in (Tasks \cup SessionIds) \ {r}
      BY KnownIds
    <3> QED
      BY <3>1, <1>8
  <2> QED
    BY <1>1, <1>7, <2>1 DEF SetupInv, RecordInv, Record
<1>13. AttemptInv'
  BY <1>1, <1>11 DEF SetupInv, AttemptInv, Sound
<1>14. TaskInv'
  <2>1. ASSUME NEW x \in Tasks \ {r} PROVE TaskOK(x)'
    <3>1. ASSUME NEW n, Unborn(n) PROVE Unborn(n)'
      <4>1. \A y \in Tasks \cup SessionIds : thr'[y].pc # "none" => thr[y].pc # "none" /\ thr'[y].on = thr[y].on
        BY <1>8 DEF NoThread
      <4> QED
        BY <3>1, <4>1, <1>1 DEF Unborn
    <3>2. \A n : Unsettled(n)' <=> Unsettled(n)
      BY <1>1 DEF Unsettled
    <3>3. task'[x] = task[x] /\ TaskInv /\ thr'[x] = thr[x]
      BY <1>5, <1>8 DEF SetupInv
    <3> QED
      BY <1>1, <1>11, <3>1, <3>2, <3>3, TaskStands
  <2>2. TaskOK(r)'
    BY <1>3, <1>5, QuietTask
  <2> QED
    BY <2>1, <2>2 DEF TaskInv
<1>15. ClosingInv'
  <2>1. r # Shutdown
    BY <1>1, SweeperPcs DEF SetupInv, TypeInv
  <2>2. task'[r].pc \notin Launching
    BY <1>3, <1>5 DEF Launching
  <2> QED
    BY <1>1, <1>5, <2>1, <2>2, ClosingKept
<1> QED
  BY <1>6, <1>8, <1>9, <1>10, <1>11, <1>12, <1>13, <1>14, <1>15 DEF SetupInv

\* A launch that holds the lock for the session it is starting.
LEMMA Launcher ==
  ASSUME SetupInv, NEW r \in Requests, task[r].pc \in Launching, NEW n, n = task[r].n
  PROVE  /\ n \in Known /\ n \in SessionIds /\ n = m.session /\ n # 0
         /\ m \in Managers /\ m.ses[n] \in Sessions /\ Record(m.ses[n], n)
         /\ m.ses[n].state = "starting" /\ ~m.ses[n].finalized /\ ~m.ses[n].proc
         /\ m.ses[n].reader = "none" /\ m.ses[n].code = None
         /\ task[r].out = "pending" => Unborn(n)
         /\ task[r].out = "ok" => procs[n].tree # "none"
         /\ task[r].out = "clean" => ~Unsettled(n)
         /\ task[r].owner \in Owners /\ task[r].sel \in Selections /\ task[r].token # 0
         /\ task[r] \in Locals /\ r \in Tasks
         /\ QueueFor(lifecycle, r) /\ Head(lifecycle) = r
         /\ \A x \in Tasks \ {r} : task[x].pc \notin Holding
<1>1. r \in Tasks /\ task[r] \in Locals /\ TaskOK(r) /\ m \in Managers
  BY TaskNames DEF SetupInv, TypeInv, TaskInv
<1>2. /\ n # 0 /\ n = m.session /\ m.ses[n].state = "starting"
      /\ ~m.ses[n].proc /\ m.ses[n].reader = "none" /\ m.ses[n].code = None
      /\ task[r].owner \in Owners /\ task[r].sel \in Selections /\ task[r].token # 0
  BY <1>1 DEF TaskOK, Launches
<1>3. /\ task[r].out = "pending" => Unborn(n)
      /\ task[r].out = "ok" => procs[n].tree # "none"
      /\ task[r].out = "clean" => ~Unsettled(n)
  BY <1>1 DEF TaskOK
<1>4. n \in Known
  BY <1>2 DEF SetupInv, TypeInv
<1>5. n \in SessionIds /\ m.ses[n] \in Sessions /\ Record(m.ses[n], n)
  BY <1>1, <1>4, KnownIds DEF SetupInv, RecordInv, Managers
<1>6. ~m.ses[n].finalized
  BY <1>2, <1>5 DEF Record, Active, Sessions
<1>7. task[r].pc \in Holding /\ task[r].pc \in Queued
  BY DEF Queued, Holding
<1>8. QueueFor(lifecycle, r) /\ Head(lifecycle) = r /\ \A x \in Tasks \ {r} : task[x].pc \notin Holding
  BY <1>1, <1>7, Waited, Alone DEF SetupInv, LockInv
<1> QED
  BY <1>1, <1>2, <1>3, <1>4, <1>5, <1>6, <1>8

\* What a launch that failed to spawn leaves of its session.
LEMMA SpawnFailed ==
  ASSUME SetupInv, NEW r \in Requests, task[r].pc \in Launching, NEW n, n = task[r].n,
         task[r].out \in {"clean", "uncertain"},
         NEW e, e = FailSpawn(m, n, task[r].out = "clean", task[r].cleanup)
  PROVE  \E s : /\ Rewrites(e, m, n, s) /\ Keeps(m.att, e.att) /\ Record(s, n)
                /\ task[r].out = "clean" =>
                     /\ e.session = 0 /\ ~Unsettled(n)
                     /\ m.att.session = n => e.att.cancelled
                /\ task[r].out # "clean" => e.session = m.session
<1>1. /\ n \in Known /\ n \in SessionIds /\ n = m.session
      /\ m \in Managers /\ m.ses[n] \in Sessions /\ Record(m.ses[n], n)
      /\ task[r].out = "clean" => ~Unsettled(n)
      /\ task[r] \in Locals /\ n \in 1 .. Len(m.ses)
  BY Launcher, KnownIds
<1>2. PICK clean \in BOOLEAN : clean = (task[r].out = "clean")
  OBVIOUS
<1>3. e = FailSpawn(m, n, clean, {})
  BY <1>1, <1>2 DEF Locals
<1>4. /\ Keeps(m.att, e.att)
      /\ clean => /\ Rewrites(e, m, n, [m.ses[n] EXCEPT !.subs = {}])
                  /\ e.session = 0
                  /\ m.att.session = n => e.att.cancelled
      /\ ~clean => /\ Rewrites(e, m, n, FailedRecord([m.ses[n] EXCEPT !.subs = {}]))
                   /\ e.session = m.session
  BY <1>1, <1>3, FailSpawnFacts
<1>5. CASE clean
  <2>1. PICK s : s = [m.ses[n] EXCEPT !.subs = {}]
    OBVIOUS
  <2>2. Record(s, n)
    BY <1>1, <2>1 DEF Record, Sessions
  <2> QED
    BY <1>1, <1>2, <1>4, <1>5, <2>1, <2>2
<1>6. CASE ~clean
  <2>1. PICK s : s = FailedRecord([m.ses[n] EXCEPT !.subs = {}])
    OBVIOUS
  <2>2. /\ s.state = "failed" /\ s.finalized = TRUE /\ s.evidence = m.ses[n].evidence
        /\ s.code = m.ses[n].code /\ s.reader = m.ses[n].reader /\ s.cleanup = {}
        /\ s.proc = m.ses[n].proc
    BY <1>1, <2>1 DEF FailedRecord, Sessions
  <2>3. Record(s, n)
    BY <1>1, <2>2 DEF Record, Active
  <2> QED
    BY <1>1, <1>2, <1>4, <1>6, <2>1, <2>3
<1> QED
  BY <1>5, <1>6

\* A launch whose spawn failed answers.
LEMMA FailedAnswers ==
  ASSUME SetupInv, NEW r \in Requests, task[r].pc \in Launching,
         task[r].out \in {"clean", "uncertain"}, NEW n, n = task[r].n,
         m' = FailSpawn(m, n, task[r].out = "clean", task[r].cleanup),
         conn' = Hang(m.ses[n].subs), Answer(r, lifecycle),
         UNCHANGED <<thr, procs, unconfirmed, revision, terminals, used>>
  PROVE  SetupInv'
<1> USE TaskNames
<1>1. /\ n \in Known /\ n \in SessionIds /\ n = m.session /\ ~m.ses[n].finalized /\ r \in Tasks
      /\ QueueFor(lifecycle, r) /\ Head(lifecycle) = r
      /\ \A x \in Tasks \ {r} : task[x].pc \notin Holding
  BY Launcher
<1>2. PICK e : e = FailSpawn(m, n, task[r].out = "clean", task[r].cleanup)
  OBVIOUS
<1>3. PICK s : /\ Rewrites(m', m, n, s) /\ Keeps(m.att, m'.att) /\ Record(s, n)
               /\ task[r].out = "clean" =>
                    /\ m'.session = 0 /\ ~Unsettled(n)
                    /\ m.att.session = n => m'.att.cancelled
               /\ task[r].out # "clean" => m'.session = m.session
  <2>1. e = m'
    BY <1>2
  <2> QED
    BY <1>2, <2>1, SpawnFailed
<1>4. PICK k \in Locals :
           /\ k.pc \in Pcs(r) /\ task' = [task EXCEPT ![r] = k] /\ task'[r] = k
           /\ k.pc = "idle"
           /\ TaskOK(r)' /\ LockInv' /\ lifecycle' \in Seq(Tasks)
  BY <1>1, Answers
<1>5. Record(s, n)'
  BY <1>3 DEF Record
<1>6. Known' = Known
  BY <1>3 DEF Rewrites, Known
<1>7. ThreadInv' /\ thr' \in [Tasks \cup SessionIds -> Threads]
  BY <1>6 DEF SetupInv, TypeInv, ThreadInv
<1>8. NoLingeringClient' /\ conn' \in [Conns -> {0} \cup SessionIds]
  BY <1>1, Clients
<1>9. /\ used' \in [launch : Nat, all : Nat, cancel : Nat] /\ used'.launch = used.launch
      /\ k.pc \notin Launching \cup {"lockStart"}
  BY <1>4 DEF SetupInv, TypeInv, Launching
<1>10. \/ m'.session = m.session
       \/ /\ m'.session = 0 /\ ~Unsettled(n)
          /\ m.att.session = n => m'.att.cancelled
  BY <1>3
<1> QED
  BY <1>1, <1>3, <1>4, <1>5, <1>7, <1>8, <1>9, <1>10, HolderStep

\* Reaping a cancelled launch keeps the invariant (_reap_cancelled_spawn).
LEMMA ReapStep ==
  ASSUME SetupInv, NEW r \in Requests, Reap(r)
  PROVE  SetupInv'
<1> USE TaskNames
<1>1. PICK n : n = task[r].n
  OBVIOUS
<1>2. /\ task[r].pc = "reaping" /\ task[r].pc \in Launching /\ task[r].out # "pending"
      /\ UNCHANGED <<procs, unconfirmed, revision, terminals, used>>
      /\ \/ /\ task[r].out = "ok" /\ thr' = [thr EXCEPT ![r] = [pc |-> "enter", on |-> {n}]]
            /\ task' = [task EXCEPT ![r].pc = "reaped"]
            /\ UNCHANGED <<m, lifecycle, conn>>
         \/ /\ task[r].out # "ok"
            /\ m' = FailSpawn(m, n, task[r].out = "clean", task[r].cleanup)
            /\ conn' = Hang(m.ses[n].subs)
            /\ Answer(r, lifecycle) /\ UNCHANGED thr
  BY <1>1 DEF Reap, Launching
<1>3. /\ n \in Known /\ n \in SessionIds /\ n = m.session /\ n # 0 /\ r \in Tasks /\ task[r] \in Locals
      /\ m \in Managers /\ m.ses[n] \in Sessions /\ Record(m.ses[n], n)
      /\ m.ses[n].state = "starting" /\ ~m.ses[n].proc
      /\ m.ses[n].reader = "none" /\ m.ses[n].code = None
      /\ task[r].out = "ok" => procs[n].tree # "none"
      /\ task[r].owner \in Owners /\ task[r].sel \in Selections /\ task[r].token # 0
      /\ QueueFor(lifecycle, r) /\ Head(lifecycle) = r
      /\ \A x \in Tasks \ {r} : task[x].pc \notin Holding
  BY <1>1, <1>2, Launcher
<1>4. CASE /\ task[r].out = "ok" /\ thr' = [thr EXCEPT ![r] = [pc |-> "enter", on |-> {n}]]
           /\ task' = [task EXCEPT ![r].pc = "reaped"]
           /\ UNCHANGED <<m, lifecycle, conn>>
  <2>1. PICK k : k = [task[r] EXCEPT !.pc = "reaped"]
    OBVIOUS
  <2>2. "reaped" \in Steps
    BY DEF Steps, Holding, Launching
  <2>3. /\ k \in Locals /\ k.pc = "reaped" /\ k.owner = task[r].owner /\ k.sel = task[r].sel
        /\ k.token = task[r].token /\ k.n = n /\ k.out = "ok"
    BY <1>1, <1>3, <1>4, <2>1, <2>2 DEF Locals
  <2>4. task' = [task EXCEPT ![r] = k] /\ k.pc \in Pcs(r)
    BY <1>4, <2>1, <2>3, RequestPcs DEF Holding, Launching
  <2>5. /\ task' \in [Tasks -> Locals] /\ \A x \in Tasks : task'[x].pc \in Pcs(x)
        /\ task'[r] = k /\ \A x \in Tasks \ {r} : task'[x] = task[x] /\ SameClass(x)
    BY <2>3, <2>4, OneTask
  <2>6. k.pc \in Queued /\ k.pc \in Holding
    BY <2>3 DEF Queued, Holding, Launching
  <2>7. LockInv' /\ lifecycle' \in Seq(Tasks)
    BY <1>3, <1>4, <2>5, <2>6, Hold
  <2>8. Known' = Known /\ Credentials' = Credentials
    BY <1>2, <1>4 DEF Known, Credentials
  <2> DEFINE z == [pc |-> "enter", on |-> {n}]
  <2>9. /\ ThreadInv' /\ thr' \in [Tasks \cup SessionIds -> Threads] /\ thr'[r] = z
        /\ \A y \in (Tasks \cup SessionIds) \ {r} : thr'[y] = thr[y]
    BY <1>2, <1>3, <1>4, <2>8, ThreadSet
  <2>10. TaskOK(r)'
    <3>1. thr'[r].pc # "none" /\ thr'[r].on = {n}
      BY <2>9
    <3> QED
      BY <3>1, <1>2, <1>3, <1>4, <2>3, <2>5 DEF TaskOK, Launching
  <2>11. TypeInv'
    BY <1>2, <1>4, <2>5, <2>7, <2>8, <2>9 DEF SetupInv, TypeInv
  <2>12. CountInv'
    <3>1. \A x \in Tasks : task'[x].pc = "lockStart" => task[x].pc = "lockStart"
      BY <2>3, <2>5
    <3> QED
      BY <1>2, <1>4, <3>1, Counted
  <2>13. ProcInv' /\ NoLingeringClient' /\ AttemptInv'
    BY <1>2, <1>4, <2>8 DEF SetupInv, ProcInv, Unsettled, NoLingeringClient, AttemptInv, Sound
  <2>14. RecordInv'
    <3>1. \A j \in Known : thr'[j] = thr[j]
      <4>1. \A j \in Known : j \in (Tasks \cup SessionIds) \ {r}
        BY KnownIds
      <4> QED
        BY <4>1, <2>9
    <3> QED
      BY <1>2, <1>4, <2>8, <3>1 DEF SetupInv, RecordInv, Record
  <2>15. TaskInv'
    BY <1>3, <2>5, <2>8, <2>10, HolderTasks
  <2>16. ClosingInv'
    BY <1>2, <1>3, <1>4, <2>5, ClosingKept
  <2> QED
    BY <2>7, <2>9, <2>11, <2>12, <2>13, <2>14, <2>15, <2>16 DEF SetupInv
<1>5. CASE /\ task[r].out # "ok"
           /\ m' = FailSpawn(m, n, task[r].out = "clean", task[r].cleanup)
           /\ conn' = Hang(m.ses[n].subs)
           /\ Answer(r, lifecycle) /\ UNCHANGED thr
  <2>1. task[r].out \in {"clean", "uncertain"}
    BY <1>2, <1>3, <1>5 DEF Locals
  <2> QED
    BY <1>1, <1>2, <1>5, <2>1, FailedAnswers
<1> QED
  BY <1>2, <1>4, <1>5

\* The end of that reaping keeps the invariant (_reap_cancelled_spawn).
LEMMA ReapEndsStep ==
  ASSUME SetupInv, NEW r \in Requests, ReapEnds(r)
  PROVE  SetupInv'
<1> USE TaskNames
<1>1. PICK n : n = task[r].n
  OBVIOUS
<1>2. PICK gone \in BOOLEAN : gone = (thr[r].pc = "yes")
  OBVIOUS
<1>3. PICK late \in BOOLEAN : late = ~gone
  OBVIOUS
<1> DEFINE a == EndAttempt(m, n, late)
           e == CloseSubscribers(a, n)
           s == [m.ses[n] EXCEPT !.subs = {}]
           f == [s EXCEPT !.proc = TRUE, !.evidence = "unconfirmed", !.state = "failed",
                          !.finalized = TRUE]
<1>4. /\ task[r].pc = "reaped" /\ task[r].pc \in Launching /\ thr[r].pc # "none"
      /\ m' = IF gone THEN [e EXCEPT !.session = 0]
              ELSE [e EXCEPT !.ses[n] = [@ EXCEPT !.proc = TRUE, !.evidence = "unconfirmed",
                                                  !.state = "failed", !.finalized = TRUE]]
      /\ conn' = Hang(m.ses[n].subs) /\ thr' = [thr EXCEPT ![r] = NoThread]
      /\ Answer(r, lifecycle)
      /\ UNCHANGED <<procs, unconfirmed, revision, terminals, used>>
  BY <1>1, <1>2, <1>3 DEF ReapEnds, Launching
<1>5. /\ n \in Known /\ n \in SessionIds /\ n = m.session /\ r \in Tasks
      /\ m \in Managers /\ m.ses[n] \in Sessions /\ Record(m.ses[n], n)
      /\ ~m.ses[n].finalized /\ m.ses[n].code = None /\ m.ses[n].reader = "none"
      /\ QueueFor(lifecycle, r) /\ Head(lifecycle) = r
      /\ \A x \in Tasks \ {r} : task[x].pc \notin Holding
  BY <1>1, <1>4, Launcher
<1>6. thr[r].on = {n}
  BY <1>1, <1>4 DEF SetupInv, TaskInv, TaskOK
<1>7. procs[n].tree # "none" /\ (gone => procs[n].stopped /\ ~Unsettled(n))
  BY <1>2, <1>4, <1>5, <1>6, ThreadBack DEF SetupInv, ProcInv, Unsettled
<1>8. /\ a \in Managers /\ a.ses = m.ses /\ a.session = m.session
      /\ a.closing = m.closing /\ a.prepared = m.prepared
      /\ Keeps(m.att, a.att) /\ (m.att.session = n /\ gone => a.att.cancelled)
  <2>1. m \in Managers /\ n \in SessionIds /\ (late <=> ~gone)
    BY <1>3, <1>5
  <2> QED
    BY <2>1, EndAttemptFacts
<1> HIDE DEF a
<1>9. n \in 1 .. Len(a.ses) /\ a.ses[n] = m.ses[n]
  BY <1>5, <1>8 DEF Known
<1>10. Rewrites(e, m, n, s) /\ e.session = m.session /\ e.att = a.att
  <2>1. Rewrites(e, a, n, [a.ses[n] EXCEPT !.subs = {}]) /\ e.session = a.session /\ e.att = a.att
    BY <1>8, <1>9, CloseSubscribersFacts
  <2> QED
    BY <1>8, <1>9, <2>1 DEF Rewrites
<1>11. s \in Sessions /\ f \in Sessions
  <2>1. m.ses[n] \in Sessions
    BY <1>5
  <2>2. s \in Sessions
    BY <2>1 DEF Sessions
  <2> HIDE DEF s
  <2> QED
    BY <2>2 DEF Sessions
<1> HIDE DEF e
<1>12. \E t : /\ Rewrites(m', m, n, t) /\ Keeps(m.att, m'.att) /\ Record(t, n)
              /\ \/ m'.session = m.session
                 \/ /\ m'.session = 0 /\ ~Unsettled(n)
                    /\ m.att.session = n => m'.att.cancelled
  <2>1. CASE gone
    <3>1. m' = [e EXCEPT !.session = 0]
      BY <1>4, <2>1
    <3>2. PICK t : t = s
      OBVIOUS
    <3>3. Record(t, n)
      BY <3>2, <1>5 DEF Record, Sessions
    <3> HIDE DEF s, f
    <3>4. Rewrites(m', m, n, t) /\ m'.session = 0 /\ m'.att = e.att
      BY <3>1, <3>2, <1>10 DEF Rewrites, Managers
    <3> QED
      BY <3>3, <3>4, <1>7, <1>8, <1>10, <2>1
  <2>2. CASE ~gone
    <3>1. PICK t : t = f
      OBVIOUS
    <3>2. e.ses[n] = s /\ n \in 1 .. Len(e.ses) /\ e \in Managers
      BY <1>5, <1>10 DEF Rewrites, Known
    <3>3. m' = [e EXCEPT !.ses[n] = [e.ses[n] EXCEPT !.proc = TRUE, !.evidence = "unconfirmed",
                                                  !.state = "failed", !.finalized = TRUE]]
      BY <1>4, <2>2
    <3>4. m' = [e EXCEPT !.ses[n] = t] /\ t \in Sessions
      BY <3>1, <3>2, <3>3, <1>11
    <3>5. /\ t.finalized = TRUE /\ t.evidence = "unconfirmed" /\ t.state = "failed"
          /\ t.code = None /\ t.reader = "none" /\ t.cleanup = m.ses[n].cleanup
      BY <3>1, <1>5 DEF Sessions
    <3>6. Record(t, n)
      BY <3>5, <1>5, <1>7 DEF Record, Active
    <3> HIDE DEF s, f
    <3>7. Rewrites(m', e, n, t) /\ m'.session = e.session /\ m'.att = e.att
      <4>1. \A d : d = [e EXCEPT !.ses[n] = t] =>
               Rewrites(d, e, n, t) /\ d.session = e.session /\ d.att = e.att
        BY <3>2, <3>4, SessionExcept
      <4> QED
        BY <3>4, <4>1
    <3>8. Rewrites(m', m, n, t)
      BY <3>7, <1>10 DEF Rewrites
    <3> QED
      BY <3>6, <3>7, <3>8, <1>8, <1>10
  <2> QED
    BY <2>1, <2>2
<1>13. PICK t : /\ Rewrites(m', m, n, t) /\ Keeps(m.att, m'.att) /\ Record(t, n)
                /\ \/ m'.session = m.session
                   \/ /\ m'.session = 0 /\ ~Unsettled(n)
                      /\ m.att.session = n => m'.att.cancelled
  BY <1>12
<1>14. Known' = Known
  BY <1>13 DEF Rewrites, Known
<1>15. /\ ThreadInv' /\ thr' \in [Tasks \cup SessionIds -> Threads]
       /\ \A y \in Known : thr'[y] = thr[y]
  <2>1. /\ ThreadInv' /\ thr' \in [Tasks \cup SessionIds -> Threads]
        /\ \A y \in (Tasks \cup SessionIds) \ {r} : thr'[y] = thr[y]
    BY <1>4, <1>5, <1>14, ThreadSet
  <2>2. \A j \in Known : j \in (Tasks \cup SessionIds) \ {r}
    BY <1>5, KnownIds
  <2> QED
    BY <2>1, <2>2
<1>16. Record(t, n)'
  BY <1>4, <1>5, <1>13, <1>15 DEF Record
<1>17. PICK k \in Locals :
           /\ k.pc \in Pcs(r) /\ task' = [task EXCEPT ![r] = k] /\ task'[r] = k
           /\ k.pc = "idle"
           /\ TaskOK(r)' /\ LockInv' /\ lifecycle' \in Seq(Tasks)
  BY <1>4, <1>5, Answers
<1>18. NoLingeringClient' /\ conn' \in [Conns -> {0} \cup SessionIds]
  BY <1>4, <1>5, Clients
<1>19. /\ used' \in [launch : Nat, all : Nat, cancel : Nat] /\ used'.launch = used.launch
       /\ k.pc \notin Launching \cup {"lockStart"}
  BY <1>4, <1>17 DEF SetupInv, TypeInv, Launching
<1>20. UNCHANGED <<procs, unconfirmed, revision, terminals>> /\ r # Shutdown
       /\ (m.ses[n].finalized => t.finalized)
  BY <1>4, <1>5
<1> HIDE DEF s, f
<1> QED
  BY <1>5, <1>13, <1>15, <1>16, <1>17, <1>18, <1>19, <1>20, HolderStep

\* A launch that tries an external terminal again keeps the invariant (start).
LEMMA ExternalRetriedStep ==
  ASSUME SetupInv, NEW r \in Requests, ExternalRetried(r)
  PROVE  SetupInv'
<1> USE TaskNames
<1>1. task[r].pc = "retrying" /\ r \in Tasks /\ task[r] \in Locals /\ TaskOK(r)
  BY DEF ExternalRetried, SetupInv, TypeInv, TaskInv
<1>2. m.session = 0 \/ ConfirmedGone(m.ses[m.session])
  BY <1>1 DEF TaskOK
\* Nothing is left to confirm once the slot is free.
<1>3. unconfirmed = {}
  <2>1. ASSUME NEW p \in unconfirmed PROVE FALSE
    <3>1. p \in SessionIds /\ m.session = p /\ p # 0
      BY <2>1 DEF SetupInv, TypeInv, ProcInv, Unsettled, SessionIds
    <3>2. Record(m.ses[p], p) /\ ConfirmedGone(m.ses[p])
      BY <1>2, <3>1 DEF SetupInv, TypeInv, RecordInv
    <3> QED
      BY <3>1, <3>2, <2>1 DEF SetupInv, ProcInv, Record, ConfirmedGone
  <2> QED
    BY <2>1
<1>4. /\ unconfirmed' = unconfirmed /\ task' = [task EXCEPT ![r].pc = "opening"]
      /\ UNCHANGED <<m, lifecycle, thr, procs, conn, revision, terminals, used>>
  BY <1>3 DEF ExternalRetried
<1>5. PICK k : k = [task[r] EXCEPT !.pc = "opening"]
  OBVIOUS
<1>6. "opening" \in Steps
  BY DEF Steps, Holding
<1>7. /\ k \in Locals /\ k.pc = "opening" /\ k.owner = task[r].owner /\ k.sel = task[r].sel
      /\ k.token = task[r].token /\ k.out = task[r].out
  BY <1>1, <1>5, <1>6 DEF Locals
<1>8. task' = [task EXCEPT ![r] = k] /\ k.pc \in Pcs(r)
  BY <1>4, <1>5, <1>7, RequestPcs DEF Holding
<1>9. task'[r] = k /\ \A x \in Tasks \ {r} : task'[x] = task[x] /\ SameClass(x)
  BY <1>1, <1>7, <1>8, OneTask
<1>10. k.pc \in Holding /\ task[r].pc \in Holding /\ k.pc \notin Launching /\ k.pc # "lockStart"
  BY <1>1, <1>7 DEF Holding, Launching
<1>11. LockInv' /\ lifecycle' \in Seq(Tasks)
  BY <1>1, <1>4, <1>9, <1>10, Rest DEF SetupInv, TypeInv, SameClass, Queued
<1>12. TaskOK(r)'
  BY <1>1, <1>7, <1>9 DEF TaskOK, Launches, Launching
<1>13. /\ used' \in [launch : Nat, all : Nat, cancel : Nat] /\ used'.launch = used.launch
       /\ terminals' \subseteq Nat \ {0}
  BY <1>4 DEF SetupInv, TypeInv
<1> QED
  BY <1>1, <1>4, <1>7, <1>8, <1>10, <1>11, <1>12, <1>13, TaskOnly

\* What the spawn thread leaves: the process c of session n, and l.
Spawned(r, n, c, l) ==
  /\ c \in Processes /\ procs' = [procs EXCEPT ![n] = c]
  /\ c.tree = "none" => c = NoProcess
  /\ c.tree # "none" => c.token # 0
  /\ c.stopped => c.tree = "gone" /\ unconfirmed' = {}
  /\ l.out # "pending" /\ (l.out = "ok" => c.tree # "none")
  /\ l.out = "clean" => (c.tree = "none" \/ c.stopped) /\ unconfirmed' = {}
  /\ unconfirmed' \subseteq {n}
  /\ l \in Locals /\ task' = [task EXCEPT ![r] = l]
  /\ l.pc = task[r].pc /\ l.owner = task[r].owner /\ l.sel = task[r].sel
  /\ l.token = task[r].token /\ l.n = n

\* What the spawn thread leaves: a live tree, nothing, a tree proven gone, or one
\* nobody could confirm (spawn).
LEMMA SpawnEffect ==
  ASSUME SetupInv, NEW r \in Requests, Spawn(r), NEW n, n = task[r].n
  PROVE  \E c, l : Spawned(r, n, c, l)
<1>1. /\ task[r].pc \in Launching /\ task[r].out = "pending"
  BY DEF Spawn, Launching
<1>2. /\ n \in SessionIds /\ n = m.session /\ Unborn(n) /\ task[r] \in Locals
      /\ task[r].token # 0 /\ r \in Tasks
  BY <1>1, Launcher
<1>3. unconfirmed = {}
  BY <1>2 DEF SetupInv, TypeInv, ProcInv, Unsettled, Unborn
<1> DEFINE token == task[r].token
           done(out) == task' = [task EXCEPT ![r].out = out, ![r].cleanup = {}]
           child(tree, dead) == procs' = [procs EXCEPT ![n] =
             [NoProcess EXCEPT !.tree = tree, !.token = token,
                               !.closed = dead, !.stopped = dead /\ tree = "gone"]]
<1>4. \/ child("live", FALSE) /\ done("ok") /\ unconfirmed' = {}
      \/ UNCHANGED procs /\ done("clean") /\ unconfirmed' = {}
      \/ child("gone", TRUE) /\ done("clean") /\ unconfirmed' = {}
      \/ child("live", TRUE) /\ done("uncertain") /\ unconfirmed' = {n}
  <2>1. PICK remaining \in SUBSET unconfirmed, out \in {"ok", "unspawned", "unproven", "uncertain"} :
          IF remaining # {}
          THEN /\ task' = [task EXCEPT ![r].out = "uncertain", ![r].cleanup = remaining]
               /\ unconfirmed' = remaining /\ UNCHANGED procs
          ELSE CASE out = "ok" -> child("live", FALSE) /\ done("ok") /\ unconfirmed' = {}
                 [] out = "unspawned" -> UNCHANGED procs /\ done("clean") /\ unconfirmed' = {}
                 [] out = "unproven" -> child("gone", TRUE) /\ done("clean") /\ unconfirmed' = {}
                 [] out = "uncertain" -> child("live", TRUE) /\ done("uncertain") /\ unconfirmed' = {n}
    BY Zenon DEF Spawn
  <2> HIDE DEF child, done
  <2>2. remaining = {}
    BY <2>1, <1>3
  <2> QED
    BY <2>1, <2>2
<1>5. token \in Nat /\ token # 0 /\ procs \in [SessionIds -> Processes] /\ procs[n] = NoProcess
      /\ task \in [Tasks -> Locals]
  BY <1>2 DEF Locals, SetupInv, TypeInv, Unborn
<1>6. ASSUME NEW out \in {"ok", "clean", "uncertain"}, done(out)
      PROVE  \E l \in Locals : /\ task' = [task EXCEPT ![r] = l] /\ l.out = out
               /\ l.pc = task[r].pc /\ l.owner = task[r].owner /\ l.sel = task[r].sel
               /\ l.token = token /\ l.n = n
  <2>1. PICK l : l = [task[r] EXCEPT !.out = out, !.cleanup = {}]
    OBVIOUS
  <2>2. task' = [task EXCEPT ![r] = l]
    BY <1>2, <1>5, <1>6, <2>1
  <2>3. /\ l \in Locals /\ l.out = out
        /\ l.pc = task[r].pc /\ l.owner = task[r].owner /\ l.sel = task[r].sel
        /\ l.token = token /\ l.n = n
    BY <1>2, <2>1 DEF Locals
  <2> QED
    BY <2>2, <2>3
<1>7. ASSUME NEW tree \in {"live", "gone"}, NEW dead \in BOOLEAN, child(tree, dead)
      PROVE  \E c \in Processes : /\ procs' = [procs EXCEPT ![n] = c] /\ c.tree = tree
               /\ c.token # 0 /\ (c.stopped <=> dead /\ tree = "gone")
  <2>1. PICK c : c = [NoProcess EXCEPT !.tree = tree, !.token = token,
                               !.closed = dead, !.stopped = dead /\ tree = "gone"]
    OBVIOUS
  <2>2. procs' = [procs EXCEPT ![n] = c]
    BY <1>7, <2>1
  <2>3. PICK b \in BOOLEAN : b = (dead /\ tree = "gone")
    OBVIOUS
  <2>4. PICK t \in Nat : t = token
    BY <1>5
  <2>5. c = [NoProcess EXCEPT !.tree = tree, !.token = t, !.closed = dead, !.stopped = b]
    BY <2>1, <2>3, <2>4
  <2> HIDE DEF token, child
  <2>6. c \in Processes /\ c.tree = tree /\ c.token = t /\ c.stopped = b
    <3>1. c = [tree |-> tree, closed |-> dead, stopped |-> b, code |-> 1, token |-> t]
      BY <2>5 DEF NoProcess
    <3> QED
      BY <3>1 DEF Processes
  <2> QED
    BY <1>5, <2>2, <2>3, <2>4, <2>6
<1>8. NoProcess.tree = "none" /\ NoProcess \in Processes /\ NoProcess.stopped = FALSE
  BY DEF NoProcess, Processes
<1> HIDE DEF token, child, done
<1>9. CASE child("live", FALSE) /\ done("ok") /\ unconfirmed' = {}
  <2>1. PICK c \in Processes : /\ procs' = [procs EXCEPT ![n] = c] /\ c.tree = "live"
               /\ c.token # 0 /\ ~c.stopped
    BY <1>7, <1>9
  <2>2. PICK l \in Locals : /\ task' = [task EXCEPT ![r] = l] /\ l.out = "ok"
               /\ l.pc = task[r].pc /\ l.owner = task[r].owner /\ l.sel = task[r].sel
               /\ l.token = token /\ l.n = n
    BY <1>6, <1>9
  <2> QED
    BY <1>9, <2>1, <2>2 DEF Spawned, token
<1>10. CASE UNCHANGED procs /\ done("clean") /\ unconfirmed' = {}
  <2>1. procs' = [procs EXCEPT ![n] = NoProcess]
    BY <1>5, <1>10
  <2>2. PICK l \in Locals : /\ task' = [task EXCEPT ![r] = l] /\ l.out = "clean"
               /\ l.pc = task[r].pc /\ l.owner = task[r].owner /\ l.sel = task[r].sel
               /\ l.token = token /\ l.n = n
    BY <1>6, <1>10
  <2> QED
    BY <1>8, <1>10, <2>1, <2>2 DEF Spawned, token
<1>11. CASE child("gone", TRUE) /\ done("clean") /\ unconfirmed' = {}
  <2>1. PICK c \in Processes : /\ procs' = [procs EXCEPT ![n] = c] /\ c.tree = "gone"
               /\ c.token # 0 /\ c.stopped
    BY <1>7, <1>11
  <2>2. PICK l \in Locals : /\ task' = [task EXCEPT ![r] = l] /\ l.out = "clean"
               /\ l.pc = task[r].pc /\ l.owner = task[r].owner /\ l.sel = task[r].sel
               /\ l.token = token /\ l.n = n
    BY <1>6, <1>11
  <2> QED
    BY <1>11, <2>1, <2>2 DEF Spawned, token
<1>12. CASE child("live", TRUE) /\ done("uncertain") /\ unconfirmed' = {n}
  <2>1. PICK c \in Processes : /\ procs' = [procs EXCEPT ![n] = c] /\ c.tree = "live"
               /\ c.token # 0 /\ ~c.stopped
    BY <1>7, <1>12
  <2>2. PICK l \in Locals : /\ task' = [task EXCEPT ![r] = l] /\ l.out = "uncertain"
               /\ l.pc = task[r].pc /\ l.owner = task[r].owner /\ l.sel = task[r].sel
               /\ l.token = token /\ l.n = n
    BY <1>6, <1>12
  <2> QED
    BY <1>12, <2>1, <2>2 DEF Spawned, token
<1> QED
  BY <1>4, <1>9, <1>10, <1>11, <1>12

\* The spawn thread keeps the invariant (spawn).
LEMMA SpawnStep ==
  ASSUME SetupInv, NEW r \in Requests, Spawn(r)
  PROVE  SetupInv'
<1> USE TaskNames
<1>1. PICK n : n = task[r].n
  OBVIOUS
<1>2. PICK c, l : Spawned(r, n, c, l)
  BY <1>1, SpawnEffect
<1>3. /\ task[r].pc \in {"spawning", "reaping"} /\ task[r].pc \in Launching /\ task[r].out = "pending"
      /\ UNCHANGED <<m, lifecycle, thr, conn, revision, terminals, used>>
  BY DEF Spawn, Launching
<1>4. /\ n \in Known /\ n \in SessionIds /\ n = m.session /\ n # 0 /\ r \in Tasks
      /\ m.ses[n] \in Sessions /\ Record(m.ses[n], n)
      /\ m.ses[n].state = "starting" /\ ~m.ses[n].proc
      /\ m.ses[n].reader = "none" /\ m.ses[n].code = None /\ Unborn(n)
      /\ task[r].owner \in Owners /\ task[r].sel \in Selections /\ task[r].token # 0
      /\ \A x \in Tasks \ {r} : task[x].pc \notin Holding
  BY <1>1, <1>3, Launcher
<1>5. l \in Locals /\ l.pc \in Pcs(r) /\ task' = [task EXCEPT ![r] = l] /\ l.pc = task[r].pc
  <2>1. task[r].pc \in Pcs(r)
    BY DEF SetupInv, TypeInv
  <2> QED
    BY <1>2, <2>1 DEF Spawned
<1>6. /\ task' \in [Tasks -> Locals] /\ \A x \in Tasks : task'[x].pc \in Pcs(x)
      /\ task'[r] = l /\ \A x \in Tasks \ {r} : task'[x] = task[x] /\ SameClass(x)
  BY <1>5, OneTask
<1>7. LockInv' /\ lifecycle' \in Seq(Tasks)
  <2>1. SameClass(r)
    BY <1>5, <1>6 DEF SameClass
  <2> QED
    BY <1>3, <1>6, <2>1, Rest DEF SetupInv, TypeInv
<1>8. /\ procs' \in [SessionIds -> Processes] /\ procs'[n] = c
      /\ \A p \in SessionIds \ {n} : procs'[p] = procs[p]
      /\ procs[n] = NoProcess /\ procs[n].tree = "none" /\ ~procs[n].stopped
      /\ unconfirmed' \subseteq {n}
  <2>1. procs \in [SessionIds -> Processes]
    BY DEF SetupInv, TypeInv
  <2>2. procs[n] = NoProcess
    BY <1>4 DEF Unborn
  <2> QED
    BY <1>2, <1>4, <2>1, <2>2 DEF Spawned, NoProcess
<1>9. Known' = Known
  BY <1>3 DEF Known
<1>10. Credentials \subseteq Credentials'
  BY <1>3, <1>8 DEF Credentials
<1>11. TypeInv'
  BY <1>3, <1>4, <1>6, <1>7, <1>8, <1>9 DEF SetupInv, TypeInv
<1>12. CountInv'
  <2>1. \A x \in Tasks : task'[x].pc = "lockStart" => task[x].pc = "lockStart"
    BY <1>5, <1>6
  <2> QED
    BY <1>3, <2>1, Counted
<1>13. ThreadInv'
  <2>1. ASSUME NEW x \in Tasks \cup SessionIds, thr[x].pc # "none"
        PROVE  \E p \in Known :
                 /\ thr[x].on = {p} /\ procs'[p].tree # "none"
                 /\ thr[x].pc = "in" => ~procs'[p].stopped
                 /\ thr[x].pc = "yes" => procs'[p].stopped
    <3>1. PICK p \in Known :
                 /\ thr[x].on = {p} /\ procs[p].tree # "none"
                 /\ thr[x].pc = "in" => ~procs[p].stopped
                 /\ thr[x].pc = "yes" => procs[p].stopped
      BY <2>1 DEF SetupInv, ThreadInv
    <3>2. p # n /\ p \in SessionIds
      BY <3>1, <1>8, KnownIds
    <3> QED
      BY <3>1, <3>2, <1>8
  <2>2. \A x, y \in Tasks \cup SessionIds :
          thr[x].pc = "in" /\ thr[y].pc = "in" /\ thr[x].on = thr[y].on => x = y
    BY DEF SetupInv, ThreadInv
  <2> QED
    BY <1>3, <1>9, <2>1, <2>2 DEF ThreadInv
<1>14. ProcInv'
  <2>1. ASSUME NEW p \in SessionIds
        PROVE  /\ procs'[p].stopped => procs'[p].tree = "gone" /\ p \notin unconfirmed'
               /\ procs'[p].tree = "none" => procs'[p] = NoProcess
               /\ procs'[p].tree # "none" => p \in Known /\ procs'[p].token # 0
               /\ Unsettled(p)' => m.session = p
    <3>1. CASE p = n
      BY <3>1, <1>2, <1>4, <1>8 DEF Spawned
    <3>2. CASE p # n
      BY <3>2, <1>8 DEF SetupInv, ProcInv, Unsettled
    <3> QED
      BY <3>1, <3>2
  <2> QED
    BY <1>3, <1>9, <2>1 DEF ProcInv
<1>15. RecordInv'
  <2>1. ASSUME NEW k \in Known PROVE Record(m.ses[k], k)'
    <3>1. Record(m.ses[k], k) /\ m'.ses[k] = m.ses[k] /\ thr'[k] = thr[k] /\ k \in SessionIds
      BY <1>3, KnownIds DEF SetupInv, RecordInv
    <3>2. CASE k = n
      BY <3>1, <3>2, <1>3, <1>4, <1>8 DEF Record
    <3>3. CASE k # n
      BY <3>1, <3>3, <1>8 DEF Record
    <3> QED
      BY <3>2, <3>3
  <2> QED
    BY <1>9, <2>1 DEF RecordInv
<1>16. AttemptInv'
  BY <1>3, <1>10 DEF SetupInv, AttemptInv, Sound
<1>17. TaskOK(r)'
  <2>1. task'[r].n = n
    BY <1>2, <1>6 DEF Spawned
  <2>2. l.out = "clean" => ~Unsettled(task[r].n)'
    BY <1>2, <1>8, <2>1 DEF Spawned, Unsettled
  <2>3. /\ l.out # "pending" /\ (l.out = "ok" => c.tree # "none") /\ l.n = n
        /\ l.owner = task[r].owner /\ l.sel = task[r].sel /\ l.token = task[r].token
    BY <1>2 DEF Spawned
  <2>4. l.pc \in {"spawning", "reaping"}
    BY <1>3, <1>5
  <2> QED
    BY <1>3, <1>4, <1>6, <1>8, <2>2, <2>3, <2>4 DEF TaskOK, Launching
<1>18. TaskInv'
  BY <1>4, <1>6, <1>10, <1>17, HolderTasks
<1>19. ClosingInv'
  BY <1>3, <1>5, <1>6, ClosingKept
<1>20. NoLingeringClient'
  BY <1>3 DEF SetupInv, NoLingeringClient
<1> QED
  BY <1>7, <1>11, <1>12, <1>13, <1>14, <1>15, <1>16, <1>18, <1>19, <1>20 DEF SetupInv

\* A proven-clean failure leaves the manager free for another launch.
LEMMA BaseFailed ==
  ASSUME SetupInv, NEW r \in Requests, task[r].pc \in Launching, task[r].out = "clean",
         NEW n, n = task[r].n, NEW e, e = FailSpawn(m, n, TRUE, task[r].cleanup),
         conn' = Hang(m.ses[n].subs), NEW mm, SameSessions(mm, e), Derived(mm.att, e.att)
  PROVE  Base(mm, r)
<1>1. /\ n \in Known /\ n = m.session /\ n \in SessionIds
      /\ \A x \in Tasks \ {r} : task[x].pc \notin Holding
  BY Launcher
<1>2. e = FailSpawn(m, n, task[r].out = "clean", task[r].cleanup)
  OBVIOUS
<1>3. PICK s : /\ Rewrites(e, m, n, s) /\ Keeps(m.att, e.att) /\ Record(s, n)
               /\ e.session = 0 /\ ~Unsettled(n)
               /\ m.att.session = n => e.att.cancelled
  BY <1>2, SpawnFailed
<1>4. /\ mm \in Managers /\ mm.ses = e.ses /\ mm.session = 0 /\ mm.closing = m.closing
      /\ Len(mm.ses) = Len(m.ses)
      /\ e.ses[n] = s /\ \A k \in Known : k # n => e.ses[k] = m.ses[k]
  BY <1>3 DEF SameSessions, Rewrites, Known
<1>5. \A k \in Known : Record(mm.ses[k], k)
  BY <1>3, <1>4 DEF SetupInv, RecordInv
<1>6. Sound(mm.att, mm.ses, mm.session)
  <2>1. Sound(m.att, m.ses, m.session)
    BY DEF SetupInv, AttemptInv
  <2>2. /\ e.att.id = m.att.id /\ e.att.session = m.att.session /\ e.att.ack = m.att.ack
        /\ m.att.cancelled => e.att.cancelled
        /\ m.att = NoAttempt => e.att = NoAttempt
    BY <1>3 DEF Keeps
  <2>3. ASSUME e.att.session # 0, ~e.att.cancelled PROVE e.ses[e.att.session].finalized
    <3>1. m.att.session # n /\ m.att.session # 0 /\ ~m.att.cancelled
      BY <1>3, <2>2, <2>3
    <3>2. m.ses[m.att.session].finalized /\ m.att.session \in Known
      BY <3>1, <2>1, <1>1 DEF Sound, Known
    <3> QED
      BY <3>1, <3>2, <2>2, <1>4
  <2>4. Sound(e.att, e.ses, 0)
    <3>1. Len(e.ses) = Len(m.ses)
      BY <1>4
    <3> QED
      BY <2>1, <2>2, <2>3, <3>1 DEF Sound
  <2> QED
    BY <2>4, <1>4, DerivedSound
<1>7. \A p \in SessionIds : ~Unsettled(p)
  BY <1>1, <1>3 DEF SetupInv, ProcInv
<1>8. \A c \in Conns : conn'[c] = 0
  <2>1. ASSUME NEW c \in Conns, conn'[c] # 0 PROVE FALSE
    <3>1. conn[c] # 0 /\ c \notin m.ses[n].subs
      BY <2>1 DEF Hang
    <3> QED
      BY <3>1, <1>1 DEF SetupInv, NoLingeringClient
  <2> QED
    BY <2>1
<1> QED
  BY <1>1, <1>4, <1>5, <1>6, <1>7, <1>8 DEF Base

\* A launch whose tree is up keeps the invariant: the record runs (start).
LEMMA StartRunsStep ==
  ASSUME SetupInv, NEW r \in Requests, StartReturns(r), task[r].out = "ok"
  PROVE  SetupInv'
<1> USE TaskNames
<1>1. PICK n : n = task[r].n
  OBVIOUS
<1>2. /\ task[r].pc = "spawning" /\ task[r].pc \in Launching
      /\ m' = [m EXCEPT !.ses[n] = [@ EXCEPT !.proc = TRUE, !.state = "running",
                                             !.reader = "reading"]]
      /\ lifecycle' = Tail(lifecycle)
      /\ task' = [task EXCEPT ![r] = Idle, ![Sweeper] = IF @.pc = "off" THEN Idle ELSE @]
      /\ UNCHANGED <<thr, procs, unconfirmed, conn, revision, terminals, used>>
  BY <1>1 DEF StartReturns, Launching
<1>3. /\ n \in Known /\ n \in SessionIds /\ n = m.session /\ n # 0 /\ r \in Tasks
      /\ m \in Managers /\ m.ses[n] \in Sessions /\ Record(m.ses[n], n)
      /\ m.ses[n].state = "starting" /\ ~m.ses[n].finalized
      /\ procs[n].tree # "none"
      /\ QueueFor(lifecycle, r) /\ Head(lifecycle) = r
      /\ \A x \in Tasks \ {r} : task[x].pc \notin Holding
  BY <1>1, <1>2, Launcher
<1>4. PICK s : s = [m.ses[n] EXCEPT !.proc = TRUE, !.state = "running", !.reader = "reading"]
  OBVIOUS
<1>5. /\ s \in Sessions /\ s.state = "running" /\ s.finalized = m.ses[n].finalized
      /\ s.evidence = m.ses[n].evidence /\ s.code = m.ses[n].code /\ s.reader = "reading"
      /\ s.cleanup = m.ses[n].cleanup /\ s.subs = m.ses[n].subs
  BY <1>3, <1>4 DEF Sessions
<1>6. m' = [m EXCEPT !.ses[n] = s]
  BY <1>2, <1>4
<1>7. Rewrites(m', m, n, s) /\ m'.session = m.session /\ m'.att = m.att
  <2>1. n \in 1 .. Len(m.ses)
    BY <1>3 DEF Known
  <2>2. \A d : d = [m EXCEPT !.ses[n] = s] =>
           Rewrites(d, m, n, s) /\ d.session = m.session /\ d.att = m.att
    BY <2>1, <1>3, <1>5, SessionExcept
  <2> QED
    BY <2>2, <1>6
<1>8. Record(s, n)'
  BY <1>2, <1>3, <1>5 DEF Record, Active
<1>9. Keeps(m.att, m'.att)
  BY <1>7 DEF Keeps
<1>10. /\ m' \in Managers /\ Len(m'.ses) = Len(m.ses) /\ Known' = Known
       /\ m'.session \in {0} \cup Known
       /\ m'.ses[n] = s /\ \A k \in Known \ {n} : m'.ses[k] = m.ses[k]
       /\ ProcInv' /\ RecordInv' /\ AttemptInv' /\ Credentials' = Credentials
  BY <1>2, <1>3, <1>5, <1>7, <1>8, <1>9, Rewritten
<1>11. /\ task'[r] = Idle /\ \A x \in Tasks \ {r, Sweeper} : task'[x] = task[x]
       /\ task'[Sweeper] = IF task[Sweeper].pc = "off" THEN Idle ELSE task[Sweeper]
       /\ task' \in [Tasks -> Locals] /\ Idle.pc = "idle"
  BY <1>2, IdleType DEF SetupInv, TypeInv
<1>12. \A x \in Tasks : task'[x].pc \in Pcs(x)
  BY <1>11, RequestPcs, SweeperPcs DEF SetupInv, TypeInv
<1>13. LockInv' /\ lifecycle' \in Seq(Tasks)
  <2>1. "idle" \notin Queued /\ "off" \notin Queued
    BY DEF Queued, Waiting, Holding, Launching
  <2>2. \A x \in Tasks \ {r} : SameClass(x)
    BY <1>11, <2>1 DEF SameClass, Queued
  <2> QED
    BY <1>2, <1>3, <1>11, <2>1, <2>2, Release
<1>14. ThreadInv'
  BY <1>2, <1>10 DEF SetupInv, ThreadInv
<1>15. TypeInv'
  BY <1>2, <1>10, <1>11, <1>12, <1>13 DEF SetupInv, TypeInv
<1>16. CountInv'
  <2>1. \A x \in Tasks : task'[x].pc = "lockStart" => task[x].pc = "lockStart"
    BY <1>11
  <2> QED
    BY <1>2, <1>10, <2>1, Counted
<1>17. TaskInv'
  <2>1. ASSUME NEW x \in Tasks PROVE TaskOK(x)'
    <3>1. CASE task'[x] = Idle
      BY <3>1, <1>11, QuietTask
    <3>2. CASE task'[x] # Idle
      <4>1. task'[x] = task[x] /\ x # r
        BY <3>2, <1>11
      <4> QED
        BY <4>1, <1>3, <1>10, TaskKept DEF SetupInv
    <3> QED
      BY <3>1, <3>2
  <2> QED
    BY <2>1 DEF TaskInv
<1>18. ClosingInv'
  <2>1. \A x \in Tasks : task'[x].pc \notin Launching
    <3>1. "idle" \notin Launching
      BY DEF Launching
    <3> QED
      BY <3>1, <1>3, <1>11 DEF Holding
  <2>2. task'[Shutdown] = task[Shutdown] /\ m'.closing = m.closing
    BY <1>7, <1>11 DEF Rewrites
  <2>3. task[Shutdown].pc # "down"
    BY <1>2 DEF SetupInv, ClosingInv
  <2> QED
    BY <2>1, <2>2, <2>3 DEF ClosingInv, SetupInv
<1>19. NoLingeringClient'
  <2>1. conn' = Hang({})
    BY <1>2, HangNone
  <2>2. m'.session = m.session /\ ~m'.ses[m.session].finalized
        /\ m.ses[m.session].subs \subseteq m'.ses[m.session].subs
    BY <1>3, <1>5, <1>7, <1>10
  <2> QED
    BY <2>1, <2>2, Clients
<1> QED
  BY <1>10, <1>13, <1>14, <1>15, <1>16, <1>17, <1>18, <1>19 DEF SetupInv

\* A launch that returns, running or failed, keeps the invariant (start).
LEMMA StartReturnsStep ==
  ASSUME SetupInv, NEW r \in Requests, StartReturns(r)
  PROVE  SetupInv'
<1> USE TaskNames
<1>1. PICK n : n = task[r].n
  OBVIOUS
<1>2. /\ task[r].pc = "spawning" /\ task[r].pc \in Launching /\ task[r].out # "pending"
      /\ UNCHANGED <<thr, procs, unconfirmed, revision, terminals, used>>
  BY DEF StartReturns, Launching
<1>3. /\ task[r] \in Locals /\ r \in Tasks /\ m \in Managers
      /\ task[r].owner \in Owners /\ task[r].sel \in Selections
  BY <1>2, Launcher
<1>4. CASE task[r].out = "ok"
  BY <1>4, StartRunsStep
<1>5. CASE task[r].out = "uncertain"
  <2>1. /\ m' = FailSpawn(m, n, task[r].out = "clean", task[r].cleanup)
        /\ Answer(r, lifecycle) /\ conn' = Hang(m.ses[n].subs)
    BY <1>1, <1>5 DEF StartReturns
  <2> QED
    BY <1>1, <1>2, <1>5, <2>1, FailedAnswers
<1>6. CASE task[r].out = "clean"
  <2>1. PICK e : e = FailSpawn(m, n, TRUE, task[r].cleanup)
    OBVIOUS
  <2>2. PICK p : p = PrepareCompletion(e, task[r].owner, task[r].sel)
    OBVIOUS
  <2>3. PICK q : q = Append(Tail(lifecycle), r)
    OBVIOUS
  <2>4. PICK l : l = [task[r] EXCEPT !.token = p.token, !.n = 0, !.out = "pending"]
    OBVIOUS
  <2>5. e = FailSpawn(m, n, task[r].out = "clean", task[r].cleanup)
    BY <1>6, <2>1
  <2>6. /\ conn' = Hang(m.ses[n].subs)
        /\ IF p.ok THEN Proceed(p.m, r, l, q, FALSE)
           ELSE m' = p.m /\ Answer(r, lifecycle)
    BY <1>1, <1>6, <2>2, <2>3, <2>4, <2>5 DEF StartReturns
  <2>7. e \in Managers
    BY <1>1, <1>2, <1>6, <2>5, SpawnFailed DEF Rewrites
  <2>8. /\ SameSessions(p.m, e) /\ Derived(p.m.att, e.att)
        /\ p.ok => p.token \in Nat \ {0}
    BY <1>3, <2>2, <2>7, PrepareFacts
  <2>9. CASE ~p.ok
    <3>1. p.m = e
      BY <2>2, <2>9 DEF PrepareCompletion
    <3>2. m' = FailSpawn(m, n, task[r].out = "clean", task[r].cleanup) /\ Answer(r, lifecycle)
      BY <3>1, <2>5, <2>6, <2>9
    <3> QED
      BY <1>1, <1>2, <1>6, <2>6, <3>2, FailedAnswers
  <2>10. CASE p.ok
    <3>1. Base(p.m, r)
      BY <1>1, <1>2, <1>6, <2>1, <2>6, <2>8, BaseFailed
    <3>2. QueueFor(q, r)
      <4>1. task[r].pc \in Holding
        BY <1>2 DEF Holding
      <4> QED
        BY <2>3, <4>1, <1>3, QueueRejoined DEF SetupInv, TypeInv
    <3>3. /\ l \in Locals /\ l.owner \in Owners /\ l.sel \in Selections
          /\ l.token # 0 /\ l.out = "pending"
      <4>1. PICK t \in Nat \ {0} : t = p.token
        BY <2>8, <2>10
      <4>2. l = [task[r] EXCEPT !.token = t, !.n = 0, !.out = "pending"]
        BY <2>4, <4>1
      <4>3. /\ l \in Locals /\ l.owner = task[r].owner /\ l.sel = task[r].sel /\ l.token = t
            /\ l.out = "pending"
        BY <4>1, <4>2, <1>3 DEF Locals
      <4> QED
        BY <4>1, <4>3, <1>3
    <3>4. /\ used' \in [launch : Nat, all : Nat, cancel : Nat] /\ used'.launch = used.launch
          /\ conn' \in [Conns -> {0} \cup SessionIds]
      BY <1>2, <2>6 DEF SetupInv, TypeInv, Hang
    <3>5. Proceed(p.m, r, l, q, FALSE)
      BY <2>6, <2>10
    <3>6. /\ SetupRest'
          /\ \A x \in Tasks \ {r} : task'[x] = task[x]
          /\ Len(m'.ses) = Len(m.ses)
          /\ task'[r].pc # "lockStart"
      BY <1>2, <3>1, <3>2, <3>3, <3>4, <3>5, ProceedStep
    <3>7. CountInv'
      <4>1. \A x \in Tasks : task'[x].pc = "lockStart" => task[x].pc = "lockStart"
        BY <3>6
      <4> QED
        BY <3>4, <3>6, <4>1, Counted
    <3> QED
      BY <3>6, <3>7 DEF SetupInv, SetupRest
  <2> QED
    BY <2>9, <2>10
<1> QED
  BY <1>2, <1>3, <1>4, <1>5, <1>6 DEF Locals

\* The start of shutdown, which cancels the sweeper, keeps the invariant.
LEMMA ShutdownBeginsStep ==
  ASSUME SetupInv, ShutdownBegins
  PROVE  SetupInv'
<1> USE TaskNames
<1>1. PICK k : k = [Idle EXCEPT !.pc = IF task[Sweeper].pc = "stopping" THEN "orphan" ELSE "off"]
  OBVIOUS
<1>2. /\ task[Shutdown] = Idle /\ m' = [m EXCEPT !.closing = TRUE] /\ LeaveQueue(Sweeper)
      /\ task' = [task EXCEPT ![Shutdown].pc = "closing", ![Sweeper] = k]
      /\ UNCHANGED <<thr, procs, unconfirmed, conn, revision, terminals, used>>
  BY <1>1 DEF ShutdownBegins
<1>3. k \in Locals /\ k.pc \in {"orphan", "off"}
  <2>1. PICK pc : pc = IF task[Sweeper].pc = "stopping" THEN "orphan" ELSE "off"
    OBVIOUS
  <2>2. pc \in {"orphan", "off"} /\ pc \in Steps
    BY <2>1 DEF Steps
  <2>3. k = [Idle EXCEPT !.pc = pc]
    BY <1>1, <2>1
  <2> QED
    BY <2>2, <2>3, IdlePc
<1>4. PICK d : d = [Idle EXCEPT !.pc = "closing"]
  OBVIOUS
<1>5. d \in Locals /\ d.pc = "closing"
  <2>1. "closing" \in Steps
    BY DEF Steps
  <2> QED
    BY <2>1, <1>4, IdlePc
<1>6. task' = [task EXCEPT ![Shutdown] = d, ![Sweeper] = k]
  BY <1>2, <1>4 DEF SetupInv, TypeInv
<1>7. /\ task' \in [Tasks -> Locals] /\ task'[Shutdown] = d /\ task'[Sweeper] = k
      /\ \A x \in Tasks \ {Shutdown, Sweeper} : task'[x] = task[x]
  BY <1>3, <1>5, <1>6 DEF SetupInv, TypeInv
<1>8. \A x \in Tasks : task'[x].pc \in Pcs(x)
  BY <1>3, <1>5, <1>7, SweeperPcs DEF SetupInv, TypeInv
<1>9. /\ m' \in Managers /\ m'.ses = m.ses /\ m'.session = m.session /\ m'.att = m.att
      /\ m'.closing = TRUE /\ Known' = Known
  BY <1>2 DEF SetupInv, TypeInv, Managers, Known
<1>10. task[Shutdown].pc = "idle" /\ "idle" \notin Queued /\ d.pc \notin Queued /\ k.pc \notin Queued
  BY <1>2, <1>3, <1>5, IdleType DEF Queued, Waiting, Holding, Launching
<1>11. LockInv' /\ lifecycle' \in Seq(Tasks)
  <2>1. /\ lifecycle' \in Seq(Tasks) /\ Distinct(lifecycle')
        /\ Members(lifecycle') = Members(lifecycle) \ {Sweeper}
        /\ Members(lifecycle) # {} /\ Head(lifecycle) # Sweeper => Head(lifecycle') = Head(lifecycle)
    BY <1>2, LeaveQueueFacts DEF SetupInv, TypeInv, LockInv
  <2>2. ASSUME NEW x \in Tasks
        PROVE  /\ task'[x].pc \in Queued <=> x \in Members(lifecycle')
               /\ task'[x].pc \in Holding => Head(lifecycle') = x
    <3>1. /\ task[x].pc \in Queued <=> x \in Members(lifecycle)
          /\ task[x].pc \in Holding => Head(lifecycle) = x
      BY DEF SetupInv, LockInv, Queued
    <3>2. CASE x \in {Shutdown, Sweeper}
      <4>1. task'[x].pc \notin Queued /\ task'[x].pc \notin Holding
        BY <3>2, <1>7, <1>10 DEF Queued
      <4>2. x \notin Members(lifecycle')
        BY <3>1, <3>2, <2>1, <1>10
      <4> QED
        BY <4>1, <4>2
    <3>3. CASE x \notin {Shutdown, Sweeper}
      <4>1. task'[x] = task[x] /\ (x \in Members(lifecycle) <=> x \in Members(lifecycle'))
        BY <3>3, <1>7, <2>1
      <4>2. task[x].pc \in Holding => x \in Members(lifecycle) /\ Head(lifecycle) # Sweeper
        BY <3>1, <3>3 DEF Queued
      <4> QED
        BY <3>1, <4>1, <4>2, <2>1
    <3> QED
      BY <3>2, <3>3
  <2> QED
    BY <2>1, <2>2 DEF LockInv, Queued
<1>12. TypeInv'
  BY <1>2, <1>7, <1>8, <1>9, <1>11 DEF SetupInv, TypeInv
<1>13. CountInv'
  <2>1. \A x \in Tasks : task'[x].pc = "lockStart" => task[x].pc = "lockStart"
    BY <1>3, <1>5, <1>7
  <2> QED
    BY <1>2, <1>9, <2>1, Counted
<1>14. ThreadInv' /\ ProcInv' /\ RecordInv' /\ NoLingeringClient'
  BY <1>2, <1>9 DEF SetupInv, ThreadInv, ProcInv, Unsettled, RecordInv, Record, NoLingeringClient
<1>15. Credentials' = Credentials /\ AttemptInv'
  BY <1>2, <1>9 DEF SetupInv, AttemptInv, Sound, Credentials
<1>16. TaskInv'
  <2>1. ASSUME NEW x \in Tasks \ {Shutdown, Sweeper} PROVE TaskOK(x)'
    <3>1. \A n : (Unborn(n) => Unborn(n)') /\ (Unsettled(n)' <=> Unsettled(n))
      BY <1>2 DEF Unborn, Unsettled
    <3>2. task'[x] = task[x] /\ TaskInv
      BY <1>7 DEF SetupInv
    <3> QED
      BY <1>2, <1>9, <1>15, <3>1, <3>2, TaskStands
  <2>2. ASSUME NEW x \in {Shutdown, Sweeper} PROVE TaskOK(x)'
    BY <2>2, <1>3, <1>5, <1>7, QuietTask
  <2> QED
    BY <2>1, <2>2 DEF TaskInv
<1>17. ClosingInv'
  BY <1>5, <1>7, <1>9 DEF ClosingInv
<1> QED
  BY <1>11, <1>12, <1>13, <1>14, <1>15, <1>16, <1>17 DEF SetupInv

----
(* The reader, the clients and the threads.                                  *)

\* A step that rewrites the record of one session, or its thread, and leaves
\* the tasks and the processes alone.
LEMMA RecordStep ==
  ASSUME SetupInv, NEW n \in Known, NEW s, Rewrites(m', m, n, s), Keeps(m.att, m'.att),
         m'.session = m.session, m.ses[n].finalized => s.finalized,
         ConfirmedGone(m.ses[n]) => ConfirmedGone(s), Record(s, n)',
         UNCHANGED <<lifecycle, task, procs, unconfirmed, revision, terminals, used>>,
         \/ m.ses[n].reader # "none"
         \/ /\ thr' = thr /\ s.state = m.ses[n].state /\ s.proc = m.ses[n].proc
            /\ s.reader = m.ses[n].reader /\ s.code = m.ses[n].code,
         \A x \in (Tasks \cup SessionIds) \ {n} : thr'[x] = thr[x],
         thr' = thr \/ thr'[n] = NoThread \/ thr'[n].on = {n},
         ThreadInv', thr' \in [Tasks \cup SessionIds -> Threads],
         NoLingeringClient', conn' \in [Conns -> {0} \cup SessionIds]
  PROVE  SetupInv'
<1>1. \A k \in Known : k \in SessionIds /\ k \notin Tasks
  BY KnownIds, TaskNames
<1>2. \A k \in Known \ {n} : thr'[k] = thr[k]
  BY <1>1
<1>3. /\ m' \in Managers /\ Len(m'.ses) = Len(m.ses) /\ Known' = Known
      /\ m'.session \in {0} \cup Known
      /\ m'.ses[n] = s /\ \A k \in Known \ {n} : m'.ses[k] = m.ses[k]
      /\ ProcInv' /\ RecordInv' /\ AttemptInv' /\ Credentials' = Credentials
  BY <1>2, Rewritten
<1>4. TypeInv'
  BY <1>3 DEF SetupInv, TypeInv
<1>5. LockInv'
  BY DEF SetupInv, LockInv
<1>6. CountInv'
  BY <1>3, Counted
<1>7. m.session # 0 => m.session \in Known
  BY DEF SetupInv, TypeInv
<1>8. TaskInv'
  <2>1. ASSUME NEW x \in Tasks PROVE TaskOK(x)'
    <3>1. PICK k : k = task[x].n
      OBVIOUS
    <3>2. \A j : Unsettled(j)' <=> Unsettled(j)
      BY DEF Unsettled
    <3>3. ASSUME task[x].pc \in Launching
          PROVE  /\ m'.ses[k].state = m.ses[k].state /\ m'.ses[k].proc = m.ses[k].proc
                 /\ m'.ses[k].reader = m.ses[k].reader /\ m'.ses[k].code = m.ses[k].code
                 /\ Unborn(k) => Unborn(k)'
      <4>1. k \in Known /\ m.ses[k].reader = "none"
        BY <3>1, <3>3, <1>7 DEF SetupInv, TaskInv, TaskOK
      <4>2. CASE k = n
        <5>1. /\ thr' = thr /\ s.state = m.ses[n].state /\ s.proc = m.ses[n].proc
              /\ s.reader = m.ses[n].reader /\ s.code = m.ses[n].code
          BY <4>1, <4>2
        <5> QED
          BY <5>1, <4>2, <1>3 DEF Unborn
      <4>3. CASE k # n
        <5>1. \A y \in Tasks \cup SessionIds : thr'[y].pc # "none" =>
                thr'[y].on = {n} \/ thr'[y] = thr[y]
          BY DEF NoThread
        <5>2. Unborn(k) => Unborn(k)'
          BY <4>3, <5>1 DEF Unborn
        <5> QED
          BY <4>1, <4>3, <5>2, <1>3
      <4> QED
        BY <4>2, <4>3
    <3>4. m.session # 0 /\ ConfirmedGone(m.ses[m.session]) => ConfirmedGone(m'.ses[m.session])
      BY <1>3, <1>7
    <3>5. thr'[x] = thr[x] /\ TaskInv
      BY <1>1 DEF SetupInv
    <3> QED
      BY <1>3, <3>1, <3>2, <3>3, <3>4, <3>5, TaskStands
  <2> QED
    BY <2>1 DEF TaskInv
<1>9. ClosingInv'
  <2>1. m'.closing = m.closing
    BY DEF Rewrites
  <2>2. m.session # 0 /\ m.ses[m.session].finalized => m'.ses[m.session].finalized
    BY <1>3, <1>7
  <2> QED
    BY <2>1, <2>2 DEF SetupInv, ClosingInv
<1> QED
  BY <1>3, <1>4, <1>5, <1>6, <1>8, <1>9 DEF SetupInv

\* Output of the session keeps the invariant (the reader's thread).
LEMMA ReadChunkStep ==
  ASSUME SetupInv, NEW n \in Known, ReadChunk(n)
  PROVE  SetupInv'
<1>1. PICK cs \in SUBSET m.ses[n].subs \ {{}} :
        /\ m.session = n /\ ~m.ses[n].finalized /\ m.ses[n].reader = "reading"
        /\ m' = [m EXCEPT !.ses[n].subs = @ \ cs]
        /\ conn' = Hang(cs)
        /\ UNCHANGED <<lifecycle, task, thr, procs, unconfirmed, revision, terminals, used>>
  BY DEF ReadChunk
<1>2. PICK s : s = [m.ses[n] EXCEPT !.subs = @ \ cs]
  OBVIOUS
<1>3. n \in 1 .. Len(m.ses) /\ m \in Managers /\ m.ses[n] \in Sessions /\ Record(m.ses[n], n)
  BY KnownIds DEF SetupInv, TypeInv, Managers, RecordInv
<1>4. s \in Sessions /\ s.subs = m.ses[n].subs \ cs /\ s.finalized = m.ses[n].finalized
      /\ s.state = m.ses[n].state /\ s.evidence = m.ses[n].evidence /\ s.code = m.ses[n].code
      /\ s.reader = m.ses[n].reader /\ s.cleanup = m.ses[n].cleanup /\ s.proc = m.ses[n].proc
  BY <1>2, <1>3 DEF Sessions
<1>5. m' = [m EXCEPT !.ses[n] = s]
  BY <1>1, <1>2
<1>6. Rewrites(m', m, n, s) /\ m'.session = m.session /\ m'.att = m.att
  BY <1>3, <1>4, <1>5, SessionExcept
<1>7. Keeps(m.att, m'.att)
  BY <1>6 DEF Keeps
<1>8. Record(s, n)'
  BY <1>1, <1>3, <1>4 DEF Record
<1>9. NoLingeringClient' /\ conn' \in [Conns -> {0} \cup SessionIds]
  <2>1. m'.session = m.session /\ ~m'.ses[m.session].finalized
        /\ m.ses[m.session].subs \ cs \subseteq m'.ses[m.session].subs
    BY <1>1, <1>4, <1>6 DEF Rewrites
  <2> QED
    BY <1>1, <2>1, Clients
<1>10. ThreadInv' /\ thr' \in [Tasks \cup SessionIds -> Threads]
  <2>1. Known' = Known
    BY <1>6 DEF Rewrites, Known
  <2> QED
    BY <1>1, <2>1 DEF SetupInv, TypeInv, ThreadInv
<1> QED
  BY <1>1, <1>4, <1>6, <1>7, <1>8, <1>9, <1>10, RecordStep DEF ConfirmedGone

\* A client that attaches keeps the invariant (attach).
LEMMA AttachStep ==
  ASSUME SetupInv, NEW c \in Conns, Attach(c)
  PROVE  SetupInv'
<1>1. PICK n : n = m.session
  OBVIOUS
<1>2. /\ n # 0 /\ ~m.ses[n].finalized
      /\ m' = [m EXCEPT !.ses[n].subs = @ \cup {c}]
      /\ conn' = [conn EXCEPT ![c] = n]
      /\ UNCHANGED <<lifecycle, task, thr, procs, unconfirmed, revision, terminals, used>>
  BY <1>1 DEF Attach
<1>3. PICK s : s = [m.ses[n] EXCEPT !.subs = @ \cup {c}]
  OBVIOUS
<1>4. /\ n \in Known /\ n \in SessionIds /\ n \in 1 .. Len(m.ses) /\ m \in Managers
      /\ m.ses[n] \in Sessions /\ Record(m.ses[n], n)
  BY <1>1, <1>2, KnownIds DEF SetupInv, TypeInv, Managers, RecordInv
<1>5. s \in Sessions /\ s.subs = m.ses[n].subs \cup {c} /\ s.finalized = m.ses[n].finalized
      /\ s.state = m.ses[n].state /\ s.evidence = m.ses[n].evidence /\ s.code = m.ses[n].code
      /\ s.reader = m.ses[n].reader /\ s.cleanup = m.ses[n].cleanup /\ s.proc = m.ses[n].proc
  BY <1>3, <1>4 DEF Sessions
<1>6. m' = [m EXCEPT !.ses[n] = s]
  BY <1>2, <1>3
<1>7. Rewrites(m', m, n, s) /\ m'.session = m.session /\ m'.att = m.att
  BY <1>4, <1>5, <1>6, SessionExcept
<1>8. Keeps(m.att, m'.att)
  BY <1>7 DEF Keeps
<1>9. Record(s, n)'
  BY <1>2, <1>4, <1>5 DEF Record
<1>10. NoLingeringClient' /\ conn' \in [Conns -> {0} \cup SessionIds]
  <2>1. conn \in [Conns -> {0} \cup SessionIds]
    BY DEF SetupInv, TypeInv
  <2>2. conn' \in [Conns -> {0} \cup SessionIds] /\ conn'[c] = n
        /\ \A d \in Conns \ {c} : conn'[d] = conn[d]
    BY <2>1, <1>2, <1>4
  <2>3. m'.session = n /\ ~m'.ses[n].finalized /\ m'.ses[n].subs = m.ses[n].subs \cup {c}
    BY <1>1, <1>2, <1>5, <1>7 DEF Rewrites
  <2> QED
    BY <2>2, <2>3, <1>1, <1>2 DEF SetupInv, NoLingeringClient
<1>11. ThreadInv' /\ thr' \in [Tasks \cup SessionIds -> Threads]
  <2>1. Known' = Known
    BY <1>7 DEF Rewrites, Known
  <2> QED
    BY <1>2, <2>1 DEF SetupInv, TypeInv, ThreadInv
<1> QED
  BY <1>2, <1>4, <1>5, <1>7, <1>8, <1>9, <1>10, <1>11, RecordStep DEF ConfirmedGone

\* A client that leaves keeps the invariant (detach).
LEMMA DetachStep ==
  ASSUME SetupInv, NEW c \in Conns, Detach(c)
  PROVE  SetupInv'
<1>1. PICK n : n = conn[c]
  OBVIOUS
<1>2. /\ n # 0
      /\ m' = [m EXCEPT !.ses[n].subs = @ \ {c}]
      /\ conn' = [conn EXCEPT ![c] = 0]
      /\ UNCHANGED <<lifecycle, task, thr, procs, unconfirmed, revision, terminals, used>>
  BY <1>1 DEF Detach, DropClient
<1>3. PICK s : s = [m.ses[n] EXCEPT !.subs = @ \ {c}]
  OBVIOUS
<1>4. n = m.session /\ ~m.ses[n].finalized
  BY <1>1, <1>2 DEF SetupInv, NoLingeringClient
<1>5. /\ n \in Known /\ n \in 1 .. Len(m.ses) /\ m \in Managers
      /\ m.ses[n] \in Sessions /\ Record(m.ses[n], n)
  BY <1>2, <1>4, KnownIds DEF SetupInv, TypeInv, Managers, RecordInv
<1>6. s \in Sessions /\ s.subs = m.ses[n].subs \ {c} /\ s.finalized = m.ses[n].finalized
      /\ s.state = m.ses[n].state /\ s.evidence = m.ses[n].evidence /\ s.code = m.ses[n].code
      /\ s.reader = m.ses[n].reader /\ s.cleanup = m.ses[n].cleanup /\ s.proc = m.ses[n].proc
  BY <1>3, <1>5 DEF Sessions
<1>7. m' = [m EXCEPT !.ses[n] = s]
  BY <1>2, <1>3
<1>8. Rewrites(m', m, n, s) /\ m'.session = m.session /\ m'.att = m.att
  BY <1>5, <1>6, <1>7, SessionExcept
<1>9. Keeps(m.att, m'.att)
  BY <1>8 DEF Keeps
<1>10. Record(s, n)'
  BY <1>2, <1>5, <1>6 DEF Record
<1>11. NoLingeringClient' /\ conn' \in [Conns -> {0} \cup SessionIds]
  <2>1. conn \in [Conns -> {0} \cup SessionIds]
    BY DEF SetupInv, TypeInv
  <2>2. conn' \in [Conns -> {0} \cup SessionIds] /\ conn'[c] = 0
        /\ \A d \in Conns \ {c} : conn'[d] = conn[d]
    BY <2>1, <1>2
  <2>3. m'.session = n /\ ~m'.ses[n].finalized /\ m'.ses[n].subs = m.ses[n].subs \ {c}
    BY <1>4, <1>6, <1>8 DEF Rewrites
  <2> QED
    BY <2>2, <2>3, <1>4 DEF SetupInv, NoLingeringClient
<1>12. ThreadInv' /\ thr' \in [Tasks \cup SessionIds -> Threads]
  <2>1. Known' = Known
    BY <1>8 DEF Rewrites, Known
  <2> QED
    BY <1>2, <2>1 DEF SetupInv, TypeInv, ThreadInv
<1> QED
  BY <1>2, <1>5, <1>6, <1>8, <1>9, <1>10, <1>11, <1>12, RecordStep DEF ConfirmedGone

\* A reader's record names a session whose process was started.
LEMMA ReaderRecord ==
  ASSUME SetupInv, NEW n \in Known
  PROVE  /\ n \in SessionIds /\ n \in 1 .. Len(m.ses) /\ m \in Managers
         /\ m.ses[n] \in Sessions /\ Record(m.ses[n], n) /\ procs[n].code \in {0, 1}
         /\ procs[n].closed => procs[n].tree # "none"
<1>1. n \in SessionIds /\ n \in 1 .. Len(m.ses) /\ m \in Managers
  BY KnownIds DEF SetupInv, TypeInv
<1>2. procs[n].tree = "none" => procs[n] = NoProcess
  BY <1>1 DEF SetupInv, ProcInv
<1>3. procs[n].code \in {0, 1}
  BY <1>1 DEF SetupInv, TypeInv, Processes
<1> QED
  BY <1>1, <1>2, <1>3 DEF NoProcess, SetupInv, RecordInv, Managers

\* The end of the stream keeps the invariant (the reader's thread).
LEMMA ReadEndsStep ==
  ASSUME SetupInv, NEW n \in Known, ReadEnds(n)
  PROVE  SetupInv'
<1>1. PICK e : e = IF m.att.ack = None THEN EndAttempt(m, n, TRUE) ELSE m
  OBVIOUS
<1>2. /\ m.ses[n].reader = "reading" /\ procs[n].closed
      /\ IF m.session # n \/ m.ses[n].finalized
         THEN m' = [m EXCEPT !.ses[n].reader = "done"] /\ UNCHANGED thr
         ELSE /\ m' = [e EXCEPT !.ses[n] = [@ EXCEPT !.eof = TRUE, !.reader = "stopping"]]
              /\ thr' = [thr EXCEPT ![n] = [pc |-> "enter", on |-> {n}]]
      /\ UNCHANGED <<lifecycle, task, procs, unconfirmed, conn, revision, terminals, used>>
  BY <1>1 DEF ReadEnds
<1>3. /\ n \in SessionIds /\ n \in 1 .. Len(m.ses) /\ m \in Managers
      /\ m.ses[n] \in Sessions /\ Record(m.ses[n], n) /\ procs[n].tree # "none"
  BY <1>2, ReaderRecord
<1>4. /\ e \in Managers /\ e.ses = m.ses /\ e.session = m.session
      /\ e.closing = m.closing /\ e.prepared = m.prepared /\ Keeps(m.att, e.att)
  <2>1. CASE m.att.ack = None
    <3>1. \A b \in BOOLEAN : \A d : d = EndAttempt(m, n, b) =>
            /\ d \in Managers /\ d.ses = m.ses /\ d.session = m.session
            /\ d.closing = m.closing /\ d.prepared = m.prepared /\ Keeps(m.att, d.att)
      BY <1>3, EndAttemptFacts
    <3>2. e = EndAttempt(m, n, TRUE)
      BY <1>1, <2>1
    <3> QED
      BY <3>1, <3>2
  <2>2. CASE m.att.ack # None
    BY <2>2, <1>1, <1>3 DEF Keeps
  <2> QED
    BY <2>1, <2>2
<1>5. CASE m.session # n \/ m.ses[n].finalized
  <2>1. PICK s : s = [m.ses[n] EXCEPT !.reader = "done"]
    OBVIOUS
  <2>2. s \in Sessions /\ s.subs = m.ses[n].subs /\ s.finalized = m.ses[n].finalized
        /\ s.state = m.ses[n].state /\ s.evidence = m.ses[n].evidence /\ s.code = m.ses[n].code
        /\ s.reader = "done" /\ s.cleanup = m.ses[n].cleanup /\ s.proc = m.ses[n].proc
    BY <1>3, <2>1 DEF Sessions
  <2>3. m' = [m EXCEPT !.ses[n] = s] /\ thr' = thr
    BY <1>2, <1>5, <2>1
  <2>4. Rewrites(m', m, n, s) /\ m'.session = m.session /\ m'.att = m.att
    BY <1>3, <2>2, <2>3, SessionExcept
  <2>5. Keeps(m.att, m'.att) /\ Record(s, n)'
    BY <1>2, <1>3, <2>2, <2>4 DEF Keeps, Record
  <2>6. NoLingeringClient' /\ conn' \in [Conns -> {0} \cup SessionIds]
    <3>1. conn' = Hang({})
      BY <1>2, HangNone
    <3>2. ASSUME m.session # 0, ~m.ses[m.session].finalized
          PROVE  ~m'.ses[m.session].finalized /\ m'.ses[m.session].subs = m.ses[m.session].subs
      BY <3>2, <2>2, <2>4 DEF Rewrites, SetupInv, TypeInv, Known
    <3> QED
      BY <3>1, <3>2, <2>4, Clients
  <2>7. ThreadInv' /\ thr' \in [Tasks \cup SessionIds -> Threads]
    <3>1. Known' = Known
      BY <2>4 DEF Rewrites, Known
    <3> QED
      BY <1>2, <2>3, <3>1 DEF SetupInv, TypeInv, ThreadInv
  <2> QED
    BY <1>2, <2>2, <2>3, <2>4, <2>5, <2>6, <2>7, RecordStep DEF ConfirmedGone
<1>6. CASE m.session = n /\ ~m.ses[n].finalized
  <2>1. PICK s : s = [m.ses[n] EXCEPT !.eof = TRUE, !.reader = "stopping"]
    OBVIOUS
  <2>2. s \in Sessions /\ s.subs = m.ses[n].subs /\ s.finalized = m.ses[n].finalized
        /\ s.state = m.ses[n].state /\ s.evidence = m.ses[n].evidence /\ s.code = m.ses[n].code
        /\ s.reader = "stopping" /\ s.cleanup = m.ses[n].cleanup /\ s.proc = m.ses[n].proc
    BY <1>3, <2>1 DEF Sessions
  <2>3. m' = [e EXCEPT !.ses[n] = s]
    BY <1>2, <1>4, <1>6, <2>1
  <2>4. Rewrites(m', e, n, s) /\ m'.session = e.session /\ m'.att = e.att
    BY <1>3, <1>4, <2>2, <2>3, SessionExcept
  <2>5. Rewrites(m', m, n, s) /\ m'.session = m.session /\ Keeps(m.att, m'.att)
    BY <1>4, <2>4 DEF Rewrites
  <2>6. Known' = Known
    BY <2>5 DEF Rewrites, Known
  <2>7. PICK k : k = [pc |-> "enter", on |-> {n}]
    OBVIOUS
  <2>8. /\ ThreadInv' /\ thr' \in [Tasks \cup SessionIds -> Threads] /\ thr'[n] = k
        /\ \A y \in (Tasks \cup SessionIds) \ {n} : thr'[y] = thr[y]
    <3>1. thr' = [thr EXCEPT ![n] = k]
      BY <1>2, <1>6, <2>7
    <3>2. \E j \in Known : k = [pc |-> "enter", on |-> {j}] /\ procs[j].tree # "none"
      BY <1>3, <2>7
    <3> QED
      BY <1>2, <1>3, <2>6, <3>1, <3>2, ThreadSet
  <2>9. Record(s, n)'
    BY <1>2, <1>3, <2>2, <2>7, <2>8 DEF Record
  <2>10. NoLingeringClient' /\ conn' \in [Conns -> {0} \cup SessionIds]
    <3>1. conn' = Hang({})
      BY <1>2, HangNone
    <3>2. ~m'.ses[m.session].finalized /\ m'.ses[m.session].subs = m.ses[m.session].subs
      BY <1>6, <2>2, <2>5 DEF Rewrites
    <3> QED
      BY <3>1, <3>2, <2>5, Clients
  <2>11. thr'[n].on = {n} /\ (ConfirmedGone(m.ses[n]) => ConfirmedGone(s))
    BY <2>2, <2>7, <2>8 DEF ConfirmedGone
  <2> QED
    BY <1>2, <2>2, <2>5, <2>8, <2>9, <2>10, <2>11, RecordStep
<1> QED
  BY <1>5, <1>6

\* The reader's last step, which writes the record of the ended session, keeps the
\* invariant (_finalize).
LEMMA ReaderFinalizesStep ==
  ASSUME SetupInv, NEW n \in Known, ReaderFinalizes(n)
  PROVE  SetupInv'
<1>1. PICK e : e = Finalize(m, n, thr[n].pc = "yes", TRUE, procs[n].code)
  OBVIOUS
<1>2. /\ m.ses[n].reader = "stopping" /\ thr[n].pc \in {"yes", "no"}
      /\ m' = [e EXCEPT !.ses[n].reader = "done"]
      /\ conn' = Hang(IF ConfirmedGone(m.ses[n]) THEN {} ELSE m.ses[n].subs)
      /\ thr' = [thr EXCEPT ![n] = NoThread]
      /\ UNCHANGED <<lifecycle, task, procs, unconfirmed, revision, terminals, used>>
  BY <1>1 DEF ReaderFinalizes
<1>3. /\ n \in SessionIds /\ n \in 1 .. Len(m.ses) /\ m \in Managers
      /\ m.ses[n] \in Sessions /\ Record(m.ses[n], n) /\ procs[n].code \in {0, 1, None}
  BY ReaderRecord
<1>4. PICK y \in BOOLEAN : y = (thr[n].pc = "yes")
  OBVIOUS
<1>5. y => procs[n].stopped
  <2>1. thr[n].pc # "none" /\ thr[n].on = {n}
    BY <1>2, <1>3 DEF Record
  <2> QED
    BY <2>1, <1>3, <1>4, ThreadBack
<1>6. \E t \in Sessions :
         /\ Rewrites(e, m, n, t) /\ Keeps(m.att, e.att) /\ e.session = m.session
         /\ t.finalized
         /\ t.state \notin Active /\ (t.state \in {"exited", "stopped"} => t.evidence = "confirmed")
         /\ t.evidence = "confirmed" => procs[n].stopped
         /\ t.code # None => procs[n].stopped /\ procs[n].code = t.code
         /\ t.cleanup = {} /\ t.proc = m.ses[n].proc
         /\ ConfirmedGone(m.ses[n]) => ConfirmedGone(t)
  <2>1. CASE ConfirmedGone(m.ses[n])
    <3>1. e = m
      BY <1>1, <2>1 DEF Finalize
    <3>2. PICK t : t = m.ses[n]
      OBVIOUS
    <3>3. Rewrites(e, m, n, t) /\ Keeps(m.att, e.att)
      BY <3>1, <3>2, <1>3 DEF Rewrites, Keeps
    <3> QED
      BY <3>1, <3>2, <3>3, <2>1, <1>3 DEF ConfirmedGone, Record
  <2>2. CASE ~ConfirmedGone(m.ses[n])
    <3>1. PICK c \in {0, 1, None} : c = procs[n].code
      BY <1>3
    <3>2. PICK t : t = [Ended(m.ses[n], y, TRUE \/ m.ses[n].eof, c) EXCEPT !.subs = {}]
      OBVIOUS
    <3>3. Rewrites(e, m, n, t) /\ e.session = m.session /\ Keeps(m.att, e.att)
      <4>1. e = Finalize(m, n, y, TRUE, c)
        BY <1>1, <1>4, <3>1
      <4>2. \A b \in BOOLEAN : \A d : d = Finalize(m, n, y, b, c) =>
              /\ Rewrites(d, m, n, [Ended(m.ses[n], y, b \/ m.ses[n].eof, c) EXCEPT !.subs = {}])
              /\ d.session = m.session /\ Keeps(m.att, d.att)
        BY <1>3, <2>2, FinalizeFacts
      <4>3. /\ Rewrites(e, m, n, [Ended(m.ses[n], y, TRUE \/ m.ses[n].eof, c) EXCEPT !.subs = {}])
            /\ e.session = m.session /\ Keeps(m.att, e.att)
        BY <4>1, <4>2
      <4> QED
        BY <4>3, <3>2
    <3>4. /\ t \in Sessions
          /\ t.finalized = TRUE /\ t.evidence = IF y THEN "confirmed" ELSE "unconfirmed"
          /\ t.state = IF ~y THEN "failed" ELSE "exited"
          /\ t.code = IF m.ses[n].proc /\ y THEN c ELSE m.ses[n].code
          /\ t.cleanup = m.ses[n].cleanup /\ t.proc = m.ses[n].proc
      <4>1. PICK u : u = Ended(m.ses[n], y, TRUE \/ m.ses[n].eof, c)
        OBVIOUS
      <4>2. m.ses[n].eof \in BOOLEAN
        BY <1>3 DEF Sessions
      <4>3. PICK v, x, k : /\ v = IF y THEN "confirmed" ELSE "unconfirmed"
                           /\ x = IF ~y THEN "failed" ELSE "exited"
                           /\ k = IF m.ses[n].proc /\ y THEN c ELSE m.ses[n].code
        OBVIOUS
      <4>4. u = [m.ses[n] EXCEPT !.finalized = TRUE, !.evidence = v, !.code = k, !.state = x]
        BY <4>1, <4>2, <4>3 DEF Ended
      <4>5. k \in {0, 1, None} /\ v \in {"confirmed", "unconfirmed"} /\ x \in {"failed", "exited"}
        BY <4>3, <1>3 DEF Sessions
      <4>6. /\ u \in Sessions /\ u.finalized = TRUE /\ u.evidence = v /\ u.state = x /\ u.code = k
            /\ u.cleanup = m.ses[n].cleanup /\ u.proc = m.ses[n].proc
        BY <4>4, <4>5, <1>3 DEF Sessions
      <4>7. t = [u EXCEPT !.subs = {}]
        BY <3>2, <4>1
      <4> QED
        BY <4>3, <4>6, <4>7 DEF Sessions
    <3> QED
      BY <3>1, <3>3, <3>4, <2>2, <1>3, <1>5 DEF Record, Active
  <2> QED
    BY <2>1, <2>2
<1>7. PICK t \in Sessions :
         /\ Rewrites(e, m, n, t) /\ Keeps(m.att, e.att) /\ e.session = m.session
         /\ t.finalized
         /\ t.state \notin Active /\ (t.state \in {"exited", "stopped"} => t.evidence = "confirmed")
         /\ t.evidence = "confirmed" => procs[n].stopped
         /\ t.code # None => procs[n].stopped /\ procs[n].code = t.code
         /\ t.cleanup = {} /\ t.proc = m.ses[n].proc
         /\ ConfirmedGone(m.ses[n]) => ConfirmedGone(t)
  BY <1>6
<1>8. PICK s : s = [t EXCEPT !.reader = "done"]
  OBVIOUS
<1>9. /\ s \in Sessions /\ s.reader = "done" /\ s.finalized = t.finalized /\ s.state = t.state
      /\ s.evidence = t.evidence /\ s.code = t.code /\ s.cleanup = t.cleanup /\ s.proc = t.proc
  BY <1>7, <1>8 DEF Sessions
<1>10. e \in Managers /\ e.ses[n] = t /\ n \in 1 .. Len(e.ses)
  BY <1>3, <1>7 DEF Rewrites
<1>11. m' = [e EXCEPT !.ses[n] = s]
  BY <1>2, <1>8, <1>10
<1>12. Rewrites(m', e, n, s) /\ m'.session = e.session /\ m'.att = e.att
  BY <1>9, <1>10, <1>11, SessionExcept
<1>13. Rewrites(m', m, n, s) /\ m'.session = m.session /\ Keeps(m.att, m'.att)
  BY <1>7, <1>12 DEF Rewrites
<1>14. Known' = Known
  BY <1>13 DEF Rewrites, Known
<1>15. /\ ThreadInv' /\ thr' \in [Tasks \cup SessionIds -> Threads] /\ thr'[n] = NoThread
       /\ \A x \in (Tasks \cup SessionIds) \ {n} : thr'[x] = thr[x]
  BY <1>2, <1>3, <1>14, ThreadSet
<1>16. Record(s, n)'
  BY <1>2, <1>3, <1>7, <1>9 DEF Record
<1>17. NoLingeringClient' /\ conn' \in [Conns -> {0} \cup SessionIds]
  <2>1. PICK cs : cs = IF ConfirmedGone(m.ses[n]) THEN {} ELSE m.ses[n].subs
    OBVIOUS
  <2>2. ASSUME m.session # 0, ~m.ses[m.session].finalized, m.session # n
        PROVE  /\ ~m'.ses[m.session].finalized
               /\ m'.ses[m.session].subs = m.ses[m.session].subs
    BY <2>2, <1>13 DEF Rewrites, SetupInv, TypeInv, Known
  <2>3. ~m.ses[n].finalized => m.ses[n].subs \subseteq cs
    BY <2>1 DEF ConfirmedGone
  <2>4. conn' = Hang(cs)
    BY <1>2, <2>1
  <2> QED
    BY <2>2, <2>3, <2>4, <1>13, Clients
<1>18. ConfirmedGone(m.ses[n]) => ConfirmedGone(s)
  BY <1>7, <1>9 DEF ConfirmedGone
<1> QED
  BY <1>2, <1>7, <1>9, <1>13, <1>15, <1>16, <1>17, <1>18, RecordStep

----
(* Reports, and the rest of the world.                                       *)

\* A step that changes only the attempt, and may let a request end.
LEMMA AttemptStep ==
  ASSUME SetupInv, SameSessions(m', m), AttemptInv',
         UNCHANGED <<lifecycle, thr, procs, unconfirmed, conn, revision, terminals, used>>,
         task' \in [Tasks -> Locals], \A x \in Tasks : task'[x].pc \in Pcs(x),
         \A x \in Tasks : task'[x] = task[x] \/ (task'[x] = Idle /\ x \in Requests),
         \A x \in Tasks : SameClass(x)
  PROVE  SetupInv'
<1>1. /\ m' \in Managers /\ m'.ses = m.ses /\ m'.session = m.session
      /\ m'.closing = m.closing /\ Known' = Known /\ Len(m'.ses) = Len(m.ses)
  BY DEF SameSessions, Known
<1>2. Credentials' = Credentials
  BY DEF Credentials
<1>3. LockInv' /\ lifecycle' \in Seq(Tasks)
  BY Rest DEF SetupInv, TypeInv
<1>4. TypeInv'
  BY <1>1, <1>3 DEF SetupInv, TypeInv
<1>5. CountInv'
  <2>1. \A x \in Tasks : task'[x].pc = "lockStart" => task[x].pc = "lockStart"
    BY IdleType
  <2> QED
    BY <1>1, <2>1, Counted
<1>6. ThreadInv' /\ ProcInv' /\ RecordInv' /\ NoLingeringClient'
  BY <1>1 DEF SetupInv, ThreadInv, ProcInv, Unsettled, RecordInv, Record, NoLingeringClient
<1>7. TaskInv'
  <2>1. ASSUME NEW x \in Tasks, task'[x] = task[x] PROVE TaskOK(x)'
    <3>1. \A n : (Unborn(n) => Unborn(n)') /\ (Unsettled(n)' <=> Unsettled(n))
      BY DEF Unborn, Unsettled
    <3>2. TaskInv
      BY DEF SetupInv
    <3> QED
      BY <1>1, <1>2, <2>1, <3>1, <3>2, TaskStands
  <2>2. ASSUME NEW x \in Tasks, task'[x] = Idle PROVE TaskOK(x)'
    BY <2>2, IdleType, QuietTask
  <2> QED
    BY <2>1, <2>2 DEF TaskInv
<1>8. ClosingInv'
  <2>1. task'[Shutdown] = task[Shutdown]
    BY TaskNames
  <2>2. \A x \in Tasks : task'[x].pc \in Launching => task[x].pc \in Launching
    BY IdleType DEF Launching
  <2> QED
    BY <1>1, <2>1, <2>2 DEF SetupInv, ClosingInv
<1> QED
  BY <1>3, <1>4, <1>5, <1>6, <1>7, <1>8 DEF SetupInv

\* An attempt that expires keeps the invariant.
LEMMA AttemptExpiresStep ==
  ASSUME SetupInv, AttemptExpires
  PROVE  SetupInv'
<1>1. PICK a : a = [m.att EXCEPT !.expired = TRUE]
  OBVIOUS
<1>2. /\ m.att.id # 0 /\ m.att \in Attempts /\ m \in Managers
      /\ UNCHANGED <<lifecycle, task, thr, procs, unconfirmed, conn, revision, terminals, used>>
  <2>1. NoAttempt.id = 0
    BY DEF NoAttempt, NewAttempt
  <2> QED
    BY <2>1 DEF AttemptExpires, SetupInv, TypeInv, Managers
<1>3. m' = [m EXCEPT !.att = a]
  BY <1>1 DEF AttemptExpires
<1>4. /\ a \in Attempts /\ a.id = m.att.id /\ a.session = m.att.session
      /\ a.ack = m.att.ack /\ a.cancelled = m.att.cancelled
  BY <1>1, <1>2 DEF Attempts
<1>5. m'.att = a /\ m'.ses = m.ses /\ m'.session = m.session
  BY <1>2, <1>3 DEF Managers
<1>6. AttemptInv'
  BY <1>2, <1>4, <1>5 DEF SetupInv, AttemptInv, Sound, Credentials
<1>7. \A x \in Tasks : SameClass(x)
  BY <1>2 DEF SameClass
<1>8. SameSessions(m', m)
  BY <1>2, <1>3, <1>4 DEF SameSessions, Managers
<1>9. task' \in [Tasks -> Locals] /\ \A x \in Tasks : task'[x].pc \in Pcs(x)
  BY <1>2 DEF SetupInv, TypeInv
<1> QED
  BY <1>2, <1>6, <1>7, <1>8, <1>9, AttemptStep

\* Every credential was handed out to a launch.
LEMMA CredentialIds ==
  ASSUME SetupInv
  PROVE  Credentials \subseteq Nat \ {0}
<1>1. ASSUME NEW p \in SessionIds, procs[p].tree # "none"
      PROVE  procs[p].token \in Nat \ {0}
  BY <1>1 DEF SetupInv, TypeInv, ProcInv, Processes
<1>2. terminals \subseteq Nat \ {0}
  BY DEF SetupInv, TypeInv
<1> QED
  BY <1>1, <1>2 DEF Credentials

\* A report of completion keeps the invariant (acknowledge_completion).
LEMMA ReportStep ==
  ASSUME SetupInv, NEW r \in Requests, Report(r)
  PROVE  SetupInv'
<1> USE TaskNames
<1>1. PICK a, rev :
        /\ a \in Credentials /\ rev \in Revisions /\ rev \in Ready
        /\ task' = [task EXCEPT ![r] = [Idle EXCEPT !.pc = "validating", !.token = a, !.rev = rev]]
  BY DEF Report, Reports, CurrentAndReady
<1>2. /\ task[r] = Idle
      /\ used' = [used EXCEPT !.all = @ + 1]
      /\ UNCHANGED <<m, lifecycle, thr, procs, unconfirmed, conn, revision, terminals>>
  BY DEF Report
<1>3. PICK k : k = [Idle EXCEPT !.pc = "validating", !.token = a, !.rev = rev]
  OBVIOUS
<1>4. k \in Locals /\ k.pc = "validating" /\ k.token = a /\ k.rev = rev
  <2>1. a \in Nat /\ "validating" \in Steps
    BY <1>1, CredentialIds DEF Steps
  <2> QED
    BY <2>1, <1>1, <1>3, IdleType DEF Locals
<1>5. r \in Tasks /\ k.pc \in Pcs(r) /\ task' = [task EXCEPT ![r] = k]
  BY <1>1, <1>3, <1>4, RequestPcs
<1>6. /\ task'[r] = k /\ \A x \in Tasks \ {r} : task'[x] = task[x] /\ SameClass(x)
  BY <1>4, <1>5, OneTask
<1>7. LockInv' /\ lifecycle' \in Seq(Tasks)
  <2>1. SameClass(r)
    BY <1>2, <1>4, <1>6, IdleType DEF SameClass, Queued, Waiting, Holding, Launching
  <2> QED
    BY <1>2, <1>6, <2>1, Rest DEF SetupInv, TypeInv
<1>8. TaskOK(r)'
  <2>1. Credentials' = Credentials
    BY <1>2 DEF Credentials
  <2> QED
    BY <1>1, <1>4, <1>6, <2>1 DEF TaskOK, Launches, Launching
<1>9. /\ used' \in [launch : Nat, all : Nat, cancel : Nat] /\ used'.launch = used.launch
      /\ terminals' \subseteq Nat \ {0} /\ terminals \subseteq terminals'
  BY <1>2 DEF SetupInv, TypeInv
<1>10. k.pc # "lockStart" /\ k.pc \notin Launching
  BY <1>4 DEF Launching
<1> QED
  BY <1>2, <1>4, <1>5, <1>7, <1>8, <1>9, <1>10, TaskOnly

\* The inspection of the configuration for a report keeps the invariant
\* (acknowledge_validated).
LEMMA ReportInspectsStep ==
  ASSUME SetupInv, NEW r \in Requests, ReportInspects(r)
  PROVE  SetupInv'
<1> USE TaskNames
<1>1. PICK k : k = IF revision = task[r].rev THEN [task[r] EXCEPT !.pc = "validated"] ELSE Idle
  OBVIOUS
<1>2. /\ task[r].pc = "validating" /\ r \in Tasks /\ task[r] \in Locals
      /\ task' = [task EXCEPT ![r] = k]
      /\ UNCHANGED <<m, lifecycle, thr, procs, unconfirmed, conn, revision, terminals, used>>
  BY <1>1 DEF ReportInspects, SetupInv, TypeInv
<1>3. /\ k \in Locals /\ k.pc \in {"validated", "idle"}
      /\ k.pc = "validated" => k.token = task[r].token /\ k.rev = task[r].rev
  <2>1. "validated" \in Steps
    BY DEF Steps
  <2> QED
    BY <2>1, <1>1, <1>2, IdleType DEF Locals
<1>4. k.pc \in Pcs(r)
  BY <1>3, RequestPcs
<1>5. /\ task'[r] = k /\ \A x \in Tasks \ {r} : task'[x] = task[x] /\ SameClass(x)
  BY <1>2, <1>3, <1>4, OneTask
<1>6. LockInv' /\ lifecycle' \in Seq(Tasks)
  <2>1. SameClass(r)
    BY <1>2, <1>3, <1>5 DEF SameClass, Queued, Waiting, Holding, Launching
  <2> QED
    BY <1>2, <1>5, <2>1, Rest DEF SetupInv, TypeInv
<1>7. TaskOK(r)'
  <2>1. Credentials' = Credentials
    BY <1>2 DEF Credentials
  <2>2. TaskOK(r)
    BY DEF SetupInv, TaskInv
  <2>3. task[r].token \in Credentials /\ task[r].rev \in Ready
    BY <1>2, <2>2 DEF TaskOK
  <2> QED
    BY <1>3, <1>5, <2>1, <2>3 DEF TaskOK, Launches, Launching
<1>8. /\ used' \in [launch : Nat, all : Nat, cancel : Nat] /\ used'.launch = used.launch
      /\ terminals' \subseteq Nat \ {0} /\ terminals \subseteq terminals'
  BY <1>2 DEF SetupInv, TypeInv
<1>9. k.pc # "lockStart" /\ k.pc \notin Launching
  BY <1>3 DEF Launching
<1> QED
  BY <1>2, <1>3, <1>4, <1>6, <1>7, <1>8, <1>9, TaskOnly

\* An acknowledged report keeps the invariant (acknowledge_completion).
LEMMA ReportAcknowledgesStep ==
  ASSUME SetupInv, NEW r \in Requests, ReportAcknowledges(r)
  PROVE  SetupInv'
<1> USE TaskNames
<1>1. /\ task[r].pc = "validated"
      /\ task' = [task EXCEPT ![r] = Idle]
      /\ UNCHANGED <<lifecycle, thr, procs, unconfirmed, conn, revision, terminals, used>>
      /\ \/ m' = [m EXCEPT !.att.ack = m.att.ack]
         \/ AttemptForToken(m, task[r].token) /\ m' = [m EXCEPT !.att.ack = task[r].rev]
  BY DEF ReportAcknowledges
<1>2. r \in Tasks /\ task[r].token \in Credentials /\ task[r].rev \in Ready
  BY <1>1 DEF SetupInv, TaskInv, TaskOK
<1>3. /\ Idle \in Locals /\ Idle.pc \in Pcs(r) /\ Idle.pc = "idle" /\ task[r].pc \notin Queued
      /\ Idle.pc \notin Queued
  BY <1>1, IdleType, RequestPcs DEF Queued, Waiting, Holding, Launching
<1>4. /\ task' \in [Tasks -> Locals] /\ \A x \in Tasks : task'[x].pc \in Pcs(x)
      /\ task'[r] = Idle /\ \A x \in Tasks \ {r} : task'[x] = task[x] /\ SameClass(x)
  BY <1>1, <1>2, <1>3, OneTask
<1>5. SameClass(r)
  BY <1>3, <1>4 DEF SameClass, Queued
<1>6. Credentials' = Credentials /\ m \in Managers
  BY <1>1 DEF Credentials, SetupInv, TypeInv
<1>7. Sound(m.att, m.ses, m.session)
  BY DEF SetupInv, AttemptInv
<1>8. \E a \in Attempts \cup {NoAttempt} : m' = [m EXCEPT !.att = a] /\ Sound(a, m.ses, m.session)
  <2>1. CASE m' = [m EXCEPT !.att.ack = m.att.ack]
    <3>1. [m.att EXCEPT !.ack = m.att.ack] = m.att /\ m.att \in Attempts \cup {NoAttempt}
      BY <1>6 DEF Managers, Attempts, NoAttempt, NewAttempt
    <3>2. m' = [m EXCEPT !.att = m.att]
      BY <2>1, <3>1
    <3> QED
      BY <3>1, <3>2, <1>7
  <2>2. CASE AttemptForToken(m, task[r].token) /\ m' = [m EXCEPT !.att.ack = task[r].rev]
    <3>1. PICK a : a = [m.att EXCEPT !.ack = task[r].rev]
      OBVIOUS
    <3>2. m.att.id = task[r].token /\ m.att.id # 0
      BY <2>2, <1>2, CredentialIds DEF AttemptForToken
    <3>3. m.att \in Attempts
      BY <3>2, <1>6 DEF Managers, NoAttempt, NewAttempt
    <3>4. /\ a \in Attempts /\ a.id = m.att.id /\ a.session = m.att.session
          /\ a.cancelled = m.att.cancelled
      BY <1>2, <3>1, <3>3 DEF Attempts
    <3>5. Sound(a, m.ses, m.session)
      BY <3>2, <3>4, <1>2, <1>7 DEF Sound
    <3> QED
      BY <2>2, <3>1, <3>4, <3>5
  <2> QED
    BY <1>1, <2>1, <2>2
<1>9. PICK a \in Attempts \cup {NoAttempt} : m' = [m EXCEPT !.att = a] /\ Sound(a, m.ses, m.session)
  BY <1>8
<1>10. AttemptInv'
  <2>1. m'.att = a /\ m'.ses = m.ses /\ m'.session = m.session
    BY <1>6, <1>9 DEF Managers
  <2> QED
    BY <2>1, <1>6, <1>9 DEF AttemptInv, Sound
<1>11. SameSessions(m', m)
  BY <1>6, <1>9 DEF SameSessions, Managers
<1> QED
  BY <1>1, <1>2, <1>4, <1>5, <1>10, <1>11, AttemptStep

\* A new revision of the configuration keeps the invariant.
LEMMA EditConfigurationStep ==
  ASSUME SetupInv, EditConfiguration
  PROVE  SetupInv'
<1>1. /\ revision' \in Revisions
      /\ UNCHANGED <<m, lifecycle, task, thr, procs, unconfirmed, conn, terminals, used>>
  BY DEF EditConfiguration
<1>2. TypeInv' /\ LockInv'
  BY <1>1 DEF SetupInv, TypeInv, LockInv, Known
<1>3. CountInv'
  BY <1>1, Counted
<1>4. ThreadInv' /\ ProcInv' /\ RecordInv' /\ NoLingeringClient' /\ ClosingInv'
  BY <1>1 DEF SetupInv, ThreadInv, ProcInv, Unsettled, RecordInv, Record, NoLingeringClient,
              ClosingInv, Known
<1>5. AttemptInv' /\ Credentials' = Credentials
  BY <1>1 DEF SetupInv, AttemptInv, Sound, Credentials
<1>6. TaskInv'
  BY <1>1, <1>5 DEF SetupInv, TaskInv, TaskOK, Unborn, Unsettled
<1> QED
  BY <1>2, <1>3, <1>4, <1>5, <1>6 DEF SetupInv

\* A step of the threads or the process trees, behind the manager's back.
LEMMA TreeStep ==
  ASSUME SetupInv, UNCHANGED <<m, lifecycle, task, conn, revision, terminals, used>>,
         thr' \in [Tasks \cup SessionIds -> Threads], procs' \in [SessionIds -> Processes],
         unconfirmed' \subseteq SessionIds, ThreadInv', ProcInv',
         \A p \in SessionIds :
           /\ procs[p].stopped => procs'[p].stopped /\ procs'[p].code = procs[p].code
           /\ procs[p].tree # "none" => procs'[p].tree # "none" /\ procs'[p].token = procs[p].token
           /\ Unborn(p) => Unborn(p)'
           /\ ~Unsettled(p) => ~Unsettled(p)',
         \A x \in Tasks \cup SessionIds :
           /\ thr'[x].on = thr[x].on
           /\ thr[x].pc # "none" => thr'[x].pc # "none"
  PROVE  SetupInv'
<1>1. Known' = Known
  BY DEF Known
<1>2. TypeInv' /\ LockInv'
  BY <1>1 DEF SetupInv, TypeInv, LockInv
<1>3. CountInv'
  BY Counted
<1>4. Credentials \subseteq Credentials'
  BY DEF Credentials
<1>5. RecordInv'
  <2>1. ASSUME NEW n \in Known PROVE Record(m.ses[n], n)'
    <3>1. n \in SessionIds /\ n \in Tasks \cup SessionIds /\ Record(m.ses[n], n) /\ m'.ses[n] = m.ses[n]
      BY KnownIds DEF SetupInv, RecordInv
    <3> QED
      BY <3>1 DEF Record
  <2> QED
    BY <1>1, <2>1 DEF RecordInv
<1>6. AttemptInv'
  BY <1>4 DEF SetupInv, AttemptInv, Sound
<1>7. TaskInv'
  <2>1. ASSUME NEW x \in Tasks PROVE TaskOK(x)'
    <3>1. task[x].pc \in Launching => task[x].n \in SessionIds
      BY KnownIds DEF SetupInv, TypeInv, TaskInv, TaskOK
    <3>2. TaskInv
      BY DEF SetupInv
    <3> QED
      BY <1>4, <3>1, <3>2, TaskStands
  <2> QED
    BY <2>1 DEF TaskInv
<1>8. ClosingInv' /\ NoLingeringClient'
  BY DEF SetupInv, ClosingInv, NoLingeringClient
<1> QED
  BY <1>2, <1>3, <1>5, <1>6, <1>7, <1>8 DEF SetupInv

\* What a running thread works on.
LEMMA ThreadOn ==
  ASSUME SetupInv, NEW x \in Tasks \cup SessionIds, thr[x].pc # "none"
  PROVE  \E p \in Known :
           /\ p \in SessionIds /\ thr[x].on = {p} /\ procs[p].tree # "none"
           /\ thr[x].pc = "in" => ~procs[p].stopped
           /\ thr[x].pc = "yes" => procs[p].stopped
  BY KnownIds DEF SetupInv, ThreadInv

\* A stop thread that gets the process's lock keeps the invariant.
LEMMA StopEnterStep ==
  ASSUME SetupInv, NEW x \in Tasks \cup SessionIds, StopEnter(x)
  PROVE  SetupInv'
<1>1. PICK pc : pc = IF \A p \in thr[x].on : procs[p].stopped THEN "yes" ELSE "in"
  OBVIOUS
<1>2. /\ thr[x].pc = "enter" /\ thr' = [thr EXCEPT ![x].pc = pc]
      /\ UNCHANGED <<m, lifecycle, task, procs, unconfirmed, conn, revision, terminals, used>>
  BY <1>1 DEF StopEnter
<1>3. thr \in [Tasks \cup SessionIds -> Threads] /\ pc \in {"yes", "in"}
  BY <1>1 DEF SetupInv, TypeInv
<1>4. PICK n \in Known : n \in SessionIds /\ thr[x].on = {n} /\ procs[n].tree # "none"
  BY <1>2, ThreadOn
<1>5. pc = IF procs[n].stopped THEN "yes" ELSE "in"
  BY <1>1, <1>4
<1>6. \A y \in Tasks \cup SessionIds : thr[y].pc = "in" => thr[y].on # {n}
  BY <1>2, <1>3, <1>4 DEF StopEnter, Stopping
<1>7. PICK k : k = [thr[x] EXCEPT !.pc = pc]
  OBVIOUS
<1>8. k \in Threads /\ k.on = {n} /\ k.pc = pc
  BY <1>3, <1>4, <1>7 DEF Threads
<1>9. /\ thr' \in [Tasks \cup SessionIds -> Threads] /\ thr'[x] = k
      /\ \A y \in (Tasks \cup SessionIds) \ {x} : thr'[y] = thr[y]
  <2> DEFINE all == Tasks \cup SessionIds
  <2>1. thr \in [all -> Threads] /\ x \in all /\ thr' = [thr EXCEPT ![x] = k]
    BY <1>2, <1>3, <1>7
  <2> HIDE DEF all
  <2>2. thr'[x] = k /\ thr' \in [all -> Threads] /\ \A y \in all \ {x} : thr'[y] = thr[y]
    BY <2>1, <1>8
  <2> QED
    BY <2>2 DEF all
<1>10. \A y \in Tasks \cup SessionIds :
         /\ thr'[y].on = thr[y].on
         /\ thr'[y].pc # "none" <=> thr[y].pc # "none"
  BY <1>2, <1>3, <1>4, <1>8, <1>9
<1>11. Known' = Known
  BY <1>2 DEF Known
<1>12. ThreadInv'
  <2>1. ASSUME NEW y \in Tasks \cup SessionIds, thr'[y].pc # "none"
        PROVE  \E p \in Known :
                 /\ thr'[y].on = {p} /\ procs[p].tree # "none"
                 /\ thr'[y].pc = "in" => ~procs[p].stopped
                 /\ thr'[y].pc = "yes" => procs[p].stopped
    <3>1. CASE y = x
      BY <3>1, <1>4, <1>5, <1>8, <1>9
    <3>2. CASE y # x
      BY <3>2, <2>1, <1>9, ThreadOn
    <3> QED
      BY <3>1, <3>2
  <2>2. ASSUME NEW y \in Tasks \cup SessionIds, NEW z \in Tasks \cup SessionIds,
               thr'[y].pc = "in", thr'[z].pc = "in", thr'[y].on = thr'[z].on
        PROVE  y = z
    BY <2>2, <1>4, <1>6, <1>8, <1>9 DEF SetupInv, ThreadInv
  <2> QED
    BY <1>2, <1>11, <2>1, <2>2 DEF ThreadInv
<1>13. ProcInv'
  BY <1>2, <1>11 DEF SetupInv, ProcInv, Unsettled
<1>14. \A p \in SessionIds : (Unborn(p) => Unborn(p)') /\ (Unsettled(p)' <=> Unsettled(p))
  BY <1>2, <1>10 DEF Unborn, Unsettled
<1>15. procs' \in [SessionIds -> Processes] /\ unconfirmed' \subseteq SessionIds
  BY <1>2 DEF SetupInv, TypeInv
<1> QED
  BY <1>2, <1>9, <1>10, <1>12, <1>13, <1>14, <1>15, TreeStep

\* A stop thread that is done with the process, confirmed or not, keeps the
\* invariant.
LEMMA StopLeaveStep ==
  ASSUME SetupInv, NEW x \in Tasks \cup SessionIds, StopLeave(x)
  PROVE  SetupInv'
<1>1. PICK yes \in BOOLEAN :
        /\ procs' = [p \in SessionIds |->
             IF p \notin thr[x].on THEN procs[p]
             ELSE [procs[p] EXCEPT !.tree = IF yes THEN "gone" ELSE @,
                                   !.closed = TRUE, !.stopped = @ \/ yes]]
        /\ unconfirmed' = IF yes THEN unconfirmed \ thr[x].on ELSE unconfirmed \cup thr[x].on
        /\ thr' = [thr EXCEPT ![x].pc = IF yes THEN "yes" ELSE "no"]
  BY DEF StopLeave
<1>2. thr[x].pc = "in" /\ UNCHANGED <<m, lifecycle, task, conn, revision, terminals, used>>
  BY DEF StopLeave, Stopping
<1>3. PICK n \in Known :
        n \in SessionIds /\ thr[x].on = {n} /\ procs[n].tree # "none" /\ ~procs[n].stopped
  BY <1>2, ThreadOn
<1>4. /\ thr \in [Tasks \cup SessionIds -> Threads] /\ procs \in [SessionIds -> Processes]
      /\ unconfirmed \subseteq SessionIds
  BY DEF SetupInv, TypeInv
<1>5. PICK c : c = [procs[n] EXCEPT !.tree = IF yes THEN "gone" ELSE @,
                                    !.closed = TRUE, !.stopped = @ \/ yes]
  OBVIOUS
<1>6. /\ c \in Processes /\ c.tree # "none" /\ c.token = procs[n].token /\ c.code = procs[n].code
      /\ c.stopped <=> yes
      /\ yes => c.tree = "gone"
  BY <1>3, <1>4, <1>5 DEF Processes
<1>7. /\ procs' \in [SessionIds -> Processes] /\ procs'[n] = c
      /\ \A p \in SessionIds \ {n} : procs'[p] = procs[p]
  <2>1. procs' = [p \in SessionIds |-> IF p # n THEN procs[p] ELSE c]
    BY <1>1, <1>3, <1>5
  <2> QED
    BY <2>1, <1>3, <1>4, <1>6
<1>8. /\ unconfirmed' \subseteq SessionIds
      /\ \A p \in SessionIds \ {n} : p \in unconfirmed' <=> p \in unconfirmed
      /\ n \in unconfirmed' <=> ~yes
  BY <1>1, <1>3, <1>4
<1>9. PICK k : k = [thr[x] EXCEPT !.pc = IF yes THEN "yes" ELSE "no"]
  OBVIOUS
<1>10. k \in Threads /\ k.on = {n} /\ k.pc = IF yes THEN "yes" ELSE "no"
  BY <1>3, <1>4, <1>9 DEF Threads
<1>11. /\ thr' \in [Tasks \cup SessionIds -> Threads] /\ thr'[x] = k
       /\ \A y \in (Tasks \cup SessionIds) \ {x} : thr'[y] = thr[y]
  <2> DEFINE all == Tasks \cup SessionIds
  <2>1. thr \in [all -> Threads] /\ x \in all /\ thr' = [thr EXCEPT ![x] = k]
    BY <1>1, <1>4, <1>9
  <2> HIDE DEF all
  <2>2. thr'[x] = k /\ thr' \in [all -> Threads] /\ \A y \in all \ {x} : thr'[y] = thr[y]
    BY <2>1, <1>10
  <2> QED
    BY <2>2 DEF all
<1>12. \A y \in Tasks \cup SessionIds :
         /\ thr'[y].on = thr[y].on
         /\ thr'[y].pc # "none" <=> thr[y].pc # "none"
  BY <1>2, <1>3, <1>10, <1>11
<1>13. Known' = Known
  BY <1>2 DEF Known
\* No other thread is inside the same tree.
<1>14. ThreadInv'
  <2>1. ASSUME NEW y \in Tasks \cup SessionIds, thr'[y].pc # "none"
        PROVE  \E p \in Known :
                 /\ thr'[y].on = {p} /\ procs'[p].tree # "none"
                 /\ thr'[y].pc = "in" => ~procs'[p].stopped
                 /\ thr'[y].pc = "yes" => procs'[p].stopped
    <3>1. CASE y = x
      BY <3>1, <1>3, <1>6, <1>7, <1>10, <1>11
    <3>2. CASE y # x
      <4>1. PICK p \in Known :
              /\ p \in SessionIds /\ thr[y].on = {p} /\ procs[p].tree # "none"
              /\ thr[y].pc = "in" => ~procs[p].stopped
              /\ thr[y].pc = "yes" => procs[p].stopped
        BY <2>1, <1>12, ThreadOn
      <4>2. thr'[y] = thr[y]
        BY <3>2, <1>11
      <4>3. CASE p = n
        <5>1. thr[y].pc # "in"
          BY <3>2, <4>1, <4>3, <1>2, <1>3 DEF SetupInv, ThreadInv
        <5>2. thr[y].pc # "yes"
          BY <4>1, <4>3, <1>3
        <5> QED
          BY <4>1, <4>2, <4>3, <5>1, <5>2, <1>6, <1>7
      <4>4. CASE p # n
        BY <4>1, <4>2, <4>4, <1>7
      <4> QED
        BY <4>3, <4>4
    <3> QED
      BY <3>1, <3>2
  <2>2. ASSUME NEW y \in Tasks \cup SessionIds, NEW z \in Tasks \cup SessionIds,
               thr'[y].pc = "in", thr'[z].pc = "in", thr'[y].on = thr'[z].on
        PROVE  y = z
    BY <2>2, <1>10, <1>11 DEF SetupInv, ThreadInv
  <2> QED
    BY <1>13, <2>1, <2>2 DEF ThreadInv
<1>15. ProcInv'
  <2>1. ASSUME NEW p \in SessionIds
        PROVE  /\ procs'[p].stopped => procs'[p].tree = "gone" /\ p \notin unconfirmed'
               /\ procs'[p].tree = "none" => procs'[p] = NoProcess
               /\ procs'[p].tree # "none" => p \in Known /\ procs'[p].token # 0
               /\ Unsettled(p)' => m.session = p
    <3>1. CASE p = n
      <4>1. m.session = n /\ procs[n].token # 0
        BY <1>3 DEF SetupInv, ProcInv, Unsettled
      <4> QED
        BY <3>1, <4>1, <1>3, <1>6, <1>7, <1>8
    <3>2. CASE p # n
      BY <3>2, <1>7, <1>8 DEF SetupInv, ProcInv, Unsettled
    <3> QED
      BY <3>1, <3>2
  <2> QED
    BY <1>2, <1>13, <2>1 DEF ProcInv
<1>16. ASSUME NEW p \in SessionIds
       PROVE  /\ procs[p].stopped => procs'[p].stopped /\ procs'[p].code = procs[p].code
              /\ procs[p].tree # "none" => procs'[p].tree # "none" /\ procs'[p].token = procs[p].token
              /\ Unborn(p) => Unborn(p)'
              /\ ~Unsettled(p) => ~Unsettled(p)'
  <2>1. CASE p = n
    <3>1. Unsettled(n) /\ ~Unborn(n)
      BY <1>3, <1>2 DEF Unsettled, Unborn
    <3> QED
      BY <2>1, <3>1, <1>3, <1>6, <1>7
  <2>2. CASE p # n
    BY <2>2, <1>7, <1>8, <1>12 DEF Unborn, Unsettled
  <2> QED
    BY <2>1, <2>2
<1> QED
  BY <1>2, <1>7, <1>8, <1>11, <1>12, <1>14, <1>15, <1>16, TreeStep

\* A process tree that ends by itself keeps the invariant.
LEMMA ProcessEndsStep ==
  ASSUME SetupInv, NEW n \in SessionIds, ProcessEnds(n)
  PROVE  SetupInv'
<1>1. PICK tree \in {"gone", "live"}, code \in {0, 1} :
        procs' = [procs EXCEPT ![n].tree = tree, ![n].closed = TRUE, ![n].code = code]
  <2>1. PICK end \in {<<"gone", 0>>, <<"gone", 1>>, <<"live", 0>>} :
          procs' = [procs EXCEPT ![n].tree = end[1], ![n].closed = TRUE, ![n].code = end[2]]
    BY DEF ProcessEnds
  <2>2. PICK tree, code : tree = end[1] /\ code = end[2]
    OBVIOUS
  <2>3. tree \in {"gone", "live"} /\ code \in {0, 1}
    BY <2>2
  <2>4. procs' = [procs EXCEPT ![n].tree = tree, ![n].closed = TRUE, ![n].code = code]
    BY <2>1, <2>2
  <2> QED
    BY <2>3, <2>4
<1>2. /\ procs[n].tree = "live"
      /\ UNCHANGED <<m, lifecycle, task, thr, unconfirmed, conn, revision, terminals, used>>
  BY DEF ProcessEnds
<1>3. PICK c : c = [procs[n] EXCEPT !.tree = tree, !.closed = TRUE, !.code = code]
  OBVIOUS
<1>4. /\ thr \in [Tasks \cup SessionIds -> Threads] /\ procs \in [SessionIds -> Processes]
      /\ unconfirmed \subseteq SessionIds
  BY DEF SetupInv, TypeInv
<1>5. c \in Processes /\ c.tree = tree /\ c.token = procs[n].token /\ c.stopped = procs[n].stopped
  BY <1>1, <1>3, <1>4 DEF Processes
<1>6. ~procs[n].stopped
  BY <1>2 DEF SetupInv, ProcInv
<1>7. /\ procs' \in [SessionIds -> Processes] /\ procs'[n] = c
      /\ \A p \in SessionIds \ {n} : procs'[p] = procs[p]
  <2>1. procs' = [procs EXCEPT ![n] = c]
    BY <1>1, <1>3, <1>4
  <2> QED
    BY <2>1, <1>4, <1>5
<1>8. Known' = Known
  BY <1>2 DEF Known
<1>9. \A p \in SessionIds :
         /\ procs'[p].stopped = procs[p].stopped
         /\ procs[p].stopped => procs'[p].code = procs[p].code
         /\ procs'[p].tree = "none" <=> procs[p].tree = "none"
         /\ procs'[p].token = procs[p].token
  BY <1>1, <1>2, <1>5, <1>6, <1>7
<1>10. ThreadInv'
  <2>1. ASSUME NEW y \in Tasks \cup SessionIds, thr[y].pc # "none"
        PROVE  \E p \in Known :
                 /\ thr[y].on = {p} /\ procs'[p].tree # "none"
                 /\ thr[y].pc = "in" => ~procs'[p].stopped
                 /\ thr[y].pc = "yes" => procs'[p].stopped
    BY <2>1, <1>9, ThreadOn
  <2>2. \A y, z \in Tasks \cup SessionIds :
          thr[y].pc = "in" /\ thr[z].pc = "in" /\ thr[y].on = thr[z].on => y = z
    BY DEF SetupInv, ThreadInv
  <2> QED
    BY <1>2, <1>8, <2>1, <2>2 DEF ThreadInv
<1>11. ProcInv'
  <2>1. ASSUME NEW p \in SessionIds
        PROVE  /\ procs'[p].stopped => procs'[p].tree = "gone" /\ p \notin unconfirmed
               /\ procs'[p].tree = "none" => procs'[p] = NoProcess
               /\ procs'[p].tree # "none" => p \in Known /\ procs'[p].token # 0
               /\ Unsettled(p)' => m.session = p
    <3>1. CASE p = n
      BY <3>1, <1>2, <1>6, <1>9 DEF SetupInv, ProcInv, Unsettled
    <3>2. CASE p # n
      BY <3>2, <1>2, <1>7 DEF SetupInv, ProcInv, Unsettled
    <3> QED
      BY <3>1, <3>2
  <2> QED
    BY <1>2, <1>8, <2>1 DEF ProcInv
<1>12. \A p \in SessionIds : Unborn(p) => Unborn(p)'
  BY <1>2, <1>7 DEF Unborn, NoProcess
<1>13. \A p \in SessionIds : Unsettled(p)' <=> Unsettled(p)
  BY <1>2, <1>9 DEF Unsettled
<1> QED
  BY <1>2, <1>4, <1>7, <1>9, <1>10, <1>11, <1>12, <1>13, TreeStep

----
(* The invariant holds, and what follows from it.                            *)

\* A manager without sessions satisfies the invariant.
LEMMA InitOK == Init => SetupInv
<1> SUFFICES ASSUME Init PROVE SetupInv
  OBVIOUS
<1> USE TaskNames
<1>1. /\ m.session = 0 /\ m.closing = FALSE /\ m.ses = <<>> /\ m.att = NoAttempt /\ m.prepared = 0
      /\ m \in Managers /\ Len(m.ses) = 0
  BY DEF Init, Managers
<1>2. /\ lifecycle = <<>> /\ unconfirmed = {} /\ terminals = {} /\ revision \in Revisions
      /\ used = [launch |-> 0, all |-> 0, cancel |-> 0]
  BY DEF Init
<1>3. PICK k : k = [Idle EXCEPT !.pc = "off"]
  OBVIOUS
<1>4. k \in Locals /\ k.pc = "off"
  <2>1. "off" \in Steps
    BY DEF Steps
  <2> QED
    BY <2>1, <1>3, IdlePc
<1>5. task = [r \in Tasks |-> IF r = Sweeper THEN k ELSE Idle]
  BY <1>3 DEF Init
<1>6. /\ task \in [Tasks -> Locals]
      /\ \A r \in Tasks : task[r].pc = (IF r = Sweeper THEN "off" ELSE "idle")
  BY <1>4, <1>5, IdleType
<1>7. \A r \in Tasks : task[r].pc \in Pcs(r) /\ task[r].pc \notin Queued
  <2>1. ASSUME NEW r \in Tasks PROVE task[r].pc \in Pcs(r)
    BY <1>6 DEF Pcs
  <2>2. \A r \in Tasks : task[r].pc \notin Queued
    BY <1>6 DEF Queued, Waiting, Holding, Launching
  <2> QED
    BY <2>1, <2>2
<1>8. thr = [x \in Tasks \cup SessionIds |-> NoThread] /\ NoThread \in Threads
  BY DEF Init, NoThread, Threads
<1>9. procs = [p \in SessionIds |-> NoProcess] /\ NoProcess \in Processes
  BY DEF Init, NoProcess, Processes
<1>10. conn = [c \in Conns |-> 0] /\ Known = {}
  BY <1>1 DEF Init, Known
<1>11. TypeInv
  <2>1. MaxSessions \in Nat
    BY SetupAssumption DEF MaxSessions
  <2> QED
    BY <2>1, <1>1, <1>2, <1>6, <1>7, <1>8, <1>9, <1>10 DEF TypeInv
<1>12. LockInv
  <2>1. Distinct(lifecycle) /\ Members(lifecycle) = {}
    BY <1>2 DEF Distinct, Members
  <2> QED
    BY <2>1, <1>7 DEF LockInv, Queued
<1>13. CountInv
  <2>1. WaitingStarts = {}
    BY <1>6 DEF WaitingStarts
  <2> QED
    BY <2>1, <1>1, <1>2, SetupAssumption, FS_EmptySet DEF CountInv
<1>14. ThreadInv
  BY <1>8 DEF ThreadInv, NoThread
<1>15. ProcInv
  BY <1>2, <1>9 DEF ProcInv, NoProcess, Unsettled
<1>16. RecordInv /\ AttemptInv
  BY <1>1, <1>10 DEF RecordInv, AttemptInv, Sound, NoAttempt, NewAttempt
<1>17. TaskInv
  <2>1. ASSUME NEW r \in Tasks PROVE TaskOK(r)
    BY <1>6 DEF TaskOK, Launches, Launching
  <2> QED
    BY <2>1 DEF TaskInv
<1>18. ClosingInv /\ NoLingeringClient
  BY <1>6, <1>10 DEF ClosingInv, NoLingeringClient
<1> QED
  BY <1>11, <1>12, <1>13, <1>14, <1>15, <1>16, <1>17, <1>18 DEF SetupInv

\* Every step of the manager, its threads and its clients keeps the invariant.
LEMMA NextOK == SetupInv /\ [Next]_vars => SetupInv'
<1> SUFFICES ASSUME SetupInv, [Next]_vars PROVE SetupInv'
  OBVIOUS
<1>1. ASSUME NEW r \in Requests, RequestStep(r) PROVE SetupInv'
  BY <1>1, LaunchResumesStep, SpawnStep, StartReturnsStep, ReapStep, ReapEndsStep,
     ExternalRetriedStep, ExternalOpenedStep, StopResumesStep, ReportInspectsStep,
     ReportAcknowledgesStep DEF RequestStep
<1>2. ASSUME NEW r \in Tasks, TaskStep(r) PROVE SetupInv'
  BY <1>2, StopEndsStep, OrphanEndsStep DEF TaskStep
<1>3. ASSUME NEW x \in Tasks \cup SessionIds, ThreadStep(x) PROVE SetupInv'
  BY <1>3, StopEnterStep, StopLeaveStep DEF ThreadStep
<1>4. DOMAIN m.ses = Known
  BY DEF SetupInv, TypeInv, Managers, Known
<1>5. ASSUME NEW n \in SessionIds, ReaderStep(n) PROVE SetupInv'
  BY <1>4, <1>5, ReadEndsStep, ReaderFinalizesStep DEF ReaderStep
<1>6. ASSUME ShutdownStep PROVE SetupInv'
  BY <1>6, ShutdownQueuesStep, ShutdownResumesStep DEF ShutdownStep
<1>7. ASSUME Environment PROVE SetupInv'
  <2>1. ASSUME NEW r \in Requests,
               Launch(r) \/ Stop(r) \/ Report(r) \/ LaunchCancelled(r) \/ StopCancelled(r)
        PROVE  SetupInv'
    BY <2>1, LaunchStep, StopStep, ReportStep, LaunchCancelledStep, StopCancelledStep
  <2>2. ASSUME NEW c \in Conns, Attach(c) \/ Detach(c) PROVE SetupInv'
    BY <2>2, AttachStep, DetachStep
  <2>3. ASSUME NEW n \in DOMAIN m.ses, ReadChunk(n) PROVE SetupInv'
    BY <1>4, <2>3, ReadChunkStep
  <2>4. ASSUME NEW p \in SessionIds, ProcessEnds(p) PROVE SetupInv'
    BY <2>4, ProcessEndsStep
  <2> QED
    BY <1>7, <2>1, <2>2, <2>3, <2>4, AttemptExpiresStep, EditConfigurationStep,
       ShutdownBeginsStep DEF Environment
<1>8. ASSUME UNCHANGED vars PROVE SetupInv'
  <2>1. UNCHANGED <<m, lifecycle, task, thr, procs, unconfirmed, conn, revision, terminals, used>>
    BY <1>8 DEF vars
  <2>2. TypeInv' /\ LockInv'
    BY <2>1 DEF SetupInv, TypeInv, LockInv, Known
  <2>3. CountInv'
    BY <2>1, Counted
  <2>4. ThreadInv' /\ ProcInv' /\ RecordInv' /\ NoLingeringClient' /\ ClosingInv'
    BY <2>1 DEF SetupInv, ThreadInv, ProcInv, Unsettled, RecordInv, Record, NoLingeringClient,
                ClosingInv, Known
  <2>5. AttemptInv' /\ Credentials' = Credentials
    BY <2>1 DEF SetupInv, AttemptInv, Sound, Credentials
  <2>6. TaskInv'
    BY <2>1, <2>5 DEF SetupInv, TaskInv, TaskOK, Unborn, Unsettled
  <2> QED
    BY <2>2, <2>3, <2>4, <2>5, <2>6 DEF SetupInv
<1> QED
  BY <1>1, <1>2, <1>3, <1>5, <1>6, <1>7, <1>8, SweepStep, SweepResumesStep DEF Next

\* The inductive invariant of the manager of setup sessions holds in every
\* reachable state, for every set of requests, clients and revisions.
THEOREM SetupInvariance == Spec => []SetupInv
<1>1. QED
  BY InitOK, NextOK, PTL DEF Spec

\* The invariant implies that the manager's books are sound.
LEMMA InvSound == SetupInv => SessionsSound
<1> SUFFICES ASSUME SetupInv PROVE SessionsSound
  OBVIOUS
<1>1. DOMAIN m.ses = Known /\ Known \subseteq SessionIds
  BY KnownIds DEF SetupInv, TypeInv, Managers, Known
<1>2. TypeOK
  <2>1. \A n \in Known : n \in SessionIds /\ m.ses[n] \in Sessions
    BY <1>1, KnownIds DEF SetupInv, TypeInv, Managers
  <2>2. m.att \in Attempts \cup {NoAttempt} /\ m.session \in {0} \cup Known
    BY DEF SetupInv, TypeInv, Managers
  <2>3. \A c \in Conns : conn[c] \in {0} \cup Known
    BY <2>2 DEF SetupInv, NoLingeringClient
  <2> QED
    BY <1>1, <2>1, <2>2, <2>3 DEF TypeOK, SetupInv, TypeInv
<1>3. ASSUME NEW p \in SessionIds, procs[p].tree = "live" \/ p \in unconfirmed
      PROVE  m.session = p /\ p \in Known /\ ~procs[p].stopped
  <2>1. ~procs[p].stopped
    BY <1>3 DEF SetupInv, ProcInv
  <2>2. m.session = p
    BY <1>3, <2>1 DEF SetupInv, ProcInv, Unsettled
  <2>3. 0 \notin SessionIds
    BY DEF SessionIds
  <2> QED
    BY <2>1, <2>2, <2>3 DEF SetupInv, TypeInv
<1>4. ASSUME NEW p \in SessionIds, procs[p].tree = "live" \/ p \in unconfirmed
      PROVE  m.ses[p].state \in Active \cup {"failed"} /\ (m.ses[p].finalized => m.ses[p].state = "failed")
  <2>1. Record(m.ses[p], p) /\ m.ses[p] \in Sessions
    BY <1>3, <1>4, KnownIds DEF SetupInv, RecordInv, TypeInv, Managers
  <2> QED
    BY <1>3, <1>4, <2>1 DEF Record, Sessions, Active
<1>5. OneSetupTree
  BY <1>3, <1>4 DEF OneSetupTree
<1>6. ShutdownLeavesNothing
  <2> SUFFICES ASSUME task[Shutdown].pc = "down", NEW p \in SessionIds, procs[p].tree = "live"
               PROVE  m.ses[p].state = "failed"
    BY DEF ShutdownLeavesNothing
  <2>1. m.session = p /\ p # 0
    BY <1>3 DEF SessionIds
  <2>2. m.ses[p].finalized
    BY <2>1 DEF SetupInv, ClosingInv
  <2> QED
    BY <1>4, <2>2
<1> QED
  BY <1>2, <1>5, <1>6 DEF SessionsSound, SetupInv

\* The manager's books agree with the processes and clients they stand for: at
\* most one process tree of setup may be alive, it is the current session's, shutdown
\* leaves nothing behind it and no client waits on a stream that has ended
\* (start, _fail_spawn, _reap_cancelled_spawn, _finalize, shutdown).
THEOREM SessionsAreSound == Spec => []SessionsSound
<1>1. QED
  BY SetupInvariance, InvSound, PTL

\* The invariant implies that completion is earned.
LEMMA InvEarned == SetupInv => CompletionIsEarned
<1> SUFFICES ASSUME SetupInv, m.att.id # 0, Decide(m, revision) = "complete"
             PROVE  /\ m.att.id \in Credentials
                    /\ m.att.session # 0 =>
                         \/ m.session = m.att.session /\ m.ses[m.att.session].state \in Active
                         \/ procs[m.att.session].tree = "gone" /\ procs[m.att.session].code = 0
  BY DEF CompletionIsEarned
<1>1. PICK n : n = m.att.session
  OBVIOUS
<1>2. /\ ~m.att.cancelled /\ m.att.ack = revision /\ revision \in Ready
      /\ n # 0 /\ m.ses[n].finalized => ExitIsClean(m.ses[n])
  BY <1>1 DEF Decide
<1>3. revision # None
  BY <1>2, SetupAssumption
<1>4. Sound(m.att, m.ses, m.session)
  BY DEF SetupInv, AttemptInv
<1>5. m.att.id \in Credentials
  BY <1>2, <1>3, <1>4 DEF Sound
<1>6. ASSUME n # 0
      PROVE  \/ m.session = n /\ m.ses[n].state \in Active
             \/ procs[n].tree = "gone" /\ procs[n].code = 0
  <2>1. n \in Known /\ n \in SessionIds /\ Record(m.ses[n], n)
    BY <1>1, <1>4, <1>6, KnownIds DEF Sound, Known, SetupInv, RecordInv
  <2>2. CASE m.ses[n].finalized
    <3>1. m.ses[n].code = 0 /\ 0 # None
      BY <1>2, <1>6, <2>2, SetupAssumption DEF ExitIsClean
    <3>2. procs[n].stopped /\ procs[n].code = 0
      BY <2>1, <3>1 DEF Record
    <3> QED
      BY <2>1, <3>2 DEF SetupInv, ProcInv
  <2>3. CASE ~m.ses[n].finalized
    BY <1>1, <1>2, <1>4, <1>6, <2>1, <2>3 DEF Sound, Record
  <2> QED
    BY <2>2, <2>3
<1> QED
  BY <1>1, <1>5, <1>6

\* Setup is declared complete only on evidence: the attempt's own report and, once
\* the session has ended, a tree that is gone and exited with code 0 (_decide).
THEOREM CompletionEarned == Spec => []CompletionIsEarned
<1>1. QED
  BY SetupInvariance, InvEarned, PTL

-----------------------------------------------------------------------------
(* Agents and their prompts: what is known of a request. *)

(* What its form promises of a request: the fields its kind has. *)
SlotKinds == Kinds \ {"channel_create", "channel_rekey", "channel_delete", "channel_content"}

FormOK(o) ==
    /\ o.kind \in SlotKinds => o.slot \in Slots
    /\ o.kind \in Kinds \ SlotKinds => o.channel \in Channels
    /\ o.kind = "move" => o.to \in Slots /\ o.to # o.slot
    /\ o.kind \in {"create_prompt", "update_prompt", "delete_prompt"} => o.prompt \in Prompts
    /\ o.kind \in {"create_prompt", "update_prompt", "content", "channel_content"} =>
         o.content \in Contents
    /\ o.kind = "selector" => o.memory \in Selectors
    /\ o.kind = "channel_rekey" => o.new \in Channels
    /\ o.kind = "content" => /\ Exists(o.page, o.slot)
                             /\ MemoryOf(o.page, o.slot) # RunMemory

(* The steps for which locks are asked. *)
Lockings == {<<"create_agent", "create">>, <<"remove_agent", "remove">>,
             <<"remove_agent", "purge">>, <<"move", "namespaces">>, <<"move", "reload">>,
             <<"move", "stage">>, <<"channel_delete", "check">>, <<"submit", "load">>}

(* Where an operation is once its locks are there. *)
Towards(o) == IF o.pc = "locking" THEN o.then ELSE o.pc

(* What a request has read agrees with its page. *)
ReadOK(o) ==
    /\ o.pc # "idle" => o.kind \in Kinds /\ o.page \in Config
    /\ o.pc = "locking" => <<o.kind, o.then>> \in Lockings
    /\ o.pc = "save" => o.kind \in {"content", "channel_content"}
    /\ o.pc = "replace" => /\ o.kind \in {"selector", "channel_create", "channel_rekey"}
                           /\ o.seen \in Config
    /\ o.pc = "routines" => o.kind = "routines"
    /\ o.kind = "submit" /\ o.pc # "open" =>
         o.seen \in Config /\ Exists(o.seen, o.slot)
    /\ o.kind = "move" /\ o.pc # "open" =>
         /\ Exists(o.page, o.slot) /\ ~Exists(o.page, o.to)
         /\ Entered(o.entries) = Registered(o.page, o.slot)

(* The locks a request holds at a step, or waits for on its way to it. *)
TeamsOf(o) == {TeamLock(o.slot[1])} \cup (IF o.kind = "move" THEN {TeamLock(o.to[1])} ELSE {})
SpacesOf(o) == {SpaceLock(o.slot), SpaceLock(o.to)}
MemoriesOf(o) ==
    IF Owned(o.page, o.slot) = {} THEN {} ELSE {MemoryLock(o.slot), MemoryLock(o.to)}

Wanted(o, step) ==
    CASE o.kind = "move" /\ step = "namespaces" -> TeamsOf(o)
      [] o.kind = "move" /\ step = "reload" -> TeamsOf(o) \cup SpacesOf(o)
      [] o.kind = "move" /\ step \in {"stage", "copy", "commit", "cleanup"} ->
            TeamsOf(o) \cup SpacesOf(o) \cup MemoriesOf(o)
      [] o.kind = "submit" /\ step \in {"load", "resolve"} -> TeamsOf(o)
      [] o.kind = "remove_agent" /\ step = "purge" -> {SpaceLock(o.slot)}
      [] o.kind = "channel_delete" /\ step \in {"check", "archive"} -> ChannelLocks
      [] o.kind = "routines" /\ step = "routines" -> {ConfigLock}
      [] OTHER -> {}

HeldOK(o) ==
    /\ Wanted(o, Towards(o)) \subseteq o.held \cup (IF o.pc = "locking" THEN o.needs ELSE {})
    /\ o.pc = "locking" => /\ o.needs # {}
                           /\ \A l \in o.needs : Rank(l) \in Nat
                           /\ o.then = "stage" => o.needs \subseteq MemoriesOf(o)

(* The locks of two requests are different, and no job runs on a memory whose
   lock a request holds. *)
LocksExclusive ==
    /\ \A e, f \in Editors : e # f => op[e].held \cap op[f].held = {}
    /\ \A e \in Editors, mem \in Slots \cup Channels :
         MemoryLock(mem) \in op[e].held => ~RunningOn(mem)

(* A move that was accepted under its locks finds everything as it was. *)
MoveOK(o) ==
    o.kind = "move" /\ Towards(o) \in {"stage", "copy", "commit"} =>
    /\ ActiveFor(o.slot) = {} /\ ActiveFor(o.to) = {}
    /\ \A p \in Entered(o.entries) : files[<<o.slot, p>>] = o.entries[p]
    /\ Towards(o) # "commit" => o.to \notin spaces
    /\ o.pc = "commit" => \A p \in Entered(o.entries) : files[<<o.to, p>>] = o.entries[p]
    /\ o.pc \in {"copy", "commit"} /\ Owned(o.page, o.slot) # {} =>
         memory[o.to] \in {Empty, memory[o.slot]} \ {Missing}

RoutinesOK(o) == o.pc = "routines" => config = o.page /\ Exists(o.page, o.slot)

ArchiveOK(o) == o.kind = "channel_delete" /\ o.pc = "archive" => ActiveOn(o.channel) = {}

Assured(o) == FormOK(o) /\ ReadOK(o) /\ HeldOK(o) /\ MoveOK(o) /\ RoutinesOK(o) /\ ArchiveOK(o)

RequestsInv == AgentsTypeOK /\ LocksExclusive /\ \A e \in Editors : Assured(op[e])

(* What a request has read is what its page says, if it read the page's
   configuration. *)
FreshOK(o) ==
    /\ o.kind = "remove_agent" /\ o.pc # "open" =>
         Exists(o.page, o.slot) /\ Entered(o.entries) = Registered(o.page, o.slot)
    /\ o.kind = "delete_prompt" /\ o.pc # "open" =>
         /\ Exists(o.page, o.slot) /\ o.prompt \in Registered(o.page, o.slot)
         /\ o.prompt \notin o.page.agents[o.slot].uses
    /\ o.pc = "replace" =>
         \A s \in Slots : /\ Exists(o.seen, s) <=> Exists(o.page, s)
                          /\ Exists(o.page, s) =>
                               /\ o.seen.agents[s].prompts = o.page.agents[s].prompts
                               /\ o.seen.agents[s].uses = o.page.agents[s].uses

(* The prompt files that a request has created and not registered yet, or that
   are no longer registered and that it has yet to delete. *)
Claims(o, s, p) ==
    \/ /\ o.kind = "create_prompt" /\ o.pc \in {"register", "undo"}
       /\ s = o.slot /\ p = o.prompt
    \/ /\ o.kind = "delete_prompt" /\ o.pc = "unlink"
       /\ s = o.slot /\ p = o.prompt
    \/ /\ o.kind = "remove_agent" /\ Towards(o) = "purge"
       /\ s = o.slot /\ p \in Entered(o.entries)
    \/ /\ o.kind = "move" /\ o.pc = "commit" /\ s = o.to /\ p \in Entered(o.entries)
    \/ /\ o.kind = "move" /\ o.pc = "cleanup" /\ s = o.slot /\ p \in Entered(o.entries)

HasPrompt(c, s, p) == Exists(c, s) /\ p \in Registered(c, s)

(* A file is registered or claimed by one request, or left behind by nobody;
   what is registered or claimed exists. *)
ClaimsInv ==
    /\ \A s \in Slots, p \in Prompts :
         HasPrompt(config, s, p) => files[<<s, p>>] # Missing /\ s \in spaces
    /\ \A e \in Editors : \A s \in Slots, p \in Prompts :
         Claims(op[e], s, p) => /\ ~HasPrompt(config, s, p)
                                /\ files[<<s, p>>] # Missing /\ s \in spaces
    /\ \A e, f \in Editors : \A s \in Slots, p \in Prompts :
         Claims(op[e], s, p) /\ Claims(op[f], s, p) => e = f

UsesInv == \A s \in Slots : Exists(config, s) =>
                config.agents[s].uses \subseteq Registered(config, s)

PromptsSound == ClaimsInv /\ UsesInv /\ \A e \in Editors : FreshOK(op[e])

AgentsInv == RequestsInv /\ PromptsSound


-----------------------------------------------------------------------------
StoresOK ==
    /\ config \in Config /\ Valid(config)
    /\ files \in [Slots \X Prompts -> File] /\ spaces \subseteq Slots
    /\ memory \in [Slots \cup Channels -> File]
    /\ jobs \in [Jobs -> Job \cup {NoJob}]
    /\ begun \in 0..MaxOps /\ deaths \in 0..MaxDeaths

(* What a step leaves alone for a request that holds locks. *)
Spares(o) ==
    /\ \A s \in Slots : SpaceLock(s) \in o.held =>
         /\ \A p \in Prompts : files'[<<s, p>>] = files[<<s, p>>]
         /\ s \in spaces' <=> s \in spaces
    /\ \A s \in Slots : MemoryLock(s) \in o.held => memory'[s] = memory[s]
    /\ \A s \in Slots : TeamLock(s[1]) \in o.held => ActiveFor(s)' \subseteq ActiveFor(s)
    /\ ChannelLocks \subseteq o.held => \A ch \in Channels : ActiveOn(ch)' \subseteq ActiveOn(ch)
    /\ ConfigLock \in o.held => config' = config

(* Every set of numbers has a least one. *)
LEMMA LeastOf == ASSUME NEW T \in SUBSET Nat, T # {} PROVE \E x \in T : \A y \in T : x <= y
<1> DEFINE R == OpToRel(<, Nat)
<1>1. IsWellFoundedOn(R, Nat) BY NatLessThanWellFounded
<1>2. \A x, y \in Nat : x < y => <<x, y>> \in R BY DEF OpToRel
<1> HIDE DEF R
<1>3. PICK x \in T : \A y \in T : ~(<<y, x>> \in R) BY <1>1, WFMin
<1>4. ASSUME NEW y \in T PROVE x <= y
  <2>1. ~(y < x) BY <1>2, <1>3
  <2> QED BY <2>1
<1> QED BY <1>4

(* The next lock of an editor is one that it still needs. *)
LEMMA NextLockNeeded ==
    ASSUME NEW e \in Editors, op[e].needs # {}, \A l \in op[e].needs : Rank(l) \in Nat
    PROVE  NextLock(e) \in op[e].needs
<1> DEFINE T == {Rank(l) : l \in op[e].needs}
<1>1. T \in SUBSET Nat /\ T # {} OBVIOUS
<1>2. PICK x \in T : \A y \in T : x <= y BY <1>1, LeastOf
<1>3. PICK l \in op[e].needs : x = Rank(l) BY <1>2
<1>4. \A k \in op[e].needs : Rank(l) <= Rank(k) BY <1>2, <1>3
<1> QED BY <1>4 DEF NextLock

(* An editor without a request promises and claims nothing. *)
LEMMA NoRequestOK ==
    /\ NoRequest \in RequestType /\ Assured(NoRequest) /\ FreshOK(NoRequest)
    /\ \A s, p : ~Claims(NoRequest, s, p)
    /\ NoRequest.held = {} /\ NoRequest.pc = "idle" /\ NoRequest.kind = "none"
<1>1. NoRequest \in RequestType
  BY AgentConstants DEF NoRequest, RequestType, RequestSteps, File
<1>2. Assured(NoRequest)
  BY DEF NoRequest, Assured, FormOK, ReadOK, HeldOK, MoveOK, RoutinesOK, ArchiveOK, Wanted,
         Towards, SlotKinds, Kinds
<1> QED BY <1>1, <1>2 DEF NoRequest, FreshOK, Claims, Towards

(* Once its locks are there, a move holds those of both teams, of both prompt
   namespaces and of the memories that move with the agent. *)
LEMMA HeldAtMove ==
    ASSUME NEW o \in RequestType, ReadOK(o), HeldOK(o), o.kind = "move",
           Towards(o) \in {"stage", "copy", "commit", "cleanup"}
    PROVE  /\ TeamLock(o.slot[1]) \in o.held /\ TeamLock(o.to[1]) \in o.held
           /\ SpaceLock(o.slot) \in o.held /\ SpaceLock(o.to) \in o.held
           /\ o.pc # "locking" /\ Owned(o.page, o.slot) # {} =>
                MemoryLock(o.slot) \in o.held /\ MemoryLock(o.to) \in o.held
<1>1. TeamsOf(o) \cup SpacesOf(o) \cup MemoriesOf(o)
        \subseteq o.held \cup (IF o.pc = "locking" THEN o.needs ELSE {})
  BY DEF HeldOK, Wanted
<1>2. o.pc = "locking" => o.needs \subseteq MemoriesOf(o)
  BY DEF HeldOK, ReadOK, Lockings, Towards
<1>3. \A l \in TeamsOf(o) \cup SpacesOf(o) : l \notin MemoriesOf(o)
  BY DEF TeamsOf, SpacesOf, MemoriesOf, TeamLock, SpaceLock, MemoryLock
<1>4. TeamsOf(o) \cup SpacesOf(o) \subseteq o.held BY <1>1, <1>2, <1>3
<1>5. o.pc # "locking" => MemoriesOf(o) \subseteq o.held BY <1>1
<1> QED BY <1>4, <1>5 DEF TeamsOf, SpacesOf, MemoriesOf

(* What is known of a request stays true while others leave alone what it has
   locked. *)
LEMMA AssuredStays ==
    ASSUME AgentsTypeOK, NEW o \in RequestType, Assured(o), Spares(o)
    PROVE  Assured(o)'
<1>1. FormOK(o)' /\ ReadOK(o)' /\ HeldOK(o)'
  BY DEF Assured, FormOK, ReadOK, HeldOK, Wanted, TeamsOf, SpacesOf, MemoriesOf, Owned,
         Exists, Registered, Entered, Towards
<1>2. MoveOK(o)'
  <2>1. SUFFICES ASSUME o.kind = "move", Towards(o) \in {"stage", "copy", "commit"}
                 PROVE  MoveOK(o)'
    BY DEF MoveOK, Towards
  <2>2. o.slot \in Slots /\ o.to \in Slots BY <2>1 DEF Assured, FormOK, SlotKinds, Kinds
  <2>3. MoveOK(o) BY DEF Assured
  <2>4. /\ TeamLock(o.slot[1]) \in o.held /\ TeamLock(o.to[1]) \in o.held
        /\ SpaceLock(o.slot) \in o.held /\ SpaceLock(o.to) \in o.held
        /\ o.pc # "locking" /\ Owned(o.page, o.slot) # {} =>
             MemoryLock(o.slot) \in o.held /\ MemoryLock(o.to) \in o.held
    BY <2>1, HeldAtMove DEF Assured
  <2>5. ActiveFor(o.slot)' = {} /\ ActiveFor(o.to)' = {}
    BY <2>1, <2>2, <2>3, <2>4 DEF Spares, MoveOK
  <2>6. /\ \A p \in Prompts : /\ files'[<<o.slot, p>>] = files[<<o.slot, p>>]
                              /\ files'[<<o.to, p>>] = files[<<o.to, p>>]
        /\ o.to \in spaces' <=> o.to \in spaces
    BY <2>2, <2>4 DEF Spares
  <2>7. o.pc \in {"copy", "commit"} /\ Owned(o.page, o.slot) # {} =>
             memory'[o.to] = memory[o.to] /\ memory'[o.slot] = memory[o.slot]
    BY <2>2, <2>4 DEF Spares
  <2>8. Entered(o.entries) \subseteq Prompts BY DEF Entered
  <2> QED BY <2>1, <2>3, <2>5, <2>6, <2>7, <2>8 DEF MoveOK, Towards, Owned, Entered
<1>3. RoutinesOK(o)'
  <2>1. o.pc = "routines" => ConfigLock \in o.held
    BY DEF Assured, ReadOK, HeldOK, Wanted, Towards
  <2> QED BY <2>1 DEF Assured, RoutinesOK, Spares, Exists
<1>4. ArchiveOK(o)'
  <2>1. o.kind = "channel_delete" /\ o.pc = "archive" => ChannelLocks \subseteq o.held
    BY DEF Assured, HeldOK, Wanted, Towards
  <2>2. o.kind = "channel_delete" => o.channel \in Channels
    BY DEF Assured, FormOK, SlotKinds, Kinds
  <2> QED BY <2>1, <2>2 DEF Assured, ArchiveOK, Spares
<1> QED BY <1>1, <1>2, <1>3, <1>4 DEF Assured

(* A step of one request. *)
LEMMA RequestKeeps ==
    ASSUME RequestsInv, NEW e \in Editors, NEW r \in RequestType,
           op' = [op EXCEPT ![e] = r], StoresOK', Assured(r)',
           \A l \in r.held : l \in op[e].held \/ Free(l),
           \A mem \in Slots \cup Channels : RunningOn(mem)' => RunningOn(mem),
           \A f \in Editors : f # e => Spares(op[f])
    PROVE  RequestsInv'
<1>1. op \in [Editors -> RequestType] /\ op' \in [Editors -> RequestType]
  BY DEF RequestsInv, AgentsTypeOK
<1>2. op'[e] = r /\ \A f \in Editors : f # e => op'[f] = op[f] BY <1>1
<1>3. ASSUME NEW f \in Editors PROVE Assured(op[f])'
  <2>1. CASE f = e
    <3>1. \A o : o = r => (Assured(o))' OBVIOUS
    <3> QED BY <1>2, <2>1 DEF Assured, FormOK, ReadOK, HeldOK, MoveOK, RoutinesOK, ArchiveOK
  <2>2. CASE f # e
    <3>1. PICK o \in RequestType : o = op[f] BY <1>1
    <3>2. Assured(o) /\ Spares(o) BY <2>2, <3>1 DEF RequestsInv
    <3>3. Assured(o)' BY <3>2, AssuredStays DEF RequestsInv
    <3>4. o = op'[f] BY <1>2, <2>2, <3>1
    <3> QED BY <3>3, <3>4 DEF Assured, FormOK, ReadOK, HeldOK, MoveOK, RoutinesOK, ArchiveOK
  <2> QED BY <2>1, <2>2
<1>4. AgentsTypeOK'
  <2>1. \A f \in Editors : ReadOK(op[f])' BY <1>3 DEF Assured
  <2> QED BY <1>1, <2>1 DEF AgentsTypeOK, StoresOK, ReadOK
<1>5. LocksExclusive'
  <2>1. \A f, g \in Editors : f # g => op'[f].held \cap op'[g].held = {}
    <3>1. \A f \in Editors : f # e => r.held \cap op[f].held = {}
      BY <1>1 DEF RequestsInv, LocksExclusive, Free
    <3> QED BY <1>2, <3>1 DEF RequestsInv, LocksExclusive
  <2>2. \A mem \in Slots \cup Channels : MemoryLock(mem) \in r.held => ~RunningOn(mem)
    BY DEF RequestsInv, LocksExclusive, Free, MemoryLock
  <2>3. \A f \in Editors, mem \in Slots \cup Channels :
           MemoryLock(mem) \in op'[f].held => ~RunningOn(mem)
    BY <1>2, <2>2 DEF RequestsInv, LocksExclusive
  <2> QED BY <2>1, <2>3 DEF LocksExclusive
<1> QED BY <1>3, <1>4, <1>5 DEF RequestsInv

(* A step that changes nothing but what one request knows. *)
LEMMA QuietStep ==
    ASSUME RequestsInv, NEW e \in Editors, NEW r \in RequestType,
           op' = [op EXCEPT ![e] = r], UNCHANGED <<config, files, spaces, memory, jobs>>,
           begun' \in 0..MaxOps, deaths' \in 0..MaxDeaths, Assured(r),
           \A l \in r.held : l \in op[e].held \/ Free(l)
    PROVE  RequestsInv'
<1>1. StoresOK'
  BY DEF RequestsInv, AgentsTypeOK, StoresOK, Valid, Exists, Declared
<1>2. \A mem : (RunningOn(mem))' <=> RunningOn(mem) BY DEF RunningOn
<1>3. \A o \in RequestType : Spares(o)
  BY DEF Spares, ActiveFor, ActiveOn
<1>4. Assured(r)' BY <1>3, AssuredStays DEF RequestsInv
<1>5. \A f \in Editors : Spares(op[f]) BY <1>3 DEF RequestsInv, AgentsTypeOK
<1> QED BY <1>1, <1>2, <1>4, <1>5, RequestKeeps

(* One request steps: the prompts stay in order if whatever it lists or claims
   afterwards was its own or nobody's, and exists. *)
LEMMA ClaimsStep ==
    ASSUME ClaimsInv, op \in [Editors -> RequestType], NEW e \in Editors, NEW r,
           op' = [op EXCEPT ![e] = r],
           \A s \in Slots, p \in Prompts : ~(Claims(r, s, p) /\ HasPrompt(config', s, p)),
           \A s \in Slots, p \in Prompts : Claims(r, s, p) \/ HasPrompt(config', s, p) =>
             /\ \/ Claims(op[e], s, p) \/ HasPrompt(config, s, p)
                \/ \A f \in Editors : ~Claims(op[f], s, p)
             /\ files'[<<s, p>>] # Missing /\ s \in spaces',
           \A s \in Slots, p \in Prompts : files'[<<s, p>>] = Missing =>
             files[<<s, p>>] = Missing \/ Claims(op[e], s, p),
           spaces \subseteq spaces'
    PROVE  ClaimsInv'
<1>1. op'[e] = r /\ \A f \in Editors : f # e => op'[f] = op[f] OBVIOUS
<1>2. \A s \in Slots, p \in Prompts :
         HasPrompt(config', s, p) => files'[<<s, p>>] # Missing /\ s \in spaces'
  OBVIOUS
<1>3. ASSUME NEW f \in Editors, NEW s \in Slots, NEW p \in Prompts, Claims(op'[f], s, p)
      PROVE  ~HasPrompt(config', s, p) /\ files'[<<s, p>>] # Missing /\ s \in spaces'
  <2>1. CASE f = e BY <1>1, <1>3, <2>1
  <2>2. CASE f # e
    <3>1. Claims(op[f], s, p) BY <1>1, <1>3, <2>2
    <3>2. /\ ~HasPrompt(config, s, p) /\ ~Claims(op[e], s, p)
          /\ files[<<s, p>>] # Missing /\ s \in spaces
      BY <2>2, <3>1 DEF ClaimsInv
    <3> QED BY <3>1, <3>2
  <2> QED BY <2>1, <2>2
<1>4. ASSUME NEW f \in Editors, NEW s \in Slots, NEW p \in Prompts, f # e,
             Claims(op'[f], s, p), Claims(r, s, p)
      PROVE  FALSE
  <2>1. Claims(op[f], s, p) BY <1>1, <1>4
  <2>2. ~HasPrompt(config, s, p) /\ ~Claims(op[e], s, p) BY <1>4, <2>1 DEF ClaimsInv
  <2> QED BY <1>4, <2>1, <2>2
<1>5. ASSUME NEW f \in Editors, NEW g \in Editors, NEW s \in Slots, NEW p \in Prompts,
             Claims(op'[f], s, p), Claims(op'[g], s, p)
      PROVE  f = g
  <2>1. CASE f # e /\ g # e BY <1>1, <1>5, <2>1 DEF ClaimsInv
  <2>2. CASE f = e /\ g # e BY <1>1, <1>4, <1>5, <2>2
  <2>3. CASE f # e /\ g = e BY <1>1, <1>4, <1>5, <2>3
  <2> QED BY <2>1, <2>2, <2>3
<1> QED BY <1>2, <1>3, <1>5 DEF ClaimsInv, Claims, HasPrompt, Exists, Registered, Towards, Entered

-----------------------------------------------------------------------------
(* Requests begin, wait and end. *)

(* The request that a form begins. *)
Opened(e) ==
    \E r \in RequestType :
       /\ op' = [op EXCEPT ![e] = r] /\ r.pc = "open" /\ r.page = config /\ r.held = {}
       /\ r.kind \in Kinds /\ FormOK(r)

(* The request that a form begins has the fields that its kind promises. *)
LEMMA OpenStep ==
    ASSUME RequestsInv, NEW e \in Editors, NEW form \in RequestType, form.held = {},
           form.kind \in Kinds, Open(e, form),
           FormOK([form EXCEPT !.pc = "open", !.page = config])
    PROVE  Opened(e)
<1>0. PICK step \in RequestSteps : step = "open" BY DEF RequestSteps
<1>1. PICK r : r = [form EXCEPT !.pc = "open", !.page = config] OBVIOUS
<1>2. config \in Config BY DEF RequestsInv, AgentsTypeOK
<1>3. r \in RequestType BY <1>0, <1>1, <1>2 DEF RequestType
<1>4. r.pc = "open" /\ r.page = config /\ r.held = {} /\ r.kind = form.kind
  BY <1>1 DEF RequestType
<1>5. FormOK(r) BY <1>1
<1>6. op' = [op EXCEPT ![e] = r] BY <1>1 DEF Open
<1> HIDE <1>1
<1> QED BY <1>3, <1>4, <1>5, <1>6 DEF Opened

(* A form is a request that is about one agent or one channel. *)
LEMMA Forms ==
    /\ \A kind \in Kinds : \A s \in Slots :
         /\ OnSlot(kind, s) \in RequestType /\ OnSlot(kind, s).kind = kind
         /\ OnSlot(kind, s).slot = s /\ OnSlot(kind, s).held = {}
    /\ \A kind \in Kinds : \A ch \in Channels :
         /\ OnChannel(kind, ch) \in RequestType /\ OnChannel(kind, ch).kind = kind
         /\ OnChannel(kind, ch).channel = ch /\ OnChannel(kind, ch).held = {}
<1>1. ASSUME NEW kind \in Kinds, NEW s \in Slots, NEW o, o = OnSlot(kind, s)
      PROVE  o \in RequestType /\ o.kind = kind /\ o.slot = s /\ o.held = {}
  BY <1>1, NoRequestOK DEF OnSlot, RequestType
<1>2. ASSUME NEW kind \in Kinds, NEW ch \in Channels, NEW o, o = OnChannel(kind, ch)
      PROVE  o \in RequestType /\ o.kind = kind /\ o.channel = ch /\ o.held = {}
  BY <1>2, NoRequestOK DEF OnChannel, RequestType
<1> QED BY <1>1, <1>2

(* Every form begins such a request. *)
LEMMA OpenFormFacts ==
    ASSUME RequestsInv, NEW e \in Editors, OpenForm(e) PROVE Opened(e)
<1> USE DEF RequestsInv, AgentsTypeOK
<1>1. ASSUME NEW kind \in {"create_agent", "remove_agent", "section"}, OpenSlot(e, kind)
      PROVE  Opened(e)
  <2>1. PICK s \in Slots : Open(e, OnSlot(kind, s)) BY <1>1 DEF OpenSlot
  <2>2. PICK o : o = OnSlot(kind, s) OBVIOUS
  <2>3. o \in RequestType /\ o.kind = kind /\ o.slot = s /\ o.held = {} /\ kind \in Kinds
    BY <2>2, Forms DEF Kinds
  <2>4. FormOK([o EXCEPT !.pc = "open", !.page = config])
    BY <2>3 DEF FormOK, RequestType, SlotKinds, Kinds
  <2> QED BY <2>1, <2>2, <2>3, <2>4, OpenStep
<1>2. ASSUME OpenSubmit(e) PROVE Opened(e)
  <2>1. PICK s \in Slots, mem \in Overrides(config) :
          Open(e, [OnSlot("submit", s) EXCEPT !.override = mem])
    BY <1>2 DEF OpenSubmit
  <2>2. PICK o : o = OnSlot("submit", s) OBVIOUS
  <2>3. o \in RequestType /\ o.kind = "submit" /\ o.slot = s /\ o.held = {}
    BY <2>2, Forms DEF Kinds
  <2>4. mem \in Selectors \cup {Missing} BY DEF Overrides, Selectors, Config
  <2>5. PICK x : x = [o EXCEPT !.override = mem] OBVIOUS
  <2>6. x \in RequestType /\ x.kind = "submit" /\ x.slot = s /\ x.held = {}
    BY <2>3, <2>4, <2>5 DEF RequestType
  <2>7. FormOK([x EXCEPT !.pc = "open", !.page = config])
    BY <2>6 DEF FormOK, RequestType, SlotKinds, Kinds
  <2> QED BY <2>1, <2>2, <2>5, <2>6, <2>7, OpenStep DEF Kinds
<1>3. ASSUME OpenMove(e) PROVE Opened(e)
  <2>1. PICK s \in Slots, t \in Teams, copy \in BOOLEAN :
          t # s[1] /\ Open(e, [OnSlot("move", s) EXCEPT !.to = <<t, s[2]>>, !.copy = copy])
    BY <1>3 DEF OpenMove
  <2>2. PICK o : o = OnSlot("move", s) OBVIOUS
  <2>3. o \in RequestType /\ o.kind = "move" /\ o.slot = s /\ o.held = {}
    BY <2>2, Forms DEF Kinds
  <2>4. PICK to \in Slots : to = <<t, s[2]>> /\ to # s
    <3>1. s[2] \in Names BY DEF Slots
    <3>2. <<t, s[2]>> \in Slots BY <3>1 DEF Slots
    <3>3. <<t, s[2]>> # s BY <2>1
    <3> QED BY <3>2, <3>3
  <2>5. PICK x : x = [o EXCEPT !.to = to, !.copy = copy] OBVIOUS
  <2>6. x \in RequestType /\ x.kind = "move" /\ x.slot = s /\ x.held = {} /\ x.to = to
    BY <2>3, <2>5 DEF RequestType
  <2>7. FormOK([x EXCEPT !.pc = "open", !.page = config])
    BY <2>4, <2>6 DEF FormOK, RequestType, SlotKinds, Kinds
  <2> QED BY <2>1, <2>2, <2>4, <2>5, <2>6, <2>7, OpenStep DEF Kinds
<1>4. ASSUME OpenCreatePrompt(e) PROVE Opened(e)
  <2>1. PICK s \in Slots, p \in Prompts, c \in Contents \ {Empty} :
          Open(e, [OnSlot("create_prompt", s) EXCEPT !.prompt = p, !.content = c])
    BY <1>4 DEF OpenCreatePrompt
  <2>2. PICK o : o = OnSlot("create_prompt", s) OBVIOUS
  <2>3. o \in RequestType /\ o.kind = "create_prompt" /\ o.slot = s /\ o.held = {}
    BY <2>2, Forms DEF Kinds
  <2>5. PICK x : x = [o EXCEPT !.prompt = p, !.content = c] OBVIOUS
  <2>6. /\ x \in RequestType /\ x.kind = "create_prompt" /\ x.slot = s /\ x.held = {}
        /\ x.prompt = p /\ x.content = c
    BY <2>3, <2>5, ZenonT(40) DEF RequestType, File
  <2>7. FormOK([x EXCEPT !.pc = "open", !.page = config])
    BY <2>6 DEF FormOK, RequestType, SlotKinds, Kinds
  <2> QED BY <2>1, <2>2, <2>5, <2>6, <2>7, OpenStep DEF Kinds
<1>5. ASSUME OpenUpdatePrompt(e) PROVE Opened(e)
  <2>1. PICK s \in Slots, p \in Prompts, c \in Contents \ {Empty} :
          Open(e, [OnSlot("update_prompt", s) EXCEPT !.prompt = p, !.content = c,
                                                     !.digest = files[<<s, p>>]])
    BY <1>5 DEF OpenUpdatePrompt
  <2>2. PICK o : o = OnSlot("update_prompt", s) OBVIOUS
  <2>3. o \in RequestType /\ o.kind = "update_prompt" /\ o.slot = s /\ o.held = {}
    BY <2>2, Forms DEF Kinds
  <2>4. PICK d \in File : d = files[<<s, p>>] OBVIOUS
  <2>5. PICK x : x = [o EXCEPT !.prompt = p, !.content = c, !.digest = d] OBVIOUS
  <2>6. /\ x \in RequestType /\ x.kind = "update_prompt" /\ x.slot = s /\ x.held = {}
        /\ x.prompt = p /\ x.content = c
    BY <2>3, <2>5, ZenonT(40) DEF RequestType, File
  <2>7. FormOK([x EXCEPT !.pc = "open", !.page = config])
    BY <2>6 DEF FormOK, RequestType, SlotKinds, Kinds
  <2> QED BY <2>1, <2>2, <2>4, <2>5, <2>6, <2>7, OpenStep DEF Kinds
<1>6. ASSUME OpenDeletePrompt(e) PROVE Opened(e)
  <2>1. PICK s \in Slots, p \in Prompts :
          Open(e, [OnSlot("delete_prompt", s) EXCEPT !.prompt = p,
                                                     !.digest = files[<<s, p>>]])
    BY <1>6 DEF OpenDeletePrompt
  <2>2. PICK o : o = OnSlot("delete_prompt", s) OBVIOUS
  <2>3. o \in RequestType /\ o.kind = "delete_prompt" /\ o.slot = s /\ o.held = {}
    BY <2>2, Forms DEF Kinds
  <2>4. PICK d \in File : d = files[<<s, p>>] OBVIOUS
  <2>5. PICK x : x = [o EXCEPT !.prompt = p, !.digest = d] OBVIOUS
  <2>6. /\ x \in RequestType /\ x.kind = "delete_prompt" /\ x.slot = s /\ x.held = {}
        /\ x.prompt = p
    BY <2>3, <2>5 DEF RequestType
  <2>7. FormOK([x EXCEPT !.pc = "open", !.page = config])
    BY <2>6 DEF FormOK, RequestType, SlotKinds, Kinds
  <2> QED BY <2>1, <2>2, <2>4, <2>5, <2>6, <2>7, OpenStep DEF Kinds
<1>7. ASSUME OpenRoutines(e) PROVE Opened(e)
  <2>1. PICK s \in Slots, uses \in SUBSET Prompts :
          Open(e, [OnSlot("routines", s) EXCEPT !.uses = uses])
    BY <1>7 DEF OpenRoutines
  <2>2. PICK o : o = OnSlot("routines", s) OBVIOUS
  <2>3. o \in RequestType /\ o.kind = "routines" /\ o.slot = s /\ o.held = {}
    BY <2>2, Forms DEF Kinds
  <2>5. PICK x : x = [o EXCEPT !.uses = uses] OBVIOUS
  <2>6. x \in RequestType /\ x.kind = "routines" /\ x.slot = s /\ x.held = {}
    BY <2>3, <2>5 DEF RequestType
  <2>7. FormOK([x EXCEPT !.pc = "open", !.page = config])
    BY <2>6 DEF FormOK, RequestType, SlotKinds, Kinds
  <2> QED BY <2>1, <2>2, <2>5, <2>6, <2>7, OpenStep DEF Kinds
<1>8. ASSUME OpenSelector(e) PROVE Opened(e)
  <2>1. PICK s \in Slots, mem \in {OwnMemory} \cup Channels :
          Open(e, [OnSlot("selector", s) EXCEPT !.memory = mem])
    BY <1>8 DEF OpenSelector
  <2>2. PICK o : o = OnSlot("selector", s) OBVIOUS
  <2>3. o \in RequestType /\ o.kind = "selector" /\ o.slot = s /\ o.held = {}
    BY <2>2, Forms DEF Kinds
  <2>5. PICK x : x = [o EXCEPT !.memory = mem] OBVIOUS
  <2>6. /\ x \in RequestType /\ x.kind = "selector" /\ x.slot = s /\ x.held = {}
        /\ x.memory \in Selectors
    BY <2>3, <2>5 DEF RequestType, Selectors
  <2>7. FormOK([x EXCEPT !.pc = "open", !.page = config])
    BY <2>6 DEF FormOK, RequestType, SlotKinds, Kinds
  <2> QED BY <2>1, <2>2, <2>5, <2>6, <2>7, OpenStep DEF Kinds
<1>9. ASSUME OpenChannelCreate(e) \/ OpenChannelDelete(e) PROVE Opened(e)
  <2>1. PICK kind \in {"channel_create", "channel_delete"}, ch \in Channels :
          Open(e, OnChannel(kind, ch))
    BY <1>9 DEF OpenChannelCreate, OpenChannelDelete
  <2>2. PICK o : o = OnChannel(kind, ch) OBVIOUS
  <2>3. o \in RequestType /\ o.kind = kind /\ o.channel = ch /\ o.held = {} /\ kind \in Kinds
    BY <2>2, Forms DEF Kinds
  <2>4. FormOK([o EXCEPT !.pc = "open", !.page = config])
    BY <2>3 DEF FormOK, RequestType, SlotKinds, Kinds
  <2> QED BY <2>1, <2>2, <2>3, <2>4, OpenStep
<1>10. ASSUME OpenChannelRekey(e) PROVE Opened(e)
  <2>1. PICK ch \in Channels, new \in Channels :
          Open(e, [OnChannel("channel_rekey", ch) EXCEPT !.new = new])
    BY <1>10 DEF OpenChannelRekey
  <2>2. PICK o : o = OnChannel("channel_rekey", ch) OBVIOUS
  <2>3. o \in RequestType /\ o.kind = "channel_rekey" /\ o.channel = ch /\ o.held = {}
    BY <2>2, Forms DEF Kinds
  <2>5. PICK x : x = [o EXCEPT !.new = new] OBVIOUS
  <2>6. /\ x \in RequestType /\ x.kind = "channel_rekey" /\ x.channel = ch /\ x.held = {}
        /\ x.new = new
    BY <2>3, <2>5 DEF RequestType
  <2>7. FormOK([x EXCEPT !.pc = "open", !.page = config])
    BY <2>6 DEF FormOK, RequestType, SlotKinds, Kinds
  <2> QED BY <2>1, <2>2, <2>5, <2>6, <2>7, OpenStep DEF Kinds
<1>11. ASSUME OpenContent(e) PROVE Opened(e)
  <2>1. PICK s \in Slots, c \in Contents :
          /\ Exists(config, s) /\ MemoryOf(config, s) # RunMemory
          /\ Open(e, [OnSlot("content", s) EXCEPT !.content = c,
                                                  !.digest = Shown(MemoryOf(config, s))])
    BY <1>11 DEF OpenContent
  <2>2. PICK o : o = OnSlot("content", s) OBVIOUS
  <2>3. o \in RequestType /\ o.kind = "content" /\ o.slot = s /\ o.held = {}
    BY <2>2, Forms DEF Kinds
  <2>4. Shown(MemoryOf(config, s)) \in File
    <3>1. config.agents[s] \in Agent BY <2>1 DEF Exists, Config
    <3>2. config.agents[s].memory \in {RunMemory, OwnMemory} \cup Channels BY <3>1 DEF Agent
    <3>4. MemoryOf(config, s) \in Slots \cup Channels
      BY <2>1, <3>2 DEF MemoryOf, Resolve
    <3> QED BY <3>4, AgentConstants DEF Shown, File
  <2>5. PICK d \in File : d = Shown(MemoryOf(config, s)) BY <2>4
  <2>6. PICK x : x = [o EXCEPT !.content = c, !.digest = d] OBVIOUS
  <2>7. /\ x \in RequestType /\ x.kind = "content" /\ x.slot = s /\ x.held = {}
        /\ x.content = c
    BY <2>3, <2>6, ZenonT(40) DEF RequestType, File
  <2>8. FormOK([x EXCEPT !.pc = "open", !.page = config])
    BY <2>1, <2>4, <2>7 DEF FormOK, RequestType, SlotKinds, Kinds
  <2> QED BY <2>1, <2>2, <2>5, <2>6, <2>7, <2>8, OpenStep DEF Kinds
<1>12. ASSUME OpenChannelContent(e) PROVE Opened(e)
  <2>1. PICK ch \in config.channels, c \in Contents :
          Open(e, [OnChannel("channel_content", ch) EXCEPT !.content = c,
                                                           !.digest = Shown(ch)])
    BY <1>12 DEF OpenChannelContent
  <2>2. PICK o : o = OnChannel("channel_content", ch) OBVIOUS
  <2>3. ch \in Channels BY DEF Config
  <2>4. o \in RequestType /\ o.kind = "channel_content" /\ o.channel = ch /\ o.held = {}
    BY <2>2, <2>3, Forms DEF Kinds
  <2>5. PICK d \in File : d = Shown(ch) BY <2>3, AgentConstants DEF Shown, File
  <2>6. PICK x : x = [o EXCEPT !.content = c, !.digest = d] OBVIOUS
  <2>7. /\ x \in RequestType /\ x.kind = "channel_content" /\ x.channel = ch /\ x.held = {}
        /\ x.content = c
    BY <2>4, <2>6, ZenonT(40) DEF RequestType, File
  <2>8. FormOK([x EXCEPT !.pc = "open", !.page = config])
    BY <2>3, <2>7 DEF FormOK, RequestType, SlotKinds, Kinds
  <2> QED BY <2>1, <2>2, <2>5, <2>6, <2>7, <2>8, OpenStep DEF Kinds
<1> QED
  BY <1>1, <1>2, <1>3, <1>4, <1>5, <1>6, <1>7, <1>8, <1>9, <1>10, <1>11, <1>12
  DEF OpenForm, OpenCreateAgent, OpenRemoveAgent, OpenProfile, OpenRuntime, OpenPermissions

(* A form only begins a request. *)
LEMMA OpenFormKeeps ==
    ASSUME NEW e, OpenForm(e)
    PROVE  /\ UNCHANGED <<config, files, spaces, memory, jobs, deaths>>
           /\ op[e].pc = "idle" /\ begun < MaxOps /\ begun' = begun + 1
BY DEF OpenForm, OpenCreateAgent, OpenRemoveAgent, OpenProfile, OpenRuntime, OpenPermissions,
       OpenMove, OpenCreatePrompt, OpenUpdatePrompt, OpenDeletePrompt, OpenRoutines,
       OpenSelector, OpenChannelContent, OpenChannelCreate, OpenChannelRekey,
       OpenChannelDelete, OpenContent, OpenSubmit, OpenSlot, Open

(* A form begins a request of which nothing is assured yet but its fields. *)
LEMMA OpenFormStep ==
    ASSUME RequestsInv, NEW e \in Editors, OpenForm(e) PROVE RequestsInv'
<1>1. PICK r \in RequestType :
        /\ op' = [op EXCEPT ![e] = r] /\ r.pc = "open" /\ r.page = config /\ r.held = {}
        /\ r.kind \in Kinds /\ FormOK(r)
  BY OpenFormFacts DEF Opened
<1>2. config \in Config BY DEF RequestsInv, AgentsTypeOK
<1>3. ReadOK(r) BY <1>1, <1>2 DEF ReadOK
<1>4. HeldOK(r) BY <1>1 DEF HeldOK, Wanted, Towards
<1>5. MoveOK(r) /\ RoutinesOK(r) /\ ArchiveOK(r)
  BY <1>1 DEF MoveOK, RoutinesOK, ArchiveOK, Towards
<1>6. /\ UNCHANGED <<config, files, spaces, memory, jobs>>
      /\ begun' \in 0..MaxOps /\ deaths' \in 0..MaxDeaths
  BY OpenFormKeeps, AgentConstants DEF RequestsInv, AgentsTypeOK
<1> QED BY <1>1, <1>3, <1>4, <1>5, <1>6, QuietStep DEF Assured


(* Two requests that differ only in what they wait for. *)
SameButPhase(q, r) ==
    /\ q.held = r.held /\ q.kind = r.kind /\ q.slot = r.slot /\ q.to = r.to /\ q.copy = r.copy
    /\ q.prompt = r.prompt /\ q.content = r.content /\ q.digest = r.digest /\ q.uses = r.uses
    /\ q.memory = r.memory /\ q.channel = r.channel /\ q.new = r.new
    /\ q.override = r.override /\ q.page = r.page /\ q.entries = r.entries
    /\ q.revision = r.revision /\ q.seen = r.seen /\ q.archive = r.archive

(* Asking for locks changes the phase of a request and nothing else. *)
LEMMA LockingFacts ==
    ASSUME NEW r \in RequestType, NEW locks \in SUBSET Locks,
           NEW step \in RequestSteps \ {"locking"}, NEW q, q = Locking(r, locks, step)
    PROVE  /\ q \in RequestType /\ SameButPhase(q, r) /\ q.needs = locks /\ q.then = step
           /\ q.pc = (IF locks = {} THEN step ELSE "locking") /\ Towards(q) = step
<1>1. PICK pc \in RequestSteps : pc = (IF locks = {} THEN step ELSE "locking")
  BY DEF RequestSteps
<1>2. q = [r EXCEPT !.pc = pc, !.needs = locks, !.then = step] BY <1>1 DEF Locking
<1>3. q \in RequestType BY <1>2, ZenonT(40) DEF RequestType
<1>4. SameButPhase(q, r) BY <1>2 DEF SameButPhase, RequestType
<1>5. q.pc = pc /\ q.needs = locks /\ q.then = step BY <1>2 DEF RequestType
<1> QED BY <1>1, <1>3, <1>4, <1>5 DEF Towards

(* Going on changes the phase of a request and nothing else. *)
LEMMA StepFacts ==
    ASSUME NEW r \in RequestType, NEW step \in RequestSteps, NEW q,
           q = [r EXCEPT !.pc = step]
    PROVE  /\ q \in RequestType /\ SameButPhase(q, r) /\ q.needs = r.needs /\ q.then = r.then
           /\ q.pc = step
<1>1. q \in RequestType BY DEF RequestType
<1>2. SameButPhase(q, r) BY DEF SameButPhase, RequestType
<1> QED BY <1>1, <1>2 DEF RequestType

(* What a form promises and which locks a request wants do not depend on its
   phase. *)
LEMMA SameForm ==
    ASSUME NEW q, NEW r, SameButPhase(q, r)
    PROVE  /\ FormOK(r) => FormOK(q)
           /\ TeamsOf(q) = TeamsOf(r) /\ SpacesOf(q) = SpacesOf(r) /\ MemoriesOf(q) = MemoriesOf(r)
           /\ \A step : Wanted(q, step) = Wanted(r, step)
BY DEF SameButPhase, FormOK, TeamsOf, SpacesOf, MemoriesOf, Owned, Wanted, Exists, MemoryOf, Resolve

(* The lock of a slot. *)
LEMMA SlotLocks ==
    /\ \A s \in Slots : /\ s[1] \in Teams /\ s[1] \in Nat
                        /\ TeamLock(s[1]) \in Locks /\ SpaceLock(s) \in Locks
                        /\ MemoryLock(s) \in Locks /\ Rank(TeamLock(s[1])) \in Nat
                        /\ Rank(SpaceLock(s)) \in Nat /\ Rank(MemoryLock(s)) \in Nat
    /\ ChannelLocks \subseteq Locks /\ \A l \in ChannelLocks : Rank(l) \in Nat
    /\ ConfigLock \in Locks
<1>1. ASSUME NEW s \in Slots
      PROVE  /\ s[1] \in Teams /\ s[1] \in Nat
             /\ TeamLock(s[1]) \in Locks /\ SpaceLock(s) \in Locks /\ MemoryLock(s) \in Locks
  BY AgentConstants DEF Slots, Locks
<1>2. \A t : Rank(TeamLock(t)) = t BY DEF Rank, TeamLock
<1>3. \A s : Rank(SpaceLock(s)) = s[1] /\ Rank(MemoryLock(s)) = s[1]
  BY DEF Rank, SpaceLock, MemoryLock
<1>4. ChannelLocks \subseteq Locks BY DEF ChannelLocks, Locks
<1>5. ConfigLock \in Locks BY DEF Locks
<1> QED BY <1>1, <1>2, <1>3, <1>4, <1>5, AgentConstants DEF ChannelLocks

(* A request goes on to wait for locks. *)
LEMMA LockingStep ==
    ASSUME RequestsInv, NEW e \in Editors, NEW r \in RequestType,
           NEW locks \in SUBSET Locks, NEW step \in RequestSteps \ {"locking"},
           Go(e, Locking(r, locks, step)),
           UNCHANGED <<config, files, spaces, memory, jobs, begun, deaths>>,
           FormOK(r), r.held \subseteq op[e].held, r.kind \in Kinds, r.page \in Config,
           <<r.kind, step>> \in Lockings, \A l \in locks : Rank(l) \in Nat,
           Wanted(r, step) \subseteq r.held \cup locks,
           step = "stage" => locks \subseteq MemoriesOf(r),
           r.kind = "submit" => r.seen \in Config /\ Exists(r.seen, r.slot),
           r.kind = "move" =>
             /\ Exists(r.page, r.slot) /\ ~Exists(r.page, r.to)
             /\ Entered(r.entries) = Registered(r.page, r.slot),
           step = "stage" =>
             /\ ActiveFor(r.slot) = {} /\ ActiveFor(r.to) = {} /\ r.to \notin spaces
             /\ \A p \in Entered(r.entries) : files[<<r.slot, p>>] = r.entries[p]
    PROVE  RequestsInv'
<1>1. PICK q : q = Locking(r, locks, step) OBVIOUS
<1>2. /\ q \in RequestType /\ SameButPhase(q, r) /\ q.needs = locks /\ q.then = step
      /\ q.pc = (IF locks = {} THEN step ELSE "locking") /\ Towards(q) = step
  BY <1>1, LockingFacts
<1>3. FormOK(q) /\ Wanted(q, step) = Wanted(r, step) /\ MemoriesOf(q) = MemoriesOf(r)
  BY <1>2, SameForm
<1>4. /\ q.kind = r.kind /\ q.held = r.held /\ q.page = r.page /\ q.seen = r.seen
      /\ q.slot = r.slot /\ q.to = r.to /\ q.entries = r.entries
  BY <1>2 DEF SameButPhase
<1>5. step \notin {"save", "replace", "routines", "copy", "commit", "archive", "idle"}
  BY DEF Lockings
<1>6. ReadOK(q) BY <1>2, <1>4, <1>5 DEF ReadOK
<1>7. HeldOK(q) BY <1>2, <1>3, <1>4 DEF HeldOK
<1>8. MoveOK(q) BY <1>2, <1>4, <1>5 DEF MoveOK
<1>9. RoutinesOK(q) /\ ArchiveOK(q) BY <1>2, <1>5 DEF RoutinesOK, ArchiveOK
<1>10. \A l \in q.held : l \in op[e].held BY <1>4
<1>11. op' = [op EXCEPT ![e] = q] BY <1>1 DEF Go
<1>12. begun' \in 0..MaxOps /\ deaths' \in 0..MaxDeaths BY DEF RequestsInv, AgentsTypeOK
<1> HIDE <1>1
<1> QED BY <1>2, <1>3, <1>6, <1>7, <1>8, <1>9, <1>10, <1>11, <1>12, QuietStep DEF Assured

(* A request that ends releases what it had locked. *)
LEMMA FinishStep ==
    ASSUME RequestsInv, NEW e \in Editors, Finish(e),
           UNCHANGED <<config, files, spaces, memory, jobs, begun>>,
           deaths' \in 0..MaxDeaths
    PROVE  RequestsInv'
<1>1. begun' \in 0..MaxOps BY DEF RequestsInv, AgentsTypeOK
<1> QED BY <1>1, NoRequestOK, QuietStep DEF Finish, Go

(* A request after it has taken a lock. *)
LEMMA AcquireFacts ==
    ASSUME RequestsInv, NEW e \in Editors, NEW r \in RequestType, r = op[e], Acquire(e)
    PROVE  \E l \in Locks, q \in RequestType :
             /\ Free(l) /\ op' = [op EXCEPT ![e] = q]
             /\ q.held = r.held \cup {l} /\ q.needs = r.needs \ {l} /\ q.then = r.then
             /\ q.pc = (IF q.needs = {} THEN r.then ELSE "locking")
             /\ q.kind = r.kind /\ q.slot = r.slot /\ q.to = r.to /\ q.page = r.page
             /\ q.channel = r.channel /\ q.entries = r.entries /\ q.seen = r.seen
             /\ q.prompt = r.prompt /\ q.content = r.content /\ q.memory = r.memory
             /\ q.new = r.new
<1>1. Assured(r) BY DEF RequestsInv
<1>2. r.pc = "locking" /\ Free(NextLock(e)) BY DEF Acquire
<1>3. PICK l \in r.needs : l = NextLock(e)
  BY <1>1, <1>2, NextLockNeeded DEF Assured, HeldOK
<1>4. PICK rest : rest = r.needs \ {l} OBVIOUS
<1>5. rest \in SUBSET Locks /\ l \in Locks BY <1>3, <1>4 DEF RequestType
<1>6. PICK pc \in RequestSteps : pc = (IF rest = {} THEN r.then ELSE "locking")
  BY DEF RequestSteps, RequestType
<1>7. PICK q : q = [r EXCEPT !.held = @ \cup {l}, !.needs = rest, !.pc = pc] OBVIOUS
<1>8. q \in RequestType BY <1>5, <1>7, ZenonT(40) DEF RequestType
<1>9. /\ q.held = r.held \cup {l} /\ q.needs = rest /\ q.pc = pc /\ q.then = r.then
      /\ q.kind = r.kind /\ q.slot = r.slot /\ q.to = r.to /\ q.page = r.page
      /\ q.channel = r.channel /\ q.entries = r.entries /\ q.seen = r.seen
      /\ q.prompt = r.prompt /\ q.content = r.content /\ q.memory = r.memory /\ q.new = r.new
  BY <1>7 DEF RequestType
<1>10. op' = [op EXCEPT ![e] = q]
  <2>1. op' = [op EXCEPT ![e] = [op[e] EXCEPT !.held = @ \cup {NextLock(e)},
                                              !.needs = op[e].needs \ {NextLock(e)},
                                              !.pc = IF op[e].needs \ {NextLock(e)} = {}
                                                     THEN op[e].then ELSE "locking"]]
    BY DEF Acquire
  <2> QED BY <2>1, <1>3, <1>4, <1>6, <1>7
<1> HIDE <1>7
<1>11. Free(l) BY <1>2, <1>3
<1>12. q.needs = r.needs \ {l} /\ q.pc = (IF q.needs = {} THEN r.then ELSE "locking")
  BY <1>4, <1>6, <1>9
<1> USE <1>5, <1>8
<1> WITNESS l \in Locks, q \in RequestType
<1> QED BY <1>9, <1>10, <1>11, <1>12

(* A lock that was free is taken by one request. *)
LEMMA AcquireStep == ASSUME RequestsInv, NEW e \in Editors, Acquire(e) PROVE RequestsInv'
<1>1. PICK r \in RequestType : r = op[e] BY DEF RequestsInv, AgentsTypeOK
<1>2. Assured(r) BY <1>1 DEF RequestsInv
<1>3. r.pc = "locking" BY <1>1 DEF Acquire
<1>4. <<r.kind, r.then>> \in Lockings BY <1>2, <1>3 DEF Assured, ReadOK
<1>5. PICK l \in Locks, q \in RequestType :
             /\ Free(l) /\ op' = [op EXCEPT ![e] = q]
             /\ q.held = r.held \cup {l} /\ q.needs = r.needs \ {l} /\ q.then = r.then
             /\ q.pc = (IF q.needs = {} THEN r.then ELSE "locking")
             /\ q.kind = r.kind /\ q.slot = r.slot /\ q.to = r.to /\ q.page = r.page
             /\ q.channel = r.channel /\ q.entries = r.entries /\ q.seen = r.seen
             /\ q.prompt = r.prompt /\ q.content = r.content /\ q.memory = r.memory
             /\ q.new = r.new
  BY <1>1, AcquireFacts
<1>6. Towards(q) = r.then /\ Towards(r) = r.then /\ r.then # "locking"
  BY <1>3, <1>4, <1>5 DEF Towards, Lockings
<1>7. FormOK(q) BY <1>2, <1>5 DEF Assured, FormOK
<1>8. r.then \notin {"save", "replace", "routines", "copy", "commit", "archive", "idle", "open"}
  BY <1>4 DEF Lockings
<1>9. ReadOK(q) BY <1>2, <1>3, <1>4, <1>5, <1>8 DEF Assured, ReadOK
<1>10. HeldOK(q)
  <2>1. /\ Wanted(q, r.then) = Wanted(r, r.then) /\ MemoriesOf(q) = MemoriesOf(r)
    BY <1>5 DEF Wanted, TeamsOf, SpacesOf, MemoriesOf, Owned
  <2>2. Wanted(r, r.then) \subseteq r.held \cup r.needs
    BY <1>2, <1>3, <1>6 DEF Assured, HeldOK
  <2>3. Wanted(q, Towards(q)) \subseteq q.held \cup q.needs
    BY <2>1, <2>2, <1>5, <1>6
  <2>4. /\ \A k \in q.needs : Rank(k) \in Nat
        /\ r.then = "stage" => q.needs \subseteq MemoriesOf(q)
    BY <2>1, <1>2, <1>3, <1>5 DEF Assured, HeldOK
  <2>5. q.pc = "locking" <=> q.needs # {} BY <1>5, <1>6
  <2> QED BY <2>3, <2>4, <2>5, <1>5 DEF HeldOK
<1>11. MoveOK(q) BY <1>2, <1>5, <1>6, <1>8 DEF Assured, MoveOK
<1>12. RoutinesOK(q) /\ ArchiveOK(q) BY <1>5, <1>8 DEF RoutinesOK, ArchiveOK
<1>13. \A k \in q.held : k \in op[e].held \/ Free(k) BY <1>1, <1>5
<1>14. /\ UNCHANGED <<config, files, spaces, memory, jobs>>
       /\ begun' \in 0..MaxOps /\ deaths' \in 0..MaxDeaths
  BY DEF Acquire, RequestsInv, AgentsTypeOK
<1> QED BY <1>5, <1>7, <1>9, <1>10, <1>11, <1>12, <1>13, <1>14, QuietStep DEF Assured

(* A request goes on without asking for a lock. *)
LEMMA PhaseStep ==
    ASSUME RequestsInv, NEW e \in Editors, NEW r \in RequestType, r = op[e],
           NEW step \in RequestSteps \ {"locking", "open", "idle", "routines", "replace"},
           Step(e, step), UNCHANGED <<config, files, spaces, memory, jobs, begun, deaths>>,
           r.pc # "idle", r.kind # "move", r.kind = "submit" => r.pc # "open",
           step = "save" => r.kind \in {"content", "channel_content"},
           Wanted(r, step) \subseteq r.held,
           r.kind = "channel_delete" /\ step = "archive" => ActiveOn(r.channel) = {}
    PROVE  RequestsInv'
<1>1. PICK q : q = [r EXCEPT !.pc = step] OBVIOUS
<1>2. q \in RequestType /\ SameButPhase(q, r) /\ q.pc = step BY <1>1, StepFacts
<1>3. Assured(r) BY DEF RequestsInv
<1>4. FormOK(q) /\ Wanted(q, step) = Wanted(r, step) BY <1>2, <1>3, SameForm DEF Assured
<1>5. /\ q.kind = r.kind /\ q.held = r.held /\ q.page = r.page /\ q.seen = r.seen
      /\ q.slot = r.slot /\ q.channel = r.channel
  BY <1>2 DEF SameButPhase
<1>6. ReadOK(q) BY <1>2, <1>3, <1>5 DEF ReadOK, Assured
<1>7. HeldOK(q) BY <1>2, <1>4, <1>5 DEF HeldOK, Towards
<1>8. MoveOK(q) /\ RoutinesOK(q) /\ ArchiveOK(q)
  BY <1>2, <1>5 DEF MoveOK, RoutinesOK, ArchiveOK
<1>9. op' = [op EXCEPT ![e] = q] BY <1>1 DEF Step, Go
<1>10. begun' \in 0..MaxOps /\ deaths' \in 0..MaxDeaths BY DEF RequestsInv, AgentsTypeOK
<1> HIDE <1>1
<1> QED BY <1>2, <1>4, <1>5, <1>6, <1>7, <1>8, <1>9, <1>10, QuietStep DEF Assured

(* What is known of a request at its step. *)
LEMMA KnownRequest ==
    ASSUME RequestsInv, NEW e \in Editors
    PROVE  op[e] \in RequestType /\ Assured(op[e])
BY DEF RequestsInv, AgentsTypeOK

(* Reading an agent's prompts lists exactly the registered ones. *)
LEMMA EntriesOf ==
    ASSUME RequestsInv, NEW s \in Slots, Exists(config, s)
    PROVE  /\ Entries(config, s) \in [Prompts -> File]
           /\ Registered(config, s) \subseteq Prompts
           /\ Readable(config, s) => Entered(Entries(config, s)) = Registered(config, s)
<1>1. config.agents[s] \in Agent
  BY DEF RequestsInv, AgentsTypeOK, Config, Exists
<1>2. Registered(config, s) \subseteq Prompts BY <1>1 DEF Agent, Registered
<1>3. Entries(config, s) \in [Prompts -> File]
  BY <1>2 DEF Entries, File, RequestsInv, AgentsTypeOK
<1> QED BY <1>2, <1>3 DEF Readable, Entries, Entered

(* The steps that change only the phase of a request. *)
LEMMA QuietActions ==
    ASSUME RequestsInv, NEW e \in Editors,
           \/ Refuse(e) \/ Dies(e) \/ StartCreateAgent(e) \/ RegisterFails(e) \/ StartDelete(e)
           \/ StartChannelDelete(e) \/ CheckChannel(e) \/ ResolveContent(e)
           \/ ResolveChannelContent(e) \/ LoadForJob(e)
    PROVE  RequestsInv'
<1> DEFINE Still == UNCHANGED <<config, files, spaces, memory, jobs, begun, deaths>>
<1>1. PICK r \in RequestType : r = op[e] /\ Assured(r) BY KnownRequest
<1>2. FormOK(r) /\ ReadOK(r) /\ HeldOK(r) BY <1>1 DEF Assured
<1>3. CASE Refuse(e) \/ Dies(e)
  BY <1>3, FinishStep, AgentConstants DEF Refuse, Dies, RequestsInv, AgentsTypeOK
<1>4. CASE StartCreateAgent(e)
  <2>1. r.kind = "create_agent" /\ r.pc = "open" BY <1>1, <1>4 DEF StartCreateAgent, At
  <2>2. r.slot \in Slots /\ r.page \in Config
    BY <1>2, <2>1 DEF FormOK, ReadOK, SlotKinds, Kinds
  <2>3. PICK locks : locks = {TeamLock(r.slot[1])} OBVIOUS
  <2>4. locks \in SUBSET Locks /\ \A l \in locks : Rank(l) \in Nat BY <2>2, <2>3, SlotLocks
  <2>5. Go(e, Locking(r, locks, "create")) /\ Still
    BY <1>1, <1>4, <2>3 DEF StartCreateAgent
  <2>6. Wanted(r, "create") = {} BY <2>1 DEF Wanted
  <2> QED BY <1>1, <1>2, <2>1, <2>2, <2>4, <2>5, <2>6, LockingStep
      DEF Lockings, RequestSteps, Kinds
<1>5. CASE RegisterFails(e)
  <2>1. /\ r.kind = "create_prompt" /\ r.pc = "register" /\ Step(e, "undo") /\ Still
    BY <1>1, <1>5 DEF RegisterFails, At
  <2>2. Wanted(r, "undo") = {} BY <2>1 DEF Wanted
  <2> QED BY <1>1, <2>1, <2>2, PhaseStep DEF RequestSteps
<1>6. CASE StartDelete(e)
  <2>1. /\ r.kind = "delete_prompt" /\ r.pc = "open" /\ Step(e, "unregister") /\ Still
    BY <1>1, <1>6 DEF StartDelete, At
  <2>2. Wanted(r, "unregister") = {} BY <2>1 DEF Wanted
  <2> QED BY <1>1, <2>1, <2>2, PhaseStep DEF RequestSteps
<1>7. CASE StartChannelDelete(e)
  <2>1. r.kind = "channel_delete" /\ r.pc = "open" BY <1>1, <1>7 DEF StartChannelDelete, At
  <2>2. r.page \in Config BY <1>2, <2>1 DEF ReadOK
  <2>3. Go(e, Locking(r, ChannelLocks, "check")) /\ Still
    BY <1>1, <1>7 DEF StartChannelDelete
  <2>4. Wanted(r, "check") = ChannelLocks BY <2>1 DEF Wanted
  <2>5. ChannelLocks \in SUBSET Locks /\ \A l \in ChannelLocks : Rank(l) \in Nat
    BY SlotLocks
  <2> QED BY <1>1, <1>2, <2>1, <2>2, <2>3, <2>4, <2>5, LockingStep
      DEF Lockings, RequestSteps, Kinds
<1>8. CASE CheckChannel(e)
  <2>1. /\ r.kind = "channel_delete" /\ r.pc = "check" /\ ActiveOn(r.channel) = {}
        /\ Step(e, "archive") /\ Still
    BY <1>1, <1>8 DEF CheckChannel, At
  <2>2. Wanted(r, "archive") \subseteq r.held BY <1>2, <2>1 DEF Wanted, HeldOK, Towards
  <2> QED BY <1>1, <2>1, <2>2, PhaseStep DEF RequestSteps
<1>9. CASE ResolveContent(e) \/ ResolveChannelContent(e)
  <2>1. /\ r.kind \in {"content", "channel_content"} /\ r.pc = "open"
        /\ Step(e, "save") /\ Still
    BY <1>1, <1>9 DEF ResolveContent, ResolveChannelContent, At
  <2>2. Wanted(r, "save") = {} BY <2>1 DEF Wanted
  <2> QED BY <1>1, <2>1, <2>2, PhaseStep DEF RequestSteps
<1>10. CASE LoadForJob(e)
  <2>1. r.kind = "submit" /\ r.pc = "load" /\ Step(e, "resolve") /\ Still
    BY <1>1, <1>10 DEF LoadForJob, At
  <2>2. Wanted(r, "resolve") \subseteq r.held BY <1>2, <2>1 DEF Wanted, HeldOK, Towards
  <2> QED BY <1>1, <2>1, <2>2, PhaseStep DEF RequestSteps
<1> QED BY <1>3, <1>4, <1>5, <1>6, <1>7, <1>8, <1>9, <1>10

(* The requests that read what they will work on and ask for locks. *)
LEMMA StartActions ==
    ASSUME RequestsInv, NEW e \in Editors, StartRemove(e) \/ StartMove(e) \/ StartSubmit(e)
    PROVE  RequestsInv'
<1> DEFINE Still == UNCHANGED <<config, files, spaces, memory, jobs, begun, deaths>>
<1>1. PICK r \in RequestType : r = op[e] /\ Assured(r) BY KnownRequest
<1>2. FormOK(r) /\ ReadOK(r) /\ HeldOK(r) BY <1>1 DEF Assured
<1>3. CASE StartRemove(e)
  <2>1. r.kind = "remove_agent" /\ r.pc = "open" /\ Exists(config, r.slot)
    BY <1>1, <1>3 DEF StartRemove, At
  <2>2. r.slot \in Slots /\ r.page \in Config
    BY <1>2, <2>1 DEF FormOK, ReadOK, SlotKinds, Kinds
  <2>3. PICK entries \in [Prompts -> File] : entries = Entries(config, r.slot)
    BY <2>1, <2>2, EntriesOf
  <2>4. PICK x : x = [r EXCEPT !.entries = entries] OBVIOUS
  <2>5. /\ x \in RequestType /\ x.kind = r.kind /\ x.slot = r.slot /\ x.page = r.page
        /\ x.held = r.held
    BY <2>4 DEF RequestType
  <2>6. FormOK(x) BY <2>1, <2>2, <2>5 DEF FormOK, SlotKinds, Kinds
  <2>7. PICK locks : locks = {TeamLock(r.slot[1])} OBVIOUS
  <2>8. locks \in SUBSET Locks /\ \A l \in locks : Rank(l) \in Nat BY <2>2, <2>7, SlotLocks
  <2>9. Go(e, Locking(x, locks, "remove")) /\ Still
    BY <1>1, <1>3, <2>3, <2>4, <2>7 DEF StartRemove
  <2>10. Wanted(x, "remove") = {} BY <2>1, <2>5 DEF Wanted
  <2> HIDE <2>4
  <2> QED BY <1>1, <2>1, <2>2, <2>5, <2>6, <2>8, <2>9, <2>10, LockingStep
      DEF Lockings, RequestSteps, Kinds
<1>4. CASE StartMove(e)
  <2>1. r.kind = "move" /\ r.pc = "open" /\ Previewed(e) BY <1>1, <1>4 DEF StartMove, At
  <2>2. r.slot \in Slots /\ r.to \in Slots /\ r.to # r.slot /\ r.page \in Config
    BY <1>2, <2>1 DEF FormOK, ReadOK, SlotKinds, Kinds
  <2>3. /\ r.page = config /\ Exists(config, r.slot) /\ ~Exists(config, r.to)
        /\ Readable(config, r.slot)
    BY <1>1, <2>1 DEF Previewed, Blocked
  <2>4. PICK entries \in [Prompts -> File] : entries = Entries(config, r.slot)
    BY <2>2, <2>3, EntriesOf
  <2>5. Entered(entries) = Registered(config, r.slot) BY <2>2, <2>3, <2>4, EntriesOf
  <2>6. PICK rev \in File : rev = memory[r.slot]
    BY <2>2 DEF RequestsInv, AgentsTypeOK
  <2>7. PICK x : x = [r EXCEPT !.entries = entries, !.revision = rev] OBVIOUS
  <2>8. /\ x \in RequestType /\ x.kind = r.kind /\ x.slot = r.slot /\ x.page = r.page
        /\ x.held = r.held /\ x.to = r.to /\ x.entries = entries
    BY <2>7 DEF RequestType
  <2>9. FormOK(x) BY <2>1, <2>2, <2>8 DEF FormOK, SlotKinds, Kinds
  <2>10. PICK locks : locks = {TeamLock(r.slot[1]), TeamLock(r.to[1])} OBVIOUS
  <2>11. locks \in SUBSET Locks /\ \A l \in locks : Rank(l) \in Nat
    BY <2>2, <2>10, SlotLocks
  <2>12. Go(e, Locking(x, locks, "namespaces")) /\ Still
    BY <1>1, <1>4, <2>4, <2>6, <2>7, <2>10 DEF StartMove
  <2>13. Wanted(x, "namespaces") = locks BY <2>1, <2>8, <2>10 DEF Wanted, TeamsOf
  <2> HIDE <2>7
  <2> QED BY <1>1, <2>1, <2>2, <2>3, <2>5, <2>8, <2>9, <2>11, <2>12, <2>13, LockingStep
      DEF Lockings, RequestSteps, Kinds
<1>5. CASE StartSubmit(e)
  <2>1. r.kind = "submit" /\ r.pc = "open" /\ Exists(config, r.slot)
    BY <1>1, <1>5 DEF StartSubmit, At
  <2>2. r.slot \in Slots /\ r.page \in Config /\ config \in Config
    BY <1>2, <2>1 DEF FormOK, ReadOK, SlotKinds, Kinds, RequestsInv, AgentsTypeOK
  <2>3. PICK x : x = [r EXCEPT !.seen = config] OBVIOUS
  <2>4. /\ x \in RequestType /\ x.kind = r.kind /\ x.slot = r.slot /\ x.page = r.page
        /\ x.held = r.held /\ x.seen = config
    BY <2>2, <2>3 DEF RequestType
  <2>5. FormOK(x) BY <2>1, <2>2, <2>4 DEF FormOK, SlotKinds, Kinds
  <2>6. PICK locks : locks = {TeamLock(r.slot[1])} OBVIOUS
  <2>7. locks \in SUBSET Locks /\ \A l \in locks : Rank(l) \in Nat BY <2>2, <2>6, SlotLocks
  <2>8. Go(e, Locking(x, locks, "load")) /\ Still BY <1>1, <1>5, <2>3, <2>6 DEF StartSubmit
  <2>9. Wanted(x, "load") = locks BY <2>1, <2>4, <2>6 DEF Wanted, TeamsOf
  <2> HIDE <2>3
  <2> QED BY <1>1, <2>1, <2>2, <2>4, <2>5, <2>7, <2>8, <2>9, LockingStep
      DEF Lockings, RequestSteps, Kinds
<1> QED BY <1>3, <1>4, <1>5

(* A move takes the next class of locks, the last one only if all is still as it
   was previewed. *)
LEMMA MoveLocks ==
    ASSUME RequestsInv, NEW e \in Editors, NamespaceTransaction(e) \/ ReloadMove(e)
    PROVE  RequestsInv'
<1> DEFINE Still == UNCHANGED <<config, files, spaces, memory, jobs, begun, deaths>>
<1>1. PICK r \in RequestType : r = op[e] /\ Assured(r) BY KnownRequest
<1>2. FormOK(r) /\ ReadOK(r) /\ HeldOK(r) BY <1>1 DEF Assured
<1>3. r.kind = "move" /\ r.pc \in {"namespaces", "reload"}
  BY <1>1 DEF NamespaceTransaction, ReloadMove, At
<1>4. /\ r.slot \in Slots /\ r.to \in Slots /\ r.page \in Config
      /\ Exists(r.page, r.slot) /\ ~Exists(r.page, r.to)
      /\ Entered(r.entries) = Registered(r.page, r.slot)
  BY <1>2, <1>3 DEF FormOK, ReadOK, SlotKinds, Kinds
<1>5. CASE NamespaceTransaction(e)
  <2>1. PICK locks : locks = {SpaceLock(r.slot), SpaceLock(r.to)} OBVIOUS
  <2>2. locks \in SUBSET Locks /\ \A l \in locks : Rank(l) \in Nat BY <1>4, <2>1, SlotLocks
  <2>3. r.pc = "namespaces" /\ Go(e, Locking(r, locks, "reload")) /\ Still
    BY <1>1, <1>5, <2>1 DEF NamespaceTransaction, At
  <2>4. Wanted(r, "reload") \subseteq r.held \cup locks
    BY <1>2, <1>3, <2>1, <2>3 DEF Wanted, HeldOK, Towards, SpacesOf
  <2> QED BY <1>1, <1>2, <1>3, <1>4, <2>2, <2>3, <2>4, LockingStep
      DEF Lockings, RequestSteps, Kinds
<1>6. CASE ReloadMove(e)
  <2>1. r.pc = "reload" BY <1>1, <1>6 DEF ReloadMove, At
  <2>2. CASE ~MoveAcceptable(e) BY <1>6, <2>2, FinishStep DEF ReloadMove, RequestsInv, AgentsTypeOK
  <2>3. CASE MoveAcceptable(e)
    <3>1. /\ config = r.page /\ Entries(config, r.slot) = r.entries
          /\ ~Blocked(config, r.slot, r.to)
      BY <1>1, <2>3 DEF MoveAcceptable
    <3>2. PICK locks : locks = MemoriesOf(r) OBVIOUS
    <3>3. locks \in SUBSET Locks /\ \A l \in locks : Rank(l) \in Nat
      BY <1>4, <3>2, SlotLocks DEF MemoriesOf
    <3>4. Go(e, Locking(r, locks, "stage")) /\ Still
      BY <1>1, <1>6, <2>3, <3>1, <3>2 DEF ReloadMove, MemoriesOf
    <3>5. Wanted(r, "stage") \subseteq r.held \cup locks
      BY <1>2, <1>3, <2>1, <3>2 DEF Wanted, HeldOK, Towards
    <3>6. ActiveFor(r.slot) = {} /\ ActiveFor(r.to) = {} /\ r.to \notin spaces
      BY <3>1 DEF Blocked
    <3>7. \A p \in Entered(r.entries) : files[<<r.slot, p>>] = r.entries[p]
      BY <3>1, <1>4 DEF Entries, Entered
    <3> QED BY <1>1, <1>2, <1>3, <1>4, <3>2, <3>3, <3>4, <3>5, <3>6, <3>7, LockingStep
        DEF Lockings, RequestSteps, Kinds
  <2> QED BY <2>2, <2>3
<1> QED BY <1>5, <1>6

(* An entry of the configuration is replaced. *)
LEMMA EntryTypes ==
    ASSUME NEW c \in Config, NEW s \in Slots, NEW a \in Agent \cup {NoAgent}
    PROVE  /\ WithAgent(c, s, a) \in Config /\ WithAgent(c, s, a).channels = c.channels
           /\ \A x \in Slots :
                WithAgent(c, s, a).agents[x] = IF x = s THEN a ELSE c.agents[x]
<1>1. PICK g \in [Slots -> Agent \cup {NoAgent}] : g = [c.agents EXCEPT ![s] = a] BY DEF Config
<1>2. WithAgent(c, s, a) = [c EXCEPT !.agents = g] BY <1>1 DEF WithAgent, Config
<1>3. /\ WithAgent(c, s, a) \in Config /\ WithAgent(c, s, a).channels = c.channels
      /\ WithAgent(c, s, a).agents = g
  BY <1>2 DEF Config
<1> QED BY <1>1, <1>3 DEF Config

(* A memory selector or a channel is edited: every agent stays, with its prompts
   and routines. *)
LEMMA EditedOK ==
    ASSUME RequestsInv, NEW e \in Editors, op[e].pc \in {"open", "replace"},
           op[e].kind \in {"selector", "channel_create", "channel_rekey"}, EditAcceptable(e)
    PROVE  /\ Edited(e) \in Config
           /\ \A s \in Slots :
                /\ Exists(Edited(e), s) <=> Exists(config, s)
                /\ Exists(config, s) =>
                     /\ Edited(e).agents[s].prompts = config.agents[s].prompts
                     /\ Edited(e).agents[s].uses = config.agents[s].uses
<1>1. PICK r \in RequestType : r = op[e] /\ Assured(r) BY KnownRequest
<1>2. config \in Config BY DEF RequestsInv, AgentsTypeOK
<1>3. CASE r.kind = "selector"
  <2>1. r.slot \in Slots /\ r.memory \in Selectors
    BY <1>1, <1>3 DEF Assured, FormOK, SlotKinds, Kinds
  <2>2. Edited(e) = WithAgent(config, r.slot, [config.agents[r.slot] EXCEPT !.memory = r.memory])
    BY <1>1, <1>3 DEF Edited
  <2>3. Exists(config, r.slot) BY <1>1, <1>3 DEF EditAcceptable
  <2>4. config.agents[r.slot] \in Agent BY <1>2, <2>1, <2>3 DEF Config, Exists
  <2>5. PICK a : a = [config.agents[r.slot] EXCEPT !.memory = r.memory] OBVIOUS
  <2>6. /\ a \in Agent /\ a.prompts = config.agents[r.slot].prompts
        /\ a.uses = config.agents[r.slot].uses
    BY <2>1, <2>4, <2>5 DEF Agent, Selectors
  <2>7. Edited(e) = WithAgent(config, r.slot, a) BY <2>2, <2>5
  <2>8. /\ Edited(e) \in Config
        /\ \A s \in Slots : Edited(e).agents[s] = IF s = r.slot THEN a ELSE config.agents[s]
    BY <1>2, <2>1, <2>6, <2>7, EntryTypes
  <2> QED BY <2>3, <2>6, <2>8, AgentConstants DEF Exists
<1>4. CASE r.kind = "channel_create"
  <2>1. r.channel \in Channels BY <1>1, <1>4 DEF Assured, FormOK, SlotKinds, Kinds
  <2>2. Edited(e) = [config EXCEPT !.channels = @ \cup {r.channel}] BY <1>1, <1>4 DEF Edited
  <2>3. Edited(e).agents = config.agents /\ Edited(e) \in Config
    BY <1>2, <2>1, <2>2 DEF Config
  <2> QED BY <2>3 DEF Exists
<1>5. CASE r.kind = "channel_rekey"
  <2>1. r.channel \in Channels /\ r.new \in Channels
    BY <1>1, <1>5 DEF Assured, FormOK, SlotKinds, Kinds
  <2>2. Edited(e) = [config EXCEPT !.channels = (@ \ {r.channel}) \cup {r.new}]
    BY <1>1, <1>5 DEF Edited
  <2>3. Edited(e).agents = config.agents /\ Edited(e) \in Config
    BY <1>2, <2>1, <2>2 DEF Config
  <2> QED BY <2>3 DEF Exists
<1> QED BY <1>1, <1>3, <1>4, <1>5

(* The requests that prepare to write the configuration or give up doing so. *)
LEMMA EditActions ==
    ASSUME RequestsInv, NEW e \in Editors,
           EnterRoutines(e) \/ EditLoaded(e) \/ DropRefused(e)
    PROVE  RequestsInv'
<1> DEFINE Still == UNCHANGED <<config, files, spaces, memory, jobs, begun, deaths>>
<1>1. PICK r \in RequestType : r = op[e] /\ Assured(r) BY KnownRequest
<1>2. FormOK(r) /\ ReadOK(r) /\ HeldOK(r) BY <1>1 DEF Assured
<1>3. begun \in 0..MaxOps /\ deaths \in 0..MaxDeaths BY DEF RequestsInv, AgentsTypeOK
<1>4. CASE EnterRoutines(e)
  <2>1. /\ r.kind = "routines" /\ r.pc = "open" /\ Free(ConfigLock)
        /\ config = r.page /\ Exists(config, r.slot)
        /\ Go(e, [r EXCEPT !.pc = "routines", !.held = {ConfigLock}]) /\ Still
    BY <1>1, <1>4 DEF EnterRoutines, At, ConfigReady
  <2>0. PICK step \in RequestSteps : step = "routines" BY DEF RequestSteps
  <2>2. PICK q : q = [r EXCEPT !.pc = "routines", !.held = {ConfigLock}] OBVIOUS
  <2>3. /\ q \in RequestType /\ q.pc = "routines" /\ q.held = {ConfigLock} /\ q.kind = r.kind
        /\ q.page = r.page /\ q.slot = r.slot
    BY <2>0, <2>2, SlotLocks DEF RequestType
  <2>4. r.slot \in Slots /\ r.page \in Config
    BY <1>2, <2>1 DEF FormOK, ReadOK, SlotKinds, Kinds
  <2>5. FormOK(q) BY <2>1, <2>3, <2>4 DEF FormOK, SlotKinds, Kinds
  <2>6. ReadOK(q) BY <2>1, <2>3, <2>4 DEF ReadOK, Kinds
  <2>7. HeldOK(q) BY <2>1, <2>3 DEF HeldOK, Wanted, Towards
  <2>8. MoveOK(q) /\ RoutinesOK(q) /\ ArchiveOK(q)
    BY <2>1, <2>3 DEF MoveOK, RoutinesOK, ArchiveOK
  <2>9. op' = [op EXCEPT ![e] = q] BY <2>1, <2>2 DEF Go
  <2> HIDE <2>2
  <2> QED BY <1>3, <2>1, <2>3, <2>5, <2>6, <2>7, <2>8, <2>9, QuietStep DEF Assured
<1>5. CASE EditLoaded(e)
  <2>1. /\ r.kind \in {"selector", "channel_create", "channel_rekey"} /\ r.pc = "open"
        /\ EditAcceptable(e) /\ Go(e, [r EXCEPT !.pc = "replace", !.seen = Edited(e)]) /\ Still
    BY <1>1, <1>5 DEF EditLoaded
  <2>2. PICK c \in Config : c = Edited(e) BY <1>1, <2>1, EditedOK
  <2>0. PICK step \in RequestSteps : step = "replace" BY DEF RequestSteps
  <2>11. PICK x : x = [r EXCEPT !.pc = step] OBVIOUS
  <2>12. x \in RequestType BY <2>11 DEF RequestType
  <2>3. PICK q : q = [r EXCEPT !.pc = step, !.seen = c] OBVIOUS
  <2>13. q = [x EXCEPT !.seen = c] BY <2>3, <2>11 DEF RequestType
  <2>10. q \in RequestType BY <2>2, <2>12, <2>13 DEF RequestType
  <2>4. /\ q.pc = "replace" /\ q.held = r.held /\ q.kind = r.kind
        /\ q.page = r.page /\ q.slot = r.slot /\ q.seen = c /\ q.channel = r.channel
        /\ q.new = r.new /\ q.memory = r.memory
    BY <2>0, <2>2, <2>3 DEF RequestType
  <2>5. FormOK(q) BY <1>2, <2>1, <2>4 DEF FormOK, SlotKinds, Kinds
  <2>6. ReadOK(q) BY <1>2, <2>1, <2>4 DEF ReadOK
  <2>7. HeldOK(q) BY <2>1, <2>4 DEF HeldOK, Wanted, Towards
  <2>8. MoveOK(q) /\ RoutinesOK(q) /\ ArchiveOK(q)
    BY <2>1, <2>4 DEF MoveOK, RoutinesOK, ArchiveOK
  <2>9. op' = [op EXCEPT ![e] = q] BY <2>0, <2>1, <2>2, <2>3 DEF Go
  <2> HIDE <2>3
  <2> QED BY <1>1, <1>3, <2>1, <2>4, <2>5, <2>6, <2>7, <2>8, <2>9, <2>10, QuietStep DEF Assured
<1>6. CASE DropRefused(e)
  <2>1. /\ r.kind = "channel_delete" /\ r.pc = "drop"
        /\ Go(e, [r EXCEPT !.pc = "undo", !.held = @ \ {MemoryLock(r.channel)}]) /\ Still
    BY <1>1, <1>6 DEF DropRefused, At
  <2>2. PICK h \in SUBSET Locks : h = r.held \ {MemoryLock(r.channel)} BY DEF RequestType
  <2>0. PICK step \in RequestSteps : step = "undo" BY DEF RequestSteps
  <2>3. PICK q : q = [r EXCEPT !.pc = "undo", !.held = h] OBVIOUS
  <2>4. /\ q \in RequestType /\ q.pc = "undo" /\ q.held = h /\ q.kind = r.kind
        /\ q.page = r.page /\ q.channel = r.channel
    BY <2>0, <2>3 DEF RequestType
  <2>5. FormOK(q) BY <1>2, <2>1, <2>4 DEF FormOK, SlotKinds, Kinds
  <2>6. ReadOK(q) BY <1>2, <2>1, <2>4 DEF ReadOK
  <2>7. HeldOK(q) BY <2>1, <2>4 DEF HeldOK, Wanted, Towards
  <2>8. MoveOK(q) /\ RoutinesOK(q) /\ ArchiveOK(q)
    BY <2>1, <2>4 DEF MoveOK, RoutinesOK, ArchiveOK
  <2>9. op' = [op EXCEPT ![e] = q] BY <2>1, <2>2, <2>3 DEF Go
  <2> HIDE <2>3
  <2> QED BY <1>1, <1>3, <2>1, <2>2, <2>4, <2>5, <2>6, <2>7, <2>8, <2>9, QuietStep DEF Assured
<1> QED BY <1>4, <1>5, <1>6

-----------------------------------------------------------------------------
(* Requests that change the configuration, the files or the memories. *)

(* A request that writes holds the locks of what it writes, or they are free. *)
LEMMA WriterStep ==
    ASSUME RequestsInv, NEW e \in Editors, NEW r \in RequestType,
           op' = [op EXCEPT ![e] = r], StoresOK', Assured(r)', jobs' = jobs,
           \A l \in r.held : l \in op[e].held \/ Free(l),
           config' = config \/ ConfigLock \in op[e].held \/ Free(ConfigLock),
           \A s \in Slots :
             \/ /\ \A p \in Prompts : files'[<<s, p>>] = files[<<s, p>>]
                /\ s \in spaces' <=> s \in spaces
             \/ SpaceLock(s) \in op[e].held
             \/ Free(SpaceLock(s)),
           \A s \in Slots : \/ memory'[s] = memory[s]
                            \/ MemoryLock(s) \in op[e].held
                            \/ Free(MemoryLock(s))
    PROVE  RequestsInv'
<1>1. ASSUME NEW f \in Editors, f # e PROVE Spares(op[f])
  <2>1. \A l : l \in op[f].held => l \notin op[e].held /\ ~Free(l)
    BY <1>1 DEF RequestsInv, LocksExclusive, Free
  <2>2. /\ \A s \in Slots : ActiveFor(s)' = ActiveFor(s)
        /\ \A ch \in Channels : ActiveOn(ch)' = ActiveOn(ch)
    BY DEF ActiveFor, ActiveOn
  <2>3. \A s \in Slots : SpaceLock(s) \in op[f].held =>
          /\ \A p \in Prompts : files'[<<s, p>>] = files[<<s, p>>]
          /\ s \in spaces' <=> s \in spaces
    BY <2>1
  <2>4. \A s \in Slots : MemoryLock(s) \in op[f].held => memory'[s] = memory[s] BY <2>1
  <2>5. ConfigLock \in op[f].held => config' = config BY <2>1
  <2> QED BY <2>2, <2>3, <2>4, <2>5 DEF Spares
<1>2. \A mem \in Slots \cup Channels : RunningOn(mem)' => RunningOn(mem) BY DEF RunningOn
<1> QED BY <1>1, <1>2, RequestKeeps

(* A request that has ended promises nothing in the next state either. *)
LEMMA NoRequestAssured == ASSUME TRUE PROVE Assured(NoRequest)'
<1>1. PICK o : o = NoRequest OBVIOUS
<1>2. o.pc = "idle" /\ o.kind = "none" BY <1>1 DEF NoRequest
<1>3. Assured(o)'
  BY <1>2 DEF Assured, FormOK, ReadOK, HeldOK, MoveOK, RoutinesOK, ArchiveOK, Wanted,
         Towards, SlotKinds, Kinds
<1> QED BY <1>1, <1>3 DEF Assured, FormOK, ReadOK, HeldOK, MoveOK, RoutinesOK, ArchiveOK, NoRequest

(* The configuration is written with its lock, by a request that ends. *)
LEMMA ConfigWritten ==
    ASSUME RequestsInv, NEW e \in Editors, Finish(e), config' \in Config, Valid(config)',
           ConfigLock \in op[e].held \/ Free(ConfigLock),
           UNCHANGED <<files, spaces, memory, jobs, begun, deaths>>
    PROVE  RequestsInv'
<1>1. StoresOK' BY DEF StoresOK, RequestsInv, AgentsTypeOK
<1>2. PICK r \in RequestType : r = NoRequest /\ r.held = {} BY NoRequestOK
<1>3. op' = [op EXCEPT ![e] = r] BY <1>2 DEF Finish, Go
<1>4. Assured(r)'
  BY <1>2, NoRequestAssured DEF Assured, FormOK, ReadOK, HeldOK, MoveOK, RoutinesOK, ArchiveOK
<1>5. \A s \in Slots : /\ \A p \in Prompts : files'[<<s, p>>] = files[<<s, p>>]
                       /\ s \in spaces' <=> s \in spaces
                       /\ memory'[s] = memory[s]
  OBVIOUS
<1> QED BY <1>1, <1>2, <1>3, <1>4, <1>5, WriterStep

(* What the steps that no other request can disturb promise. *)
LEMMA Undisturbed ==
    ASSUME NEW o \in RequestType, FormOK(o), ReadOK(o), HeldOK(o),
           o.kind = "move" => Towards(o) \notin {"stage", "copy", "commit"},
           o.pc # "routines", o.kind = "channel_delete" => o.pc # "archive"
    PROVE  Assured(o)'
<1>1. FormOK(o)' /\ ReadOK(o)' /\ HeldOK(o)'
  BY DEF FormOK, ReadOK, HeldOK, Wanted, TeamsOf, SpacesOf, MemoriesOf, Owned, Exists,
         Registered, Entered, Towards
<1>2. MoveOK(o)' /\ RoutinesOK(o)' /\ ArchiveOK(o)'
  BY DEF MoveOK, RoutinesOK, ArchiveOK, Towards
<1> QED BY <1>1, <1>2 DEF Assured

(* The configuration is written and the request goes on. *)
LEMMA ConfigStep ==
    ASSUME RequestsInv, NEW e \in Editors, NEW r \in RequestType, op' = [op EXCEPT ![e] = r],
           config' \in Config, Valid(config)', r.held \subseteq op[e].held,
           ConfigLock \in op[e].held \/ Free(ConfigLock),
           UNCHANGED <<files, spaces, memory, jobs, begun, deaths>>, Assured(r)'
    PROVE  RequestsInv'
<1>1. StoresOK' BY DEF StoresOK, RequestsInv, AgentsTypeOK
<1>2. \A s \in Slots : /\ \A p \in Prompts : files'[<<s, p>>] = files[<<s, p>>]
                       /\ s \in spaces' <=> s \in spaces
                       /\ memory'[s] = memory[s]
  OBVIOUS
<1> QED BY <1>1, <1>2, WriterStep

(* The requests that write the configuration and end. *)
LEMMA ConfigWriters ==
    ASSUME RequestsInv, NEW e \in Editors,
           \/ CreateAgent(e) \/ Register(e) \/ SaveRoutines(e) \/ SaveSection(e)
           \/ ReplaceConfig(e) \/ DropChannel(e)
    PROVE  RequestsInv'
<1> DEFINE Still == UNCHANGED <<files, spaces, memory, jobs, begun, deaths>>
<1>1. PICK r \in RequestType : r = op[e] /\ Assured(r) BY KnownRequest
<1>2. FormOK(r) /\ ReadOK(r) /\ HeldOK(r) BY <1>1 DEF Assured
<1>3. config \in Config BY DEF RequestsInv, AgentsTypeOK
<1>4. CASE CreateAgent(e)
  <2>1. /\ r.kind = "create_agent" /\ r.pc = "create" /\ Finish(e) /\ Still
        /\ Commit(e, WithAgent(config, r.slot, NewAgent))
    BY <1>1, <1>4 DEF CreateAgent, At
  <2>2. r.slot \in Slots BY <1>2, <2>1 DEF FormOK, SlotKinds, Kinds
  <2>3. PICK a \in Agent : a = NewAgent BY DEF NewAgent, Agent
  <2>4. config' = WithAgent(config, r.slot, a) /\ Valid(config') /\ Free(ConfigLock)
    BY <2>1, <2>3 DEF Commit, ConfigReady
  <2>5. config' \in Config BY <1>3, <2>2, <2>4, EntryTypes
  <2>6. Valid(config)' BY <2>4 DEF Valid, Exists, Declared
  <2> QED BY <2>1, <2>4, <2>5, <2>6, ConfigWritten
<1>5. CASE Register(e)
  <2>1. /\ r.kind = "create_prompt" /\ r.pc = "register" /\ Finish(e) /\ Still
        /\ Exists(config, r.slot)
        /\ Commit(e, WithAgent(config, r.slot, [config.agents[r.slot] EXCEPT
                                          !.prompts = @ \cup {r.prompt}]))
    BY <1>1, <1>5 DEF Register, At
  <2>2. r.slot \in Slots /\ r.prompt \in Prompts
    BY <1>2, <2>1 DEF FormOK, SlotKinds, Kinds
  <2>3. config.agents[r.slot] \in Agent BY <1>3, <2>1, <2>2 DEF Config, Exists
  <2>4. PICK a : a = [config.agents[r.slot] EXCEPT !.prompts = @ \cup {r.prompt}] OBVIOUS
  <2>5. a \in Agent BY <2>2, <2>3, <2>4 DEF Agent
  <2>9. Commit(e, WithAgent(config, r.slot, a)) BY <2>1, <2>4
  <2>6. config' = WithAgent(config, r.slot, a) /\ Valid(config') /\ Free(ConfigLock)
    BY <2>9 DEF Commit, ConfigReady
  <2>7. config' \in Config BY <1>3, <2>2, <2>5, <2>6, EntryTypes
  <2>8. Valid(config)' BY <2>6 DEF Valid, Exists, Declared
  <2> QED BY <2>1, <2>6, <2>7, <2>8, ConfigWritten
<1>6. CASE SaveRoutines(e)
  <2>1. /\ r.kind = "routines" /\ r.pc = "routines" /\ Finish(e) /\ Still
        /\ config' = WithAgent(config, r.slot, [config.agents[r.slot] EXCEPT !.uses = r.uses])
    BY <1>1, <1>6 DEF SaveRoutines, At
  <2>2. r.slot \in Slots BY <1>2, <2>1 DEF FormOK, SlotKinds, Kinds
  <2>3. Exists(config, r.slot) BY <1>1, <2>1 DEF Assured, RoutinesOK
  <2>4. config.agents[r.slot] \in Agent BY <1>3, <2>2, <2>3 DEF Config, Exists
  <2>5. PICK a : a = [config.agents[r.slot] EXCEPT !.uses = r.uses] OBVIOUS
  <2>6. a \in Agent /\ a.memory = config.agents[r.slot].memory
    BY <2>4, <2>5 DEF Agent, RequestType
  <2>7. PICK d : d = WithAgent(config, r.slot, a) OBVIOUS
  <2>11. config' = d BY <2>1, <2>5, <2>7
  <2>12. /\ d \in Config /\ d.channels = config.channels
         /\ \A s \in Slots : d.agents[s] = IF s = r.slot THEN a ELSE config.agents[s]
    BY <1>3, <2>2, <2>6, <2>7, EntryTypes
  <2>8. /\ config' \in Config /\ config'.channels = config.channels
        /\ \A s \in Slots : config'.agents[s] = IF s = r.slot THEN a ELSE config.agents[s]
    BY <2>11, <2>12
  <2>9. Valid(config)'
    BY <2>3, <2>6, <2>8 DEF Valid, Exists, Declared, RequestsInv, AgentsTypeOK
  <2>10. ConfigLock \in r.held BY <1>2, <2>1 DEF HeldOK, Wanted, Towards
  <2> QED BY <1>1, <2>1, <2>8, <2>9, <2>10, ConfigWritten
<1>7. CASE SaveSection(e)
  <2>1. /\ r.kind = "section" /\ r.pc = "open" /\ Finish(e) /\ Still
        /\ Exists(config, r.slot)
        /\ Commit(e, WithAgent(config, r.slot, [config.agents[r.slot] EXCEPT !.section = ~@]))
    BY <1>1, <1>7 DEF SaveSection, At
  <2>2. r.slot \in Slots BY <1>2, <2>1 DEF FormOK, SlotKinds, Kinds
  <2>3. config.agents[r.slot] \in Agent BY <1>3, <2>1, <2>2 DEF Config, Exists
  <2>4. PICK a : a = [config.agents[r.slot] EXCEPT !.section = ~@] OBVIOUS
  <2>5. a \in Agent
    <3>1. PICK b \in BOOLEAN : b = ~config.agents[r.slot].section OBVIOUS
    <3>2. a = [config.agents[r.slot] EXCEPT !.section = b] BY <2>4, <3>1
    <3> QED BY <2>3, <3>2 DEF Agent
  <2>9. Commit(e, WithAgent(config, r.slot, a)) BY <2>1, <2>4
  <2>6. config' = WithAgent(config, r.slot, a) /\ Valid(config') /\ Free(ConfigLock)
    BY <2>9 DEF Commit, ConfigReady
  <2>7. config' \in Config BY <1>3, <2>2, <2>5, <2>6, EntryTypes
  <2>8. Valid(config)' BY <2>6 DEF Valid, Exists, Declared
  <2> QED BY <2>1, <2>6, <2>7, <2>8, ConfigWritten
<1>8. CASE ReplaceConfig(e)
  <2>1. r.pc = "replace" /\ Finish(e) /\ Still /\ Commit(e, r.seen)
    BY <1>1, <1>8 DEF ReplaceConfig
  <2>2. r.seen \in Config BY <1>2, <2>1 DEF ReadOK
  <2>3. config' = r.seen /\ Valid(config') /\ Free(ConfigLock)
    BY <2>1 DEF Commit, ConfigReady
  <2>4. Valid(config)' BY <2>3 DEF Valid, Exists, Declared
  <2> QED BY <2>1, <2>2, <2>3, <2>4, ConfigWritten
<1>9. CASE DropChannel(e)
  <2>1. /\ Finish(e) /\ Still /\ Commit(e, [config EXCEPT !.channels = @ \ {r.channel}])
    BY <1>1, <1>9 DEF DropChannel
  <2>2. PICK d : d = [config EXCEPT !.channels = @ \ {r.channel}] OBVIOUS
  <2>3. d \in Config BY <1>3, <2>2 DEF Config
  <2>4. config' = d /\ Valid(config') /\ Free(ConfigLock)
    BY <2>1, <2>2 DEF Commit, ConfigReady
  <2>5. Valid(config)' BY <2>4 DEF Valid, Exists, Declared
  <2> QED BY <2>1, <2>3, <2>4, <2>5, ConfigWritten
<1> QED BY <1>4, <1>5, <1>6, <1>7, <1>8, <1>9

(* The requests that write the configuration and go on. *)
LEMMA ConfigWritersGoOn ==
    ASSUME RequestsInv, NEW e \in Editors, Unregister(e) \/ Remove(e) \/ MoveAgent(e)
    PROVE  RequestsInv'
<1> DEFINE Still == UNCHANGED <<files, spaces, memory, jobs, begun, deaths>>
<1>1. PICK r \in RequestType : r = op[e] /\ Assured(r) BY KnownRequest
<1>2. FormOK(r) /\ ReadOK(r) /\ HeldOK(r) BY <1>1 DEF Assured
<1>3. config \in Config BY DEF RequestsInv, AgentsTypeOK
<1>4. CASE Unregister(e)
  <2>1. /\ r.kind = "delete_prompt" /\ r.pc = "unregister" /\ Step(e, "unlink") /\ Still
        /\ Exists(config, r.slot)
        /\ Commit(e, WithAgent(config, r.slot, [config.agents[r.slot] EXCEPT
                                          !.prompts = @ \ {r.prompt}]))
    BY <1>1, <1>4 DEF Unregister, At
  <2>2. r.slot \in Slots BY <1>2, <2>1 DEF FormOK, SlotKinds, Kinds
  <2>3. PICK a : a = [config.agents[r.slot] EXCEPT !.prompts = @ \ {r.prompt}] OBVIOUS
  <2>4. Commit(e, WithAgent(config, r.slot, a)) BY <2>1, <2>3
  <2>5. config' = WithAgent(config, r.slot, a) /\ Valid(config') /\ Free(ConfigLock)
    BY <2>4 DEF Commit, ConfigReady
  <2>6. config.agents[r.slot] \in Agent BY <1>3, <2>1, <2>2 DEF Config, Exists
  <2>7. a \in Agent BY <2>3, <2>6 DEF Agent
  <2>8. config' \in Config BY <1>3, <2>2, <2>5, <2>7, EntryTypes
  <2>9. Valid(config)' BY <2>5 DEF Valid, Exists, Declared
  <2>10. PICK step \in RequestSteps : step = "unlink" BY DEF RequestSteps
  <2>11. PICK q : q = [r EXCEPT !.pc = step] OBVIOUS
  <2>12. q \in RequestType /\ SameButPhase(q, r) /\ q.pc = step BY <2>11, StepFacts
  <2>13. q.kind = r.kind /\ q.held = r.held /\ q.page = r.page BY <2>12 DEF SameButPhase
  <2>14. FormOK(q) BY <1>2, <2>12, SameForm
  <2>15. ReadOK(q) BY <1>2, <2>1, <2>10, <2>12, <2>13 DEF ReadOK
  <2>16. HeldOK(q) BY <2>1, <2>10, <2>12, <2>13 DEF HeldOK, Wanted, Towards
  <2>17. Assured(q)'
    BY <2>1, <2>10, <2>12, <2>13, <2>14, <2>15, <2>16, Undisturbed
  <2>18. op' = [op EXCEPT ![e] = q] BY <1>1, <2>1, <2>10, <2>11 DEF Step, Go
  <2> HIDE <2>11
  <2> QED BY <1>1, <2>1, <2>5, <2>8, <2>9, <2>12, <2>13, <2>17, <2>18, ConfigStep
<1>5. CASE Remove(e)
  <2>1. /\ r.kind = "remove_agent" /\ r.pc = "remove" /\ Still
        /\ Commit(e, WithAgent(config, r.slot, NoAgent))
        /\ \/ Finish(e)
           \/ Go(e, Locking([r EXCEPT !.held = {}], {SpaceLock(r.slot)}, "purge"))
    BY <1>1, <1>5 DEF Remove, At
  <2>2. r.slot \in Slots BY <1>2, <2>1 DEF FormOK, SlotKinds, Kinds
  <2>3. config' = WithAgent(config, r.slot, NoAgent) /\ Valid(config') /\ Free(ConfigLock)
    BY <2>1 DEF Commit, ConfigReady
  <2>4. config' \in Config BY <1>3, <2>2, <2>3, EntryTypes
  <2>5. Valid(config)' BY <2>3 DEF Valid, Exists, Declared
  <2>6. CASE Finish(e) BY <2>1, <2>3, <2>4, <2>5, <2>6, ConfigWritten
  <2>7. CASE Go(e, Locking([r EXCEPT !.held = {}], {SpaceLock(r.slot)}, "purge"))
    <3>1. PICK x : x = [r EXCEPT !.held = {}] OBVIOUS
    <3>2. /\ x \in RequestType /\ x.held = {} /\ x.kind = r.kind /\ x.slot = r.slot
          /\ x.page = r.page
      BY <3>1 DEF RequestType
    <3>3. PICK locks : locks = {SpaceLock(r.slot)} OBVIOUS
    <3>4. locks \in SUBSET Locks /\ locks # {} /\ \A l \in locks : Rank(l) \in Nat
      BY <2>2, <3>3, SlotLocks
    <3>5. PICK q : q = Locking(x, locks, "purge") OBVIOUS
    <3>6. /\ q \in RequestType /\ SameButPhase(q, x) /\ q.needs = locks /\ q.then = "purge"
          /\ q.pc = "locking" /\ Towards(q) = "purge"
      BY <3>2, <3>4, <3>5, LockingFacts DEF RequestSteps
    <3>7. q.kind = r.kind /\ q.slot = r.slot /\ q.held = {} /\ q.page = r.page
      BY <3>2, <3>6 DEF SameButPhase
    <3>8. FormOK(q) BY <2>1, <2>2, <3>7 DEF FormOK, SlotKinds, Kinds
    <3>9. ReadOK(q) BY <1>2, <2>1, <3>6, <3>7 DEF ReadOK, Lockings
    <3>10. HeldOK(q) BY <2>1, <3>3, <3>4, <3>6, <3>7 DEF HeldOK, Wanted
    <3>11. Assured(q)' BY <2>1, <3>6, <3>7, <3>8, <3>9, <3>10, Undisturbed
    <3>12. op' = [op EXCEPT ![e] = q] BY <2>7, <3>1, <3>3, <3>5 DEF Go
    <3> HIDE <3>1, <3>5
    <3> QED BY <2>1, <2>3, <2>4, <2>5, <3>6, <3>7, <3>11, <3>12, ConfigStep
  <2> QED BY <2>1, <2>6, <2>7
<1>6. CASE MoveAgent(e)
  <2>1. /\ r.kind = "move" /\ r.pc = "commit" /\ Step(e, "cleanup") /\ Still
        /\ Commit(e, WithAgent(WithAgent(config, r.to, config.agents[r.slot]), r.slot, NoAgent))
    BY <1>1, <1>6 DEF MoveAgent, At
  <2>2. r.slot \in Slots /\ r.to \in Slots BY <1>2, <2>1 DEF FormOK, SlotKinds, Kinds
  <2>3. PICK c : c = WithAgent(config, r.to, config.agents[r.slot]) OBVIOUS
  <2>4. PICK a \in Agent \cup {NoAgent} : a = config.agents[r.slot]
    BY <1>3, <2>2 DEF Config
  <2>5. c \in Config BY <1>3, <2>2, <2>3, <2>4, EntryTypes
  <2>6. Commit(e, WithAgent(c, r.slot, NoAgent)) BY <2>1, <2>3
  <2>7. config' = WithAgent(c, r.slot, NoAgent) /\ Valid(config') /\ Free(ConfigLock)
    BY <2>6 DEF Commit, ConfigReady
  <2>8. config' \in Config BY <2>2, <2>5, <2>7, EntryTypes
  <2>9. Valid(config)' BY <2>7 DEF Valid, Exists, Declared
  <2>10. PICK step \in RequestSteps : step = "cleanup" BY DEF RequestSteps
  <2>11. PICK q : q = [r EXCEPT !.pc = step] OBVIOUS
  <2>12. q \in RequestType /\ SameButPhase(q, r) /\ q.pc = step BY <2>11, StepFacts
  <2>13. /\ q.kind = r.kind /\ q.held = r.held /\ q.page = r.page /\ q.slot = r.slot
         /\ q.to = r.to /\ q.entries = r.entries
    BY <2>12 DEF SameButPhase
  <2>14. FormOK(q) /\ Wanted(q, "cleanup") = Wanted(r, "cleanup")
    BY <1>2, <2>12, SameForm
  <2>15. ReadOK(q) BY <1>2, <2>1, <2>10, <2>12, <2>13 DEF ReadOK
  <2>16. Wanted(r, "cleanup") = Wanted(r, "commit") BY <2>1 DEF Wanted
  <2>17. HeldOK(q) BY <1>2, <2>1, <2>10, <2>12, <2>13, <2>14, <2>16 DEF HeldOK, Towards
  <2>18. Towards(q) = "cleanup" BY <2>10, <2>12 DEF Towards
  <2>19. Assured(q)'
    BY <2>1, <2>10, <2>12, <2>13, <2>14, <2>15, <2>17, <2>18, Undisturbed
  <2>20. op' = [op EXCEPT ![e] = q] BY <1>1, <2>1, <2>10, <2>11 DEF Step, Go
  <2> HIDE <2>11
  <2> QED BY <1>1, <2>1, <2>7, <2>8, <2>9, <2>12, <2>13, <2>19, <2>20, ConfigStep
<1> QED BY <1>4, <1>5, <1>6

(* A request that ends has written files, directories or memories it had locked,
   or whose lock was free. *)
LEMMA StoreWritten ==
    ASSUME RequestsInv, NEW e \in Editors, Finish(e),
           files' \in [Slots \X Prompts -> File], spaces' \subseteq Slots,
           memory' \in [Slots \cup Channels -> File],
           UNCHANGED <<config, jobs, begun, deaths>>,
           \A s \in Slots :
             \/ /\ \A p \in Prompts : files'[<<s, p>>] = files[<<s, p>>]
                /\ s \in spaces' <=> s \in spaces
             \/ SpaceLock(s) \in op[e].held
             \/ Free(SpaceLock(s)),
           \A s \in Slots : \/ memory'[s] = memory[s]
                            \/ MemoryLock(s) \in op[e].held
                            \/ Free(MemoryLock(s))
    PROVE  RequestsInv'
<1>1. StoresOK' BY DEF StoresOK, RequestsInv, AgentsTypeOK, Valid, Exists, Declared
<1>2. PICK r \in RequestType : r = NoRequest /\ r.held = {} BY NoRequestOK
<1>3. op' = [op EXCEPT ![e] = r] BY <1>2 DEF Finish, Go
<1>4. Assured(r)'
  BY <1>2, NoRequestAssured DEF Assured, FormOK, ReadOK, HeldOK, MoveOK, RoutinesOK, ArchiveOK
<1> QED BY <1>1, <1>2, <1>3, <1>4, WriterStep

(* Deleting a prompt deletes its file if it has the content that was read, and no
   other. *)
LEMMA UnlinkFacts ==
    ASSUME RequestsInv, NEW s \in Slots, NEW p \in Prompts, NEW d, Unlink(s, p, d)
    PROVE  /\ files' \in [Slots \X Prompts -> File]
           /\ \A x \in Slots, q \in Prompts :
                files'[<<x, q>>] = IF <<x, q>> = <<s, p>> /\ files[<<s, p>>] = d
                                   THEN Missing ELSE files[<<x, q>>]
<1>1. files \in [Slots \X Prompts -> File] BY DEF RequestsInv, AgentsTypeOK
<1>2. CASE files[<<s, p>>] = d
  <2>1. files' = [files EXCEPT ![<<s, p>>] = Missing] BY <1>2 DEF Unlink
  <2> QED BY <1>1, <1>2, <2>1 DEF File
<1>3. CASE files[<<s, p>>] # d
  <2>1. files' = files BY <1>3 DEF Unlink
  <2> QED BY <1>1, <1>3, <2>1
<1> QED BY <1>2, <1>3

(* Deleting a namespace deletes the files that were read, and no others. *)
LEMMA WithoutFacts ==
    ASSUME RequestsInv, NEW s \in Slots, NEW entries
    PROVE  /\ Without(s, entries) \in [Slots \X Prompts -> File]
           /\ \A x \in Slots, p \in Prompts :
                Without(s, entries)[<<x, p>>] =
                  IF x = s /\ p \in Entered(entries) THEN Missing ELSE files[<<x, p>>]
<1>1. files \in [Slots \X Prompts -> File] BY DEF RequestsInv, AgentsTypeOK
<1>2. PICK E : E = Entered(entries) OBVIOUS
<1>3. Without(s, entries) = [x \in Slots \X Prompts |->
                               IF x[1] = s /\ x[2] \in E THEN Missing ELSE files[x]]
  BY <1>1, <1>2 DEF Without
<1>4. Without(s, entries) \in [Slots \X Prompts -> File] BY <1>1, <1>3 DEF File
<1>5. \A x \in Slots, p \in Prompts :
        Without(s, entries)[<<x, p>>] = IF x = s /\ p \in E THEN Missing ELSE files[<<x, p>>]
  BY <1>3
<1> QED BY <1>2, <1>4, <1>5

(* The requests that write files or memories and end. *)
LEMMA StoreWriters ==
    ASSUME RequestsInv, NEW e \in Editors,
           \/ Purge(e) \/ UndoCreate(e) \/ UpdatePrompt(e) \/ UnlinkPrompt(e)
           \/ RollbackMove(e) \/ CleanupMove(e) \/ RestoreArchive(e) \/ SaveContent(e)
    PROVE  RequestsInv'
<1>1. PICK r \in RequestType : r = op[e] /\ Assured(r) BY KnownRequest
<1>2. FormOK(r) /\ ReadOK(r) /\ HeldOK(r) BY <1>1 DEF Assured
<1>3. /\ files \in [Slots \X Prompts -> File] /\ spaces \subseteq Slots
      /\ memory \in [Slots \cup Channels -> File]
  BY DEF RequestsInv, AgentsTypeOK
<1>4. CASE Purge(e)
  <2>1. /\ r.kind = "remove_agent" /\ r.pc = "purge" /\ Finish(e)
        /\ files' = files \/ files' = Without(r.slot, r.entries)
        /\ UNCHANGED <<config, spaces, memory, jobs, begun, deaths>>
    BY <1>1, <1>4 DEF Purge, At
  <2>2. r.slot \in Slots BY <1>2, <2>1 DEF FormOK, SlotKinds, Kinds
  <2>3. SpaceLock(r.slot) \in r.held BY <1>2, <2>1 DEF HeldOK, Wanted, Towards
  <2>4. /\ files' \in [Slots \X Prompts -> File]
        /\ \A s \in Slots : s # r.slot =>
             \A p \in Prompts : files'[<<s, p>>] = files[<<s, p>>]
    BY <1>3, <2>1, <2>2, WithoutFacts
  <2> QED BY <1>1, <1>3, <2>1, <2>3, <2>4, StoreWritten
<1>5. CASE CleanupMove(e)
  <2>1. /\ r.kind = "move" /\ r.pc = "cleanup" /\ Finish(e)
        /\ files' = Without(r.slot, r.entries)
        /\ UNCHANGED <<config, spaces, memory, jobs, begun, deaths>>
    BY <1>1, <1>5 DEF CleanupMove, At
  <2>2. r.slot \in Slots BY <1>2, <2>1 DEF FormOK, SlotKinds, Kinds
  <2>3. SpaceLock(r.slot) \in r.held BY <1>2, <2>1, HeldAtMove DEF Towards
  <2>4. /\ files' \in [Slots \X Prompts -> File]
        /\ \A s \in Slots : s # r.slot =>
             \A p \in Prompts : files'[<<s, p>>] = files[<<s, p>>]
    BY <1>3, <2>1, <2>2, WithoutFacts
  <2> QED BY <1>1, <1>3, <2>1, <2>3, <2>4, StoreWritten
<1>6. CASE UndoCreate(e) \/ UnlinkPrompt(e)
  <2>1. /\ r.kind \in {"create_prompt", "delete_prompt"} /\ Finish(e) /\ Free(SpaceLock(r.slot))
        /\ \/ Unlink(r.slot, r.prompt, r.content) \/ Unlink(r.slot, r.prompt, r.digest)
        /\ UNCHANGED <<config, spaces, memory, jobs, begun, deaths>>
    BY <1>1, <1>6 DEF UndoCreate, UnlinkPrompt, At
  <2>2. r.slot \in Slots /\ r.prompt \in Prompts
    BY <1>2, <2>1 DEF FormOK, SlotKinds, Kinds
  <2>3. /\ files' \in [Slots \X Prompts -> File]
        /\ \A s \in Slots : s # r.slot =>
             \A p \in Prompts : files'[<<s, p>>] = files[<<s, p>>]
    <3>1. PICK d : Unlink(r.slot, r.prompt, d) BY <2>1
    <3>2. PICK x \in Slots : x = r.slot BY <2>2
    <3>3. PICK p \in Prompts : p = r.prompt BY <2>2
    <3>4. Unlink(x, p, d) BY <3>1, <3>2, <3>3
    <3>5. /\ files' \in [Slots \X Prompts -> File]
          /\ \A s \in Slots, q \in Prompts :
               files'[<<s, q>>] = IF <<s, q>> = <<x, p>> /\ files[<<x, p>>] = d
                                  THEN Missing ELSE files[<<s, q>>]
      BY <3>4, UnlinkFacts
    <3> QED BY <3>2, <3>5
  <2> QED BY <1>1, <1>3, <2>1, <2>3, StoreWritten
<1>7. CASE UpdatePrompt(e)
  <2>1. /\ r.kind = "update_prompt" /\ Finish(e) /\ Free(SpaceLock(r.slot))
        /\ files' = [files EXCEPT ![<<r.slot, r.prompt>>] = r.content]
        /\ UNCHANGED <<config, spaces, memory, jobs, begun, deaths>>
    BY <1>1, <1>7 DEF UpdatePrompt, At
  <2>2. r.slot \in Slots /\ r.prompt \in Prompts /\ r.content \in Contents
    BY <1>2, <2>1 DEF FormOK, SlotKinds, Kinds
  <2>3. /\ files' \in [Slots \X Prompts -> File]
        /\ \A s \in Slots : s # r.slot =>
             \A p \in Prompts : files'[<<s, p>>] = files[<<s, p>>]
    BY <1>3, <2>1, <2>2 DEF File
  <2> QED BY <1>1, <1>3, <2>1, <2>3, StoreWritten
<1>8. CASE RollbackMove(e)
  <2>1. /\ r.kind = "move" /\ r.pc \in {"copy", "commit"} /\ Finish(e)
        /\ memory' = IF Owned(r.page, r.slot) = {} THEN memory
                     ELSE [memory EXCEPT ![r.to] = Missing]
        /\ files' = files \/ files' = Without(r.to, r.entries)
        /\ UNCHANGED <<config, spaces, jobs, begun, deaths>>
    BY <1>1, <1>8 DEF RollbackMove, At
  <2>2. r.slot \in Slots /\ r.to \in Slots BY <1>2, <2>1 DEF FormOK, SlotKinds, Kinds
  <2>3. /\ SpaceLock(r.to) \in r.held
        /\ Owned(r.page, r.slot) # {} => MemoryLock(r.to) \in r.held
    BY <1>2, <2>1, HeldAtMove DEF Towards
  <2>4. /\ files' \in [Slots \X Prompts -> File]
        /\ \A s \in Slots : s # r.to =>
             \A p \in Prompts : files'[<<s, p>>] = files[<<s, p>>]
    BY <1>3, <2>1, <2>2, WithoutFacts
  <2>5. /\ memory' \in [Slots \cup Channels -> File]
        /\ \A s \in Slots : memory'[s] = memory[s] \/ MemoryLock(s) \in r.held
    BY <1>3, <2>1, <2>2, <2>3 DEF File
  <2> QED BY <1>1, <1>3, <2>1, <2>3, <2>4, <2>5, StoreWritten
<1>9. CASE RestoreArchive(e)
  <2>1. /\ r.kind = "channel_delete" /\ Finish(e)
        /\ memory' = memory \/ memory' = [memory EXCEPT ![r.channel] = r.archive]
        /\ UNCHANGED <<config, files, spaces, jobs, begun, deaths>>
    BY <1>1, <1>9 DEF RestoreArchive, At
  <2>2. r.channel \in Channels BY <1>2, <2>1 DEF FormOK, SlotKinds, Kinds
  <2>3. /\ memory' \in [Slots \cup Channels -> File]
        /\ \A s \in Slots : memory'[s] = memory[s]
    BY <1>3, <2>1, <2>2, AgentConstants DEF RequestType
  <2> QED BY <1>1, <1>3, <2>1, <2>3, StoreWritten
<1>10. CASE SaveContent(e)
  <2>1. PICK mem : /\ mem = IF r.kind = "content" THEN MemoryOf(r.page, r.slot) ELSE r.channel
                 /\ r.pc = "save" /\ Free(MemoryLock(mem)) /\ Finish(e)
                 /\ memory' = [memory EXCEPT ![mem] = IF Shown(mem) = r.digest THEN r.content
                                                    ELSE Shown(mem)]
    BY <1>1, <1>10 DEF SaveContent
  <2>2. UNCHANGED <<config, files, spaces, jobs, begun, deaths>> BY <1>10 DEF SaveContent
  <2>3. r.kind \in {"content", "channel_content"} /\ r.page \in Config
    BY <1>2, <2>1 DEF ReadOK
  <2>4. r.content \in Contents BY <1>2, <2>3 DEF FormOK
  <2>5. mem \in Slots \cup Channels
    <3>1. CASE r.kind = "content"
      <4>1. r.slot \in Slots /\ Exists(r.page, r.slot) /\ MemoryOf(r.page, r.slot) # RunMemory
        BY <1>2, <3>1 DEF FormOK, SlotKinds, Kinds
      <4>2. r.page.agents[r.slot] \in Agent BY <2>3, <4>1 DEF Config, Exists
      <4>3. r.page.agents[r.slot].memory \in {RunMemory, OwnMemory} \cup Channels
        BY <4>2 DEF Agent
      <4> QED BY <2>1, <3>1, <4>1, <4>3 DEF MemoryOf, Resolve
    <3>2. CASE r.kind = "channel_content"
      BY <1>2, <2>1, <3>2 DEF FormOK, SlotKinds, Kinds
    <3> QED BY <2>3, <3>1, <3>2
  <2>6. Shown(mem) \in File BY <1>3, <2>5, AgentConstants DEF Shown, File
  <2>7. PICK c \in File : c = IF Shown(mem) = r.digest THEN r.content ELSE Shown(mem)
    BY <2>4, <2>6 DEF File
  <2>8. memory' = [memory EXCEPT ![mem] = c] BY <2>1, <2>7
  <2>9. /\ memory' \in [Slots \cup Channels -> File]
        /\ \A s \in Slots : memory'[s] = memory[s] \/ Free(MemoryLock(s))
    BY <1>3, <2>1, <2>5, <2>8
  <2> QED BY <1>3, <2>1, <2>2, <2>9, StoreWritten
<1> QED BY <1>4, <1>5, <1>6, <1>7, <1>8, <1>9, <1>10

(* A request that goes on has written files, directories or memories. *)
LEMMA StoreStep ==
    ASSUME RequestsInv, NEW e \in Editors, NEW r \in RequestType, op' = [op EXCEPT ![e] = r],
           \A l \in r.held : l \in op[e].held \/ Free(l), Assured(r)',
           files' \in [Slots \X Prompts -> File], spaces' \subseteq Slots,
           memory' \in [Slots \cup Channels -> File],
           UNCHANGED <<config, jobs, begun, deaths>>,
           \A s \in Slots :
             \/ /\ \A p \in Prompts : files'[<<s, p>>] = files[<<s, p>>]
                /\ s \in spaces' <=> s \in spaces
             \/ SpaceLock(s) \in op[e].held
             \/ Free(SpaceLock(s)),
           \A s \in Slots : \/ memory'[s] = memory[s]
                            \/ MemoryLock(s) \in op[e].held
                            \/ Free(MemoryLock(s))
    PROVE  RequestsInv'
<1>1. StoresOK' BY DEF StoresOK, RequestsInv, AgentsTypeOK, Valid, Exists, Declared
<1> QED BY <1>1, WriterStep

(* The requests that write files or memories and go on. *)
LEMMA StoreWritersGoOn ==
    ASSUME RequestsInv, NEW e \in Editors, CreateFile(e) \/ ArchiveChannel(e)
    PROVE  RequestsInv'
<1>1. PICK r \in RequestType : r = op[e] /\ Assured(r) BY KnownRequest
<1>2. FormOK(r) /\ ReadOK(r) /\ HeldOK(r) BY <1>1 DEF Assured
<1>3. /\ files \in [Slots \X Prompts -> File] /\ spaces \subseteq Slots
      /\ memory \in [Slots \cup Channels -> File]
  BY DEF RequestsInv, AgentsTypeOK
<1>4. CASE CreateFile(e)
  <2>1. /\ r.kind = "create_prompt" /\ r.pc = "open" /\ Step(e, "register")
        /\ Free(SpaceLock(r.slot)) /\ spaces' = spaces \cup {r.slot}
        /\ files' = [files EXCEPT ![<<r.slot, r.prompt>>] = r.content]
        /\ UNCHANGED <<config, memory, jobs, begun, deaths>>
    BY <1>1, <1>4 DEF CreateFile, At
  <2>2. r.slot \in Slots /\ r.prompt \in Prompts /\ r.content \in Contents
    BY <1>2, <2>1 DEF FormOK, SlotKinds, Kinds
  <2>3. /\ files' \in [Slots \X Prompts -> File] /\ spaces' \subseteq Slots
        /\ \A s \in Slots : s # r.slot =>
             /\ \A p \in Prompts : files'[<<s, p>>] = files[<<s, p>>]
             /\ s \in spaces' <=> s \in spaces
    BY <1>3, <2>1, <2>2 DEF File
  <2>4. PICK step \in RequestSteps : step = "register" BY DEF RequestSteps
  <2>5. PICK q : q = [r EXCEPT !.pc = step] OBVIOUS
  <2>6. q \in RequestType /\ SameButPhase(q, r) /\ q.pc = step BY <2>5, StepFacts
  <2>7. q.kind = r.kind /\ q.held = r.held /\ q.page = r.page BY <2>6 DEF SameButPhase
  <2>8. FormOK(q) BY <1>2, <2>6, SameForm
  <2>9. ReadOK(q) BY <1>2, <2>1, <2>4, <2>6, <2>7 DEF ReadOK
  <2>10. HeldOK(q) BY <2>1, <2>4, <2>6, <2>7 DEF HeldOK, Wanted, Towards
  <2>11. Assured(q)' BY <2>1, <2>4, <2>6, <2>7, <2>8, <2>9, <2>10, Undisturbed
  <2>12. op' = [op EXCEPT ![e] = q] BY <1>1, <2>1, <2>4, <2>5 DEF Step, Go
  <2> HIDE <2>5
  <2> QED BY <1>1, <1>3, <2>1, <2>3, <2>6, <2>7, <2>11, <2>12, StoreStep
<1>5. CASE ArchiveChannel(e)
  <2>1. /\ r.kind = "channel_delete" /\ r.pc = "archive" /\ Free(MemoryLock(r.channel))
        /\ memory' = [memory EXCEPT ![r.channel] = Missing]
        /\ Go(e, [r EXCEPT !.pc = "drop", !.held = @ \cup {MemoryLock(r.channel)},
                           !.archive = memory[r.channel]])
        /\ UNCHANGED <<config, files, spaces, jobs, begun, deaths>>
    BY <1>1, <1>5 DEF ArchiveChannel, At
  <2>2. r.channel \in Channels BY <1>2, <2>1 DEF FormOK, SlotKinds, Kinds
  <2>3. /\ memory' \in [Slots \cup Channels -> File]
        /\ \A s \in Slots : memory'[s] = memory[s]
    BY <1>3, <2>1, <2>2, AgentConstants DEF File
  <2>4. PICK step \in RequestSteps : step = "drop" BY DEF RequestSteps
  <2>5. PICK h \in SUBSET Locks : h = r.held \cup {MemoryLock(r.channel)}
    BY <2>2 DEF RequestType, Locks
  <2>6. PICK a \in File : a = memory[r.channel] BY <1>3, <2>2
  <2>7. PICK x : x = [r EXCEPT !.pc = step] OBVIOUS
  <2>8. x \in RequestType /\ SameButPhase(x, r) /\ x.pc = step BY <2>7, StepFacts
  <2>9. PICK q : q = [x EXCEPT !.held = h, !.archive = a] OBVIOUS
  <2>10. /\ q \in RequestType /\ q.pc = step /\ q.held = h /\ q.kind = r.kind
         /\ q.page = r.page /\ q.channel = r.channel
    BY <2>8, <2>9, ZenonT(40) DEF RequestType, SameButPhase
  <2>11. op' = [op EXCEPT ![e] = q]
    BY <1>1, <2>1, <2>4, <2>5, <2>6, <2>7, <2>9 DEF Go
  <2>12. FormOK(q) BY <1>2, <2>1, <2>10 DEF FormOK, SlotKinds, Kinds
  <2>13. ReadOK(q) BY <1>2, <2>1, <2>4, <2>10 DEF ReadOK
  <2>14. HeldOK(q) BY <2>1, <2>4, <2>10 DEF HeldOK, Wanted, Towards
  <2>15. Assured(q)' BY <2>1, <2>4, <2>10, <2>12, <2>13, <2>14, Undisturbed
  <2>16. \A l \in q.held : l \in op[e].held \/ Free(l) BY <1>1, <2>1, <2>5, <2>10
  <2> HIDE <2>7, <2>9
  <2> QED BY <1>1, <1>3, <2>1, <2>3, <2>10, <2>11, <2>15, <2>16, StoreStep
<1> QED BY <1>4, <1>5

(* A move prepares the target: what it will commit is there, since all its locks
   are held from the last check on. *)
LEMMA MovePrepared ==
    ASSUME RequestsInv, NEW e \in Editors, StageMemory(e) \/ CopyPrompts(e)
    PROVE  RequestsInv'
<1>1. PICK r \in RequestType : r = op[e] /\ Assured(r) BY KnownRequest
<1>2. FormOK(r) /\ ReadOK(r) /\ HeldOK(r) /\ MoveOK(r) BY <1>1 DEF Assured
<1>3. /\ files \in [Slots \X Prompts -> File] /\ spaces \subseteq Slots
      /\ memory \in [Slots \cup Channels -> File] /\ jobs' = jobs /\ config' = config
  BY DEF RequestsInv, AgentsTypeOK, StageMemory, CopyPrompts
<1>4. r.kind = "move" /\ r.pc \in {"stage", "copy"}
  BY <1>1 DEF StageMemory, CopyPrompts, At
<1>5. r.slot \in Slots /\ r.to \in Slots /\ r.to # r.slot
  BY <1>2, <1>4 DEF FormOK, SlotKinds, Kinds
<1>6. /\ SpaceLock(r.to) \in r.held
      /\ Owned(r.page, r.slot) # {} => MemoryLock(r.to) \in r.held
  BY <1>2, <1>4, HeldAtMove DEF Towards
<1>7. Towards(r) = r.pc BY <1>4 DEF Towards
<1>8. /\ ActiveFor(r.slot)' = {} /\ ActiveFor(r.to)' = {} /\ r.to \notin spaces
      /\ \A p \in Entered(r.entries) : files[<<r.slot, p>>] = r.entries[p]
  BY <1>2, <1>3, <1>4, <1>7 DEF MoveOK, ActiveFor
(* The request after the step. *)
<1>9. ASSUME NEW step \in {"copy", "commit"}, Step(e, step)
      PROVE  \E q \in RequestType :
               /\ op' = [op EXCEPT ![e] = q] /\ q.held = r.held /\ q.pc = step
               /\ SameButPhase(q, r) /\ FormOK(q) /\ ReadOK(q) /\ HeldOK(q)
  <2>1. PICK s \in RequestSteps : s = step BY <1>9 DEF RequestSteps
  <2>2. PICK q : q = [r EXCEPT !.pc = s] OBVIOUS
  <2>3. q \in RequestType /\ SameButPhase(q, r) /\ q.pc = s BY <2>2, StepFacts
  <2>4. /\ q.kind = r.kind /\ q.held = r.held /\ q.page = r.page /\ q.slot = r.slot
        /\ q.to = r.to /\ q.entries = r.entries
    BY <2>3 DEF SameButPhase
  <2>5. FormOK(q) /\ Wanted(q, step) = Wanted(r, step) BY <1>2, <2>3, SameForm
  <2>6. ReadOK(q) BY <1>2, <1>4, <2>1, <2>3, <2>4 DEF ReadOK
  <2>7. Wanted(r, step) = Wanted(r, r.pc) BY <1>4 DEF Wanted
  <2>8. HeldOK(q) BY <1>2, <1>4, <2>1, <2>3, <2>4, <2>5, <2>7 DEF HeldOK, Towards
  <2>9. op' = [op EXCEPT ![e] = q] BY <1>1, <1>9, <2>1, <2>2 DEF Step, Go
  <2> HIDE <2>2
  <2> QED BY <2>1, <2>3, <2>4, <2>5, <2>6, <2>8, <2>9
<1>10. ASSUME NEW q \in RequestType, SameButPhase(q, r), q.pc \in {"copy", "commit"},
              FormOK(q), ReadOK(q), HeldOK(q),
              \A p \in Entered(r.entries) : files'[<<r.slot, p>>] = files[<<r.slot, p>>],
              q.pc = "copy" => spaces' = spaces,
              q.pc = "commit" =>
                \A p \in Entered(r.entries) : files'[<<r.to, p>>] = r.entries[p],
              Owned(r.page, r.slot) # {} => memory'[r.to] \in {Empty, memory'[r.slot]} \ {Missing}
       PROVE  Assured(q)'
  <2>1. FormOK(q)' /\ ReadOK(q)' /\ HeldOK(q)'
    BY <1>10 DEF FormOK, ReadOK, HeldOK, Wanted, TeamsOf, SpacesOf, MemoriesOf, Owned, Exists,
           Registered, Entered, Towards
  <2>2. q.kind = "move" /\ q.slot = r.slot /\ q.to = r.to /\ q.entries = r.entries /\ q.page = r.page
    BY <1>4, <1>10 DEF SameButPhase
  <2>3. Towards(q) = q.pc BY <1>10 DEF Towards
  <2>4. MoveOK(q)'
    BY <1>8, <1>10, <2>2, <2>3 DEF MoveOK, Towards, Owned, Entered
  <2>5. RoutinesOK(q)' /\ ArchiveOK(q)' BY <1>10 DEF RoutinesOK, ArchiveOK
  <2> QED BY <2>1, <2>4, <2>5 DEF Assured
<1>11. CASE StageMemory(e)
  <2>1. r.pc = "stage" /\ UNCHANGED <<config, files, spaces, jobs, begun, deaths>>
    BY <1>1, <1>11 DEF StageMemory, At
  <2>2. CASE Finish(e) /\ memory' = memory BY <1>3, <2>1, <2>2, StoreWritten
  <2>3. CASE Owned(r.page, r.slot) = {} /\ Step(e, "copy") /\ memory' = memory
    <3>1. PICK q \in RequestType :
               /\ op' = [op EXCEPT ![e] = q] /\ q.held = r.held /\ q.pc = "copy"
               /\ SameButPhase(q, r) /\ FormOK(q) /\ ReadOK(q) /\ HeldOK(q)
      BY <1>9, <2>3
    <3>2. Assured(q)' BY <1>10, <2>1, <2>3, <3>1
    <3> QED BY <1>1, <1>3, <2>1, <2>3, <3>1, <3>2, StoreStep
  <2>4. CASE /\ Owned(r.page, r.slot) # {} /\ Step(e, "copy")
             /\ memory[r.slot] = r.revision
             /\ memory' = [memory EXCEPT ![r.to] = IF r.copy /\ r.revision # Missing
                                                   THEN r.revision ELSE Empty]
    <3>1. PICK q \in RequestType :
               /\ op' = [op EXCEPT ![e] = q] /\ q.held = r.held /\ q.pc = "copy"
               /\ SameButPhase(q, r) /\ FormOK(q) /\ ReadOK(q) /\ HeldOK(q)
      BY <1>9, <2>4
    <3>2. PICK c \in File : c = IF r.copy /\ r.revision # Missing THEN r.revision ELSE Empty
      BY AgentConstants DEF RequestType, File
    <3>3. c \in {Empty, memory[r.slot]} \ {Missing} BY <2>4, <3>2, AgentConstants
    <3>4. memory' = [memory EXCEPT ![r.to] = c] BY <2>4, <3>2
    <3>5. /\ memory' \in [Slots \cup Channels -> File]
          /\ memory'[r.to] = c /\ memory'[r.slot] = memory[r.slot]
          /\ \A s \in Slots : s # r.to => memory'[s] = memory[s]
      BY <1>3, <1>5, <3>4
    <3>6. Assured(q)' BY <1>10, <2>1, <3>1, <3>3, <3>5
    <3> QED BY <1>1, <1>3, <1>6, <2>1, <2>4, <3>1, <3>5, <3>6, StoreStep
  <2> QED BY <1>1, <1>11, <2>2, <2>3, <2>4 DEF StageMemory
<1>12. CASE CopyPrompts(e)
  <2>1. /\ r.pc = "copy" /\ Step(e, "commit") /\ UNCHANGED <<config, memory, jobs, begun, deaths>>
        /\ files' = [x \in DOMAIN files |-> IF x[1] = r.to /\ x[2] \in Entered(r.entries)
                                            THEN r.entries[x[2]] ELSE files[x]]
        /\ spaces' = spaces \/ spaces' = spaces \cup {r.to}
    BY <1>1, <1>12 DEF CopyPrompts, At
  <2>2. PICK q \in RequestType :
             /\ op' = [op EXCEPT ![e] = q] /\ q.held = r.held /\ q.pc = "commit"
             /\ SameButPhase(q, r) /\ FormOK(q) /\ ReadOK(q) /\ HeldOK(q)
    BY <1>9, <2>1
  <2>3. PICK n \in [Prompts -> File] : n = r.entries BY DEF RequestType
  <2>4. Entered(n) \subseteq Prompts BY DEF Entered
  <2>5. PICK E \in SUBSET Prompts : E = Entered(n) BY <2>4
  <2>6. files' = [x \in Slots \X Prompts |-> IF x[1] = r.to /\ x[2] \in E
                                             THEN n[x[2]] ELSE files[x]]
    BY <1>3, <2>1, <2>3, <2>5
  <2>7. files' \in [Slots \X Prompts -> File]
    <3>1. ASSUME NEW x \in Slots \X Prompts
          PROVE  (IF x[1] = r.to /\ x[2] \in E THEN n[x[2]] ELSE files[x]) \in File
      BY <1>3, <3>1
    <3> QED BY <2>6, <3>1
  <2>8. \A s \in Slots, p \in Prompts :
          files'[<<s, p>>] = IF s = r.to /\ p \in E THEN n[p] ELSE files[<<s, p>>]
    BY <2>6
  <2>9. Owned(r.page, r.slot) # {} => memory'[r.to] \in {Empty, memory'[r.slot]} \ {Missing}
    BY <1>2, <1>4, <1>7, <2>1 DEF MoveOK
  <2>10. /\ \A p \in Entered(r.entries) : files'[<<r.slot, p>>] = files[<<r.slot, p>>]
         /\ \A p \in Entered(r.entries) : files'[<<r.to, p>>] = r.entries[p]
    BY <1>5, <2>3, <2>5, <2>8
  <2>11. Assured(q)' BY <1>10, <2>2, <2>9, <2>10
  <2>12. \A s \in Slots : s # r.to => /\ \A p \in Prompts : files'[<<s, p>>] = files[<<s, p>>]
                                      /\ s \in spaces' <=> s \in spaces
    BY <2>1, <2>8
  <2>13. spaces' \subseteq Slots BY <1>3, <1>5, <2>1
  <2> QED BY <1>1, <1>3, <1>6, <2>1, <2>2, <2>7, <2>11, <2>12, <2>13, StoreStep
<1> QED BY <1>11, <1>12

-----------------------------------------------------------------------------
(* Jobs. *)

(* A job is recorded under the lock of its agent's team. *)
LEMMA JobCreated == ASSUME RequestsInv, NEW e \in Editors, CreateJob(e) PROVE RequestsInv'
<1>1. PICK r \in RequestType : r = op[e] /\ Assured(r) BY KnownRequest
<1>2. FormOK(r) /\ ReadOK(r) /\ HeldOK(r) BY <1>1 DEF Assured
<1>3. jobs \in [Jobs -> Job \cup {NoJob}] BY DEF RequestsInv, AgentsTypeOK
<1>4. /\ r.kind = "submit" /\ r.pc = "resolve" /\ Finish(e)
      /\ UNCHANGED <<config, files, spaces, memory, begun, deaths>>
      /\ Declared(r.seen, Effective(r.seen, e))
  BY <1>1 DEF CreateJob, At
<1>5. PICK mem : mem = Resolve(r.slot, Effective(r.seen, e)) OBVIOUS
<1>22. PICK j \in Jobs :
        /\ jobs[j] = NoJob
        /\ jobs' = [jobs EXCEPT ![j] = [slot |-> r.slot, running |-> FALSE, memory |-> mem]]
  BY <1>1, <1>5 DEF CreateJob
<1>6. r.slot \in Slots /\ r.seen \in Config
  BY <1>2, <1>4 DEF FormOK, ReadOK, SlotKinds, Kinds
<1>7. mem \in Slots \cup Channels \cup {RunMemory}
  <2>1. r.seen.channels \subseteq Channels BY <1>6 DEF Config
  <2> QED BY <1>4, <1>5, <1>6, <2>1 DEF Declared, Resolve
<1>20. PICK b \in BOOLEAN : b = FALSE OBVIOUS
<1>21. PICK job : job = [slot |-> r.slot, running |-> b, memory |-> mem] OBVIOUS
<1>8. /\ job \in Job /\ job = [slot |-> r.slot, running |-> FALSE, memory |-> mem]
      /\ job.slot = r.slot /\ ~job.running
  BY <1>6, <1>7, <1>20, <1>21 DEF Job
<1>9. jobs' \in [Jobs -> Job \cup {NoJob}] /\ jobs' = [jobs EXCEPT ![j] = job]
  BY <1>3, <1>8, <1>22
<1>10. \A i \in Jobs : jobs'[i] = IF i = j THEN job ELSE jobs[i] BY <1>3, <1>9
<1>11. TeamLock(r.slot[1]) \in r.held
  BY <1>2, <1>4 DEF HeldOK, Wanted, Towards, TeamsOf
<1>12. TeamLock(r.slot[1]) \in ChannelLocks BY <1>6, SlotLocks DEF ChannelLocks
<1>13. \A x : RunningOn(x)' => RunningOn(x) BY <1>8, <1>10 DEF RunningOn
<1>14. \A s \in Slots : s # r.slot => ActiveFor(s)' \subseteq ActiveFor(s)
  BY <1>8, <1>10 DEF ActiveFor
<1>15. ASSUME NEW f \in Editors, f # e PROVE Spares(op[f])
  <2>1. TeamLock(r.slot[1]) \notin op[f].held
    BY <1>1, <1>11, <1>15 DEF RequestsInv, LocksExclusive
  <2>2. \A s \in Slots : TeamLock(s[1]) \in op[f].held => ActiveFor(s)' \subseteq ActiveFor(s)
    BY <1>14, <2>1
  <2>3. ~(ChannelLocks \subseteq op[f].held) BY <1>12, <2>1
  <2> QED BY <1>4, <2>2, <2>3 DEF Spares
<1>16. StoresOK' BY <1>4, <1>9 DEF StoresOK, RequestsInv, AgentsTypeOK, Valid, Exists, Declared
<1>17. PICK q \in RequestType : q = NoRequest /\ q.held = {} BY NoRequestOK
<1>18. op' = [op EXCEPT ![e] = q] BY <1>4, <1>17 DEF Finish, Go
<1>19. Assured(q)'
  BY <1>17, NoRequestAssured DEF Assured, FormOK, ReadOK, HeldOK, MoveOK, RoutinesOK, ArchiveOK
<1> QED BY <1>13, <1>15, <1>16, <1>17, <1>18, <1>19, RequestKeeps

(* What a job does is out of the way of every request. *)
LEMMA JobStep ==
    ASSUME RequestsInv, op' = op, StoresOK', \A f \in Editors : Spares(op[f]),
           \A f \in Editors, mem \in Slots \cup Channels :
              MemoryLock(mem) \in op[f].held => ~RunningOn(mem)'
    PROVE  RequestsInv'
<1>1. ASSUME NEW f \in Editors PROVE Assured(op[f])'
  <2>1. PICK o \in RequestType : o = op[f] /\ Assured(o) BY KnownRequest
  <2>2. Spares(o) BY <2>1
  <2>3. Assured(o)' BY <2>1, <2>2, AssuredStays DEF RequestsInv
  <2>4. o = op'[f] BY <2>1
  <2> QED BY <2>3, <2>4 DEF Assured, FormOK, ReadOK, HeldOK, MoveOK, RoutinesOK, ArchiveOK
<1>2. \A f \in Editors : ReadOK(op[f])' BY <1>1 DEF Assured
<1>3. AgentsTypeOK' BY <1>2 DEF RequestsInv, AgentsTypeOK, StoresOK, ReadOK
<1>4. LocksExclusive' BY DEF RequestsInv, LocksExclusive
<1> QED BY <1>1, <1>3, <1>4 DEF RequestsInv

(* A job runs only while nobody has locked its memory. *)
LEMMA JobActions == ASSUME RequestsInv, NEW j \in Jobs, JobStarts(j) \/ JobEnds(j) PROVE RequestsInv'
<1>1. /\ jobs \in [Jobs -> Job \cup {NoJob}] /\ memory \in [Slots \cup Channels -> File]
      /\ op \in [Editors -> RequestType]
  BY DEF RequestsInv, AgentsTypeOK
<1>2. jobs[j] # NoJob /\ UNCHANGED <<config, files, spaces, op, begun, deaths>>
  BY DEF JobStarts, JobEnds
<1>3. PICK job \in Job : job = jobs[j] BY <1>1, <1>2
<1>4. PICK mem \in Slots \cup Channels \cup {RunMemory} : mem = job.memory BY DEF Job
<1>5. ASSUME mem # RunMemory
      PROVE  mem \in Slots \cup Channels
  BY <1>5
<1>6. CASE JobStarts(j)
  <2>1. /\ mem # RunMemory => Free(MemoryLock(mem))
        /\ jobs' = [jobs EXCEPT ![j].running = TRUE]
        /\ memory' = IF mem = RunMemory THEN memory ELSE [memory EXCEPT ![mem] = Shown(mem)]
    BY <1>3, <1>4, <1>6 DEF JobStarts
  <2>14. PICK b \in BOOLEAN : b = TRUE OBVIOUS
  <2>15. PICK new : new = [job EXCEPT !.running = b] OBVIOUS
  <2>16. new = [job EXCEPT !.running = TRUE] BY <2>14, <2>15
  <2>2. new \in Job /\ new.slot = job.slot /\ new.memory = mem BY <1>4, <2>15 DEF Job
  <2>3. jobs' = [jobs EXCEPT ![j] = new] BY <1>1, <1>3, <2>1, <2>16
  <2>4. /\ jobs' \in [Jobs -> Job \cup {NoJob}]
        /\ \A i \in Jobs : jobs'[i] = IF i = j THEN new ELSE jobs[i]
    BY <1>1, <2>2, <2>3
  <2>5. mem # RunMemory => Shown(mem) \in File
    BY <1>1, AgentConstants DEF Shown, File
  <2>6. /\ memory' \in [Slots \cup Channels -> File]
        /\ \A s \in Slots : s # mem => memory'[s] = memory[s]
    BY <1>1, <2>1, <2>5
  <2>7. /\ \A s : ActiveFor(s)' \subseteq ActiveFor(s)
        /\ \A x : ActiveOn(x)' \subseteq ActiveOn(x)
    BY <1>2, <1>3, <1>4, <2>2, <2>4 DEF ActiveFor, ActiveOn
  <2>9. mem \in Slots \cup Channels => mem # RunMemory BY AgentConstants
  <2>8. \A f \in Editors : mem \in Slots \cup Channels => MemoryLock(mem) \notin op[f].held
    <3>1. CASE mem = RunMemory BY <2>9, <3>1
    <3>2. CASE Free(MemoryLock(mem)) BY <3>2 DEF Free
    <3> QED BY <2>1, <3>1, <3>2
  <2>10. \A f \in Editors : Spares(op[f])
    BY <1>2, <2>6, <2>7, <2>8 DEF Spares
  <2>11. \A x \in Slots \cup Channels : RunningOn(x)' => RunningOn(x) \/ x = mem
    BY <2>2, <2>4 DEF RunningOn
  <2>12. StoresOK'
    BY <1>2, <2>4, <2>6 DEF StoresOK, RequestsInv, AgentsTypeOK, Valid, Exists, Declared
  <2>13. \A f \in Editors, x \in Slots \cup Channels :
           MemoryLock(x) \in op[f].held => ~RunningOn(x)'
    BY <2>8, <2>11 DEF RequestsInv, LocksExclusive
  <2> QED BY <1>2, <2>10, <2>12, <2>13, JobStep
<1>7. CASE JobEnds(j)
  <2>1. /\ jobs' = [jobs EXCEPT ![j] = NoJob]
        /\ \/ memory' = memory
           \/ /\ job.running /\ mem # RunMemory
              /\ \E c \in Contents : memory' = [memory EXCEPT ![mem] = c]
    BY <1>3, <1>4, <1>7 DEF JobEnds
  <2>2. /\ jobs' \in [Jobs -> Job \cup {NoJob}]
        /\ \A i \in Jobs : jobs'[i] = IF i = j THEN NoJob ELSE jobs[i]
    BY <1>1, <2>1
  <2>3. /\ memory' \in [Slots \cup Channels -> File]
        /\ \A s \in Slots : s # mem \/ ~job.running => memory'[s] = memory[s]
    BY <1>1, <2>1 DEF File
  <2>4. /\ \A s : ActiveFor(s)' \subseteq ActiveFor(s)
        /\ \A x : ActiveOn(x)' \subseteq ActiveOn(x)
        /\ \A x : RunningOn(x)' => RunningOn(x)
    BY <2>2 DEF ActiveFor, ActiveOn, RunningOn
  <2>5. job.running => RunningOn(mem) BY <1>2, <1>3, <1>4 DEF RunningOn
  <2>6. \A f \in Editors : \A s \in Slots : MemoryLock(s) \in op[f].held =>
          memory'[s] = memory[s]
    BY <2>3, <2>5 DEF RequestsInv, LocksExclusive
  <2>7. \A f \in Editors : Spares(op[f]) BY <1>2, <2>4, <2>6 DEF Spares
  <2>8. StoresOK'
    BY <1>2, <2>2, <2>3 DEF StoresOK, RequestsInv, AgentsTypeOK, Valid, Exists, Declared
  <2>9. \A f \in Editors, x \in Slots \cup Channels :
           MemoryLock(x) \in op[f].held => ~RunningOn(x)'
    BY <2>4 DEF RequestsInv, LocksExclusive
  <2> QED BY <1>2, <2>7, <2>8, <2>9, JobStep
<1> QED BY <1>6, <1>7

-----------------------------------------------------------------------------
(* Nothing is locked when the system starts. *)
LEMMA RequestsInvInit == ASSUME AgentsInit PROVE RequestsInv
<1>1. PICK s \in InitialStates :
        /\ config = s.config /\ files = s.files /\ memory = s.memory
        /\ spaces = {x \in Slots : \E p \in Prompts : s.files[<<x, p>>] # Missing}
  BY DEF AgentsInit
<1>2. config \in Config /\ Valid(config) BY <1>1, AgentConstants, InitialAgents
<1>3. files \in [Slots \X Prompts -> File] /\ memory \in [Slots \cup Channels -> File]
  BY <1>1, AgentConstants DEF File
<1>4. spaces \subseteq Slots BY <1>1
<1>5. op \in [Editors -> RequestType] /\ \A e \in Editors : op[e] = NoRequest
  BY NoRequestOK DEF AgentsInit
<1>6. \A e \in Editors : op[e].pc = "idle" /\ op[e].held = {} BY <1>5, NoRequestOK
<1>7. jobs \in [Jobs -> Job \cup {NoJob}] /\ begun \in 0..MaxOps /\ deaths \in 0..MaxDeaths
  BY AgentConstants DEF AgentsInit
<1>8. AgentsTypeOK BY <1>2, <1>3, <1>4, <1>5, <1>6, <1>7 DEF AgentsTypeOK
<1>9. LocksExclusive BY <1>6 DEF LocksExclusive
<1> QED BY <1>5, <1>8, <1>9, NoRequestOK DEF RequestsInv

(* Every step keeps what is known of the requests. *)
LEMMA RequestsInvStep == ASSUME RequestsInv, [AgentsNext]_agentsVars PROVE RequestsInv'
<1>1. CASE UNCHANGED agentsVars
  <2>1. op' = op /\ UNCHANGED <<config, files, spaces, memory, jobs, begun, deaths>>
    BY <1>1 DEF agentsVars
  <2>2. \A f \in Editors : Spares(op[f]) BY <2>1 DEF Spares, ActiveFor, ActiveOn
  <2>3. StoresOK' BY <2>1 DEF StoresOK, RequestsInv, AgentsTypeOK, Valid, Exists, Declared
  <2>4. \A f \in Editors, mem \in Slots \cup Channels :
           MemoryLock(mem) \in op[f].held => ~RunningOn(mem)'
    BY <2>1 DEF RequestsInv, LocksExclusive, RunningOn
  <2> QED BY <2>1, <2>2, <2>3, <2>4, JobStep
<1>2. ASSUME NEW e \in Editors, Request(e) PROVE RequestsInv'
  BY <1>2, OpenFormStep, AcquireStep, QuietActions, StartActions, MoveLocks, EditActions,
     ConfigWriters, ConfigWritersGoOn, StoreWriters, StoreWritersGoOn, MovePrepared, JobCreated
  DEF Request
<1>3. ASSUME NEW j \in Jobs, JobStarts(j) \/ JobEnds(j) PROVE RequestsInv' BY <1>3, JobActions
<1> QED BY <1>1, <1>2, <1>3 DEF AgentsNext

(* The inductive invariant of the requests and their locks holds in every state. *)
THEOREM RequestsInvariance == AgentsSpec => []RequestsInv
<1>1. AgentsInit => RequestsInv BY RequestsInvInit
<1>2. RequestsInv /\ [AgentsNext]_agentsVars => RequestsInv' BY RequestsInvStep
<1> QED BY <1>1, <1>2, PTL DEF AgentsSpec

(* Every variable has its type and every configuration that is stored is valid,
   also when requests are made from old pages. *)
THEOREM AgentsTyped == AgentsSpec => []AgentsTypeOK
<1>1. RequestsInv => AgentsTypeOK BY DEF RequestsInv
<1> QED BY <1>1, RequestsInvariance, PTL

-----------------------------------------------------------------------------
(* The prompts of an agent, where every request reads the configuration of its
   page. *)

(* A request that neither writes the configuration nor a file and claims nothing
   new. *)
LEMMA CalmStep ==
    ASSUME PromptsSound, op \in [Editors -> RequestType], NEW e \in Editors, NEW r,
           op' = [op EXCEPT ![e] = r], UNCHANGED <<config, files, spaces>>, FreshOK(r),
           \A s \in Slots, p \in Prompts : Claims(r, s, p) => Claims(op[e], s, p)
    PROVE  PromptsSound'
<1>1. ClaimsInv'
  <2>1. \A s \in Slots, p \in Prompts : ~(Claims(r, s, p) /\ HasPrompt(config', s, p))
    BY DEF PromptsSound, ClaimsInv
  <2>2. \A s \in Slots, p \in Prompts : Claims(r, s, p) \/ HasPrompt(config', s, p) =>
             /\ \/ Claims(op[e], s, p) \/ HasPrompt(config, s, p)
                \/ \A f \in Editors : ~Claims(op[f], s, p)
             /\ files'[<<s, p>>] # Missing /\ s \in spaces'
    BY DEF PromptsSound, ClaimsInv
  <2> QED BY <2>1, <2>2, ClaimsStep DEF PromptsSound
<1>2. UsesInv' BY DEF PromptsSound, UsesInv, Exists, Registered
<1>3. \A f \in Editors : FreshOK(op'[f]) BY DEF PromptsSound
<1> QED BY <1>1, <1>2, <1>3 DEF PromptsSound, FreshOK, Exists, Registered, Entered

(* A request that has no prompt in its hands. *)
Plain(o) ==
    \/ o.pc = "open"
    \/ /\ o.pc # "replace" /\ o.kind \notin {"remove_agent", "delete_prompt", "create_prompt"}
       /\ o.kind = "move" => o.pc \notin {"commit", "cleanup"}
       /\ o.pc = "locking" => o.then \notin {"commit", "cleanup"}

(* Such a request has read nothing to rely on and claims no file. *)
LEMMA PlainRequest ==
    ASSUME NEW o, Plain(o) PROVE FreshOK(o) /\ \A s, p : ~Claims(o, s, p)
BY DEF Plain, FreshOK, Claims, Towards

(* A step to such a request leaves the prompts in order. *)
LEMMA PlainStep ==
    ASSUME PromptsSound, op \in [Editors -> RequestType], NEW e \in Editors, NEW r,
           op' = [op EXCEPT ![e] = r], UNCHANGED <<config, files, spaces>>, Plain(r)
    PROVE  PromptsSound'
BY PlainRequest, CalmStep

(* So does a request that ends and has written nothing. *)
LEMMA CalmFinish ==
    ASSUME PromptsSound, op \in [Editors -> RequestType], NEW e \in Editors, Finish(e),
           UNCHANGED <<config, files, spaces>>
    PROVE  PromptsSound'
<1>1. PICK r : r = NoRequest OBVIOUS
<1>2. FreshOK(r) /\ \A s, p : ~Claims(r, s, p) BY <1>1, NoRequestOK
<1>3. op' = [op EXCEPT ![e] = r] BY <1>1 DEF Finish, Go
<1> QED BY <1>2, <1>3, CalmStep

(* Asking for locks, as far as prompts are concerned. *)
LEMMA LockingShape ==
    ASSUME NEW r, NEW x \in RequestType, r = x, NEW locks, NEW step, step # "locking",
           NEW q, q = Locking(r, locks, step)
    PROVE  /\ SameButPhase(q, r) /\ q.then = step /\ Towards(q) = step
           /\ q.pc \in {step, "locking"}
<1>1. PICK pc : pc = (IF locks = {} THEN step ELSE "locking") OBVIOUS
<1>2. q = [r EXCEPT !.pc = pc, !.needs = locks, !.then = step] BY <1>1 DEF Locking
<1>3. SameButPhase(q, r) BY <1>2 DEF SameButPhase, RequestType
<1>4. q.pc = pc /\ q.then = step BY <1>2 DEF RequestType
<1> QED BY <1>1, <1>3, <1>4 DEF Towards

(* The steps that have no prompt in their hands. *)
LEMMA PlainActions ==
    ASSUME AgentsInv, NEW e \in Editors,
           \/ OpenForm(e) \/ Refuse(e) \/ Dies(e) \/ StartCreateAgent(e) \/ StartMove(e)
           \/ NamespaceTransaction(e) \/ ReloadMove(e) \/ StageMemory(e) \/ EnterRoutines(e)
           \/ StartChannelDelete(e) \/ CheckChannel(e) \/ ArchiveChannel(e) \/ DropRefused(e)
           \/ RestoreArchive(e) \/ ResolveContent(e) \/ ResolveChannelContent(e)
           \/ SaveContent(e) \/ StartSubmit(e) \/ LoadForJob(e) \/ CreateJob(e)
    PROVE  PromptsSound'
<1>1. PICK r \in RequestType : r = op[e] /\ Assured(r) BY KnownRequest DEF AgentsInv
<1>2. PromptsSound /\ RequestsInv /\ op \in [Editors -> RequestType]
  BY DEF AgentsInv, RequestsInv, AgentsTypeOK
<1>3. CASE OpenForm(e)
  <2>1. PICK q : op' = [op EXCEPT ![e] = q] /\ q.pc = "open"
    BY <1>2, <1>3, OpenFormFacts DEF Opened
  <2> QED BY <1>2, <1>3, <2>1, OpenFormKeeps, PlainStep DEF Plain
<1>4. CASE Refuse(e) \/ Dies(e) \/ RestoreArchive(e) \/ SaveContent(e) \/ CreateJob(e)
  BY <1>2, <1>4, CalmFinish DEF Refuse, Dies, RestoreArchive, SaveContent, CreateJob
(* Locks are asked for. *)
<1>5. ASSUME NEW x \in RequestType, NEW locks, NEW step, Go(e, Locking(x, locks, step)),
             step \in {"create", "namespaces", "reload", "stage", "check", "load"},
             x.kind \notin {"remove_agent", "delete_prompt", "create_prompt"},
             UNCHANGED <<config, files, spaces>>
      PROVE  PromptsSound'
  <2>1. PICK q : q = Locking(x, locks, step) OBVIOUS
  <2>2. SameButPhase(q, x) /\ q.then = step /\ q.pc \in {step, "locking"}
    BY <1>5, <2>1, LockingShape
  <2>3. Plain(q) BY <1>5, <2>2 DEF Plain, SameButPhase
  <2>4. op' = [op EXCEPT ![e] = q] BY <1>5, <2>1 DEF Go
  <2> QED BY <1>2, <1>5, <2>3, <2>4, PlainStep
<1>6. CASE StartCreateAgent(e) \/ NamespaceTransaction(e) \/ StartChannelDelete(e)
  <2>1. \/ \E locks : Go(e, Locking(r, locks, "create"))
        \/ \E locks : Go(e, Locking(r, locks, "reload"))
        \/ \E locks : Go(e, Locking(r, locks, "check"))
    <3>1. CASE StartCreateAgent(e) BY <1>1, <3>1 DEF StartCreateAgent
    <3>2. CASE NamespaceTransaction(e) BY <1>1, <3>2 DEF NamespaceTransaction
    <3>3. CASE StartChannelDelete(e) BY <1>1, <3>3 DEF StartChannelDelete
    <3> QED BY <1>6, <3>1, <3>2, <3>3
  <2>2. r.kind \notin {"remove_agent", "delete_prompt", "create_prompt"}
    BY <1>1, <1>6 DEF StartCreateAgent, NamespaceTransaction, StartChannelDelete, At
  <2>3. UNCHANGED <<config, files, spaces>>
    BY <1>6 DEF StartCreateAgent, NamespaceTransaction, StartChannelDelete
  <2> QED BY <1>5, <2>1, <2>2, <2>3
<1>7. CASE ReloadMove(e)
  <2>1. r.kind = "move" /\ UNCHANGED <<config, files, spaces>> BY <1>1, <1>7 DEF ReloadMove, At
  <2>2. \/ Finish(e)
        \/ \E locks : Go(e, Locking(r, locks, "stage"))
    BY <1>1, <1>7 DEF ReloadMove
  <2> QED BY <1>2, <1>5, <2>1, <2>2, CalmFinish
<1>8. CASE StartMove(e)
  <2>1. r.kind = "move" /\ r.pc = "open" /\ Previewed(e) /\ UNCHANGED <<config, files, spaces>>
    BY <1>1, <1>8 DEF StartMove, At
  <2>2. r.slot \in Slots /\ r.to \in Slots
    BY <1>1, <2>1 DEF Assured, FormOK, SlotKinds, Kinds
  <2>3. PICK entries \in [Prompts -> File] : entries = Entries(config, r.slot)
    BY <1>1, <1>2, <2>1, <2>2, EntriesOf DEF Previewed
  <2>4. PICK rev \in File : rev = memory[r.slot]
    BY <1>2, <2>2 DEF RequestsInv, AgentsTypeOK
  <2>5. PICK x : x = [r EXCEPT !.entries = entries, !.revision = rev] OBVIOUS
  <2>6. x \in RequestType /\ x.kind = r.kind BY <2>5 DEF RequestType
  <2>7. PICK locks : Go(e, Locking(x, locks, "namespaces"))
    BY <1>1, <1>8, <2>3, <2>4, <2>5 DEF StartMove
  <2> HIDE <2>5
  <2> QED BY <1>5, <2>1, <2>6, <2>7
<1>9. CASE StartSubmit(e)
  <2>1. r.kind = "submit" /\ UNCHANGED <<config, files, spaces>>
    BY <1>1, <1>9 DEF StartSubmit, At
  <2>2. PICK c \in Config : c = config BY <1>2 DEF RequestsInv, AgentsTypeOK
  <2>3. PICK x : x = [r EXCEPT !.seen = c] OBVIOUS
  <2>4. x \in RequestType /\ x.kind = r.kind BY <2>3 DEF RequestType
  <2>5. PICK locks : Go(e, Locking(x, locks, "load"))
    BY <1>1, <1>9, <2>2, <2>3 DEF StartSubmit
  <2> HIDE <2>3
  <2> QED BY <1>5, <2>1, <2>4, <2>5
(* The request goes on without asking for locks. *)
<1>10. ASSUME NEW step \in {"copy", "archive", "save", "resolve"}, Step(e, step),
              r.kind \notin {"remove_agent", "delete_prompt", "create_prompt"},
              UNCHANGED <<config, files, spaces>>
       PROVE  PromptsSound'
  <2>1. PICK s \in RequestSteps : s = step BY <1>10 DEF RequestSteps
  <2>2. PICK q : q = [r EXCEPT !.pc = s] OBVIOUS
  <2>3. SameButPhase(q, r) /\ q.pc = s BY <2>2, StepFacts
  <2>4. Plain(q) BY <1>10, <2>1, <2>3 DEF Plain, SameButPhase
  <2>5. op' = [op EXCEPT ![e] = q] BY <1>1, <1>10, <2>1, <2>2 DEF Step, Go
  <2> QED BY <1>2, <1>10, <2>4, <2>5, PlainStep
<1>11. CASE StageMemory(e)
  <2>1. r.kind = "move" /\ UNCHANGED <<config, files, spaces>> /\ (Finish(e) \/ Step(e, "copy"))
    BY <1>1, <1>11 DEF StageMemory, At
  <2> QED BY <1>2, <1>10, <2>1, CalmFinish
<1>12. CASE CheckChannel(e) \/ ResolveContent(e) \/ ResolveChannelContent(e) \/ LoadForJob(e)
  <2>1. PICK step \in {"archive", "save", "resolve"} : Step(e, step)
    BY <1>12 DEF CheckChannel, ResolveContent, ResolveChannelContent, LoadForJob
  <2>2. /\ r.kind \notin {"remove_agent", "delete_prompt", "create_prompt"}
        /\ UNCHANGED <<config, files, spaces>>
    BY <1>1, <1>12 DEF CheckChannel, ResolveContent, ResolveChannelContent, LoadForJob, At
  <2> QED BY <1>10, <2>1, <2>2
<1>13. CASE EnterRoutines(e) \/ ArchiveChannel(e) \/ DropRefused(e)
  <2>1. /\ r.kind \in {"routines", "channel_delete"} /\ UNCHANGED <<config, files, spaces>>
    BY <1>1, <1>13 DEF EnterRoutines, ArchiveChannel, DropRefused, At
  <2>2. \/ op' = [op EXCEPT ![e] = [r EXCEPT !.pc = "routines", !.held = {ConfigLock}]]
        \/ op' = [op EXCEPT ![e] = [r EXCEPT !.pc = "drop",
                                             !.held = @ \cup {MemoryLock(r.channel)},
                                             !.archive = memory[r.channel]]]
        \/ op' = [op EXCEPT ![e] = [r EXCEPT !.pc = "undo",
                                             !.held = @ \ {MemoryLock(r.channel)}]]
    BY <1>1, <1>13 DEF EnterRoutines, ArchiveChannel, DropRefused, Go
  <2>3. ASSUME NEW q, op' = [op EXCEPT ![e] = q], q.kind = r.kind,
               q.pc \in {"routines", "drop", "undo"}
        PROVE  PromptsSound'
    <3>1. Plain(q) BY <2>1, <2>3 DEF Plain
    <3> QED BY <1>2, <2>1, <2>3, <3>1, PlainStep
  <2>4. CASE op' = [op EXCEPT ![e] = [r EXCEPT !.pc = "routines", !.held = {ConfigLock}]]
    <3>1. PICK q : q = [r EXCEPT !.pc = "routines", !.held = {ConfigLock}] OBVIOUS
    <3>2. q.kind = r.kind /\ q.pc = "routines" BY <3>1 DEF RequestType
    <3> QED BY <2>3, <2>4, <3>1, <3>2
  <2>5. CASE op' = [op EXCEPT ![e] = [r EXCEPT !.pc = "drop",
                                               !.held = @ \cup {MemoryLock(r.channel)},
                                               !.archive = memory[r.channel]]]
    <3>1. PICK q : q = [r EXCEPT !.pc = "drop", !.held = @ \cup {MemoryLock(r.channel)},
                                 !.archive = memory[r.channel]]
      OBVIOUS
    <3>2. q.kind = r.kind /\ q.pc = "drop" BY <3>1 DEF RequestType
    <3> QED BY <2>3, <2>5, <3>1, <3>2
  <2>6. CASE op' = [op EXCEPT ![e] = [r EXCEPT !.pc = "undo",
                                               !.held = @ \ {MemoryLock(r.channel)}]]
    <3>1. PICK q : q = [r EXCEPT !.pc = "undo", !.held = @ \ {MemoryLock(r.channel)}] OBVIOUS
    <3>2. q.kind = r.kind /\ q.pc = "undo" BY <3>1 DEF RequestType
    <3> QED BY <2>3, <2>6, <3>1, <3>2
  <2> QED BY <2>2, <2>4, <2>5, <2>6
<1> QED BY <1>3, <1>4, <1>6, <1>7, <1>8, <1>9, <1>11, <1>12, <1>13

(* What a request has read stays read. *)
LEMMA CarriedOn ==
    ASSUME NEW q, NEW r, SameButPhase(q, r), FreshOK(r), r.pc # "open", q.pc # "replace"
    PROVE  FreshOK(q)
BY DEF SameButPhase, FreshOK

(* The steps that read what they will change: from the configuration of their
   page, since the forms are fresh. *)
LEMMA CalmActions ==
    ASSUME AgentsInv, FreshForms, NEW e \in Editors,
           \/ Acquire(e) \/ StartRemove(e) \/ RegisterFails(e) \/ StartDelete(e) \/ EditLoaded(e)
    PROVE  PromptsSound'
<1>1. PICK r \in RequestType : r = op[e] /\ Assured(r) BY KnownRequest DEF AgentsInv
<1>2. PromptsSound /\ RequestsInv /\ op \in [Editors -> RequestType]
  BY DEF AgentsInv, RequestsInv, AgentsTypeOK
<1>3. FreshOK(r) BY <1>1 DEF AgentsInv, PromptsSound
<1>4. FormOK(r) /\ ReadOK(r) BY <1>1 DEF Assured
<1>5. CASE Acquire(e)
  <2>1. r.pc = "locking" /\ UNCHANGED <<config, files, spaces>> BY <1>1, <1>5 DEF Acquire
  <2>2. <<r.kind, r.then>> \in Lockings BY <1>4, <2>1 DEF ReadOK
  <2>3. PICK q \in RequestType :
          /\ op' = [op EXCEPT ![e] = q] /\ q.then = r.then
          /\ q.pc \in {r.then, "locking"}
          /\ q.kind = r.kind /\ q.slot = r.slot /\ q.page = r.page /\ q.entries = r.entries
    BY <1>1, <1>2, <1>5, AcquireFacts
  <2>4. Towards(q) = r.then /\ Towards(r) = r.then BY <2>1, <2>3 DEF Towards
  <2>5. r.kind \notin {"create_prompt", "delete_prompt"}
        /\ r.then \notin {"replace", "commit", "cleanup"}
    BY <2>2 DEF Lockings
  <2>6. FreshOK(q) BY <1>3, <2>1, <2>3, <2>5 DEF FreshOK
  <2>7. \A s, p : Claims(q, s, p) => Claims(r, s, p) BY <2>3, <2>4, <2>5 DEF Claims
  <2> QED BY <1>1, <1>2, <2>1, <2>3, <2>6, <2>7, CalmStep
<1>6. CASE StartRemove(e)
  <2>1. /\ r.kind = "remove_agent" /\ r.pc = "open" /\ Exists(config, r.slot)
        /\ Readable(config, r.slot) /\ config = r.page /\ UNCHANGED <<config, files, spaces>>
    BY <1>1, <1>6 DEF StartRemove, At, Fresh
  <2>2. r.slot \in Slots BY <1>4, <2>1 DEF FormOK, SlotKinds, Kinds
  <2>3. PICK entries \in [Prompts -> File] :
          entries = Entries(config, r.slot) /\ Entered(entries) = Registered(config, r.slot)
    BY <1>2, <2>1, <2>2, EntriesOf
  <2>4. PICK x : x = [r EXCEPT !.entries = entries] OBVIOUS
  <2>5. /\ x \in RequestType /\ x.kind = r.kind /\ x.slot = r.slot /\ x.page = r.page
        /\ x.entries = entries
    BY <2>4 DEF RequestType
  <2>6. PICK locks : Go(e, Locking(x, locks, "remove"))
    BY <1>1, <1>6, <2>3, <2>4 DEF StartRemove
  <2>7. PICK q : q = Locking(x, locks, "remove") OBVIOUS
  <2>8. SameButPhase(q, x) /\ Towards(q) = "remove" /\ q.pc \in {"remove", "locking"}
    BY <2>5, <2>7, LockingShape
  <2>9. /\ q.kind = "remove_agent" /\ q.slot = r.slot /\ q.page = r.page
        /\ q.entries = entries
    BY <2>1, <2>5, <2>8 DEF SameButPhase
  <2>10. FreshOK(q) BY <2>1, <2>3, <2>8, <2>9 DEF FreshOK
  <2>11. \A s, p : ~Claims(q, s, p) BY <2>8, <2>9 DEF Claims
  <2>12. op' = [op EXCEPT ![e] = q] BY <2>6, <2>7 DEF Go
  <2> QED BY <1>2, <2>1, <2>10, <2>11, <2>12, CalmStep
<1>7. CASE RegisterFails(e) \/ StartDelete(e)
  <2>1. PICK step \in {"undo", "unregister"} :
          /\ Step(e, step) /\ UNCHANGED <<config, files, spaces>>
          /\ \/ r.kind = "create_prompt" /\ r.pc = "register" /\ step = "undo"
             \/ /\ r.kind = "delete_prompt" /\ r.pc = "open" /\ step = "unregister"
                /\ Deletable(e) /\ config = r.page
    BY <1>1, <1>7 DEF RegisterFails, StartDelete, At, Fresh
  <2>2. PICK s \in RequestSteps : s = step BY <2>1 DEF RequestSteps
  <2>3. PICK q : q = [r EXCEPT !.pc = s] OBVIOUS
  <2>4. SameButPhase(q, r) /\ q.pc = s BY <2>3, StepFacts
  <2>5. /\ q.kind = r.kind /\ q.slot = r.slot /\ q.page = r.page /\ q.prompt = r.prompt
    BY <2>4 DEF SameButPhase
  <2>6. FreshOK(q) BY <1>1, <2>1, <2>2, <2>4, <2>5 DEF FreshOK, Deletable
  <2>7. \A x, p : Claims(q, x, p) => Claims(r, x, p)
    BY <2>1, <2>2, <2>4, <2>5 DEF Claims
  <2>8. op' = [op EXCEPT ![e] = q] BY <1>1, <2>1, <2>2, <2>3 DEF Step, Go
  <2> QED BY <1>1, <1>2, <2>1, <2>6, <2>7, <2>8, CalmStep
<1>8. CASE EditLoaded(e)
  <2>1. /\ r.kind \in {"selector", "channel_create", "channel_rekey"} /\ r.pc = "open"
        /\ EditAcceptable(e) /\ Go(e, [r EXCEPT !.pc = "replace", !.seen = Edited(e)])
        /\ config = r.page /\ UNCHANGED <<config, files, spaces>>
    BY <1>1, <1>8 DEF EditLoaded, Fresh
  <2>2. PICK c \in Config :
           /\ c = Edited(e)
           /\ \A s \in Slots :
                /\ Exists(c, s) <=> Exists(config, s)
                /\ Exists(config, s) => /\ c.agents[s].prompts = config.agents[s].prompts
                                        /\ c.agents[s].uses = config.agents[s].uses
    BY <1>1, <1>2, <2>1, EditedOK
  <2>3. PICK q : q = [r EXCEPT !.pc = "replace", !.seen = c] OBVIOUS
  <2>4. q.pc = "replace" /\ q.kind = r.kind /\ q.page = r.page /\ q.seen = c
    BY <2>3 DEF RequestType
  <2>5. FreshOK(q) BY <2>1, <2>2, <2>4 DEF FreshOK
  <2>6. \A s, p : ~Claims(q, s, p) BY <2>1, <2>4 DEF Claims
  <2>7. op' = [op EXCEPT ![e] = q] BY <2>1, <2>2, <2>3 DEF Go
  <2> HIDE <2>3
  <2> QED BY <1>2, <2>1, <2>5, <2>6, <2>7, CalmStep
<1> QED BY <1>5, <1>6, <1>7, <1>8

(* The configuration is written: what is registered or claimed afterwards was
   registered or claimed before. *)
LEMMA ConfigSound ==
    ASSUME PromptsSound, op \in [Editors -> RequestType], NEW e \in Editors, NEW r,
           op' = [op EXCEPT ![e] = r], UNCHANGED <<files, spaces>>, FreshOK(r),
           \A s \in Slots, p \in Prompts : Claims(r, s, p) \/ HasPrompt(config', s, p) =>
              Claims(op[e], s, p) \/ HasPrompt(config, s, p),
           \A s \in Slots, p \in Prompts : ~(Claims(r, s, p) /\ HasPrompt(config', s, p)),
           \A s \in Slots : Exists(config', s) =>
              config'.agents[s].uses \subseteq Registered(config', s)
    PROVE  PromptsSound'
<1>1. \A s \in Slots, p \in Prompts : Claims(r, s, p) \/ HasPrompt(config', s, p) =>
             /\ \/ Claims(op[e], s, p) \/ HasPrompt(config, s, p)
                \/ \A f \in Editors : ~Claims(op[f], s, p)
             /\ files'[<<s, p>>] # Missing /\ s \in spaces'
  BY DEF PromptsSound, ClaimsInv
<1>2. ClaimsInv' BY <1>1, ClaimsStep DEF PromptsSound
<1>3. UsesInv' BY DEF UsesInv, Exists, Registered
<1>4. \A f \in Editors : FreshOK(op'[f]) BY DEF PromptsSound
<1> QED BY <1>2, <1>3, <1>4 DEF PromptsSound, FreshOK, Exists, Registered, Entered

(* A request that ends leaves every agent its prompts, and lists no others than
   it had claimed. *)
LEMMA ConfigSoundFinish ==
    ASSUME PromptsSound, op \in [Editors -> RequestType], NEW e \in Editors, Finish(e),
           UNCHANGED <<files, spaces>>,
           \A s \in Slots, p \in Prompts : HasPrompt(config', s, p) =>
              Claims(op[e], s, p) \/ HasPrompt(config, s, p),
           \A s \in Slots : Exists(config', s) =>
              config'.agents[s].uses \subseteq Registered(config', s)
    PROVE  PromptsSound'
<1>1. PICK r : r = NoRequest OBVIOUS
<1>2. FreshOK(r) /\ \A s, p : ~Claims(r, s, p) BY <1>1, NoRequestOK
<1>3. op' = [op EXCEPT ![e] = r] BY <1>1 DEF Finish, Go
<1> QED BY <1>2, <1>3, ConfigSound

(* Prompts stay registered with their files when the configuration is written
   and the request ends. *)
LEMMA SoundConfigWriters ==
    ASSUME AgentsInv, NEW e \in Editors,
           \/ CreateAgent(e) \/ Register(e) \/ SaveRoutines(e) \/ SaveSection(e)
           \/ ReplaceConfig(e) \/ DropChannel(e)
    PROVE  PromptsSound'
<1>1. PICK r \in RequestType : r = op[e] /\ Assured(r) BY KnownRequest DEF AgentsInv
<1>2. /\ PromptsSound /\ RequestsInv /\ op \in [Editors -> RequestType] /\ config \in Config
      /\ UsesInv /\ FreshOK(r)
  BY <1>1 DEF AgentsInv, RequestsInv, AgentsTypeOK, PromptsSound
<1>3. FormOK(r) /\ ReadOK(r) BY <1>1 DEF Assured
<1>4. Finish(e) /\ UNCHANGED <<files, spaces>>
  BY DEF CreateAgent, Register, SaveRoutines, SaveSection, ReplaceConfig, DropChannel
(* One agent's entry changes. *)
<1>5. ASSUME NEW s \in Slots, NEW a \in Agent, config' = WithAgent(config, s, a),
             a.uses \subseteq a.prompts,
             \A p \in a.prompts : HasPrompt(config, s, p) \/ Claims(r, s, p)
      PROVE  PromptsSound'
  <2>1. PICK c : c = WithAgent(config, s, a) OBVIOUS
  <2>2. \A x \in Slots : c.agents[x] = IF x = s THEN a ELSE config.agents[x]
    BY <1>2, <2>1, EntryTypes
  <2>3. config' = c BY <1>5, <2>1
  <2>4. \A x \in Slots, p \in Prompts : HasPrompt(c, x, p) =>
             Claims(r, x, p) \/ HasPrompt(config, x, p)
    BY <1>5, <2>2 DEF HasPrompt, Exists, Registered
  <2>5. \A x \in Slots : Exists(c, x) => c.agents[x].uses \subseteq Registered(c, x)
    BY <1>2, <1>5, <2>2 DEF UsesInv, Exists, Registered
  <2> QED BY <1>1, <1>2, <1>4, <2>3, <2>4, <2>5, ConfigSoundFinish
(* The prompts and their uses stay. *)
<1>6. ASSUME NEW c, config' = c,
             \A s \in Slots :
                /\ Exists(c, s) => Exists(config, s)
                /\ Exists(c, s) => /\ c.agents[s].prompts = config.agents[s].prompts
                                   /\ c.agents[s].uses = config.agents[s].uses
      PROVE  PromptsSound'
  <2>1. \A s \in Slots, p \in Prompts : HasPrompt(c, s, p) => HasPrompt(config, s, p)
    BY <1>6 DEF HasPrompt, Registered
  <2>2. \A s \in Slots : Exists(c, s) => c.agents[s].uses \subseteq Registered(c, s)
    BY <1>2, <1>6 DEF UsesInv, Registered
  <2> QED BY <1>2, <1>4, <1>6, <2>1, <2>2, ConfigSoundFinish
<1>7. CASE CreateAgent(e)
  <2>1. r.kind = "create_agent" /\ config' = WithAgent(config, r.slot, NewAgent)
    BY <1>1, <1>7 DEF CreateAgent, At, Commit
  <2>2. r.slot \in Slots BY <1>3, <2>1 DEF FormOK, SlotKinds, Kinds
  <2>3. PICK a \in Agent : a = NewAgent BY DEF NewAgent, Agent
  <2>4. a.prompts = {} /\ a.uses = {} BY <2>3 DEF NewAgent
  <2> QED BY <1>5, <2>1, <2>2, <2>3, <2>4
<1>8. CASE Register(e)
  <2>1. /\ r.kind = "create_prompt" /\ r.pc = "register" /\ Exists(config, r.slot)
        /\ config' = WithAgent(config, r.slot, [config.agents[r.slot] EXCEPT
                                                  !.prompts = @ \cup {r.prompt}])
    BY <1>1, <1>8 DEF Register, At, Commit
  <2>2. r.slot \in Slots /\ r.prompt \in Prompts BY <1>3, <2>1 DEF FormOK, SlotKinds, Kinds
  <2>3. config.agents[r.slot] \in Agent BY <1>2, <2>1, <2>2 DEF Config, Exists
  <2>4. PICK a : a = [config.agents[r.slot] EXCEPT !.prompts = @ \cup {r.prompt}] OBVIOUS
  <2>5. /\ a \in Agent /\ a.prompts = config.agents[r.slot].prompts \cup {r.prompt}
        /\ a.uses = config.agents[r.slot].uses
    BY <2>2, <2>3, <2>4 DEF Agent
  <2>6. a.uses \subseteq a.prompts BY <1>2, <2>1, <2>2, <2>5 DEF UsesInv, Registered
  <2>7. \A p \in a.prompts : HasPrompt(config, r.slot, p) \/ Claims(r, r.slot, p)
    BY <2>1, <2>5 DEF HasPrompt, Registered, Claims
  <2>8. config' = WithAgent(config, r.slot, a) BY <2>1, <2>4
  <2> QED BY <1>5, <2>2, <2>5, <2>6, <2>7, <2>8
<1>9. CASE SaveRoutines(e)
  <2>1. /\ r.kind = "routines" /\ r.pc = "routines" /\ RoutinesAcceptable(e)
        /\ config' = WithAgent(config, r.slot, [config.agents[r.slot] EXCEPT !.uses = r.uses])
    BY <1>1, <1>9 DEF SaveRoutines, At
  <2>2. r.slot \in Slots BY <1>3, <2>1 DEF FormOK, SlotKinds, Kinds
  <2>3. Exists(config, r.slot) BY <1>1, <2>1 DEF Assured, RoutinesOK
  <2>4. config.agents[r.slot] \in Agent BY <1>2, <2>2, <2>3 DEF Config, Exists
  <2>5. PICK a : a = [config.agents[r.slot] EXCEPT !.uses = r.uses] OBVIOUS
  <2>6. a \in Agent /\ a.prompts = config.agents[r.slot].prompts /\ a.uses = r.uses
    BY <2>4, <2>5 DEF Agent, RequestType
  <2>7. a.uses \subseteq a.prompts BY <1>1, <2>1, <2>6 DEF RoutinesAcceptable, Registered
  <2>8. \A p \in a.prompts : HasPrompt(config, r.slot, p)
    BY <2>3, <2>6 DEF HasPrompt, Registered
  <2>9. config' = WithAgent(config, r.slot, a) BY <2>1, <2>5
  <2> QED BY <1>5, <2>2, <2>6, <2>7, <2>8, <2>9
<1>10. CASE SaveSection(e)
  <2>1. /\ r.kind = "section" /\ Exists(config, r.slot)
        /\ config' = WithAgent(config, r.slot, [config.agents[r.slot] EXCEPT !.section = ~@])
    BY <1>1, <1>10 DEF SaveSection, At, Commit
  <2>2. r.slot \in Slots BY <1>3, <2>1 DEF FormOK, SlotKinds, Kinds
  <2>3. config.agents[r.slot] \in Agent BY <1>2, <2>1, <2>2 DEF Config, Exists
  <2>4. PICK b \in BOOLEAN : b = ~config.agents[r.slot].section OBVIOUS
  <2>5. PICK a : a = [config.agents[r.slot] EXCEPT !.section = b] OBVIOUS
  <2>6. /\ a \in Agent /\ a.prompts = config.agents[r.slot].prompts
        /\ a.uses = config.agents[r.slot].uses
    BY <2>3, <2>5 DEF Agent
  <2>7. config' = WithAgent(config, r.slot, a) BY <2>1, <2>4, <2>5
  <2>8. a.uses \subseteq a.prompts BY <1>2, <2>1, <2>2, <2>6 DEF UsesInv, Registered
  <2>9. \A p \in a.prompts : HasPrompt(config, r.slot, p)
    BY <2>1, <2>6 DEF HasPrompt, Registered
  <2> QED BY <1>5, <2>2, <2>6, <2>7, <2>8, <2>9
<1>11. CASE ReplaceConfig(e)
  <2>1. r.pc = "replace" /\ config' = r.seen /\ config = r.page
    BY <1>1, <1>11 DEF ReplaceConfig, Commit
  <2>2. \A s \in Slots : /\ Exists(r.seen, s) <=> Exists(config, s)
                         /\ Exists(config, s) =>
                               /\ r.seen.agents[s].prompts = config.agents[s].prompts
                               /\ r.seen.agents[s].uses = config.agents[s].uses
    BY <1>2, <2>1 DEF FreshOK
  <2> QED BY <1>6, <2>1, <2>2
<1>12. CASE DropChannel(e)
  <2>1. config' = [config EXCEPT !.channels = @ \ {r.channel}]
    BY <1>1, <1>12 DEF DropChannel, Commit
  <2>2. PICK c : c = [config EXCEPT !.channels = @ \ {r.channel}] OBVIOUS
  <2>3. c.agents = config.agents BY <1>2, <2>2 DEF Config
  <2>4. config' = c BY <2>1, <2>2
  <2> QED BY <1>6, <2>3, <2>4 DEF Exists
<1> QED BY <1>7, <1>8, <1>9, <1>10, <1>11, <1>12

(* A prompt that is no longer registered is claimed by the request that will
   delete its file. *)
LEMMA SoundConfigWritersGoOn ==
    ASSUME AgentsInv, NEW e \in Editors, Unregister(e) \/ Remove(e) \/ MoveAgent(e)
    PROVE  PromptsSound'
<1>1. PICK r \in RequestType : r = op[e] /\ Assured(r) BY KnownRequest DEF AgentsInv
<1>2. /\ PromptsSound /\ RequestsInv /\ op \in [Editors -> RequestType] /\ config \in Config
      /\ UsesInv /\ FreshOK(r)
  BY <1>1 DEF AgentsInv, RequestsInv, AgentsTypeOK, PromptsSound
<1>3. FormOK(r) /\ ReadOK(r) BY <1>1 DEF Assured
<1>4. UNCHANGED <<files, spaces>> BY DEF Unregister, Remove, MoveAgent
<1>5. CASE Unregister(e)
  <2>1. /\ r.kind = "delete_prompt" /\ r.pc = "unregister" /\ Step(e, "unlink")
        /\ HasPrompt(config, r.slot, r.prompt) /\ config = r.page
        /\ config' = WithAgent(config, r.slot, [config.agents[r.slot] EXCEPT
                                                  !.prompts = @ \ {r.prompt}])
    BY <1>1, <1>5 DEF Unregister, At, Commit, HasPrompt
  <2>2. r.slot \in Slots BY <1>3, <2>1 DEF FormOK, SlotKinds, Kinds
  <2>3. config.agents[r.slot] \in Agent BY <1>2, <2>1, <2>2 DEF Config, Exists, HasPrompt
  <2>4. PICK a : a = [config.agents[r.slot] EXCEPT !.prompts = @ \ {r.prompt}] OBVIOUS
  <2>5. /\ a \in Agent /\ a.prompts = config.agents[r.slot].prompts \ {r.prompt}
        /\ a.uses = config.agents[r.slot].uses
    BY <2>3, <2>4 DEF Agent
  <2>6. r.prompt \notin config.agents[r.slot].uses BY <1>2, <2>1 DEF FreshOK
  <2>7. PICK c : c = WithAgent(config, r.slot, a) OBVIOUS
  <2>8. \A x \in Slots : c.agents[x] = IF x = r.slot THEN a ELSE config.agents[x]
    BY <1>2, <2>2, <2>5, <2>7, EntryTypes
  <2>9. config' = c BY <2>1, <2>4, <2>7
  <2>10. PICK step \in RequestSteps : step = "unlink" BY DEF RequestSteps
  <2>11. PICK q : q = [r EXCEPT !.pc = step] OBVIOUS
  <2>12. SameButPhase(q, r) /\ q.pc = "unlink" BY <2>10, <2>11, StepFacts
  <2>13. op' = [op EXCEPT ![e] = q] BY <1>1, <2>1, <2>10, <2>11 DEF Step, Go
  <2>14. FreshOK(q) BY <1>2, <2>1, <2>12, CarriedOn
  <2>15. \A s, p : Claims(q, s, p) <=> s = r.slot /\ p = r.prompt
    BY <2>1, <2>12 DEF Claims, SameButPhase, Towards
  <2>16. \A s \in Slots, p \in Prompts : HasPrompt(c, s, p) =>
            HasPrompt(config, s, p) /\ ~(s = r.slot /\ p = r.prompt)
    BY <2>1, <2>5, <2>8 DEF HasPrompt, Exists, Registered
  <2>17. \A s \in Slots : Exists(c, s) => c.agents[s].uses \subseteq Registered(c, s)
    BY <1>2, <2>1, <2>5, <2>6, <2>8 DEF UsesInv, Exists, Registered, HasPrompt
  <2> HIDE <2>11
  <2> QED BY <1>2, <1>4, <2>1, <2>9, <2>13, <2>14, <2>15, <2>16, <2>17, ConfigSound
<1>6. CASE Remove(e)
  <2>1. /\ r.kind = "remove_agent" /\ r.pc = "remove" /\ config = r.page
        /\ config' = WithAgent(config, r.slot, NoAgent)
        /\ \/ Finish(e)
           \/ Go(e, Locking([r EXCEPT !.held = {}], {SpaceLock(r.slot)}, "purge"))
    BY <1>1, <1>6 DEF Remove, At, Commit
  <2>2. r.slot \in Slots BY <1>3, <2>1 DEF FormOK, SlotKinds, Kinds
  <2>3. PICK c : c = WithAgent(config, r.slot, NoAgent) OBVIOUS
  <2>4. \A x \in Slots : c.agents[x] = IF x = r.slot THEN NoAgent ELSE config.agents[x]
    BY <1>2, <2>2, <2>3, EntryTypes
  <2>5. config' = c BY <2>1, <2>3
  <2>6. \A s \in Slots, p \in Prompts : HasPrompt(c, s, p) =>
            HasPrompt(config, s, p) /\ s # r.slot
    BY <2>4 DEF HasPrompt, Exists, Registered
  <2>7. \A s \in Slots : Exists(c, s) => c.agents[s].uses \subseteq Registered(c, s)
    BY <1>2, <2>4 DEF UsesInv, Exists, Registered
  <2>8. CASE Finish(e) BY <1>2, <1>4, <2>5, <2>6, <2>7, <2>8, ConfigSoundFinish
  <2>9. CASE Go(e, Locking([r EXCEPT !.held = {}], {SpaceLock(r.slot)}, "purge"))
    <3>1. PICK x : x = [r EXCEPT !.held = {}] OBVIOUS
    <3>2. /\ x \in RequestType /\ x.kind = r.kind /\ x.slot = r.slot /\ x.page = r.page
          /\ x.entries = r.entries
      BY <3>1 DEF RequestType
    <3>3. PICK q : q = Locking(x, {SpaceLock(r.slot)}, "purge") OBVIOUS
    <3>4. SameButPhase(q, x) /\ Towards(q) = "purge" /\ q.pc \in {"purge", "locking"}
      BY <3>2, <3>3, LockingShape
    <3>5. /\ q.kind = "remove_agent" /\ q.slot = r.slot /\ q.page = r.page
          /\ q.entries = r.entries
      BY <2>1, <3>2, <3>4 DEF SameButPhase
    <3>6. Exists(config, r.slot) /\ Entered(r.entries) = Registered(config, r.slot)
      BY <1>2, <2>1 DEF FreshOK
    <3>7. FreshOK(q) BY <2>1, <3>4, <3>5, <3>6 DEF FreshOK
    <3>8. \A s, p : Claims(q, s, p) <=> s = r.slot /\ p \in Entered(r.entries)
      BY <3>4, <3>5 DEF Claims
    <3>9. \A s, p : Claims(q, s, p) => HasPrompt(config, s, p) /\ s = r.slot
      BY <3>6, <3>8 DEF HasPrompt
    <3>10. op' = [op EXCEPT ![e] = q] BY <2>9, <3>1, <3>3 DEF Go
    <3> HIDE <3>1, <3>3
    <3> QED BY <1>2, <1>4, <2>5, <2>6, <2>7, <3>7, <3>9, <3>10, ConfigSound
  <2> QED BY <2>1, <2>8, <2>9
<1>7. CASE MoveAgent(e)
  <2>1. /\ r.kind = "move" /\ r.pc = "commit" /\ Step(e, "cleanup") /\ config = r.page
        /\ config' = WithAgent(WithAgent(config, r.to, config.agents[r.slot]), r.slot, NoAgent)
    BY <1>1, <1>7 DEF MoveAgent, At, Commit
  <2>2. r.slot \in Slots /\ r.to \in Slots /\ r.to # r.slot
    BY <1>3, <2>1 DEF FormOK, SlotKinds, Kinds
  <2>3. PICK a \in Agent \cup {NoAgent} : a = config.agents[r.slot]
    BY <1>2, <2>2 DEF Config
  <2>4. PICK b : b = WithAgent(config, r.to, a) OBVIOUS
  <2>5. b \in Config /\ \A x \in Slots : b.agents[x] = IF x = r.to THEN a ELSE config.agents[x]
    BY <1>2, <2>2, <2>4, EntryTypes
  <2>6. PICK c : c = WithAgent(b, r.slot, NoAgent) OBVIOUS
  <2>7. \A x \in Slots : c.agents[x] = IF x = r.slot THEN NoAgent ELSE b.agents[x]
    BY <2>2, <2>5, <2>6, EntryTypes
  <2>8. config' = c BY <2>1, <2>3, <2>4, <2>6
  <2>9. \A x \in Slots : c.agents[x] = IF x = r.slot THEN NoAgent
                                       ELSE IF x = r.to THEN a ELSE config.agents[x]
    BY <2>5, <2>7
  <2>10. Exists(config, r.slot) /\ Entered(r.entries) = Registered(config, r.slot)
    BY <1>3, <2>1 DEF ReadOK
  <2>11. PICK step \in RequestSteps : step = "cleanup" BY DEF RequestSteps
  <2>12. PICK q : q = [r EXCEPT !.pc = step] OBVIOUS
  <2>13. SameButPhase(q, r) /\ q.pc = "cleanup" BY <2>11, <2>12, StepFacts
  <2>14. op' = [op EXCEPT ![e] = q] BY <1>1, <2>1, <2>11, <2>12 DEF Step, Go
  <2>15. FreshOK(q) BY <1>2, <2>1, <2>13, CarriedOn
  <2>16. \A s, p : Claims(q, s, p) <=> s = r.slot /\ p \in Entered(r.entries)
    BY <2>1, <2>13 DEF Claims, SameButPhase, Towards
  <2>17. \A s, p : s = r.to /\ p \in Entered(r.entries) => Claims(r, s, p)
    BY <2>1 DEF Claims
  <2>18. \A s \in Slots, p \in Prompts : HasPrompt(c, s, p) =>
            s # r.slot /\ (HasPrompt(config, s, p) \/ Claims(r, s, p))
    BY <2>3, <2>9, <2>10, <2>17 DEF HasPrompt, Exists, Registered
  <2>19. \A s \in Slots, p \in Prompts : Claims(q, s, p) => HasPrompt(config, s, p)
    BY <2>10, <2>16 DEF HasPrompt
  <2>20. \A s \in Slots : Exists(c, s) => c.agents[s].uses \subseteq Registered(c, s)
    BY <1>2, <2>2, <2>3, <2>9 DEF UsesInv, Exists, Registered
  <2> HIDE <2>12
  <2> QED BY <1>1, <1>2, <1>4, <2>8, <2>14, <2>15, <2>16, <2>18, <2>19, <2>20, ConfigSound
<1> QED BY <1>5, <1>6, <1>7

(* Files are deleted or written: only a file that the request had claimed goes. *)
LEMMA FilesSound ==
    ASSUME PromptsSound, op \in [Editors -> RequestType], NEW e \in Editors, Finish(e),
           config' = config, spaces' = spaces,
           \A s \in Slots, p \in Prompts : files'[<<s, p>>] = Missing =>
              files[<<s, p>>] = Missing \/ Claims(op[e], s, p)
    PROVE  PromptsSound'
<1>1. PICK r : r = NoRequest OBVIOUS
<1>2. FreshOK(r) /\ \A s, p : ~Claims(r, s, p) BY <1>1, NoRequestOK
<1>3. op' = [op EXCEPT ![e] = r] BY <1>1 DEF Finish, Go
<1>4. \A s \in Slots, p \in Prompts : HasPrompt(config, s, p) =>
             ~Claims(op[e], s, p) /\ files[<<s, p>>] # Missing /\ s \in spaces
  BY DEF PromptsSound, ClaimsInv
<1>5. \A s \in Slots, p \in Prompts : Claims(r, s, p) \/ HasPrompt(config', s, p) =>
             /\ \/ Claims(op[e], s, p) \/ HasPrompt(config, s, p)
                \/ \A f \in Editors : ~Claims(op[f], s, p)
             /\ files'[<<s, p>>] # Missing /\ s \in spaces'
  BY <1>2, <1>4
<1>6. ClaimsInv' BY <1>2, <1>3, <1>5, ClaimsStep DEF PromptsSound
<1>7. UsesInv' BY DEF PromptsSound, UsesInv, Exists, Registered
<1>8. \A f \in Editors : FreshOK(op'[f]) BY <1>2, <1>3 DEF PromptsSound
<1> QED BY <1>6, <1>7, <1>8 DEF PromptsSound, FreshOK, Exists, Registered, Entered

(* Only files that are claimed are deleted. *)
LEMMA SoundFileWriters ==
    ASSUME AgentsInv, NEW e \in Editors,
           \/ Purge(e) \/ UndoCreate(e) \/ UpdatePrompt(e) \/ UnlinkPrompt(e)
           \/ RollbackMove(e) \/ CleanupMove(e)
    PROVE  PromptsSound'
<1>1. PICK r \in RequestType : r = op[e] /\ Assured(r) BY KnownRequest DEF AgentsInv
<1>2. /\ PromptsSound /\ RequestsInv /\ op \in [Editors -> RequestType]
      /\ files \in [Slots \X Prompts -> File]
  BY DEF AgentsInv, RequestsInv, AgentsTypeOK
<1>3. FormOK(r) /\ ReadOK(r) BY <1>1 DEF Assured
<1>4. Finish(e) /\ config' = config /\ spaces' = spaces
  BY DEF Purge, UndoCreate, UpdatePrompt, UnlinkPrompt, RollbackMove, CleanupMove
(* The files of a whole directory are deleted. *)
<1>5. ASSUME NEW x \in Slots, files' = files \/ files' = Without(x, r.entries),
             files' # files => \A p \in Entered(r.entries) : Claims(r, x, p)
      PROVE  PromptsSound'
  <2>1. \A s \in Slots, p \in Prompts : files'[<<s, p>>] = Missing =>
           files[<<s, p>>] = Missing \/ Claims(r, s, p)
    BY <1>2, <1>5, WithoutFacts
  <2> QED BY <1>1, <1>2, <1>4, <2>1, FilesSound
<1>6. CASE Purge(e)
  <2>1. /\ r.kind = "remove_agent" /\ r.pc = "purge"
        /\ files' = files \/ files' = Without(r.slot, r.entries)
    BY <1>1, <1>6 DEF Purge, At
  <2>2. r.slot \in Slots BY <1>3, <2>1 DEF FormOK, SlotKinds, Kinds
  <2>3. \A p \in Entered(r.entries) : Claims(r, r.slot, p) BY <2>1 DEF Claims, Towards
  <2> QED BY <1>5, <2>1, <2>2, <2>3
<1>7. CASE CleanupMove(e)
  <2>1. r.kind = "move" /\ r.pc = "cleanup" /\ files' = Without(r.slot, r.entries)
    BY <1>1, <1>7 DEF CleanupMove, At
  <2>2. r.slot \in Slots BY <1>3, <2>1 DEF FormOK, SlotKinds, Kinds
  <2>3. \A p \in Entered(r.entries) : Claims(r, r.slot, p) BY <2>1 DEF Claims
  <2> QED BY <1>5, <2>1, <2>2, <2>3
<1>8. CASE RollbackMove(e)
  <2>1. /\ r.kind = "move"
        /\ files' = IF r.pc = "commit" THEN Without(r.to, r.entries) ELSE files
    BY <1>1, <1>8 DEF RollbackMove, At
  <2>2. r.to \in Slots BY <1>3, <2>1 DEF FormOK, SlotKinds, Kinds
  <2>3. r.pc = "commit" => \A p \in Entered(r.entries) : Claims(r, r.to, p)
    BY <2>1 DEF Claims
  <2> QED BY <1>5, <2>1, <2>2, <2>3
<1>9. CASE UpdatePrompt(e)
  <2>1. /\ r.kind = "update_prompt" /\ files' = [files EXCEPT ![<<r.slot, r.prompt>>] = r.content]
    BY <1>1, <1>9 DEF UpdatePrompt, At
  <2>2. r.slot \in Slots /\ r.prompt \in Prompts /\ r.content \in Contents
    BY <1>3, <2>1 DEF FormOK, SlotKinds, Kinds
  <2>3. \A s \in Slots, p \in Prompts : files'[<<s, p>>] = Missing => files[<<s, p>>] = Missing
    BY <1>2, <2>1, <2>2, AgentConstants
  <2> QED BY <1>2, <1>4, <2>3, FilesSound
<1>10. CASE UndoCreate(e) \/ UnlinkPrompt(e)
  <2>1. /\ r.kind \in {"create_prompt", "delete_prompt"} /\ Claims(r, r.slot, r.prompt)
        /\ Unlink(r.slot, r.prompt, r.content) \/ Unlink(r.slot, r.prompt, r.digest)
    BY <1>1, <1>10 DEF UndoCreate, UnlinkPrompt, At, Claims
  <2>2. PICK x \in Slots, p \in Prompts : x = r.slot /\ p = r.prompt
    BY <1>3, <2>1 DEF FormOK, SlotKinds, Kinds
  <2>3. PICK d : Unlink(x, p, d) BY <2>1, <2>2
  <2>4. /\ files' \in [Slots \X Prompts -> File]
        /\ \A s \in Slots, q \in Prompts :
             files'[<<s, q>>] = IF <<s, q>> = <<x, p>> /\ files[<<x, p>>] = d
                                THEN Missing ELSE files[<<s, q>>]
    BY <1>2, <2>3, UnlinkFacts
  <2>5. \A s \in Slots, q \in Prompts : files'[<<s, q>>] = Missing =>
           files[<<s, q>>] = Missing \/ Claims(r, s, q)
    BY <2>1, <2>2, <2>4
  <2> QED BY <1>1, <1>2, <1>4, <2>5, FilesSound
<1> QED BY <1>6, <1>7, <1>8, <1>9, <1>10

(* New files are claimed by the request that has created them. *)
LEMMA SoundFileCreators ==
    ASSUME AgentsInv, NEW e \in Editors, CreateFile(e) \/ CopyPrompts(e)
    PROVE  PromptsSound'
<1>1. PICK r \in RequestType : r = op[e] /\ Assured(r) BY KnownRequest DEF AgentsInv
<1>2. /\ PromptsSound /\ RequestsInv /\ op \in [Editors -> RequestType]
      /\ files \in [Slots \X Prompts -> File] /\ ClaimsInv /\ FreshOK(r)
  BY <1>1 DEF AgentsInv, RequestsInv, AgentsTypeOK, PromptsSound
<1>3. FormOK(r) /\ ReadOK(r) /\ MoveOK(r) BY <1>1 DEF Assured
<1>4. config' = config BY DEF CreateFile, CopyPrompts
<1>5. ASSUME NEW q, op' = [op EXCEPT ![e] = q], FreshOK(q), spaces \subseteq spaces',
             \A s, p : ~Claims(r, s, p),
             \A s \in Slots, p \in Prompts : Claims(q, s, p) =>
               /\ files[<<s, p>>] = Missing \/ s \notin spaces
               /\ files'[<<s, p>>] # Missing /\ s \in spaces',
             \A s \in Slots, p \in Prompts :
               files'[<<s, p>>] = Missing => files[<<s, p>>] = Missing
      PROVE  PromptsSound'
  <2>1. \A s \in Slots, p \in Prompts : Claims(q, s, p) =>
           ~HasPrompt(config, s, p) /\ \A f \in Editors : ~Claims(op[f], s, p)
    BY <1>2, <1>5 DEF ClaimsInv
  <2>2. \A s \in Slots, p \in Prompts : HasPrompt(config, s, p) =>
           files'[<<s, p>>] # Missing /\ s \in spaces'
    BY <1>2, <1>5 DEF ClaimsInv
  <2>3. \A s \in Slots, p \in Prompts : Claims(q, s, p) \/ HasPrompt(config', s, p) =>
             /\ \/ Claims(op[e], s, p) \/ HasPrompt(config, s, p)
                \/ \A f \in Editors : ~Claims(op[f], s, p)
             /\ files'[<<s, p>>] # Missing /\ s \in spaces'
    BY <1>4, <1>5, <2>1, <2>2
  <2>4. ClaimsInv' BY <1>2, <1>4, <1>5, <2>1, <2>3, ClaimsStep
  <2>5. UsesInv' BY <1>2, <1>4 DEF PromptsSound, UsesInv, Exists, Registered
  <2>6. \A f \in Editors : FreshOK(op'[f]) BY <1>2, <1>5 DEF PromptsSound
  <2> QED BY <2>4, <2>5, <2>6 DEF PromptsSound, FreshOK, Exists, Registered, Entered
<1>6. CASE CreateFile(e)
  <2>1. /\ r.kind = "create_prompt" /\ r.pc = "open" /\ Step(e, "register")
        /\ spaces' = spaces \cup {r.slot} /\ files[<<r.slot, r.prompt>>] = Missing
        /\ files' = [files EXCEPT ![<<r.slot, r.prompt>>] = r.content]
    BY <1>1, <1>6 DEF CreateFile, At
  <2>2. r.slot \in Slots /\ r.prompt \in Prompts /\ r.content \in Contents
    BY <1>3, <2>1 DEF FormOK, SlotKinds, Kinds
  <2>3. PICK step \in RequestSteps : step = "register" BY DEF RequestSteps
  <2>4. PICK q : q = [r EXCEPT !.pc = step] OBVIOUS
  <2>5. SameButPhase(q, r) /\ q.pc = "register" BY <2>3, <2>4, StepFacts
  <2>6. op' = [op EXCEPT ![e] = q] BY <1>1, <2>1, <2>3, <2>4 DEF Step, Go
  <2>7. FreshOK(q) BY <2>1, <2>5 DEF FreshOK, SameButPhase
  <2>8. \A s, p : Claims(q, s, p) <=> s = r.slot /\ p = r.prompt
    BY <2>1, <2>5 DEF Claims, SameButPhase, Towards
  <2>9. \A s, p : ~Claims(r, s, p) BY <2>1 DEF Claims, Towards
  <2>10. /\ files'[<<r.slot, r.prompt>>] = r.content /\ r.content # Missing
         /\ \A s \in Slots, p \in Prompts :
               files'[<<s, p>>] = Missing => files[<<s, p>>] = Missing
    BY <1>2, <2>1, <2>2, AgentConstants
  <2> HIDE <2>4
  <2> QED BY <1>5, <2>1, <2>6, <2>7, <2>8, <2>9, <2>10
<1>7. CASE CopyPrompts(e)
  <2>1. /\ r.kind = "move" /\ r.pc = "copy" /\ Step(e, "commit")
        /\ files' = [x \in DOMAIN files |-> IF x[1] = r.to /\ x[2] \in Entered(r.entries)
                                            THEN r.entries[x[2]] ELSE files[x]]
        /\ spaces' = IF Entered(r.entries) = {} THEN spaces ELSE spaces \cup {r.to}
    BY <1>1, <1>7 DEF CopyPrompts, At
  <2>2. r.to \in Slots BY <1>3, <2>1 DEF FormOK, SlotKinds, Kinds
  <2>3. r.to \notin spaces BY <1>3, <2>1 DEF MoveOK, Towards
  <2>4. PICK E \in SUBSET Prompts : E = Entered(r.entries) BY DEF Entered
  <2>5. PICK n : n = r.entries OBVIOUS
  <2>6. files' = [x \in Slots \X Prompts |-> IF x[1] = r.to /\ x[2] \in E
                                             THEN n[x[2]] ELSE files[x]]
    BY <1>2, <2>1, <2>4, <2>5
  <2>7. \A s \in Slots, p \in Prompts :
          files'[<<s, p>>] = IF s = r.to /\ p \in E THEN n[p] ELSE files[<<s, p>>]
    BY <2>6
  <2>8. \A p \in E : n[p] # Missing BY <2>4, <2>5 DEF Entered
  <2>9. PICK step \in RequestSteps : step = "commit" BY DEF RequestSteps
  <2>10. PICK q : q = [r EXCEPT !.pc = step] OBVIOUS
  <2>11. SameButPhase(q, r) /\ q.pc = "commit" BY <2>9, <2>10, StepFacts
  <2>12. op' = [op EXCEPT ![e] = q] BY <1>1, <2>1, <2>9, <2>10 DEF Step, Go
  <2>13. FreshOK(q) BY <2>1, <2>11 DEF FreshOK, SameButPhase
  <2>14. \A s, p : Claims(q, s, p) <=> s = r.to /\ p \in E
    BY <2>1, <2>4, <2>11 DEF Claims, SameButPhase, Towards
  <2>15. \A s, p : ~Claims(r, s, p) BY <2>1 DEF Claims, Towards
  <2>16. \A s \in Slots, p \in Prompts : Claims(q, s, p) =>
           files'[<<s, p>>] # Missing /\ s \in spaces' /\ s \notin spaces
    BY <2>1, <2>2, <2>3, <2>4, <2>7, <2>8, <2>14
  <2>17. \A s \in Slots, p \in Prompts :
           files'[<<s, p>>] = Missing => files[<<s, p>>] = Missing
    BY <2>7, <2>8
  <2>18. spaces \subseteq spaces' BY <2>1
  <2> HIDE <2>10
  <2> QED BY <1>5, <2>12, <2>13, <2>15, <2>16, <2>17, <2>18
<1> QED BY <1>6, <1>7

(* What changes neither the configuration nor a file nor a request. *)
LEMMA SoundElsewhere ==
    ASSUME PromptsSound, UNCHANGED <<config, files, spaces, op>> PROVE PromptsSound'
BY DEF PromptsSound, ClaimsInv, UsesInv, HasPrompt, Exists, Registered, Claims, FreshOK,
       Towards, Entered

(* Nothing has been read when the system starts, and what is registered has its
   file. *)
LEMMA AgentsInvInit == ASSUME AgentsInit PROVE AgentsInv
<1>1. PICK i \in InitialStates :
        /\ config = i.config /\ files = i.files
        /\ spaces = {x \in Slots : \E p \in Prompts : i.files[<<x, p>>] # Missing}
  BY DEF AgentsInit
<1>2. Runnable(config, files) BY <1>1, InitialAgents
<1>3. config \in Config BY RequestsInvInit DEF RequestsInv, AgentsTypeOK
<1>4. \A e \in Editors : op[e] = NoRequest BY DEF AgentsInit
<1>5. \A s \in Slots, p \in Prompts : HasPrompt(config, s, p) =>
         files[<<s, p>>] # Missing /\ s \in spaces
  BY <1>1, <1>2 DEF Runnable, HasPrompt
<1>6. \A e \in Editors : FreshOK(op[e]) /\ \A s, p : ~Claims(op[e], s, p)
  BY <1>4, NoRequestOK
<1>7. ClaimsInv BY <1>5, <1>6 DEF ClaimsInv
<1>8. UsesInv BY <1>2 DEF UsesInv, Runnable
<1> QED BY <1>6, <1>7, <1>8, RequestsInvInit DEF AgentsInv, PromptsSound

(* Every step keeps the prompts in order, if requests read the configuration of
   their page. *)
LEMMA AgentsInvStep ==
    ASSUME FreshForms, AgentsInv, [AgentsNext]_agentsVars PROVE AgentsInv'
<1>1. RequestsInv' BY RequestsInvStep DEF AgentsInv
<1>2. PromptsSound BY DEF AgentsInv
<1>3. CASE UNCHANGED agentsVars
  <2>1. UNCHANGED <<config, files, spaces, op>> BY <1>3 DEF agentsVars
  <2> QED BY <1>1, <1>2, <2>1, SoundElsewhere DEF AgentsInv
<1>4. ASSUME NEW e \in Editors, Request(e) PROVE PromptsSound'
  BY <1>4, PlainActions, CalmActions, SoundConfigWriters, SoundConfigWritersGoOn,
     SoundFileWriters, SoundFileCreators DEF Request
<1>5. ASSUME NEW j \in Jobs, JobStarts(j) \/ JobEnds(j) PROVE PromptsSound'
  <2>1. UNCHANGED <<config, files, spaces, op>> BY <1>5 DEF JobStarts, JobEnds
  <2> QED BY <1>2, <2>1, SoundElsewhere
<1> QED BY <1>1, <1>3, <1>4, <1>5 DEF AgentsNext, AgentsInv

(* The inductive invariant of the requests on prompts holds in every state. *)
THEOREM AgentsInvariance == ASSUME FreshForms PROVE AgentsSpec => []AgentsInv
<1>1. AgentsInit => AgentsInv BY AgentsInvInit
<1>2. AgentsInv /\ [AgentsNext]_agentsVars => AgentsInv' BY AgentsInvStep
<1> QED BY <1>1, <1>2, PTL DEF AgentsSpec

(* Every configuration that is stored is valid and its routines can be run. *)
THEOREM AgentsAreRunnable == ASSUME FreshForms PROVE AgentsSpec => []AgentsRunnable
<1>1. ASSUME AgentsInv PROVE AgentsRunnable
  <2>1. AgentsTypeOK /\ ClaimsInv /\ UsesInv BY <1>1 DEF AgentsInv, RequestsInv, PromptsSound
  <2>2. \A s \in Slots : Exists(config, s) => Registered(config, s) \subseteq Prompts
    BY <2>1 DEF AgentsTypeOK, Config, Agent, Exists, Registered
  <2>3. Runnable(config, files)
    BY <2>1, <2>2 DEF ClaimsInv, UsesInv, HasPrompt, Runnable
  <2> QED BY <2>1, <2>3 DEF AgentsRunnable, RoutinesRunnable
<1> QED BY <1>1, AgentsInvariance, PTL

-----------------------------------------------------------------------------
(* Archives of channels. *)

(* The requests that leave every memory as it is. *)
LEMMA MemoriesKept ==
    ASSUME NEW e \in Editors,
           Request(e), ~StageMemory(e), ~RollbackMove(e), ~ArchiveChannel(e),
           ~RestoreArchive(e), ~SaveContent(e)
    PROVE  memory' = memory
<1>1. CASE OpenForm(e) BY <1>1, OpenFormKeeps
<1>2. CASE \/ Acquire(e) \/ Refuse(e) \/ Dies(e) \/ StartCreateAgent(e) \/ CreateAgent(e)
           \/ StartRemove(e) \/ Remove(e) \/ Purge(e) \/ StartMove(e) \/ NamespaceTransaction(e)
           \/ ReloadMove(e) \/ CopyPrompts(e) \/ MoveAgent(e) \/ CleanupMove(e)
  BY <1>2 DEF Acquire, Refuse, Dies, StartCreateAgent, CreateAgent, StartRemove, Remove, Purge,
              StartMove, NamespaceTransaction, ReloadMove, CopyPrompts, MoveAgent, CleanupMove
<1>3. CASE \/ CreateFile(e) \/ Register(e) \/ RegisterFails(e) \/ UndoCreate(e)
           \/ UpdatePrompt(e) \/ StartDelete(e) \/ Unregister(e) \/ UnlinkPrompt(e)
           \/ EnterRoutines(e) \/ SaveRoutines(e) \/ SaveSection(e)
  BY <1>3 DEF CreateFile, Register, RegisterFails, UndoCreate, UpdatePrompt, StartDelete,
              Unregister, UnlinkPrompt, EnterRoutines, SaveRoutines, SaveSection
<1>4. CASE \/ EditLoaded(e) \/ ReplaceConfig(e) \/ StartChannelDelete(e) \/ CheckChannel(e)
           \/ DropChannel(e) \/ DropRefused(e) \/ ResolveContent(e)
           \/ ResolveChannelContent(e) \/ StartSubmit(e) \/ LoadForJob(e) \/ CreateJob(e)
  BY <1>4 DEF EditLoaded, ReplaceConfig, StartChannelDelete, CheckChannel, DropChannel,
              DropRefused, ResolveContent, ResolveChannelContent, StartSubmit, LoadForJob, CreateJob
<1> QED BY <1>1, <1>2, <1>3, <1>4 DEF Request

(* Only a channel's deletion takes its memory away, and it has looked for jobs
   under the locks of all teams. *)
LEMMA ArchiveStep ==
    ASSUME RequestsInv, AgentsNext, NEW ch \in Channels,
           memory[ch] # Missing, memory'[ch] = Missing
    PROVE  ActiveOn(ch) = {}
<1>1. /\ memory \in [Slots \cup Channels -> File] /\ ch \notin Slots
      /\ jobs \in [Jobs -> Job \cup {NoJob}]
  BY AgentConstants DEF RequestsInv, AgentsTypeOK
<1>2. ASSUME NEW e \in Editors, Request(e) PROVE ActiveOn(ch) = {}
  <2>1. PICK r \in RequestType : r = op[e] /\ Assured(r) BY KnownRequest
  <2>2. FormOK(r) /\ ReadOK(r) /\ ArchiveOK(r) BY <2>1 DEF Assured
  <2>3. CASE StageMemory(e) \/ RollbackMove(e)
    <3>1. /\ r.kind = "move"
          /\ memory' = memory \/ \E c : memory' = [memory EXCEPT ![r.to] = c]
      BY <2>1, <2>3 DEF StageMemory, RollbackMove, At
    <3>2. r.to \in Slots BY <2>2, <3>1 DEF FormOK, SlotKinds, Kinds
    <3> QED BY <1>1, <3>1, <3>2
  <2>4. CASE ArchiveChannel(e)
    <3>1. /\ r.kind = "channel_delete" /\ r.pc = "archive"
          /\ memory' = [memory EXCEPT ![r.channel] = Missing]
      BY <2>1, <2>4 DEF ArchiveChannel, At
    <3>2. ch = r.channel BY <1>1, <3>1
    <3> QED BY <2>2, <3>1, <3>2 DEF ArchiveOK
  <2>5. CASE RestoreArchive(e)
    <3>1. \/ memory' = memory
          \/ memory[r.channel] = Missing /\ memory' = [memory EXCEPT ![r.channel] = r.archive]
      BY <2>1, <2>5 DEF RestoreArchive
    <3> QED BY <1>1, <3>1
  <2>6. CASE SaveContent(e)
    <3>1. PICK mem : /\ r.pc = "save"
                   /\ memory' = [memory EXCEPT ![mem] = IF Shown(mem) = r.digest THEN r.content
                                                      ELSE Shown(mem)]
      BY <2>1, <2>6 DEF SaveContent
    <3>2. r.content \in Contents BY <2>2, <3>1 DEF FormOK, ReadOK
    <3>3. PICK c : c = IF Shown(mem) = r.digest THEN r.content ELSE Shown(mem) OBVIOUS
    <3>4. c # Missing BY <3>2, <3>3, AgentConstants DEF Shown
    <3> QED BY <1>1, <3>1, <3>3, <3>4
  <2> QED BY <1>2, <2>3, <2>4, <2>5, <2>6, MemoriesKept
<1>3. ASSUME NEW j \in Jobs, JobStarts(j) \/ JobEnds(j) PROVE ActiveOn(ch) = {}
  <2>1. PICK mem, c : c # Missing /\ (memory' = memory \/ memory' = [memory EXCEPT ![mem] = c])
    BY <1>3, AgentConstants DEF JobStarts, JobEnds, Shown
  <2> QED BY <1>1, <2>1
<1> QED BY <1>2, <1>3 DEF AgentsNext

(* A channel's memory is archived only while no job uses it. *)
THEOREM ArchiveSparesJobsAlways == AgentsSpec => ArchiveSparesJobs
<1>1. ASSUME RequestsInv, [AgentsNext]_agentsVars
      PROVE  [\A ch \in Channels : memory[ch] # Missing /\ memory'[ch] = Missing
                                   => ActiveOn(ch) = {}]_agentsVars
  <2>1. CASE AgentsNext BY <1>1, <2>1, ArchiveStep
  <2> QED BY <1>1, <2>1
<1> QED BY <1>1, RequestsInvariance, PTL DEF AgentsSpec, ArchiveSparesJobs

-----------------------------------------------------------------------------
(* Moves. *)

(* The requests that leave the configuration as it is. *)
LEMMA ConfigKept ==
    ASSUME NEW e \in Editors, Request(e), ~CreateAgent(e), ~Remove(e), ~MoveAgent(e),
           ~Register(e), ~Unregister(e), ~SaveRoutines(e), ~SaveSection(e),
           ~ReplaceConfig(e), ~DropChannel(e)
    PROVE  config' = config
<1>1. CASE OpenForm(e) BY <1>1, OpenFormKeeps
<1>2. CASE \/ Acquire(e) \/ Refuse(e) \/ Dies(e) \/ StartCreateAgent(e)
           \/ StartRemove(e) \/ Purge(e) \/ StartMove(e) \/ NamespaceTransaction(e)
           \/ ReloadMove(e) \/ StageMemory(e) \/ CopyPrompts(e) \/ RollbackMove(e) \/ CleanupMove(e)
  BY <1>2 DEF Acquire, Refuse, Dies, StartCreateAgent, StartRemove, Purge, StartMove,
              NamespaceTransaction, ReloadMove, StageMemory, CopyPrompts, RollbackMove, CleanupMove
<1>3. CASE \/ CreateFile(e) \/ RegisterFails(e) \/ UndoCreate(e) \/ UpdatePrompt(e)
           \/ StartDelete(e) \/ UnlinkPrompt(e) \/ EnterRoutines(e)
  BY <1>3 DEF CreateFile, RegisterFails, UndoCreate, UpdatePrompt, StartDelete, UnlinkPrompt,
              EnterRoutines
<1>4. CASE \/ EditLoaded(e) \/ StartChannelDelete(e) \/ CheckChannel(e) \/ ArchiveChannel(e)
           \/ DropRefused(e) \/ RestoreArchive(e) \/ ResolveContent(e) \/ SaveContent(e)
           \/ ResolveChannelContent(e) \/ StartSubmit(e) \/ LoadForJob(e) \/ CreateJob(e)
  BY <1>4 DEF EditLoaded, StartChannelDelete, CheckChannel, ArchiveChannel, DropRefused,
              RestoreArchive, ResolveContent, SaveContent, ResolveChannelContent, StartSubmit,
              LoadForJob, CreateJob
<1> QED BY <1>1, <1>2, <1>3, <1>4 DEF Request

(* Only the entry that is replaced changes. *)
LEMMA OneEntry ==
    ASSUME NEW c \in Config, NEW s \in Slots, NEW a
    PROVE  /\ WithAgent(c, s, a).agents[s] = a
           /\ \A x \in Slots : x # s => WithAgent(c, s, a).agents[x] = c.agents[x]
<1>1. PICK g : g = [c.agents EXCEPT ![s] = a] OBVIOUS
<1>2. g[s] = a /\ \A x \in Slots : x # s => g[x] = c.agents[x] BY <1>1 DEF Config
<1>3. WithAgent(c, s, a) = [c EXCEPT !.agents = g] BY <1>1 DEF WithAgent, Config
<1>4. WithAgent(c, s, a).agents = g BY <1>3 DEF Config
<1> QED BY <1>2, <1>4

(* An agent's entry goes to another place only by a move. *)
LEMMA OnlyMoves ==
    ASSUME AgentsInv, NEW e \in Editors, Request(e), NEW s \in Slots, NEW to \in Slots,
           Exists(config, s), ~Exists(config', s), ~Exists(config, to), Exists(config', to)
    PROVE  MoveAgent(e)
<1>1. PICK r \in RequestType : r = op[e] /\ Assured(r) BY KnownRequest DEF AgentsInv
<1>2. config \in Config /\ FreshOK(r)
  BY <1>1 DEF AgentsInv, PromptsSound, RequestsInv, AgentsTypeOK
<1>3. FormOK(r) /\ ReadOK(r) BY <1>1 DEF Assured
<1>4. CASE CreateAgent(e)
  <2>1. r.kind = "create_agent" /\ config' = WithAgent(config, r.slot, NewAgent)
    BY <1>1, <1>4 DEF CreateAgent, At, Commit
  <2>2. r.slot \in Slots BY <1>3, <2>1 DEF FormOK, SlotKinds, Kinds
  <2>3. NewAgent # NoAgent
    <3>1. PICK a \in Agent : a = NewAgent BY DEF NewAgent, Agent
    <3> QED BY <3>1, AgentConstants
  <2>4. PICK c : c = WithAgent(config, r.slot, NewAgent) OBVIOUS
  <2>5. /\ c.agents[r.slot] = NewAgent
        /\ \A x \in Slots : x # r.slot => c.agents[x] = config.agents[x]
    BY <1>2, <2>2, <2>4, OneEntry
  <2>6. config' = c BY <2>1, <2>4
  <2> QED BY <2>3, <2>5, <2>6 DEF Exists
(* Another entry comes to the place of one that existed. *)
<1>5. CASE Remove(e) \/ Register(e) \/ Unregister(e) \/ SaveSection(e) \/ SaveRoutines(e)
  <2>1. PICK a : config' = WithAgent(config, r.slot, a)
    BY <1>1, <1>5 DEF Remove, Register, Unregister, SaveSection, SaveRoutines, Commit
  <2>2. r.kind \in {"remove_agent", "create_prompt", "delete_prompt", "section", "routines"}
    BY <1>1, <1>5 DEF Remove, Register, Unregister, SaveSection, SaveRoutines, At
  <2>3. r.slot \in Slots BY <1>3, <2>2 DEF FormOK, SlotKinds, Kinds
  <2>4. Exists(config, r.slot)
    <3>1. CASE SaveRoutines(e)
      BY <1>1, <3>1 DEF SaveRoutines, At, Assured, RoutinesOK
    <3>2. CASE Remove(e) \/ Register(e) \/ Unregister(e) \/ SaveSection(e)
      BY <1>1, <3>2 DEF Remove, Register, Unregister, SaveSection
    <3> QED BY <1>5, <3>1, <3>2
  <2>5. PICK c : c = WithAgent(config, r.slot, a) OBVIOUS
  <2>6. \A x \in Slots : x # r.slot => c.agents[x] = config.agents[x]
    BY <1>2, <2>3, <2>5, OneEntry
  <2>7. config' = c BY <2>1, <2>5
  <2> QED BY <2>4, <2>6, <2>7 DEF Exists
<1>6. CASE ReplaceConfig(e)
  <2>1. r.pc = "replace" /\ config = r.page /\ config' = r.seen
    BY <1>1, <1>6 DEF ReplaceConfig, Commit
  <2> QED BY <1>2, <2>1 DEF FreshOK
<1>7. CASE DropChannel(e)
  <2>1. config' = [config EXCEPT !.channels = @ \ {r.channel}]
    BY <1>1, <1>7 DEF DropChannel, Commit
  <2>2. config'.agents = config.agents BY <1>2, <2>1 DEF Config
  <2> QED BY <2>2 DEF Exists
<1> QED BY <1>4, <1>5, <1>6, <1>7, ConfigKept

(* What a move has ready when it writes the configuration. *)
LEMMA MoveStep ==
    ASSUME AgentsInv, NEW e \in Editors, MoveAgent(e), NEW s \in Slots, NEW to \in Slots,
           Exists(config, s), ~Exists(config', s), ~Exists(config, to), Exists(config', to)
    PROVE  /\ \A p \in Registered(config, s) :
                 files[<<to, p>>] = files[<<s, p>>] /\ files[<<s, p>>] # Missing
           /\ ActiveFor(s) = {} /\ ActiveFor(to) = {}
           /\ Owned(config, s) # {} => memory[to] \in {Empty, memory[s]} \ {Missing}
<1>1. PICK r \in RequestType : r = op[e] /\ Assured(r) BY KnownRequest DEF AgentsInv
<1>2. config \in Config BY DEF AgentsInv, RequestsInv, AgentsTypeOK
<1>3. FormOK(r) /\ ReadOK(r) /\ MoveOK(r) BY <1>1 DEF Assured
<1>4. /\ r.kind = "move" /\ r.pc = "commit" /\ config = r.page
      /\ config' = WithAgent(WithAgent(config, r.to, config.agents[r.slot]), r.slot, NoAgent)
  BY <1>1 DEF MoveAgent, At, Commit
<1>5. r.slot \in Slots /\ r.to \in Slots BY <1>3, <1>4 DEF FormOK, SlotKinds, Kinds
<1>6. PICK a \in Agent \cup {NoAgent} : a = config.agents[r.slot] BY <1>2, <1>5 DEF Config
<1>7. PICK b : b = WithAgent(config, r.to, a) OBVIOUS
<1>8. b \in Config /\ \A x \in Slots : b.agents[x] = IF x = r.to THEN a ELSE config.agents[x]
  BY <1>2, <1>5, <1>7, EntryTypes
<1>9. PICK c : c = WithAgent(b, r.slot, NoAgent) OBVIOUS
<1>10. \A x \in Slots : c.agents[x] = IF x = r.slot THEN NoAgent ELSE b.agents[x]
  BY <1>5, <1>8, <1>9, EntryTypes
<1>11. config' = c BY <1>4, <1>6, <1>7, <1>9
<1>12. Exists(config, r.slot) /\ Entered(r.entries) = Registered(config, r.slot)
  BY <1>3, <1>4 DEF ReadOK
<1>13. to = r.to BY <1>8, <1>10, <1>11 DEF Exists
<1>14. s = r.slot BY <1>6, <1>8, <1>10, <1>11, <1>12 DEF Exists
<1>15. /\ ActiveFor(s) = {} /\ ActiveFor(to) = {}
       /\ \A p \in Entered(r.entries) :
             files[<<s, p>>] = r.entries[p] /\ files[<<to, p>>] = r.entries[p]
       /\ Owned(config, s) # {} => memory[to] \in {Empty, memory[s]} \ {Missing}
  BY <1>3, <1>4, <1>13, <1>14 DEF MoveOK, Towards
<1>16. \A p \in Entered(r.entries) : r.entries[p] # Missing BY DEF Entered
<1> QED BY <1>12, <1>14, <1>15, <1>16

(* An agent arrives in its new team with its prompts and its memory, and without
   a job. *)
THEOREM MovedWholeAlways == ASSUME FreshForms PROVE AgentsSpec => MovedWhole
<1>1. ASSUME AgentsInv, [AgentsNext]_agentsVars
      PROVE  [\A s, to \in Slots :
                (/\ s[2] = to[2] /\ Exists(config, s) /\ ~Exists(config', s)
                 /\ ~Exists(config, to) /\ Exists(config', to))
                => /\ \A p \in Registered(config, s) :
                         files[<<to, p>>] = files[<<s, p>>] /\ files[<<s, p>>] # Missing
                   /\ ActiveFor(s) = {} /\ ActiveFor(to) = {}
                   /\ Owned(config, s) # {} =>
                        memory[to] \in {Empty, memory[s]} \ {Missing}]_agentsVars
  <2>1. SUFFICES ASSUME AgentsNext, NEW s \in Slots, NEW to \in Slots,
                        Exists(config, s), ~Exists(config', s),
                        ~Exists(config, to), Exists(config', to)
                 PROVE  /\ \A p \in Registered(config, s) :
                              files[<<to, p>>] = files[<<s, p>>] /\ files[<<s, p>>] # Missing
                        /\ ActiveFor(s) = {} /\ ActiveFor(to) = {}
                        /\ Owned(config, s) # {} =>
                             memory[to] \in {Empty, memory[s]} \ {Missing}
    BY <1>1
  <2>2. PICK e \in Editors : Request(e)
    <3>1. config' # config BY <2>1
    <3>2. \A j \in Jobs : ~JobStarts(j) /\ ~JobEnds(j) BY <3>1 DEF JobStarts, JobEnds
    <3> QED BY <2>1, <3>2 DEF AgentsNext
  <2>3. MoveAgent(e) BY <1>1, <2>1, <2>2, OnlyMoves
  <2> QED BY <1>1, <2>1, <2>3, MoveStep
<1> QED BY <1>1, AgentsInvariance, PTL DEF AgentsSpec, MovedWhole
=============================================================================
