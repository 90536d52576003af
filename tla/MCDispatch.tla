----------------------------- MODULE MCDispatch -----------------------------
(***************************************************************************)
(* The dispatch cycle under the timer that starts it, for TLC: the timer of *)
(* the machine is administered first, by two configurations; the cycles run *)
(* once it is installed for the configuration Mine.                         *)
(***************************************************************************)
EXTENDS AgentHealth, DispatchTimer

CONSTANTS a, e, Mine

MCAt == [r \in AtRoutines |-> 1]
\* The periodic routine fired before, the daily one never did.
MCFirstMarks == [r \in Routines |-> IF r \in AtRoutines THEN {} ELSE {0}]
MCPeriod == [r \in EveryRoutines |-> 2]
MCCatchUp ==
  [r \in Routines |-> IF r \in AtRoutines THEN [kind |-> "duration", period |-> 1]
                      ELSE [kind |-> "duration", period |-> 1]]

allVars == <<vars, timerVars>>

\* The timer runs for Mine and nobody administers it.  One such state stands for
\* the others: a cycle does not read the timer.
Timed ==
  /\ platform = "linux" /\ interrupts = 0
  /\ service = Mine /\ unit = Default
  /\ loaded = OnDisk
  /\ interval = [c \in Configs |-> Default]
  /\ ops = [x \in Admins |-> Idle]

\* No cycle has run and no time has passed.
Untouched == now = Start /\ pc = "idle" /\ jobs = <<>> /\ crashes = 0

UnderTimer(A) == Timed /\ A /\ UNCHANGED timerVars

MCInit == Init /\ TimerInit

MCNext ==
  \/ Untouched /\ TimerNext /\ UNCHANGED vars
  \/ UnderTimer(Next)

MCSpec ==
  /\ MCInit /\ [][MCNext]_allVars
  /\ WF_allVars(UnderTimer(Tick))
  /\ WF_allVars(UnderTimer(BeginCycle))
  /\ WF_allVars(UnderTimer(CycleStep))
  /\ WF_allVars(UnderTimer(\E j \in DOMAIN jobs : Progress(j)))

\* While the timer stays installed, the newest occurrence of every routine is
\* served or out of its catch_up bound once the clock stands still, whatever
\* submissions, launches and workers failed and wherever cycles died.
RecoveredUnderTimer == <>[]Timed => MissedWorkRecovered
=============================================================================
