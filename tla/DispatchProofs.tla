--------------------------- MODULE DispatchProofs ---------------------------
(***************************************************************************)
(* Proofs about the scheduled side of Flowgency, for any routines,          *)
(* schedules, catch_up bounds and grace window: a routine's jobs are        *)
(* submitted for ever newer occurrences, an occurrence is submitted again   *)
(* only when its job is known never to have run, a periodic routine keeps   *)
(* its cadence (Dispatch), and the dashboard tells the truth about them     *)
(* (AgentHealth); and about the timer that starts the cycles                *)
(* (DispatchTimer), in the last part.                                       *)
(*                                                                         *)
(* The first need that a cycle that submitted a job also marks it, and that *)
(* a submission is refused only while no worker has the job (Sheltered):    *)
(* what happens otherwise is told in OccurrenceRunsOnce.                    *)
(*                                                                         *)
(* The argument: whatever fires, fires for the newest occurrence owed       *)
(* (NewestOwed), which never goes back while the clock runs, and no job is  *)
(* newer (NoneBeyondOwed).  A job for that same occurrence has its marker,  *)
(* or is known never to have run (JobsMarked); a marked one fires again     *)
(* only when it was lost, and what was lost stays lost (LostStays).         *)
(*                                                                         *)
(* The dashboard reads the markers and never the records.  It is right      *)
(* because the two tell the same story (MarkersTell): a job without a       *)
(* marker was turned away, and the marker of a day has a job of that day.   *)
(***************************************************************************)
EXTENDS AgentHealth, DispatchTimer, WellFoundedInduction, TLAPS

Sheltered == ~LateDeaths /\ ~EarlyFailures

(* The job whose submission is in progress and has no marker of its own yet. *)
Underway(j) == pc \in {"settle", "touch"} /\ j = Len(jobs)

(* A queued record was taken by nobody, and neither was one that failed without
   a stamp before its submitter could look at it. *)
UntakenSettled ==
  /\ \A j \in DOMAIN jobs : jobs[j].status = "queued" => ~jobs[j].pid
  /\ pc = "settle" /\ SettleRejects => ~jobs[Len(jobs)].pid

(* Anchors and occurrences lie in the past. *)
PastOnly ==
  /\ \A r \in EveryRoutines : \A t \in marks[r] : t <= now
  /\ \A j \in DOMAIN jobs : jobs[j].due <= now

(* Nothing was submitted for an occurrence after the newest one owed. *)
NoneBeyondOwed == \A r \in Routines : \A j \in JobsOf(r) : jobs[j].due <= NewestOwed(r)

(* What the cycle read as lost when it began is still lost. *)
LostStays ==
  \A r \in todo : lost[r] # None =>
    \A j \in JobsOf(r) : /\ jobs[j].due <= lost[r]
                         /\ jobs[j].due = lost[r] => Recoverable(jobs[j])

(* Every job has its marker, unless it is known never to have run. *)
MarkedAt(r, due) ==
  IF r \in AtRoutines THEN Date(due) \in marks[r] ELSE \E t \in marks[r] : due <= t

JobsMarked ==
  \A r \in Routines : \A j \in JobsOf(r) :
    Underway(j) \/ Recoverable(jobs[j]) \/ MarkedAt(r, jobs[j].due)

WholePeriods(r, s, t) == \E k \in Nat : t = s + k * Period[r]

(* The jobs of a periodic routine lie whole periods before its anchor, and
   while a submission is in progress before the occurrence it will stamp. *)
AnchorAligned ==
  \A r \in EveryRoutines : pc # "stamp" \/ r # cur =>
    \A t \in marks[r] : \A j \in JobsOf(r) :
      ~Recoverable(jobs[j]) /\ jobs[j].due <= t => WholePeriods(r, jobs[j].due, t)

SubmissionAligned ==
  cur \in EveryRoutines =>
    /\ pc # "stamp" => \A t \in marks[cur] : t <= Due
    /\ \A j \in JobsOf(cur) : j = Len(jobs) \/ Recoverable(jobs[j]) \/ WholePeriods(cur, jobs[j].due, Due)

Inv ==
  /\ TypeOK /\ RetriesOnlyLost /\ UntakenSettled /\ PastOnly /\ NoneBeyondOwed
  /\ LostStays /\ JobsMarked /\ AnchorAligned /\ SubmissionAligned

-----------------------------------------------------------------------------
(* Arithmetic *)

(* The whole days, or periods, in n. *)
LEMMA Division ==
  ASSUME NEW n \in Nat, NEW d \in Nat \ {0}
  PROVE  n \div d \in Nat /\ d * (n \div d) <= n /\ n < d * (n \div d) + d
<1>1. n \div d \in Int OBVIOUS
<1>2. n \div d >= 0 OBVIOUS
<1>3. d * (n \div d) <= n OBVIOUS
<1>4. n < d * (n \div d) + d OBVIOUS
<1> QED BY <1>1, <1>2, <1>3, <1>4

(* The quotient is not above the number. *)
LEMMA QuotientBelow ==
  ASSUME NEW n \in Nat, NEW d \in Nat \ {0} PROVE n \div d <= n
<1> PICK q \in Nat : q = n \div d BY Division
<1> PICK e \in Nat : d = e + 1 OBVIOUS
<1>1. d * q <= n BY Division
<1>2. d * q = e * q + q OBVIOUS
<1>3. e * q >= 0 OBVIOUS
<1> QED BY <1>1, <1>2, <1>3

(* One more tick brings at most one more day. *)
LEMMA NextQuotient ==
  ASSUME NEW n \in Nat, NEW d \in Nat \ {0}
  PROVE  (n + 1) \div d \in {n \div d, n \div d + 1}
<1> PICK q \in Nat : q = n \div d BY Division
<1> PICK p \in Nat : p = (n + 1) \div d BY Division
<1>1. d * q <= n /\ n < d * q + d BY Division
<1>2. d * p <= n + 1 /\ n + 1 < d * p + d BY Division
<1>3. ~(p < q)
  <2> SUFFICES ASSUME p < q PROVE FALSE OBVIOUS
  <2> PICK k \in Nat : q = p + 1 + k OBVIOUS
  <2>1. d * q = d * p + d + d * k OBVIOUS
  <2>2. d * k >= 0 OBVIOUS
  <2> QED BY <1>1, <1>2, <2>1, <2>2
<1>4. ~(p > q + 1)
  <2> SUFFICES ASSUME p > q + 1 PROVE FALSE OBVIOUS
  <2> PICK k \in Nat : p = q + 2 + k OBVIOUS
  <2>1. d * p = d * q + d + d + d * k OBVIOUS
  <2>2. d * k >= 0 OBVIOUS
  <2> QED BY <1>1, <1>2, <2>1, <2>2
<1> QED BY <1>3, <1>4

(* A multiple leaves no remainder. *)
LEMMA NoRemainder ==
  ASSUME NEW k \in Nat, NEW d \in Nat \ {0} PROVE (k * d) % d = 0
<1> PICK n \in Nat : n = k * d OBVIOUS
<1> PICK q \in Nat : q = n \div d BY Division
<1>1. n % d \in 0 .. (d - 1) OBVIOUS
<1> PICK r \in Nat : r = n % d BY <1>1
<1>2. n - d * (n \div d) = n % d BY SMTT(30)
<1>3. r < d /\ r = d * (k - q) BY <1>1, <1>2
<1>4. ~(k > q)
  <2> SUFFICES ASSUME k > q PROVE FALSE OBVIOUS
  <2> PICK m \in Nat : k - q = m + 1 OBVIOUS
  <2>1. d * (k - q) = d * m + d OBVIOUS
  <2>2. d * m >= 0 OBVIOUS
  <2> QED BY <1>3, <2>1, <2>2
<1> PICK m \in Nat : m = q - k BY <1>4
<1>5. d * (k - q) = -(d * m) OBVIOUS
<1>6. d * m >= 0 OBVIOUS
<1> QED BY <1>3, <1>5, <1>6

(* Whole periods add up. *)
LEMMA PeriodsCompose ==
  ASSUME NEW r \in EveryRoutines, NEW s \in Nat, NEW t \in Nat, NEW d \in Nat,
         WholePeriods(r, s, t), WholePeriods(r, t, d)
  PROVE  WholePeriods(r, s, d)
<1> PICK p \in Nat \ {0} : p = Period[r] BY ScheduleAssumption
<1>1. PICK k \in Nat : t = s + k * p BY DEF WholePeriods
<1>2. PICK m \in Nat : d = t + m * p BY DEF WholePeriods
<1> DEFINE u == k * p
           v == m * p
<1>3. u \in Nat /\ v \in Nat /\ (k + m) * p = u + v OBVIOUS
<1>4. t = s + u /\ d = t + v BY <1>1, <1>2
<1> HIDE DEF u, v
<1>5. d = s + (u + v) BY <1>3, <1>4
<1>6. d = s + (k + m) * Period[r] BY <1>3, <1>5
<1>7. k + m \in Nat OBVIOUS
<1> QED BY <1>6, <1>7 DEF WholePeriods

(* A set of numbers that is not empty has a least element. *)
LEMMA Least == ASSUME NEW T \in SUBSET Nat, T # {} PROVE \E x \in T : \A y \in T : x <= y
<1> DEFINE R == OpToRel(<, Nat)
<1>1. IsWellFoundedOn(R, Nat) BY NatLessThanWellFounded
<1>2. \A x, y \in Nat : x < y => <<x, y>> \in R BY DEF OpToRel
<1> HIDE DEF R
<1>3. PICK x \in T : \A y \in T : ~(<<y, x>> \in R) BY <1>1, WFMin
<1>4. ASSUME NEW y \in T PROVE x <= y
  <2>1. ~(y < x) BY <1>2, <1>3
  <2> QED BY <2>1
<1> QED BY <1>4

(* A bounded one has a greatest element too. *)
LEMMA Greatest ==
    ASSUME NEW T \in SUBSET Nat, NEW top \in Nat, \A y \in T : y <= top, T # {}
    PROVE  \E x \in T : \A y \in T : y <= x
<1> DEFINE S == {top - y : y \in T}
<1>1. PICK t \in T : TRUE OBVIOUS
<1>2. S \in SUBSET Nat /\ top - t \in S BY <1>1
<1>3. PICK x \in S : \A y \in S : x <= y BY <1>2, Least
<1>4. PICK z \in T : x = top - z BY <1>3
<1>5. \A y \in T : top - y \in S OBVIOUS
<1> HIDE DEF S
<1> QED BY <1>3, <1>4, <1>5

-----------------------------------------------------------------------------
(* Schedules *)

(* Every record has its fields. *)
LEMMA RecordTyped == ASSUME TypeOK, NEW j \in DOMAIN jobs PROVE jobs[j] \in JobRecord
<1>1. jobs \in Seq(JobRecord) BY DEF TypeOK
<1> QED BY <1>1

(* The newest due time of some jobs is the due time of one of them. *)
LEMMA NewestIsGreatest ==
  ASSUME TypeOK, NEW js \in SUBSET DOMAIN jobs, js # {}
  PROVE  /\ Newest(js) \in Times /\ Newest(js) # None
         /\ \A j \in js : jobs[j].due <= Newest(js)
         /\ \E j \in js : jobs[j].due = Newest(js)
<1> DEFINE T == {jobs[j].due : j \in js}
<1>1. \A j \in js : jobs[j].due \in Times BY RecordTyped DEF JobRecord
<1>2. T \in SUBSET Nat /\ (\A t \in T : t \in Times /\ t <= MaxNow) /\ T # {}
  BY <1>1, ScheduleAssumption DEF Times
<1>3. Newest(js) = Max(T) BY DEF Newest
<1>4. \A j \in js : jobs[j].due \in T OBVIOUS
<1>5. \A t \in T : \E j \in js : jobs[j].due = t OBVIOUS
<1> HIDE DEF T
<1>6. \E x \in T : \A y \in T : y <= x BY <1>2, Greatest, ScheduleAssumption
<1>7. \E x \in T : \A y \in T : x >= y BY <1>2, <1>6
<1>8. Max(T) \in T /\ \A y \in T : Max(T) >= y BY <1>7 DEF Max
<1>9. \A y \in T : y <= Max(T) BY <1>2, <1>8
<1> QED BY <1>2, <1>3, <1>4, <1>5, <1>8, <1>9, ScheduleAssumption

(* The last daily occurrence lies in the past of a clock that has run a day,
   and the next tick does not take it back. *)
LEMMA LastAt ==
  ASSUME TypeOK, NEW r \in AtRoutines
  PROVE  LastAtOccurrence(r) \in Nat /\ LastAtOccurrence(r) <= now
<1> PICK n \in Nat : n = now BY ScheduleAssumption DEF TypeOK
<1> PICK d \in Nat \ {0} : d = Day BY ScheduleAssumption
<1> PICK q \in Nat : q = n \div d BY Division
<1> PICK x \in Nat : x = At[r] /\ x < d BY ScheduleAssumption
<1>1. d * q <= n /\ n < d * q + d BY Division
<1>2. n >= d BY ScheduleAssumption DEF TypeOK
<1>3. q # 0
  <2>1. q = 0 => d * q = 0 OBVIOUS
  <2> QED BY <1>1, <1>2, <2>1
<1> PICK p \in Nat : q = p + 1 BY <1>3
<1>4. q * d = d * q /\ q * d = p * d + d /\ p * d \in Nat OBVIOUS
<1>5. LastAtOccurrence(r) = IF n >= q * d + x THEN q * d + x ELSE q * d + x - d
  BY DEF LastAtOccurrence, Date
<1>6. \E m \in Nat : m = q * d BY <1>4
<1> PICK m \in Nat : m = q * d BY <1>6
<1>7. m >= d /\ m <= n /\ n < m + d BY <1>1, <1>4
<1>8. LastAtOccurrence(r) = IF n >= m + x THEN m + x ELSE m + x - d BY <1>5
<1> QED BY <1>7, <1>8

(* The next tick does not take the last daily occurrence back. *)
LEMMA LastAtGrows ==
  ASSUME TypeOK, NEW r \in AtRoutines, now' = now + 1
  PROVE  LastAtOccurrence(r) <= LastAtOccurrence(r)' /\ LastAtOccurrence(r)' \in Int
<1> PICK n \in Nat : n = now BY ScheduleAssumption DEF TypeOK
<1> PICK d \in Nat \ {0} : d = Day BY ScheduleAssumption
<1> PICK q \in Nat : q = n \div d BY Division
<1>1. n + 1 \in Nat OBVIOUS
<1> PICK p \in Nat : p = (n + 1) \div d BY <1>1, Division
<1> PICK x \in Nat : x = At[r] /\ x < d BY ScheduleAssumption
<1>2. p \in {q, q + 1} BY NextQuotient
<1>3. LastAtOccurrence(r) = IF n >= q * d + x THEN q * d + x ELSE q * d + x - d
  BY DEF LastAtOccurrence, Date
<1>4. LastAtOccurrence(r)' = IF n + 1 >= p * d + x THEN p * d + x ELSE p * d + x - d
  BY DEF LastAtOccurrence, Date
<1>5. q * d \in Nat /\ (q + 1) * d = q * d + d OBVIOUS
<1> PICK m \in Nat : m = q * d BY <1>5
<1>6. p * d \in {m, m + d} BY <1>2, <1>5
<1> QED BY <1>3, <1>4, <1>6

(* The anchor is the marker. *)
LEMMA AnchorIsMark ==
  ASSUME TypeOK, NEW r \in EveryRoutines, NEW t \in marks[r] PROVE Anchor(r) = t
BY DEF TypeOK, Anchor, Routines

(* What is owed after an anchor: nothing newer than the anchor for a period,
   then the last whole period. *)
OwedAfter(r, anchor) ==
  IF LastEveryOccurrence(r, anchor) = None THEN anchor ELSE LastEveryOccurrence(r, anchor)

(* An occurrence is owed from an anchor a whole number of periods after it. *)
LEMMA OwedAligned ==
  ASSUME TypeOK, NEW r \in EveryRoutines, NEW anchor \in Nat, anchor <= now
  PROVE  /\ OwedAfter(r, anchor) \in Nat /\ anchor <= OwedAfter(r, anchor)
         /\ OwedAfter(r, anchor) <= now
         /\ LastEveryOccurrence(r, anchor) # None => anchor < OwedAfter(r, anchor)
         /\ WholePeriods(r, anchor, OwedAfter(r, anchor))
<1> PICK n \in Nat : n = now BY ScheduleAssumption DEF TypeOK
<1> PICK d \in Nat \ {0} : d = Period[r] BY ScheduleAssumption
<1> PICK m \in Nat : m = n - anchor OBVIOUS
<1> PICK q \in Nat : q = m \div d BY Division
<1>1. d * q <= m /\ m < d * q + d BY Division
<1>2. LastEveryOccurrence(r, anchor) = IF m < d THEN None ELSE anchor + q * d
  BY DEF LastEveryOccurrence
<1>3. CASE m < d
  <2>1. OwedAfter(r, anchor) = anchor BY <1>2, <1>3 DEF OwedAfter
  <2>2. anchor = anchor + 0 * Period[r] OBVIOUS
  <2> QED BY <1>2, <1>3, <2>1, <2>2 DEF WholePeriods
<1>4. CASE m >= d
  <2>1. q # 0
    <3>1. q = 0 => d * q = 0 OBVIOUS
    <3> QED BY <1>1, <1>4, <3>1
  <2> PICK p \in Nat : q = p + 1 BY <2>1
  <2>2. q * d = d * q /\ q * d = p * d + d /\ p * d \in Nat OBVIOUS
  <2> PICK z \in Nat : z = q * d BY <2>2
  <2>3. z >= d /\ z <= m BY <1>1, <2>2
  <2>4. LastEveryOccurrence(r, anchor) = anchor + z BY <1>2, <1>4
  <2>5. anchor + z \in Times BY <2>3, ScheduleAssumption DEF TypeOK, Times
  <2>6. OwedAfter(r, anchor) = anchor + z BY <2>4, <2>5, ScheduleAssumption DEF OwedAfter
  <2>7. anchor + z = anchor + q * Period[r] OBVIOUS
  <2> QED BY <2>3, <2>6, <2>7 DEF WholePeriods
<1> QED BY <1>3, <1>4

(* The next tick does not take back what is owed after an anchor. *)
LEMMA OwedGrows ==
  ASSUME TypeOK, TypeOK', NEW r \in EveryRoutines, NEW anchor \in Nat, anchor <= now, now' = now + 1
  PROVE  OwedAfter(r, anchor) <= OwedAfter(r, anchor)' /\ OwedAfter(r, anchor)' \in Nat
<1> PICK n \in Nat : n = now BY ScheduleAssumption DEF TypeOK
<1> PICK d \in Nat \ {0} : d = Period[r] BY ScheduleAssumption
<1> PICK m \in Nat : m = n - anchor OBVIOUS
<1> PICK q \in Nat : q = m \div d BY Division
<1>1. m + 1 \in Nat /\ n + 1 - anchor = m + 1 OBVIOUS
<1> PICK p \in Nat : p = (m + 1) \div d BY <1>1, Division
<1>2. p \in {q, q + 1} BY NextQuotient
<1>3. LastEveryOccurrence(r, anchor) = IF m < d THEN None ELSE anchor + q * d
  BY DEF LastEveryOccurrence
<1>4. LastEveryOccurrence(r, anchor)' = IF m + 1 < d THEN None ELSE anchor + p * d
  BY <1>1 DEF LastEveryOccurrence
<1>5. q * d \in Nat /\ (q + 1) * d = q * d + d OBVIOUS
<1> PICK z \in Nat : z = q * d BY <1>5
<1> PICK y \in Nat : y = p * d BY <1>2, <1>5
<1>6. y \in {z, z + d} BY <1>2, <1>5
<1>7. m >= d => anchor + z # None
  <2>1. d * q <= m BY Division
  <2>2. d * q = z OBVIOUS
  <2>3. n <= MaxNow /\ MaxNow \in Nat BY ScheduleAssumption DEF TypeOK
  <2>4. anchor + z \in Times BY <2>1, <2>2, <2>3 DEF Times
  <2> QED BY <2>4, ScheduleAssumption
<1>8. OwedAfter(r, anchor) \in {anchor, anchor + z} /\ (m < d => OwedAfter(r, anchor) = anchor)
  BY <1>3 DEF OwedAfter
<1>9. OwedAfter(r, anchor)' \in {anchor, anchor + y} /\ (m >= d => OwedAfter(r, anchor)' = anchor + y)
  <2>1. n + 1 <= MaxNow /\ MaxNow \in Nat BY ScheduleAssumption DEF TypeOK
  <2>2. d * p <= m + 1 BY <1>1, Division
  <2>3. d * p = y OBVIOUS
  <2>4. anchor + y \in Times BY <2>1, <2>2, <2>3 DEF Times
  <2>5. anchor + y # None BY <2>4, ScheduleAssumption
  <2> QED BY <1>4, <2>5 DEF OwedAfter
<1> QED BY <1>6, <1>8, <1>9

(* NewestOwed, by the kind of routine. *)
LEMMA NewestOwedCases ==
  ASSUME TypeOK
  PROVE  /\ \A r \in AtRoutines : NewestOwed(r) = LastAtOccurrence(r)
         /\ \A r \in EveryRoutines :
              /\ marks[r] = {} => NewestOwed(r) = now
              /\ \A t \in marks[r] : NewestOwed(r) = OwedAfter(r, t)
<1>1. \A r \in EveryRoutines : r \notin AtRoutines BY ScheduleAssumption
<1> QED BY <1>1, AnchorIsMark DEF NewestOwed, OwedAfter

-----------------------------------------------------------------------------
(* Drains and workers *)

(* A record that keeps its routine and its occurrence, and stays known never to
   have run where it was, disturbs nothing. *)
LEMMA RecordStep ==
  ASSUME Inv, NEW j \in DOMAIN jobs, NEW rec \in JobRecord, SetJob(j, rec),
         faults' \in 0 .. MaxFaults,
         rec.routine = jobs[j].routine, rec.due = jobs[j].due,
         Recoverable(jobs[j]) => Recoverable(rec),
         rec.status = "queued" => ~rec.pid,
         pc = "settle" /\ j = Len(jobs) /\ rec.status = "failed" /\ ~rec.stamped => ~rec.pid
  PROVE  Inv'
<1>1. jobs \in Seq(JobRecord) /\ jobs' = [jobs EXCEPT ![j] = rec] BY DEF Inv, TypeOK, SetJob
<1>2. UNCHANGED <<now, marks, pc, todo, lost, cur, crashes>> BY DEF SetJob, cycleVars
<1>3. /\ jobs' \in Seq(JobRecord) /\ Len(jobs') = Len(jobs) /\ DOMAIN jobs' = DOMAIN jobs
      /\ jobs'[j] = rec /\ \A i \in DOMAIN jobs : i # j => jobs'[i] = jobs[i]
  BY <1>1
<1>4. \A i \in DOMAIN jobs : /\ jobs'[i].routine = jobs[i].routine /\ jobs'[i].due = jobs[i].due
                             /\ Recoverable(jobs[i]) => Recoverable(jobs'[i])
  BY <1>3
<1>5. \A r : JobsOf(r)' = JobsOf(r) BY <1>3, <1>4 DEF JobsOf
<1>6. Len(jobs) \in DOMAIN jobs
  <2>1. DOMAIN jobs = 1 .. Len(jobs) /\ Len(jobs) \in Nat BY <1>1
  <2> QED BY <2>1
<1>7. \A r : NewestOwed(r)' = NewestOwed(r)
  BY <1>2 DEF NewestOwed, LastAtOccurrence, LastEveryOccurrence, Anchor, Date
<1>8. TypeOK'
  <2>1. cur # None => jobs' # <<>> /\ jobs'[Len(jobs')].routine = cur
    BY <1>3, <1>4, <1>6 DEF Inv, TypeOK
  <2> QED BY <1>2, <1>3, <2>1 DEF Inv, TypeOK
<1>9. RetriesOnlyLost'
  <2>1. ASSUME NEW r \in Routines, NEW i \in JobsOf(r), NEW k \in JobsOf(r), i < k
        PROVE  \/ jobs'[i].due < jobs'[k].due
               \/ jobs'[i].due = jobs'[k].due /\ Recoverable(jobs'[i])
    BY <1>4, <2>1 DEF Inv, RetriesOnlyLost, JobsOf
  <2> QED BY <1>5, <2>1 DEF RetriesOnlyLost
<1>10. UntakenSettled'
  <2>1. \A i \in DOMAIN jobs : jobs'[i].status = "queued" => ~jobs'[i].pid
    BY <1>3 DEF Inv, UntakenSettled
  <2>2. pc = "settle" /\ jobs'[Len(jobs)].status = "failed" /\ ~jobs'[Len(jobs)].stamped =>
          ~jobs'[Len(jobs)].pid
    BY <1>3, <1>6 DEF Inv, UntakenSettled, SettleRejects
  <2> QED BY <1>2, <1>3, <2>1, <2>2 DEF UntakenSettled, SettleRejects
<1>11. PastOnly' BY <1>2, <1>3, <1>4 DEF Inv, PastOnly
<1>12. NoneBeyondOwed' BY <1>4, <1>5, <1>7 DEF Inv, NoneBeyondOwed, JobsOf
<1>13. LostStays' BY <1>2, <1>4, <1>5 DEF Inv, LostStays, JobsOf
<1>14. JobsMarked'
  <2>1. \A i : Underway(i)' <=> Underway(i) BY <1>2, <1>3 DEF Underway
  <2>2. \A r, due : MarkedAt(r, due)' <=> MarkedAt(r, due) BY <1>2 DEF MarkedAt, Date
  <2> QED BY <1>4, <1>5, <2>1, <2>2 DEF Inv, JobsMarked, JobsOf
<1>15. AnchorAligned'
  <2>1. ASSUME NEW r \in EveryRoutines, pc # "stamp" \/ r # cur, NEW t \in marks[r], NEW i \in JobsOf(r),
               ~Recoverable(jobs'[i]), jobs'[i].due <= t
        PROVE  WholePeriods(r, jobs'[i].due, t)
    BY <1>4, <2>1 DEF Inv, AnchorAligned, JobsOf
  <2> QED BY <1>2, <1>5, <2>1 DEF AnchorAligned, WholePeriods
<1>16. SubmissionAligned'
  <2>1. cur # None => Due' = Due BY <1>3, <1>4, <1>6 DEF Inv, TypeOK, Due
  <2>2. cur \in EveryRoutines => cur # None BY ScheduleAssumption DEF Routines
  <2> QED BY <1>2, <1>3, <1>4, <1>5, <2>1, <2>2 DEF Inv, SubmissionAligned, JobsOf, WholePeriods
<1> QED BY <1>8, <1>9, <1>10, <1>11, <1>12, <1>13, <1>14, <1>15, <1>16 DEF Inv

(* Every step of a drain or a worker is such a step. *)
LEMMA WorkStep ==
  ASSUME Inv, Sheltered, NEW j \in DOMAIN jobs,
         Progress(j) \/ Trouble(j) \/ ConfirmBeforeRuntime(j)
  PROVE  Inv'
<1>1. jobs[j] \in JobRecord BY RecordTyped DEF Inv
<1> PICK o \in JobRecord : o = jobs[j] BY <1>1
<1>2. faults' = faults \/ Faulty => faults' \in 0 .. MaxFaults
  BY ScheduleAssumption DEF Inv, TypeOK, Faulty
<1>3. o.status = "queued" => ~o.pid BY DEF Inv, UntakenSettled
<1>4. CASE Launch(j)
  <2> DEFINE rec == [o EXCEPT !.stamped = TRUE]
  <2>1. o.status = "queued" /\ SetJob(j, rec) /\ faults' = faults BY <1>4 DEF Launch
  <2>2. rec \in JobRecord BY DEF JobRecord
  <2>3. /\ rec.routine = o.routine /\ rec.due = o.due /\ rec.status = o.status /\ rec.pid = o.pid
    BY DEF JobRecord
  <2> HIDE DEF rec
  <2> QED BY <1>2, <1>3, <2>1, <2>2, <2>3, RecordStep DEF Recoverable
<1>5. CASE LaunchFails(j)
  <2> DEFINE rec == [o EXCEPT !.status = "failed"]
  <2>1. o.status = "queued" /\ SetJob(j, rec) /\ Faulty BY <1>5 DEF LaunchFails
  <2>2. rec \in JobRecord BY DEF JobRecord
  <2>3. /\ rec.routine = o.routine /\ rec.due = o.due /\ rec.status = "failed" /\ rec.pid = o.pid
    BY DEF JobRecord
  <2> HIDE DEF rec
  <2> QED BY <1>2, <1>3, <2>1, <2>2, <2>3, RecordStep DEF Recoverable
<1>6. CASE WorkerTakes(j)
  <2> DEFINE rec == [o EXCEPT !.status = "running", !.pid = TRUE]
  <2>1. o.status = "queued" /\ SetJob(j, rec) /\ faults' = faults BY <1>6 DEF WorkerTakes
  <2>2. rec \in JobRecord BY DEF JobRecord
  <2>3. rec.routine = o.routine /\ rec.due = o.due /\ rec.status = "running" BY DEF JobRecord
  <2> HIDE DEF rec
  <2> QED BY <1>2, <2>1, <2>2, <2>3, RecordStep DEF Recoverable
<1>7. CASE CancelQueued(j)
  <2> DEFINE rec == [o EXCEPT !.status = "cancelled"]
  <2>1. o.status = "queued" /\ SetJob(j, rec) /\ Faulty BY <1>7 DEF CancelQueued
  <2>2. rec \in JobRecord BY DEF JobRecord
  <2>3. rec.routine = o.routine /\ rec.due = o.due /\ rec.status = "cancelled" BY DEF JobRecord
  <2> HIDE DEF rec
  <2> QED BY <1>2, <2>1, <2>2, <2>3, RecordStep DEF Recoverable
<1>8. CASE InvokeRuntime(j)
  <2> DEFINE rec == [o EXCEPT !.ran = TRUE]
  <2>1. o.status = "running" /\ SetJob(j, rec) /\ faults' = faults BY <1>8 DEF InvokeRuntime
  <2>2. rec \in JobRecord BY DEF JobRecord
  <2>3. rec.routine = o.routine /\ rec.due = o.due /\ rec.status = "running"
    BY <2>1 DEF JobRecord
  <2> HIDE DEF rec
  <2> QED BY <1>2, <2>1, <2>2, <2>3, RecordStep DEF Recoverable
<1>9. CASE FailsBeforeRuntime(j)
  <2> DEFINE rec == [o EXCEPT !.status = "failed", !.phase = "pending"]
  <2>1. o.status = "running" /\ SetJob(j, rec) /\ Faulty /\ MayFail(j)
    BY <1>9 DEF FailsBeforeRuntime
  <2>2. rec \in JobRecord BY DEF JobRecord
  <2>3. /\ rec.routine = o.routine /\ rec.due = o.due /\ rec.status = "failed"
        /\ rec.stamped = o.stamped
    BY DEF JobRecord
  <2> HIDE DEF rec
  <2> QED BY <1>2, <2>1, <2>2, <2>3, RecordStep DEF Recoverable, MayFail, Sheltered
<1>10. CASE ConfirmBeforeRuntime(j)
  <2> DEFINE rec == [o EXCEPT !.phase = "before_runtime"]
  <2>1. SetJob(j, rec) /\ faults' = faults BY <1>10 DEF ConfirmBeforeRuntime
  <2>2. rec \in JobRecord BY DEF JobRecord
  <2>3. /\ rec.routine = o.routine /\ rec.due = o.due /\ rec.status = o.status /\ rec.pid = o.pid
        /\ rec.stamped = o.stamped /\ rec.phase = "before_runtime"
    BY DEF JobRecord
  <2>4. pc = "settle" /\ j = Len(jobs) /\ o.status = "failed" /\ ~o.stamped => ~o.pid
    BY DEF Inv, UntakenSettled, SettleRejects
  <2> HIDE DEF rec
  <2> QED BY <1>2, <1>3, <2>1, <2>2, <2>3, <2>4, RecordStep DEF Recoverable
<1>11. CASE FailsOtherwise(j)
  <2> DEFINE rec == [o EXCEPT !.status = "failed"]
  <2>1. o.status = "running" /\ SetJob(j, rec) /\ Faulty /\ MayFail(j) BY <1>11 DEF FailsOtherwise
  <2>2. rec \in JobRecord BY DEF JobRecord
  <2>3. /\ rec.routine = o.routine /\ rec.due = o.due /\ rec.status = "failed"
        /\ rec.stamped = o.stamped
    BY DEF JobRecord
  <2> HIDE DEF rec
  <2> QED BY <1>2, <2>1, <2>2, <2>3, RecordStep DEF Recoverable, MayFail, Sheltered
<1>12. CASE Completes(j)
  <2> DEFINE rec == [o EXCEPT !.status = "complete"]
  <2>1. o.status = "running" /\ SetJob(j, rec) /\ faults' = faults BY <1>12 DEF Completes
  <2>2. rec \in JobRecord BY DEF JobRecord
  <2>3. rec.routine = o.routine /\ rec.due = o.due /\ rec.status = "complete" BY DEF JobRecord
  <2> HIDE DEF rec
  <2> QED BY <1>2, <2>1, <2>2, <2>3, RecordStep DEF Recoverable
<1> QED BY <1>4, <1>5, <1>6, <1>7, <1>8, <1>9, <1>10, <1>11, <1>12 DEF Progress, Trouble

-----------------------------------------------------------------------------
(* The cycle *)

(* A step that leaves the clock, the markers and the records alone, and that has
   no submission in progress after it: what the cycle has read is shown. *)
LEMMA CycleOnly ==
  ASSUME Inv, UNCHANGED <<now, marks, jobs>>, TypeOK', LostStays',
         pc \in {"idle", "routines"}, pc' \in {"idle", "routines"}
  PROVE  Inv'
<1>1. cur = None /\ cur' = None BY DEF Inv, TypeOK
<1>2. \A r : NewestOwed(r)' = NewestOwed(r) /\ JobsOf(r)' = JobsOf(r)
  BY DEF NewestOwed, LastAtOccurrence, LastEveryOccurrence, Anchor, Date, JobsOf
<1>3. RetriesOnlyLost' BY <1>2 DEF Inv, RetriesOnlyLost, Recoverable, IsLaunched
<1>4. UntakenSettled' /\ PastOnly' BY DEF Inv, UntakenSettled, PastOnly
<1>5. NoneBeyondOwed' BY <1>2 DEF Inv, NoneBeyondOwed
<1>6. JobsMarked'
  <2>1. \A j : ~Underway(j) /\ ~Underway(j)' BY DEF Underway
  <2>2. \A r, due : MarkedAt(r, due)' <=> MarkedAt(r, due) BY DEF MarkedAt, Date
  <2> QED BY <1>2, <2>1, <2>2 DEF Inv, JobsMarked
<1>7. AnchorAligned' BY <1>2 DEF Inv, AnchorAligned, WholePeriods
<1>8. SubmissionAligned' BY <1>1, ScheduleAssumption DEF SubmissionAligned, Routines
<1> QED BY <1>3, <1>4, <1>5, <1>6, <1>7, <1>8 DEF Inv

(* What is read as lost is newer than every job that ran or may run. *)
LEMMA LostIsNewest ==
  ASSUME Inv, NEW r \in Routines
  PROVE  /\ LostOccurrence(r) \in Times \cup {None}
         /\ LostOccurrence(r) # None =>
              \A j \in JobsOf(r) : /\ jobs[j].due <= LostOccurrence(r)
                                   /\ jobs[j].due = LostOccurrence(r) => Recoverable(jobs[j])
<1> DEFINE F == {j \in JobsOf(r) : Recoverable(jobs[j])}
           S == {j \in JobsOf(r) : ~Recoverable(jobs[j])}
<1>1. F \in SUBSET DOMAIN jobs /\ S \in SUBSET DOMAIN jobs BY DEF JobsOf
<1>2. F # {} => Newest(F) \in Times /\ \A j \in F : jobs[j].due <= Newest(F)
  BY <1>1, NewestIsGreatest DEF Inv
<1>3. S # {} => Newest(S) \in Times /\ \A j \in S : jobs[j].due <= Newest(S)
  BY <1>1, NewestIsGreatest DEF Inv
<1>4. (F = {} => Newest(F) = None) /\ (S = {} => Newest(S) = None) BY DEF Newest
<1>5. LostOccurrence(r) = IF Newest(F) # None /\ (Newest(S) = None \/ Newest(F) > Newest(S))
                          THEN Newest(F) ELSE None
  BY DEF LostOccurrence
<1>6. \A j \in JobsOf(r) : (j \in F <=> Recoverable(jobs[j])) /\ (j \in S <=> ~Recoverable(jobs[j]))
  OBVIOUS
<1>7. \A j \in JobsOf(r) : jobs[j].due \in Nat
  BY RecordTyped DEF JobsOf, JobRecord, Times, Inv
<1>8. \A t \in Times : t \in Nat /\ t # None BY ScheduleAssumption DEF Times
<1> PICK f : f = Newest(F) OBVIOUS
<1> PICK s : s = Newest(S) OBVIOUS
<1> HIDE DEF F, S
<1>9. SUFFICES ASSUME LostOccurrence(r) # None
               PROVE  /\ LostOccurrence(r) \in Times
                      /\ \A j \in JobsOf(r) :
                           /\ jobs[j].due <= LostOccurrence(r)
                           /\ jobs[j].due = LostOccurrence(r) => Recoverable(jobs[j])
  OBVIOUS
<1>10. LostOccurrence(r) = f /\ f # None /\ (s = None \/ f > s) BY <1>5, <1>9
<1>11. f \in Times /\ \A j \in F : jobs[j].due <= f BY <1>2, <1>4, <1>10
<1>12. ASSUME NEW j \in S PROVE jobs[j].due < f
  <2>1. s \in Times /\ jobs[j].due <= s /\ j \in JobsOf(r) BY <1>3, <1>12 DEF S
  <2>2. f > s BY <1>8, <1>10, <2>1
  <2> QED BY <1>7, <1>8, <1>11, <2>1, <2>2
<1> QED BY <1>6, <1>7, <1>8, <1>10, <1>11, <1>12

(* The head of a cycle. *)
LEMMA BeginCycleStep == ASSUME Inv, BeginCycle PROVE Inv'
<1>1. /\ UNCHANGED <<now, marks, jobs, cur, faults, crashes>> /\ pc = "idle" /\ pc' = "routines"
      /\ todo' = Routines /\ lost' = [r \in Routines |-> LostOccurrence(r)]
  BY DEF BeginCycle
<1>2. TypeOK' BY <1>1, LostIsNewest DEF Inv, TypeOK
<1>3. LostStays' BY <1>1, LostIsNewest DEF LostStays, JobsOf, Recoverable, IsLaunched
<1> QED BY <1>1, <1>2, <1>3, CycleOnly

(* The steps of a cycle that submit nothing, and its end. *)
LEMMA QuietCycleStep ==
  ASSUME Inv, Sheltered,
         EndCycle \/ CycleDies \/ \E r \in Routines : SkipRoutine(r) \/ SubmitRefused(r)
  PROVE  Inv'
<1> DEFINE Quiet ==
             /\ UNCHANGED <<now, marks, jobs>> /\ pc = "routines" /\ pc' \in {"idle", "routines"}
             /\ todo' \subseteq todo /\ cur' = None /\ faults' \in 0 .. MaxFaults
             /\ crashes' \in 0 .. MaxCrashes
             /\ \/ lost' = lost
                \/ todo' = {} /\ lost' = [r \in Routines |-> None]
<1>1. Quiet
  <2>1. /\ faults \in 0 .. MaxFaults /\ crashes \in 0 .. MaxCrashes
        /\ pc = "routines" => cur = None
    BY DEF Inv, TypeOK
  <2>2. CASE EndCycle BY <2>1, <2>2 DEF EndCycle
  <2>3. CASE CycleDies BY <2>1, <2>3, ScheduleAssumption DEF CycleDies, Sheltered
  <2>4. ASSUME NEW r \in Routines, SkipRoutine(r) PROVE Quiet
    BY <2>1, <2>4 DEF SkipRoutine
  <2>5. ASSUME NEW r \in Routines, SubmitRefused(r) PROVE Quiet
    BY <2>1, <2>5, ScheduleAssumption DEF SubmitRefused
  <2> QED BY <2>2, <2>3, <2>4, <2>5
<1>2. TypeOK' BY <1>1 DEF Inv, TypeOK
<1>3. LostStays' BY <1>1 DEF Inv, LostStays, JobsOf, Recoverable, IsLaunched
<1> QED BY <1>1, <1>2, <1>3, CycleOnly

(* The clock: what is owed does not go back. *)
LEMMA TickStep == ASSUME Inv, Tick PROVE Inv'
<1>1. now' = now + 1 /\ UNCHANGED <<marks, jobs, pc, todo, lost, cur, faults, crashes>>
  BY DEF Tick, cycleVars
<1>2. now \in Nat BY ScheduleAssumption DEF Inv, TypeOK
<1>3. TypeOK' BY <1>1, ScheduleAssumption DEF Inv, TypeOK, Tick
<1>4. \A r : JobsOf(r)' = JobsOf(r) BY <1>1 DEF JobsOf
<1>5. \A j \in DOMAIN jobs : jobs[j].due \in Nat
  BY RecordTyped DEF JobRecord, Times, Inv
<1>6. PastOnly' BY <1>1, <1>2, <1>5, ScheduleAssumption DEF Inv, PastOnly, TypeOK, Times, Routines
<1>7. RetriesOnlyLost' BY <1>1, <1>4 DEF Inv, RetriesOnlyLost, Recoverable, IsLaunched
<1>8. UntakenSettled' BY <1>1 DEF Inv, UntakenSettled, SettleRejects
<1>9. NoneBeyondOwed'
  <2>1. ASSUME NEW r \in Routines, NEW j \in JobsOf(r) PROVE jobs[j].due <= NewestOwed(r)'
    <3>1. jobs[j].due <= NewestOwed(r) /\ jobs[j].due <= now /\ jobs[j].due \in Nat
      BY <1>5 DEF Inv, NoneBeyondOwed, PastOnly, JobsOf
    <3>2. CASE r \in AtRoutines
      <4>1. NewestOwed(r) = LastAtOccurrence(r) /\ NewestOwed(r)' = LastAtOccurrence(r)'
        BY <3>2 DEF NewestOwed
      <4>2. LastAtOccurrence(r) \in Nat BY <3>2, LastAt DEF Inv
      <4>3. LastAtOccurrence(r) <= LastAtOccurrence(r)' /\ LastAtOccurrence(r)' \in Int
        BY <1>1, <3>2, LastAtGrows DEF Inv
      <4> QED BY <3>1, <4>1, <4>2, <4>3
    <3>3. CASE r \in EveryRoutines /\ marks[r] = {}
      <4>1. NewestOwed(r)' = now + 1
        BY <1>1, <3>3, ScheduleAssumption DEF NewestOwed
      <4> QED BY <1>2, <3>1, <4>1
    <3>4. CASE r \in EveryRoutines /\ marks[r] # {}
      <4> PICK t \in marks[r] : TRUE BY <3>4
      <4>1. t \in Nat /\ t <= now /\ t <= now'
        BY <1>1, <1>2, <3>4, ScheduleAssumption DEF Inv, PastOnly, TypeOK, Times, Routines
      <4>2. NewestOwed(r) = OwedAfter(r, t) BY <3>4, NewestOwedCases DEF Inv
      <4>3. Anchor(r)' = t /\ marks'[r] # {} BY <1>1, <3>4, AnchorIsMark DEF Inv, Anchor
      <4>4. NewestOwed(r)' = OwedAfter(r, t)'
        BY <3>4, <4>3, ScheduleAssumption DEF NewestOwed, OwedAfter, LastEveryOccurrence
      <4>5. OwedAfter(r, t) \in Nat BY <3>4, <4>1, OwedAligned DEF Inv
      <4>6. OwedAfter(r, t) <= OwedAfter(r, t)' /\ OwedAfter(r, t)' \in Nat
        BY <1>1, <1>3, <3>4, <4>1, OwedGrows DEF Inv
      <4> QED BY <3>1, <4>2, <4>4, <4>5, <4>6
    <3> QED BY <3>2, <3>3, <3>4 DEF Routines
  <2> QED BY <1>1, <1>4, <2>1 DEF NoneBeyondOwed
<1>10. LostStays' BY <1>1, <1>4 DEF Inv, LostStays, Recoverable, IsLaunched
<1>11. JobsMarked' BY <1>1, <1>4 DEF Inv, JobsMarked, Underway, Recoverable, IsLaunched, MarkedAt, Date
<1>12. AnchorAligned' BY <1>1, <1>4 DEF Inv, AnchorAligned, Recoverable, IsLaunched, WholePeriods
<1>13. SubmissionAligned'
  BY <1>1, <1>4 DEF Inv, SubmissionAligned, Recoverable, IsLaunched, WholePeriods, Due
<1> QED BY <1>3, <1>6, <1>7, <1>8, <1>9, <1>10, <1>11, <1>12, <1>13 DEF Inv

(* Whatever fires, fires for the newest occurrence owed; every job of the routine
   is older or is known never to have run, and the anchor of a periodic routine
   lies whole periods before. *)
LEMMA FiresForOwed ==
  ASSUME Inv, pc = "routines", NEW r \in todo, Fires(r)
  PROVE  /\ DueOccurrence(r) = NewestOwed(r)
         /\ DueOccurrence(r) \in Nat /\ DueOccurrence(r) <= now
         /\ \A j \in JobsOf(r) : \/ jobs[j].due < DueOccurrence(r)
                                 \/ jobs[j].due = DueOccurrence(r) /\ Recoverable(jobs[j])
         /\ r \in EveryRoutines => \A t \in marks[r] : /\ t \in Nat /\ t <= DueOccurrence(r)
                                                       /\ WholePeriods(r, t, DueOccurrence(r))
<1>1. r \in Routines /\ now \in Nat BY ScheduleAssumption DEF Inv, TypeOK
<1>2. \A j \in JobsOf(r) : jobs[j].due \in Nat
  BY RecordTyped DEF JobsOf, JobRecord, Times, Inv
<1>3. \A j \in JobsOf(r) : jobs[j].due <= NewestOwed(r)
  BY <1>1 DEF Inv, NoneBeyondOwed
<1>4. \A j \in JobsOf(r) : Recoverable(jobs[j]) \/ MarkedAt(r, jobs[j].due)
  BY <1>1 DEF Inv, JobsMarked, Underway
<1>5. lost[r] # None => \A j \in JobsOf(r) : jobs[j].due = lost[r] => Recoverable(jobs[j])
  BY DEF Inv, LostStays
<1>6. CASE r \in AtRoutines
  <2>1. DueOccurrence(r) = LastAtOccurrence(r) /\ NewestOwed(r) = LastAtOccurrence(r)
    BY <1>6 DEF DueOccurrence, NewestOwed
  <2>2. LastAtOccurrence(r) \in Nat /\ LastAtOccurrence(r) <= now BY <1>6, LastAt DEF Inv
  <2> PICK d \in Nat : d = LastAtOccurrence(r) BY <2>2
  <2>3. ASSUME NEW j \in JobsOf(r), jobs[j].due = d PROVE Recoverable(jobs[j])
    <3>1. Date(d) \in marks[r] => lost[r] = d
      BY <1>6, <2>1 DEF Fires, AlreadyMarked
    <3>2. d # None BY <2>1 DEF Fires
    <3> QED BY <1>4, <1>5, <1>6, <2>3, <3>1, <3>2 DEF MarkedAt
  <2> QED BY <1>2, <1>3, <1>6, <2>1, <2>2, <2>3, ScheduleAssumption
<1>7. CASE r \in EveryRoutines /\ marks[r] = {}
  <2>1. r \notin AtRoutines BY <1>7, ScheduleAssumption
  <2>2. DueOccurrence(r) = now /\ NewestOwed(r) = now BY <1>7, <2>1 DEF DueOccurrence, NewestOwed
  <2>3. \A j \in JobsOf(r) : Recoverable(jobs[j]) BY <1>4, <1>7, <2>1 DEF MarkedAt
  <2> QED BY <1>1, <1>2, <1>3, <1>7, <2>2, <2>3
<1>8. CASE r \in EveryRoutines /\ marks[r] # {}
  <2>1. r \notin AtRoutines BY <1>8, ScheduleAssumption
  <2> PICK t \in marks[r] : TRUE BY <1>8
  <2>2. t \in Nat /\ t <= now
    BY <1>1, <1>8, ScheduleAssumption DEF Inv, PastOnly, TypeOK, Times
  <2>3. Anchor(r) = t /\ \A s \in marks[r] : s = t BY <1>1, <1>8, AnchorIsMark DEF Inv, TypeOK
  <2>4. NewestOwed(r) = OwedAfter(r, t) BY <1>8, NewestOwedCases DEF Inv
  <2>5. DueOccurrence(r) # None BY DEF Fires
  <2>6. /\ DueOccurrence(r) = OwedAfter(r, t)
        /\ LastEveryOccurrence(r, t) # None \/ lost[r] = t
    BY <1>8, <2>1, <2>3, <2>5 DEF DueOccurrence, OwedAfter
  <2>7. /\ OwedAfter(r, t) \in Nat /\ t <= OwedAfter(r, t) /\ OwedAfter(r, t) <= now
        /\ LastEveryOccurrence(r, t) # None => t < OwedAfter(r, t)
        /\ WholePeriods(r, t, OwedAfter(r, t))
    BY <1>8, <2>2, OwedAligned DEF Inv
  <2> PICK d \in Nat : d = OwedAfter(r, t) BY <2>7
  <2>8. ASSUME NEW j \in JobsOf(r), jobs[j].due = d PROVE Recoverable(jobs[j])
    <3>1. Recoverable(jobs[j]) \/ d <= t BY <1>4, <2>1, <2>3, <2>8 DEF MarkedAt
    <3>2. CASE d <= t
      <4>1. lost[r] = t /\ d = t BY <2>2, <2>6, <2>7, <3>2
      <4>2. t # None BY <2>5, <2>6, <4>1
      <4> QED BY <1>5, <2>8, <4>1, <4>2
    <3> QED BY <3>1, <3>2
  <2>9. ASSUME NEW j \in JobsOf(r) PROVE jobs[j].due < d \/ jobs[j].due = d
    BY <1>2, <1>3, <2>4
  <2> QED BY <2>2, <2>3, <2>4, <2>6, <2>7, <2>8, <2>9
<1> QED BY <1>1, <1>6, <1>7, <1>8 DEF Routines

(* A submission. *)
LEMMA SubmitStep == ASSUME Inv, NEW r \in Routines, Submit(r) PROVE Inv'
<1>1. /\ pc = "routines" /\ r \in todo /\ Fires(r) /\ todo' = todo \ {r} /\ cur' = r
      /\ pc' = "settle" /\ UNCHANGED <<now, marks, lost, faults, crashes>>
      /\ jobs' = Append(jobs, Queued(r, DueOccurrence(r)))
  BY DEF Submit
<1>2. /\ DueOccurrence(r) = NewestOwed(r) /\ DueOccurrence(r) \in Nat /\ DueOccurrence(r) <= now
      /\ \A j \in JobsOf(r) : \/ jobs[j].due < DueOccurrence(r)
                              \/ jobs[j].due = DueOccurrence(r) /\ Recoverable(jobs[j])
      /\ r \in EveryRoutines => \A t \in marks[r] : /\ t \in Nat /\ t <= DueOccurrence(r)
                                                    /\ WholePeriods(r, t, DueOccurrence(r))
  BY <1>1, FiresForOwed
<1> PICK d \in Nat : d = DueOccurrence(r) BY <1>2
<1>3. d \in Times BY <1>2, ScheduleAssumption DEF Inv, TypeOK, Times
<1>4. Queued(r, d) \in JobRecord BY <1>3 DEF Queued, JobRecord
<1>5. jobs \in Seq(JobRecord) BY DEF Inv, TypeOK
<1> PICK n \in Nat : n = Len(jobs) BY <1>5
<1>6. /\ jobs' \in Seq(JobRecord) /\ Len(jobs') = n + 1 /\ DOMAIN jobs = 1 .. n
      /\ DOMAIN jobs' = 1 .. (n + 1) /\ jobs'[n + 1] = Queued(r, d)
      /\ \A j \in 1 .. n : jobs'[j] = jobs[j]
  BY <1>1, <1>4, <1>5
<1>7. /\ Queued(r, d).routine = r /\ Queued(r, d).due = d /\ ~Queued(r, d).pid
      /\ Queued(r, d).status = "queued"
  BY DEF Queued
<1>8. \A x \in Routines : JobsOf(x)' = IF x = r THEN JobsOf(x) \cup {n + 1} ELSE JobsOf(x)
  BY <1>6, <1>7 DEF JobsOf
<1>9. \A x : JobsOf(x) \subseteq 1 .. n BY <1>6 DEF JobsOf
<1>10. \A x : NewestOwed(x)' = NewestOwed(x)
  BY <1>1 DEF NewestOwed, LastAtOccurrence, LastEveryOccurrence, Anchor, Date
<1>11. TypeOK'
  <2>1. jobs' # <<>> /\ jobs'[Len(jobs')].routine = r BY <1>6, <1>7
  <2>2. r # None BY ScheduleAssumption
  <2> QED BY <1>1, <1>6, <2>1, <2>2 DEF Inv, TypeOK
<1>12. RetriesOnlyLost'
  <2>1. ASSUME NEW x \in Routines, NEW i \in JobsOf(x)', NEW k \in JobsOf(x)', i < k
        PROVE  \/ jobs'[i].due < jobs'[k].due
               \/ jobs'[i].due = jobs'[k].due /\ Recoverable(jobs'[i])
    <3>1. i \in 1 .. n /\ i \in JobsOf(x) BY <1>8, <1>9, <2>1
    <3>2. CASE k = n + 1 BY <1>2, <1>6, <1>7, <1>8, <1>9, <2>1, <3>1, <3>2
    <3>3. CASE k # n + 1
      <4>1. k \in JobsOf(x) /\ k \in 1 .. n BY <1>8, <1>9, <2>1, <3>3
      <4> QED BY <1>6, <2>1, <3>1, <4>1 DEF Inv, RetriesOnlyLost
    <3> QED BY <3>2, <3>3
  <2> QED BY <2>1 DEF RetriesOnlyLost
<1>13. UntakenSettled' BY <1>1, <1>6, <1>7 DEF Inv, UntakenSettled, SettleRejects
<1>14. PastOnly' BY <1>1, <1>2, <1>6, <1>7 DEF Inv, PastOnly
<1>15. NoneBeyondOwed'
  <2>1. ASSUME NEW x \in Routines, NEW j \in JobsOf(x)' PROVE jobs'[j].due <= NewestOwed(x)
    <3>1. CASE j \in JobsOf(x) BY <1>6, <1>9, <3>1 DEF Inv, NoneBeyondOwed
    <3>2. CASE j \notin JobsOf(x)
      <4>1. x = r /\ j = n + 1 BY <1>8, <2>1, <3>2
      <4> QED BY <1>2, <1>6, <1>7, <4>1
    <3> QED BY <3>1, <3>2
  <2> QED BY <1>10, <2>1 DEF NoneBeyondOwed
<1>16. LostStays'
  <2>1. ASSUME NEW x \in todo', lost[x] # None, NEW j \in JobsOf(x)'
        PROVE  /\ jobs'[j].due <= lost[x]
               /\ jobs'[j].due = lost[x] => Recoverable(jobs'[j])
    <3>1. x \in todo /\ x # r /\ x \in Routines BY <1>1 DEF Inv, TypeOK
    <3>2. j \in JobsOf(x) /\ jobs'[j] = jobs[j] BY <1>6, <1>8, <1>9, <3>1
    <3> QED BY <2>1, <3>1, <3>2 DEF Inv, LostStays
  <2> QED BY <1>1, <2>1 DEF LostStays
<1>17. JobsMarked'
  <2>1. \A x, due : MarkedAt(x, due)' <=> MarkedAt(x, due) BY <1>1 DEF MarkedAt, Date
  <2>2. ASSUME NEW x \in Routines, NEW j \in JobsOf(x)', j # n + 1
        PROVE  Recoverable(jobs'[j]) \/ MarkedAt(x, jobs'[j].due)
    <3>1. j \in JobsOf(x) /\ jobs'[j] = jobs[j] BY <1>6, <1>8, <1>9, <2>2
    <3>2. ~Underway(j) BY <1>1 DEF Underway
    <3> QED BY <3>1, <3>2 DEF Inv, JobsMarked
  <2>3. Underway(n + 1)' BY <1>1, <1>6 DEF Underway
  <2> QED BY <2>1, <2>2, <2>3 DEF JobsMarked
<1>18. AnchorAligned'
  <2>1. ASSUME NEW x \in EveryRoutines, NEW t \in marks[x], NEW j \in JobsOf(x)',
               ~Recoverable(jobs'[j]), jobs'[j].due <= t
        PROVE  WholePeriods(x, jobs'[j].due, t)
    <3>0. x \in Routines BY DEF Routines
    <3>1. CASE j \in JobsOf(x)
      <4>1. jobs'[j] = jobs[j] BY <1>6, <1>9, <3>1
      <4> QED BY <1>1, <2>1, <3>1, <4>1 DEF Inv, AnchorAligned
    <3>2. CASE j \notin JobsOf(x)
      <4>1. x = r /\ j = n + 1 BY <1>8, <2>1, <3>0, <3>2
      <4>2. t = d BY <1>2, <1>6, <1>7, <2>1, <4>1
      <4>3. d = d + 0 * Period[x] BY <4>1, ScheduleAssumption
      <4>4. jobs'[j].due = d BY <1>6, <1>7, <4>1
      <4> QED BY <4>2, <4>3, <4>4 DEF WholePeriods
    <3> QED BY <3>1, <3>2
  <2> QED BY <1>1, <2>1 DEF AnchorAligned, WholePeriods
<1>19. SubmissionAligned'
  <2>1. Due' = d BY <1>6, <1>7 DEF Due
  <2>2. SUFFICES ASSUME r \in EveryRoutines
                 PROVE  /\ \A t \in marks[r] : t <= d
                        /\ \A j \in JobsOf(r)' : \/ j = n + 1 \/ Recoverable(jobs'[j])
                                                 \/ WholePeriods(r, jobs'[j].due, d)
    BY <1>1, <1>6, <2>1 DEF SubmissionAligned, WholePeriods
  <2>3. ASSUME NEW j \in JobsOf(r)', j # n + 1, ~Recoverable(jobs'[j])
        PROVE  WholePeriods(r, jobs'[j].due, d)
    <3>1. j \in JobsOf(r) /\ jobs'[j] = jobs[j] BY <1>6, <1>8, <1>9, <2>3
    <3>2. MarkedAt(r, jobs[j].due) BY <1>1, <2>3, <3>1 DEF Inv, JobsMarked, Underway
    <3>3. PICK t \in marks[r] : jobs[j].due <= t
      BY <2>2, <3>2, ScheduleAssumption DEF MarkedAt
    <3>4. WholePeriods(r, jobs[j].due, t)
      BY <1>1, <2>2, <2>3, <3>1, <3>3 DEF Inv, AnchorAligned
    <3>5. WholePeriods(r, t, d) /\ t \in Nat BY <1>2, <2>2
    <3>6. jobs[j].due \in Nat BY <3>1, RecordTyped DEF JobsOf, JobRecord, Times, Inv
    <3>7. WholePeriods(r, jobs[j].due, d) BY <2>2, <3>4, <3>5, <3>6, PeriodsCompose
    <3> QED BY <3>1, <3>7
  <2> QED BY <1>2, <2>2, <2>3
<1> QED BY <1>11, <1>12, <1>13, <1>14, <1>15, <1>16, <1>17, <1>18, <1>19 DEF Inv

(* _settle: a refused submission is known never to have run. *)
LEMMA SettleStep == ASSUME Inv, Settle PROVE Inv'
<1>1. /\ pc = "settle" /\ UNCHANGED <<now, marks, jobs, todo, lost, faults, crashes>>
      /\ \/ SettleRejects /\ pc' = "routines" /\ cur' = None
         \/ ~SettleRejects /\ pc' = "touch" /\ cur' = cur
  BY DEF Settle
<1>2. TypeOK' BY <1>1 DEF Inv, TypeOK
<1>3. \A r : JobsOf(r)' = JobsOf(r) /\ NewestOwed(r)' = NewestOwed(r)
  BY <1>1 DEF JobsOf, NewestOwed, LastAtOccurrence, LastEveryOccurrence, Anchor, Date
<1>4. RetriesOnlyLost' BY <1>1, <1>3 DEF Inv, RetriesOnlyLost, Recoverable, IsLaunched
<1>5. UntakenSettled' /\ PastOnly' BY <1>1 DEF Inv, UntakenSettled, PastOnly
<1>6. NoneBeyondOwed' BY <1>1, <1>3 DEF Inv, NoneBeyondOwed
<1>7. LostStays' BY <1>1, <1>3 DEF Inv, LostStays, Recoverable, IsLaunched
<1>8. JobsMarked'
  <2>1. \A r, due : MarkedAt(r, due)' <=> MarkedAt(r, due) BY <1>1 DEF MarkedAt, Date
  <2>2. SettleRejects => Recoverable(jobs[Len(jobs)])
    BY <1>1 DEF Inv, UntakenSettled, SettleRejects, Recoverable, IsLaunched
  <2>3. \A j : Underway(j) => Underway(j)' \/ Recoverable(jobs[j]) BY <1>1, <2>2 DEF Underway
  <2> QED BY <1>1, <1>3, <2>1, <2>3 DEF Inv, JobsMarked, Recoverable, IsLaunched
<1>9. AnchorAligned' BY <1>1, <1>3 DEF Inv, AnchorAligned, WholePeriods, Recoverable, IsLaunched
<1>10. SubmissionAligned'
  BY <1>1, <1>3, ScheduleAssumption
     DEF Inv, SubmissionAligned, WholePeriods, Recoverable, IsLaunched, Due, Routines
<1> QED BY <1>2, <1>4, <1>5, <1>6, <1>7, <1>8, <1>9, <1>10 DEF Inv

(* While a submission is in progress its job is the newest of its routine. *)
LEMMA DueIsNewest ==
  ASSUME Inv, cur # None
  PROVE  /\ cur \in Routines /\ Due \in Times /\ Due \in Nat /\ Due <= now
         /\ Len(jobs) \in JobsOf(cur) /\ Due <= NewestOwed(cur)
         /\ \A j \in JobsOf(cur) : jobs[j].due \in Nat /\ jobs[j].due <= Due
<1>1. jobs \in Seq(JobRecord) /\ jobs # <<>> /\ jobs[Len(jobs)].routine = cur /\ cur \in Routines
  BY DEF Inv, TypeOK
<1> PICK n \in Nat : n = Len(jobs) BY <1>1
<1>2. DOMAIN jobs = 1 .. n /\ n \in DOMAIN jobs BY <1>1
<1>3. n \in JobsOf(cur) BY <1>1, <1>2 DEF JobsOf
<1>4. \A j \in JobsOf(cur) : jobs[j].due \in Nat /\ jobs[j].due \in Times
  BY RecordTyped DEF JobsOf, JobRecord, Times, Inv
<1>5. ASSUME NEW j \in JobsOf(cur) PROVE jobs[j].due <= jobs[n].due
  <2>1. j \in 1 .. n BY <1>2 DEF JobsOf
  <2>2. j < n => jobs[j].due <= jobs[n].due
    BY <1>1, <1>3, <1>4 DEF Inv, RetriesOnlyLost
  <2> QED BY <1>3, <1>4, <2>1, <2>2
<1> QED BY <1>1, <1>2, <1>3, <1>4, <1>5 DEF Due, Inv, PastOnly, NoneBeyondOwed

(* What the new marker has to be: the markers of the other routines stay, and
   the routine's own covers every job of it. *)
LEMMA MarkerStep ==
  ASSUME Inv, cur # None, pc \in {"touch", "stamp"}, NEW S \in SUBSET Times,
         marks' = [marks EXCEPT ![cur] = S],
         UNCHANGED <<now, jobs, todo, lost, faults, crashes>>,
         TypeOK',
         cur \in AtRoutines => marks[cur] \subseteq S /\ (pc = "touch" => Date(Due) \in S),
         cur \in EveryRoutines => \E t \in S : S = {t} /\ Due <= t /\ t <= now,
         pc' # "settle", pc' # "touch", AnchorAligned', SubmissionAligned'
  PROVE  Inv'
<1>1. marks \in [Routines -> SUBSET Times] /\ cur \in Routines BY DEF Inv, TypeOK
<1>2. marks'[cur] = S /\ \A r \in Routines : r # cur => marks'[r] = marks[r] BY <1>1
<1>3. \A r : JobsOf(r)' = JobsOf(r) BY DEF JobsOf
<1>4. RetriesOnlyLost' BY <1>3 DEF Inv, RetriesOnlyLost, Recoverable, IsLaunched
<1>5. UntakenSettled' BY DEF Inv, UntakenSettled
<1>6. PastOnly' BY <1>2 DEF Inv, PastOnly, Routines
<1>7. LostStays' BY <1>3 DEF Inv, LostStays, Recoverable, IsLaunched
<1>8. NoneBeyondOwed'
  <2>1. ASSUME NEW r \in Routines, NEW j \in JobsOf(r) PROVE jobs[j].due <= NewestOwed(r)'
    <3>1. jobs[j].due <= NewestOwed(r) BY DEF Inv, NoneBeyondOwed
    <3>2. CASE r \in AtRoutines \/ r # cur
      <4>1. NewestOwed(r)' = NewestOwed(r)
        <5>1. CASE r \in AtRoutines BY <5>1 DEF NewestOwed, LastAtOccurrence, Date
        <5>2. CASE r \notin AtRoutines
          <6>1. marks'[r] = marks[r] BY <1>2, <3>2, <5>2
          <6>2. Anchor(r)' = Anchor(r) BY <6>1 DEF Anchor
          <6> QED BY <5>2, <6>1, <6>2 DEF NewestOwed, LastEveryOccurrence
        <5> QED BY <5>1, <5>2
      <4> QED BY <3>1, <4>1
    <3>3. CASE r \in EveryRoutines /\ r = cur
      <4>1. PICK t \in S : S = {t} /\ Due <= t /\ t <= now BY <3>3
      <4>2. t \in Nat BY <4>1, ScheduleAssumption DEF Times
      <4>3. jobs[j].due \in Nat /\ jobs[j].due <= Due /\ Due \in Nat BY <3>3, DueIsNewest
      <4>4. Anchor(r)' = t /\ marks'[r] # {} BY <1>2, <3>3, <4>1 DEF Anchor
      <4>5. NewestOwed(r)' = OwedAfter(r, t)
        BY <3>3, <4>4, ScheduleAssumption DEF NewestOwed, OwedAfter, LastEveryOccurrence
      <4>6. OwedAfter(r, t) \in Nat /\ t <= OwedAfter(r, t)
        BY <3>3, <4>1, <4>2, OwedAligned DEF Inv
      <4> QED BY <4>1, <4>2, <4>3, <4>5, <4>6
    <3> QED BY <3>2, <3>3 DEF Routines
  <2> QED BY <1>3, <2>1 DEF NoneBeyondOwed
<1>9. JobsMarked'
  <2>1. ASSUME NEW r \in Routines, NEW j \in JobsOf(r), ~Recoverable(jobs[j])
        PROVE  MarkedAt(r, jobs[j].due)'
    <3>1. CASE r = cur /\ r \in EveryRoutines
      <4>1. PICK t \in S : S = {t} /\ Due <= t BY <3>1
      <4>2. jobs[j].due \in Nat /\ jobs[j].due <= Due /\ Due \in Nat /\ t \in Nat
        BY <3>1, <4>1, DueIsNewest, ScheduleAssumption DEF Times
      <4>3. jobs[j].due <= t BY <4>1, <4>2
      <4> QED BY <1>2, <3>1, <4>1, <4>3, ScheduleAssumption DEF MarkedAt
    <3>2. CASE r = cur /\ r \in AtRoutines
      <4>1. j = Len(jobs) => jobs[j].due = Due BY DEF Due
      <4>2. Underway(j) => j = Len(jobs) /\ pc = "touch" BY DEF Underway
      <4>3. MarkedAt(r, jobs[j].due) \/ (j = Len(jobs) /\ pc = "touch")
        BY <2>1, <4>2 DEF Inv, JobsMarked
      <4> QED BY <1>2, <3>2, <4>1, <4>3 DEF MarkedAt, Date
    <3>3. CASE r # cur
      <4>1. j # Len(jobs) BY <3>3 DEF Inv, TypeOK, JobsOf
      <4>2. MarkedAt(r, jobs[j].due) BY <2>1, <4>1 DEF Inv, JobsMarked, Underway
      <4> QED BY <1>2, <3>3, <4>2 DEF MarkedAt, Date
    <3> QED BY <3>1, <3>2, <3>3 DEF Routines
  <2> QED BY <1>3, <2>1 DEF JobsMarked, Recoverable, IsLaunched
<1> QED BY <1>4, <1>5, <1>6, <1>7, <1>8, <1>9 DEF Inv

(* marker.touch() *)
LEMMA TouchStep == ASSUME Inv, TouchMarker PROVE Inv'
<1>1. /\ pc = "touch" /\ pc' = "stamp" /\ UNCHANGED <<now, jobs, todo, lost, cur, faults, crashes>>
      /\ marks' = [marks EXCEPT ![cur] = Touched]
  BY DEF TouchMarker
<1>2. cur # None /\ marks \in [Routines -> SUBSET Times] BY <1>1 DEF Inv, TypeOK
<1>3. cur \in Routines /\ Due \in Nat /\ Due \in Times /\ Due <= now BY <1>2, DueIsNewest
<1>4. Date(Due) \in Times
  <2>1. Date(Due) \in Nat /\ Date(Due) <= Due
    BY <1>3, Division, QuotientBelow, ScheduleAssumption DEF Date
  <2> QED BY <1>3, <2>1, ScheduleAssumption DEF Times
<1>5. now \in Times /\ now \in Nat BY ScheduleAssumption DEF Inv, TypeOK, Times
<1>6. Touched \in SUBSET Times BY <1>2, <1>3, <1>4, <1>5 DEF Touched
<1>7. cur \in EveryRoutines => Touched = {now} BY ScheduleAssumption DEF Touched
<1>8. TypeOK'
  <2>1. \A r \in EveryRoutines : \A s, t \in marks'[r] : s = t
    BY <1>1, <1>2, <1>3, <1>7 DEF Inv, TypeOK, Routines
  <2> QED BY <1>1, <1>2, <1>6, <2>1 DEF Inv, TypeOK
<1>9. AnchorAligned'
  BY <1>1, <1>2 DEF Inv, AnchorAligned, JobsOf, Recoverable, IsLaunched, WholePeriods, Routines
<1>10. SubmissionAligned'
  BY <1>1 DEF Inv, SubmissionAligned, JobsOf, Recoverable, IsLaunched, WholePeriods, Due
<1>11. cur \in AtRoutines => marks[cur] \subseteq Touched /\ Date(Due) \in Touched BY DEF Touched
<1>12. cur \in EveryRoutines => \E t \in Touched : Touched = {t} /\ Due <= t /\ t <= now
  BY <1>3, <1>5, <1>7
<1> QED BY <1>1, <1>2, <1>6, <1>8, <1>9, <1>10, <1>11, <1>12, MarkerStep

(* os.utime: the anchor is the occurrence, and the jobs before it lie whole
   periods back. *)
LEMMA StampStep == ASSUME Inv, StampMarker PROVE Inv'
<1>1. /\ pc = "stamp" /\ pc' = "routines" /\ UNCHANGED <<now, jobs, todo, lost, faults, crashes>>
      /\ cur' = None /\ marks' = [marks EXCEPT ![cur] = Stamped]
  BY DEF StampMarker
<1>2. cur # None /\ marks \in [Routines -> SUBSET Times] BY <1>1 DEF Inv, TypeOK
<1>3. cur \in Routines /\ Due \in Nat /\ Due \in Times /\ Due <= now BY <1>2, DueIsNewest
<1>4. Stamped \in SUBSET Times BY <1>2, <1>3 DEF Stamped
<1>5. cur \in EveryRoutines => Stamped = {Due} BY ScheduleAssumption DEF Stamped
<1>6. TypeOK'
  <2>1. \A r \in EveryRoutines : \A s, t \in marks'[r] : s = t
    BY <1>1, <1>2, <1>3, <1>5 DEF Inv, TypeOK, Routines
  <2> QED BY <1>1, <1>2, <1>4, <2>1 DEF Inv, TypeOK
<1>7. AnchorAligned'
  <2>1. ASSUME NEW r \in EveryRoutines, NEW t \in marks'[r], NEW j \in JobsOf(r),
               ~Recoverable(jobs[j]), jobs[j].due <= t
        PROVE  WholePeriods(r, jobs[j].due, t)
    <3>1. CASE r # cur
      <4>1. marks'[r] = marks[r] BY <1>1, <1>2, <3>1 DEF Routines
      <4> QED BY <2>1, <3>1, <4>1 DEF Inv, AnchorAligned
    <3>2. CASE r = cur
      <4>1. t = Due BY <1>1, <1>2, <1>3, <1>5, <2>1, <3>2
      <4>2. CASE j = Len(jobs)
        <5>1. jobs[j].due = Due BY <4>2 DEF Due
        <5>2. Due = Due + 0 * Period[r] BY <1>3, ScheduleAssumption
        <5> QED BY <4>1, <5>1, <5>2 DEF WholePeriods
      <4>3. CASE j # Len(jobs)
        BY <2>1, <3>2, <4>1, <4>3 DEF Inv, SubmissionAligned
      <4> QED BY <4>2, <4>3
    <3> QED BY <3>1, <3>2
  <2> QED BY <1>1, <2>1 DEF AnchorAligned, JobsOf, Recoverable, IsLaunched, WholePeriods
<1>8. SubmissionAligned' BY <1>1, ScheduleAssumption DEF SubmissionAligned, Routines
<1>9. cur \in AtRoutines => marks[cur] \subseteq Stamped BY DEF Stamped
<1>10. cur \in EveryRoutines => \E t \in Stamped : Stamped = {t} /\ Due <= t /\ t <= now
  BY <1>3, <1>5
<1> QED BY <1>1, <1>2, <1>4, <1>6, <1>7, <1>8, <1>9, <1>10, MarkerStep

-----------------------------------------------------------------------------
(* The theorems *)

(* At the start there is no job, and the anchors lie in the past. *)
LEMMA InvInit == Init => Inv
<1> SUFFICES ASSUME Init PROVE Inv OBVIOUS
<1>1. jobs = <<>> /\ cur = None /\ todo = {} /\ pc = "idle" /\ marks = FirstMarks /\ now = Start
  BY DEF Init
<1>2. TypeOK
  <2>1. \A r \in EveryRoutines : \A s, t \in marks[r] : s = t BY <1>1, ScheduleAssumption
  <2>2. marks \in [Routines -> SUBSET Times] BY <1>1, ScheduleAssumption DEF Times
  <2> QED BY <2>1, <2>2, ScheduleAssumption DEF Init, TypeOK
<1>3. \A r : JobsOf(r) = {} BY <1>1 DEF JobsOf
<1>4. RetriesOnlyLost /\ NoneBeyondOwed /\ JobsMarked /\ AnchorAligned
  BY <1>3 DEF RetriesOnlyLost, NoneBeyondOwed, JobsMarked, AnchorAligned
<1>5. UntakenSettled /\ LostStays BY <1>1 DEF UntakenSettled, LostStays
<1>6. PastOnly BY <1>1, ScheduleAssumption DEF PastOnly, Routines
<1>7. SubmissionAligned BY <1>1, ScheduleAssumption DEF SubmissionAligned, Routines
<1> QED BY <1>2, <1>4, <1>5, <1>6, <1>7 DEF Inv

(* Every step keeps the invariant. *)
LEMMA InvStep == ASSUME Sheltered, Inv, [Next]_vars PROVE Inv'
<1>1. CASE UNCHANGED vars
  <2>1. UNCHANGED <<now, marks, jobs, pc, todo, lost, cur, faults, crashes>> BY <1>1 DEF vars
  <2>2. \A r : JobsOf(r)' = JobsOf(r) /\ NewestOwed(r)' = NewestOwed(r)
    BY <2>1 DEF JobsOf, NewestOwed, LastAtOccurrence, LastEveryOccurrence, Anchor, Date
  <2>3. TypeOK' BY <2>1 DEF Inv, TypeOK
  <2>4. RetriesOnlyLost' /\ LostStays'
    BY <2>1, <2>2 DEF Inv, RetriesOnlyLost, LostStays, Recoverable, IsLaunched
  <2>5. UntakenSettled' /\ PastOnly' BY <2>1 DEF Inv, UntakenSettled, PastOnly, SettleRejects
  <2>6. NoneBeyondOwed' BY <2>1, <2>2 DEF Inv, NoneBeyondOwed
  <2>7. JobsMarked'
    BY <2>1, <2>2 DEF Inv, JobsMarked, Underway, MarkedAt, Date, Recoverable, IsLaunched
  <2>8. AnchorAligned' BY <2>1, <2>2 DEF Inv, AnchorAligned, WholePeriods, Recoverable, IsLaunched
  <2>9. SubmissionAligned'
    BY <2>1, <2>2 DEF Inv, SubmissionAligned, WholePeriods, Recoverable, IsLaunched, Due
  <2> QED BY <2>3, <2>4, <2>5, <2>6, <2>7, <2>8, <2>9 DEF Inv
<1>2. CASE Next
  <2>1. CASE CycleStep
    BY <2>1, QuietCycleStep, SubmitStep, SettleStep, TouchStep, StampStep DEF CycleStep
  <2> QED BY <1>2, <2>1, BeginCycleStep, QuietCycleStep, TickStep, WorkStep DEF Next
<1> QED BY <1>1, <1>2

(* The invariant of all behaviours in which a submission and its marker are not
   torn apart. *)
THEOREM InvAlways == ASSUME Sheltered PROVE Spec => []Inv
<1>1. Sheltered OBVIOUS
<1>2. Inv /\ [Next]_vars => Inv' BY <1>1, InvStep
<1> QED BY <1>2, InvInit, PTL DEF Spec

(* Every variable keeps its type. *)
THEOREM TypeCorrect == ASSUME Sheltered PROVE Spec => []TypeOK
<1>1. Inv => TypeOK BY DEF Inv
<1> QED BY <1>1, InvAlways, PTL

(* A routine's jobs are submitted for ever newer occurrences, and the same
   occurrence only when the earlier job is known never to have run, for every
   schedule, catch_up bound and grace window and whatever fails, as long as the
   cycle does not die between a submission and its marker and no worker fails
   before its drain has claimed its job. *)
THEOREM RetriesOnlyLostAlways == ASSUME Sheltered PROVE Spec => []RetriesOnlyLost
<1>1. Inv => RetriesOnlyLost BY DEF Inv
<1> QED BY <1>1, InvAlways, PTL

(* Under the same condition a periodic routine keeps its cadence however late
   its cycles are. *)
THEOREM CadenceKeptAlways == ASSUME Sheltered PROVE Spec => []CadenceKept
<1>1. ASSUME Inv PROVE CadenceKept
  <2>1. SUFFICES ASSUME pc # "stamp", NEW r \in EveryRoutines, NEW t \in marks[r],
                        NEW j \in JobsOf(r), ~Recoverable(jobs[j]), jobs[j].due <= t
                 PROVE  (t - jobs[j].due) % Period[r] = 0
    BY DEF CadenceKept
  <2>2. WholePeriods(r, jobs[j].due, t) BY <1>1, <2>1 DEF Inv, AnchorAligned
  <2>3. jobs[j].due \in Nat BY <1>1, RecordTyped DEF JobsOf, JobRecord, Times, Inv
  <2> PICK s \in Nat : s = jobs[j].due BY <2>3
  <2> PICK p \in Nat \ {0} : p = Period[r] BY ScheduleAssumption
  <2>4. PICK k \in Nat : t = s + k * p BY <2>2 DEF WholePeriods
  <2>5. k * p \in Nat OBVIOUS
  <2>6. t - s = k * p BY <2>4, <2>5
  <2>7. (k * p) % p = 0 BY NoRemainder
  <2> QED BY <2>6, <2>7
<1> QED BY <1>1, InvAlways, PTL

-----------------------------------------------------------------------------
(* The dashboard (AgentHealth) *)

(* No marker of an earlier run stands for a day of the model: the jobs of such a
   day would not be among the records. *)
FreshDays == \A r \in AtRoutines : \A d \in FirstMarks[r] : d < Date(Start)

(* Every job has its marker, unless the drain or the launcher turned it away. *)
JobsTouched ==
  \A r \in Routines : \A j \in JobsOf(r) :
    Underway(j) \/ TurnedAway(j) \/ MarkedAt(r, jobs[j].due)

(* The marker of a day stands for a job of that day's occurrence. *)
DaysFromJobs ==
  \A r \in AtRoutines : \A d \in marks[r] :
    d \in FirstMarks[r] \/ \E j \in JobsOf(r) : jobs[j].due = d * Day + At[r]

(* The jobs of a daily routine are due at its time of the day. *)
DuesOnSchedule ==
  \A r \in AtRoutines : \A j \in JobsOf(r) : \E d \in Nat : jobs[j].due = d * Day + At[r]

(* What relates the markers to the records, in both directions. *)
MarkersTell == JobsTouched /\ DaysFromJobs /\ DuesOnSchedule

(* A time of the day belongs to that day. *)
LEMMA DayOf ==
  ASSUME NEW d \in Nat, NEW x \in 0 .. (Day - 1) PROVE Date(d * Day + x) = d
<1> PICK n \in Nat \ {0} : n = Day BY ScheduleAssumption
<1> PICK m \in Nat : m = d * n + x OBVIOUS
<1> PICK q \in Nat : q = m \div n BY Division
<1>1. n * q <= m /\ m < n * q + n BY Division
<1>2. m = n * d + x /\ 0 <= x /\ x < n OBVIOUS
<1>3. ~(d < q)
  <2> SUFFICES ASSUME d < q PROVE FALSE OBVIOUS
  <2> PICK k \in Nat : q = d + 1 + k OBVIOUS
  <2>1. n * q = n * d + n + n * k OBVIOUS
  <2>2. n * k >= 0 OBVIOUS
  <2> QED BY <1>1, <1>2, <2>1, <2>2
<1>4. ~(q < d)
  <2> SUFFICES ASSUME q < d PROVE FALSE OBVIOUS
  <2> PICK k \in Nat : d = q + 1 + k OBVIOUS
  <2>1. n * d = n * q + n + n * k OBVIOUS
  <2>2. n * k >= 0 OBVIOUS
  <2> QED BY <1>1, <1>2, <2>1, <2>2
<1> QED BY <1>3, <1>4 DEF Date

(* Days follow one another as the clock does. *)
LEMMA DaysGrow ==
  ASSUME NEW s \in Nat, NEW t \in Nat, s <= t
  PROVE  Date(s) \in Nat /\ Date(t) \in Nat /\ Date(s) <= Date(t)
<1> PICK n \in Nat \ {0} : n = Day BY ScheduleAssumption
<1> PICK p \in Nat : p = s \div n BY Division
<1> PICK q \in Nat : q = t \div n BY Division
<1>1. n * p <= s /\ t < n * q + n BY Division
<1>2. ~(q < p)
  <2> SUFFICES ASSUME q < p PROVE FALSE OBVIOUS
  <2> PICK k \in Nat : p = q + 1 + k OBVIOUS
  <2>1. n * p = n * q + n + n * k OBVIOUS
  <2>2. n * k >= 0 OBVIOUS
  <2> QED BY <1>1, <2>1, <2>2
<1> QED BY <1>2 DEF Date

(* Today's occurrence, and the last one of a daily routine. *)
LEMMA Today ==
  ASSUME TypeOK, NEW r \in AtRoutines
  PROVE  /\ Date(now) \in Nat /\ TodayAt(r) \in Nat /\ Date(TodayAt(r)) = Date(now)
         /\ Date(Start) <= Date(now)
         /\ \E d \in Nat : LastAtOccurrence(r) = d * Day + At[r]
         /\ now >= TodayAt(r) => LastAtOccurrence(r) = TodayAt(r)
         /\ now < TodayAt(r) => Date(LastAtOccurrence(r)) # Date(now)
<1> PICK n \in Nat : n = now BY ScheduleAssumption DEF TypeOK
<1> PICK k \in Nat \ {0} : k = Day BY ScheduleAssumption
<1> PICK x \in 0 .. (Day - 1) : x = At[r] BY ScheduleAssumption
<1>1. Date(Start) <= Date(now) /\ Date(now) \in Nat
  BY DaysGrow, ScheduleAssumption DEF TypeOK
<1> PICK q \in Nat : q = Date(now) BY <1>1
<1>2. TodayAt(r) = q * k + x BY DEF TodayAt
<1>3. q * k \in Nat /\ q * k + x \in Nat OBVIOUS
<1>4. Date(TodayAt(r)) = Date(now) BY <1>2, DayOf
<1>5. now >= TodayAt(r) => LastAtOccurrence(r) = TodayAt(r)
  BY DEF LastAtOccurrence, TodayAt
<1>6. ASSUME now < TodayAt(r)
      PROVE  /\ Date(LastAtOccurrence(r)) # Date(now)
             /\ \E d \in Nat : LastAtOccurrence(r) = d * Day + At[r]
  <2>1. LastAtOccurrence(r) = q * k + x - k BY <1>2, <1>3, <1>6 DEF LastAtOccurrence, TodayAt
  <2>2. LastAtOccurrence(r) \in Nat BY LastAt
  <2>3. q # 0
    <3> SUFFICES ASSUME q = 0 PROVE FALSE OBVIOUS
    <3>1. q * k = 0 OBVIOUS
    <3> QED BY <2>1, <2>2, <3>1
  <2> PICK p \in Nat : q = p + 1 BY <2>3
  <2>4. q * k = p * k + k /\ p * k \in Nat OBVIOUS
  <2>5. LastAtOccurrence(r) = p * k + x BY <2>1, <2>4
  <2>6. Date(LastAtOccurrence(r)) = p BY <2>5, DayOf
  <2>7. LastAtOccurrence(r) = p * Day + At[r] /\ p # q BY <2>5
  <2> QED BY <2>6, <2>7
<1>7. now >= TodayAt(r) => \E d \in Nat : LastAtOccurrence(r) = d * Day + At[r]
  BY <1>2, <1>5
<1>8. now \in Nat OBVIOUS
<1> PICK t \in Nat : t = TodayAt(r) BY <1>2, <1>3
<1>9. \E d \in Nat : LastAtOccurrence(r) = d * Day + At[r]
  <2>1. now >= t \/ now < t BY <1>8
  <2> QED BY <1>6, <1>7, <2>1
<1> QED BY <1>1, <1>4, <1>5, <1>6, <1>9

(* A step that leaves the markers and the records alone, and whose submission, if
   it gives one up, was turned away. *)
LEMMA MarkersRest ==
  ASSUME MarkersTell, UNCHANGED <<marks, jobs>>,
         \A j \in DOMAIN jobs : Underway(j) => Underway(j)' \/ TurnedAway(j)
  PROVE  MarkersTell'
<1>1. \A r : JobsOf(r)' = JobsOf(r) BY DEF JobsOf
<1>2. \A r, due : MarkedAt(r, due)' <=> MarkedAt(r, due) BY DEF MarkedAt, Date
<1>3. \A j : TurnedAway(j)' <=> TurnedAway(j) BY DEF TurnedAway
<1>4. JobsTouched' BY <1>1, <1>2, <1>3 DEF MarkersTell, JobsTouched, JobsOf
<1>5. DaysFromJobs' /\ DuesOnSchedule' BY <1>1 DEF MarkersTell, DaysFromJobs, DuesOnSchedule
<1> QED BY <1>4, <1>5 DEF MarkersTell

(* Drains and workers give no job another occurrence, and what was turned away
   stays so. *)
LEMMA MarkersRecord ==
  ASSUME MarkersTell, TypeOK, NEW j \in DOMAIN jobs, NEW rec, SetJob(j, rec),
         rec.routine = jobs[j].routine, rec.due = jobs[j].due,
         TurnedAway(j) => rec.status = "failed" /\ ~rec.stamped
  PROVE  MarkersTell'
<1>1. jobs \in Seq(JobRecord) /\ jobs' = [jobs EXCEPT ![j] = rec] /\ UNCHANGED <<marks, pc>>
  BY DEF SetJob, cycleVars, TypeOK
<1>2. DOMAIN jobs' = DOMAIN jobs /\ Len(jobs') = Len(jobs) /\ jobs'[j] = rec
      /\ \A i \in DOMAIN jobs : i # j => jobs'[i] = jobs[i]
  BY <1>1
<1>3. \A i \in DOMAIN jobs : /\ jobs'[i].routine = jobs[i].routine /\ jobs'[i].due = jobs[i].due
                             /\ TurnedAway(i) => TurnedAway(i)'
  BY <1>2 DEF TurnedAway
<1>4. \A r : JobsOf(r)' = JobsOf(r) BY <1>2, <1>3 DEF JobsOf
<1>5. \A i : Underway(i)' <=> Underway(i) BY <1>1, <1>2 DEF Underway
<1>6. \A r, due : MarkedAt(r, due)' <=> MarkedAt(r, due) BY <1>1 DEF MarkedAt, Date
<1>7. JobsTouched' BY <1>3, <1>4, <1>5, <1>6 DEF MarkersTell, JobsTouched, JobsOf
<1>8. DaysFromJobs' BY <1>1, <1>3, <1>4 DEF MarkersTell, DaysFromJobs, JobsOf
<1>9. DuesOnSchedule'
  <2>1. ASSUME NEW r \in AtRoutines, NEW i \in JobsOf(r)
        PROVE  \E d \in Nat : jobs'[i].due = d * Day + At[r]
    <3>1. PICK d \in Nat : jobs[i].due = d * Day + At[r] BY DEF MarkersTell, DuesOnSchedule
    <3>2. jobs'[i].due = jobs[i].due BY <1>3 DEF JobsOf
    <3> QED BY <3>1, <3>2
  <2> QED BY <1>4, <2>1 DEF DuesOnSchedule
<1> QED BY <1>7, <1>8, <1>9 DEF MarkersTell

(* Every step of a drain or a worker is such a step. *)
LEMMA MarkersWork ==
  ASSUME MarkersTell, TypeOK, NEW j \in DOMAIN jobs,
         Progress(j) \/ Trouble(j) \/ ConfirmBeforeRuntime(j)
  PROVE  MarkersTell'
<1>1. jobs[j] \in JobRecord BY RecordTyped
<1> PICK o \in JobRecord : o = jobs[j] BY <1>1
<1>2. \E rec : /\ SetJob(j, rec) /\ rec.routine = o.routine /\ rec.due = o.due
               /\ o.status = "failed" /\ ~o.stamped => rec.status = "failed" /\ ~rec.stamped
  <2> DEFINE Kept(rec) ==
        /\ rec.routine = o.routine /\ rec.due = o.due
        /\ o.status = "failed" /\ ~o.stamped => rec.status = "failed" /\ ~rec.stamped
  <2>1. o.status = "queued" => Kept([o EXCEPT !.stamped = TRUE]) BY DEF JobRecord
  <2>2. Kept([o EXCEPT !.status = "failed"]) BY DEF JobRecord
  <2>3. o.status = "queued" => Kept([o EXCEPT !.status = "running", !.pid = TRUE])
    BY DEF JobRecord
  <2>4. o.status = "queued" => Kept([o EXCEPT !.status = "cancelled"]) BY DEF JobRecord
  <2>5. Kept([o EXCEPT !.ran = TRUE]) BY DEF JobRecord
  <2>6. Kept([o EXCEPT !.status = "failed", !.phase = "pending"]) BY DEF JobRecord
  <2>7. Kept([o EXCEPT !.phase = "before_runtime"]) BY DEF JobRecord
  <2>8. o.status = "running" => Kept([o EXCEPT !.status = "complete"]) BY DEF JobRecord
  <2>9. \E rec : SetJob(j, rec) /\ Kept(rec)
    <3> HIDE DEF Kept
    <3>1. CASE Launch(j) BY <2>1, <3>1 DEF Launch
    <3>2. CASE WorkerTakes(j) BY <2>3, <3>2 DEF WorkerTakes
    <3>3. CASE InvokeRuntime(j) BY <2>5, <3>3 DEF InvokeRuntime
    <3>4. CASE Completes(j) BY <2>8, <3>4 DEF Completes
    <3>5. CASE LaunchFails(j) BY <2>2, <3>5 DEF LaunchFails
    <3>6. CASE CancelQueued(j) BY <2>4, <3>6 DEF CancelQueued
    <3>7. CASE FailsBeforeRuntime(j) BY <2>6, <3>7 DEF FailsBeforeRuntime
    <3>8. CASE FailsOtherwise(j) BY <2>2, <3>8 DEF FailsOtherwise
    <3>9. CASE ConfirmBeforeRuntime(j) BY <2>7, <3>9 DEF ConfirmBeforeRuntime
    <3> QED BY <3>1, <3>2, <3>3, <3>4, <3>5, <3>6, <3>7, <3>8, <3>9 DEF Progress, Trouble
  <2> QED BY <2>9
<1> PICK rec : /\ SetJob(j, rec) /\ rec.routine = o.routine /\ rec.due = o.due
               /\ o.status = "failed" /\ ~o.stamped => rec.status = "failed" /\ ~rec.stamped
  BY <1>2
<1> QED BY MarkersRecord DEF TurnedAway

(* A submission: the new job is due at the time of day of its routine. *)
LEMMA MarkersSubmit ==
  ASSUME MarkersTell, Inv, NEW r \in Routines, Submit(r) PROVE MarkersTell'
<1>1. /\ pc = "routines" /\ pc' = "settle" /\ Fires(r) /\ r \in todo /\ UNCHANGED marks
      /\ jobs' = Append(jobs, Queued(r, DueOccurrence(r)))
  BY DEF Submit
<1>2. jobs \in Seq(JobRecord) BY DEF Inv, TypeOK
<1> PICK n \in Nat : n = Len(jobs) BY <1>2
<1> PICK q : q = Queued(r, DueOccurrence(r)) OBVIOUS
<1>3. /\ Len(jobs') = n + 1 /\ DOMAIN jobs = 1 .. n /\ DOMAIN jobs' = 1 .. (n + 1)
      /\ jobs'[n + 1] = q /\ \A j \in 1 .. n : jobs'[j] = jobs[j]
  BY <1>1, <1>2
<1>4. q.routine = r /\ q.due = DueOccurrence(r) BY DEF Queued
<1>5. \A x : \A j \in JobsOf(x)' :
        (j \in JobsOf(x) /\ jobs'[j] = jobs[j]) \/ (j = n + 1 /\ x = r)
  BY <1>3, <1>4 DEF JobsOf
<1>6. \A x : \A j \in JobsOf(x) : j \in JobsOf(x)' /\ jobs'[j] = jobs[j]
  BY <1>3 DEF JobsOf
<1>7. \A x, due : MarkedAt(x, due)' <=> MarkedAt(x, due) BY <1>1 DEF MarkedAt, Date
<1>8. Underway(n + 1)' BY <1>1, <1>3 DEF Underway
<1>9. JobsTouched'
  <2>1. ASSUME NEW x \in Routines, NEW j \in JobsOf(x)'
        PROVE  (Underway(j) \/ TurnedAway(j) \/ MarkedAt(x, jobs[j].due))'
    <3>1. CASE j \in JobsOf(x) /\ jobs'[j] = jobs[j]
      <4>1. ~Underway(j) BY <1>1 DEF Underway
      <4>2. TurnedAway(j) \/ MarkedAt(x, jobs[j].due)
        BY <3>1, <4>1 DEF MarkersTell, JobsTouched
      <4> QED BY <1>7, <3>1, <4>2 DEF TurnedAway
    <3> QED BY <1>5, <1>8, <2>1, <3>1
  <2> QED BY <2>1 DEF JobsTouched
<1>10. DaysFromJobs'
  <2>1. ASSUME NEW x \in AtRoutines, NEW d \in marks[x], d \notin FirstMarks[x]
        PROVE  \E j \in JobsOf(x)' : jobs'[j].due = d * Day + At[x]
    <3>1. PICK j \in JobsOf(x) : jobs[j].due = d * Day + At[x]
      BY <2>1 DEF MarkersTell, DaysFromJobs
    <3> QED BY <1>6, <3>1
  <2> QED BY <1>1, <2>1 DEF DaysFromJobs
<1>11. DuesOnSchedule'
  <2>1. ASSUME NEW x \in AtRoutines, NEW j \in JobsOf(x)'
        PROVE  \E d \in Nat : jobs'[j].due = d * Day + At[x]
    <3>1. CASE j \in JobsOf(x) /\ jobs'[j] = jobs[j]
      BY <3>1 DEF MarkersTell, DuesOnSchedule
    <3>2. CASE j = n + 1 /\ x = r
      <4>1. jobs'[j].due = LastAtOccurrence(x) BY <1>3, <1>4, <3>2 DEF DueOccurrence
      <4> QED BY <4>1, Today DEF Inv
    <3> QED BY <1>5, <2>1, <3>1, <3>2
  <2> QED BY <2>1 DEF DuesOnSchedule
<1> QED BY <1>9, <1>10, <1>11 DEF MarkersTell

(* marker.touch(): the new marker is that of the job that was submitted, and it
   covers the jobs before it. *)
LEMMA MarkersTouch == ASSUME MarkersTell, Inv, TouchMarker PROVE MarkersTell'
<1>1. pc = "touch" /\ pc' = "stamp" /\ UNCHANGED <<now, jobs>>
      /\ marks' = [marks EXCEPT ![cur] = Touched]
  BY DEF TouchMarker
<1>2. cur # None /\ marks \in [Routines -> SUBSET Times] BY <1>1 DEF Inv, TypeOK
<1>3. /\ cur \in Routines /\ Due \in Nat /\ Due <= now /\ Len(jobs) \in JobsOf(cur)
      /\ \A j \in JobsOf(cur) : jobs[j].due \in Nat /\ jobs[j].due <= Due
  BY <1>2, DueIsNewest
<1>4. marks'[cur] = Touched /\ \A r \in Routines : r # cur => marks'[r] = marks[r]
  BY <1>1, <1>2, <1>3
<1>5. now \in Nat BY ScheduleAssumption DEF Inv, TypeOK
<1>6. \A r : JobsOf(r)' = JobsOf(r) BY <1>1 DEF JobsOf
<1>7. JobsTouched'
  <2>1. ASSUME NEW r \in Routines, NEW j \in JobsOf(r), ~TurnedAway(j)
        PROVE  MarkedAt(r, jobs[j].due)'
    <3>1. CASE r # cur
      <4>1. j # Len(jobs) BY <1>2, <3>1 DEF Inv, TypeOK, JobsOf
      <4>2. MarkedAt(r, jobs[j].due)
        BY <2>1, <4>1 DEF MarkersTell, JobsTouched, Underway
      <4> QED BY <1>1, <1>4, <3>1, <4>2 DEF MarkedAt, Date
    <3>2. CASE r = cur /\ r \in AtRoutines
      <4>1. Touched = marks[r] \cup {Date(Due)} BY <3>2 DEF Touched
      <4>2. MarkedAt(r, jobs[j].due) \/ j = Len(jobs)
        BY <2>1 DEF MarkersTell, JobsTouched, Underway
      <4>3. Date(jobs[j].due) \in marks'[r]
        BY <1>4, <3>2, <4>1, <4>2 DEF MarkedAt, Due
      <4> QED BY <1>1, <3>2, <4>3 DEF MarkedAt, Date
    <3>3. CASE r = cur /\ r \in EveryRoutines
      <4>1. Touched = {now} /\ r \notin AtRoutines BY <3>3, ScheduleAssumption DEF Touched
      <4>2. jobs[j].due <= now BY <1>3, <1>5, <3>3
      <4> QED BY <1>4, <3>3, <4>1, <4>2, <1>1 DEF MarkedAt
    <3> QED BY <3>1, <3>2, <3>3 DEF Routines
  <2> QED BY <1>1, <1>6, <2>1 DEF JobsTouched, TurnedAway
<1>8. DuesOnSchedule' BY <1>1, <1>6 DEF MarkersTell, DuesOnSchedule
<1>9. DaysFromJobs'
  <2>1. ASSUME NEW r \in AtRoutines, NEW d \in marks'[r], d \notin FirstMarks[r]
        PROVE  \E j \in JobsOf(r) : jobs[j].due = d * Day + At[r]
    <3>1. r \in Routines BY DEF Routines
    <3>2. CASE d \in marks[r] BY <2>1, <3>2 DEF MarkersTell, DaysFromJobs
    <3>3. CASE d \notin marks[r]
      <4>1. r = cur /\ d = Date(Due) BY <1>4, <2>1, <3>1, <3>3 DEF Touched
      <4>2. Due = jobs[Len(jobs)].due BY DEF Due
      <4>3. PICK k \in Nat : Due = k * Day + At[r]
        BY <1>3, <4>1, <4>2 DEF MarkersTell, DuesOnSchedule
      <4>4. Date(Due) = k BY <4>3, DayOf, ScheduleAssumption
      <4> QED BY <1>3, <4>1, <4>2, <4>3, <4>4
    <3> QED BY <3>2, <3>3
  <2> QED BY <1>1, <1>6, <2>1 DEF DaysFromJobs
<1> QED BY <1>7, <1>8, <1>9 DEF MarkersTell

(* os.utime: the anchor covers the jobs submitted so far. *)
LEMMA MarkersStamp == ASSUME MarkersTell, Inv, StampMarker PROVE MarkersTell'
<1>1. pc = "stamp" /\ pc' = "routines" /\ UNCHANGED <<now, jobs>>
      /\ marks' = [marks EXCEPT ![cur] = Stamped]
  BY DEF StampMarker
<1>2. cur # None /\ marks \in [Routines -> SUBSET Times] BY <1>1 DEF Inv, TypeOK
<1>3. /\ cur \in Routines /\ \A j \in JobsOf(cur) : jobs[j].due \in Nat /\ jobs[j].due <= Due
  BY <1>2, DueIsNewest
<1>4. marks'[cur] = Stamped /\ \A r \in Routines : r # cur => marks'[r] = marks[r]
  BY <1>1, <1>2, <1>3
<1>5. \A r : JobsOf(r)' = JobsOf(r) BY <1>1 DEF JobsOf
<1>6. \A r \in AtRoutines : marks'[r] = marks[r] BY <1>4 DEF Stamped, Routines
<1>7. JobsTouched'
  <2>1. ASSUME NEW r \in Routines, NEW j \in JobsOf(r), ~TurnedAway(j)
        PROVE  MarkedAt(r, jobs[j].due)'
    <3>1. MarkedAt(r, jobs[j].due) BY <1>1, <2>1 DEF MarkersTell, JobsTouched, Underway
    <3>2. CASE r # cur \/ r \in AtRoutines
      <4>1. marks'[r] = marks[r] BY <1>4, <1>6, <3>2
      <4> QED BY <1>1, <3>1, <4>1 DEF MarkedAt, Date
    <3>3. CASE r = cur /\ r \in EveryRoutines
      <4>1. Stamped = {Due} /\ r \notin AtRoutines BY <3>3, ScheduleAssumption DEF Stamped
      <4>2. jobs[j].due <= Due BY <1>3, <3>3
      <4> QED BY <1>1, <1>4, <3>3, <4>1, <4>2 DEF MarkedAt
    <3> QED BY <3>2, <3>3 DEF Routines
  <2> QED BY <1>1, <1>5, <2>1 DEF JobsTouched, TurnedAway
<1>8. DuesOnSchedule' /\ DaysFromJobs'
  BY <1>1, <1>5, <1>6 DEF MarkersTell, DuesOnSchedule, DaysFromJobs
<1> QED BY <1>7, <1>8 DEF MarkersTell

(* Every step keeps the markers and the records together. *)
LEMMA MarkersStep ==
  ASSUME Sheltered, Inv, MarkersTell, [Next]_vars PROVE MarkersTell'
<1>1. UNCHANGED vars \/ BeginCycle \/ Tick => MarkersTell'
  <2>1. UNCHANGED vars \/ BeginCycle \/ Tick => UNCHANGED <<marks, jobs>> BY DEF vars, BeginCycle, Tick
  <2>2. ASSUME UNCHANGED vars \/ BeginCycle \/ Tick, NEW j, Underway(j) PROVE Underway(j)'
    BY <2>2 DEF vars, BeginCycle, Tick, cycleVars, Underway
  <2> QED BY <2>1, <2>2, MarkersRest
<1>2. ASSUME EndCycle \/ CycleDies \/ \E r \in Routines : SkipRoutine(r) \/ SubmitRefused(r)
      PROVE  MarkersTell'
  <2>1. UNCHANGED <<marks, jobs>> /\ pc = "routines"
    BY <1>2 DEF EndCycle, CycleDies, SkipRoutine, SubmitRefused, Sheltered
  <2>2. \A j : ~Underway(j) BY <2>1 DEF Underway
  <2> QED BY <2>1, <2>2, MarkersRest
<1>3. ASSUME Settle PROVE MarkersTell'
  <2>1. /\ pc = "settle" /\ UNCHANGED <<marks, jobs>>
        /\ pc' = IF SettleRejects THEN "routines" ELSE "touch"
    BY <1>3 DEF Settle
  <2>2. SettleRejects => TurnedAway(Len(jobs)) BY DEF SettleRejects, TurnedAway
  <2>3. \A j : Underway(j) => Underway(j)' \/ TurnedAway(j) BY <2>1, <2>2 DEF Underway
  <2> QED BY <2>1, <2>3, MarkersRest
<1>4. CASE Next
  <2>1. TypeOK BY DEF Inv
  <2>2. CASE CycleStep
    BY <1>2, <1>3, <2>2, MarkersSubmit, MarkersTouch, MarkersStamp DEF CycleStep
  <2> QED BY <1>1, <1>2, <1>4, <2>1, <2>2, MarkersWork DEF Next
<1> QED BY <1>1, <1>4

(* What a page reads of a late routine. *)
LEMMA LateRoutine ==
  ASSUME TypeOK, NEW r \in Routines, NEW l \in RoutineLateness(r)
  PROVE  /\ l.routine = r /\ l.due \in Nat /\ l.state \in {"overdue", "due"}
         /\ r \in AtRoutines =>
              l.due = TodayAt(r) /\ now >= TodayAt(r) /\ Date(now) \notin marks[r]
         /\ r \in EveryRoutines => \A t \in marks[r] : t \in Nat /\ l.due = t + Period[r]
<1>1. \A due : \A k \in AsLateness(r, due) :
        k.routine = r /\ k.due = due /\ k.state \in {"overdue", "due"}
  BY DEF AsLateness
<1>2. CASE r \in AtRoutines
  <2>1. l \in AsLateness(r, TodayAt(r)) /\ ~(now < TodayAt(r)) /\ Date(now) \notin marks[r]
    BY <1>2 DEF RoutineLateness, AtLateness
  <2>2. TodayAt(r) \in Nat BY <1>2, Today
  <2>3. now \in Nat BY ScheduleAssumption DEF TypeOK
  <2> QED BY <1>1, <1>2, <2>1, <2>2, <2>3, ScheduleAssumption
<1>3. CASE r \in EveryRoutines
  <2>1. marks[r] # {} /\ l \in AsLateness(r, Anchor(r) + Period[r])
    BY <1>3, ScheduleAssumption DEF RoutineLateness, EveryLateness
  <2>2. PICK t \in marks[r] : TRUE BY <2>1
  <2>3. t \in Nat BY ScheduleAssumption DEF TypeOK, Times
  <2>4. \A s \in marks[r] : s = t /\ Anchor(r) = t BY <1>3, <2>2, AnchorIsMark DEF TypeOK
  <2>5. t + Period[r] \in Nat BY <1>3, <2>3, ScheduleAssumption
  <2> QED BY <1>1, <1>3, <2>1, <2>2, <2>3, <2>4, <2>5, ScheduleAssumption
<1> QED BY <1>2, <1>3 DEF Routines

(* A late routine makes the page late, whichever lateness it shows. *)
LEMMA LateAgent ==
  ASSUME TypeOK, NEW r \in Routines, RoutineLateness(r) # {}
  PROVE  AgentStatuses \cap {"healthy", "never_run"} = {}
<1> DEFINE all == UNION {RoutineLateness(x) : x \in Routines}
           worst == IF \E l \in all : l.state = "overdue"
                    THEN {l \in all : l.state = "overdue"} ELSE all
           dues == {l.due : l \in worst}
<1>1. all # {} OBVIOUS
<1>2. \A l \in all : l.due \in Nat /\ l.state \in {"overdue", "due"} BY LateRoutine
<1>3. ScheduleLateness = {l \in worst : \A k \in worst : l.due <= k.due} BY DEF ScheduleLateness
<1> HIDE DEF all
<1>4. worst # {} /\ worst \subseteq all BY <1>1
<1> HIDE DEF worst
<1>5. dues \in SUBSET Nat /\ dues # {} BY <1>2, <1>4
<1>6. PICK d \in dues : \A x \in dues : d <= x BY <1>5, Least
<1>7. PICK l \in worst : l.due = d BY <1>6
<1>8. \A k \in worst : l.due <= k.due BY <1>6, <1>7
<1>9. ScheduleLateness # {} /\ \A k \in ScheduleLateness : k.state \in {"overdue", "due"}
  BY <1>2, <1>3, <1>4, <1>7, <1>8
<1>10. \A b \in BOOLEAN : DescribeHealth(b) \subseteq {"job_failed", "due", "overdue"}
  BY <1>9 DEF DescribeHealth
<1>11. AgentStatuses \subseteq {"job_failed", "due", "overdue"} BY <1>10 DEF AgentStatuses
<1> QED BY <1>11

(* A page that shows an agent late tells the truth. *)
LEMMA LatenessTrue ==
  ASSUME FreshDays, Inv, MarkersTell PROVE LatenessIsReal
<1> SUFFICES ASSUME MarkersSettled PROVE
      /\ \A l \in ScheduleLateness : \A j \in JobsOf(l.routine) :
           jobs[j].due >= l.due => TurnedAway(j)
      /\ \A r \in AtRoutines :
           /\ now >= TodayAt(r)
           /\ \A j \in JobsOf(r) : jobs[j].due # TodayAt(r)
           => AgentStatuses \cap {"healthy", "never_run"} = {}
  BY DEF LatenessIsReal
<1>0. TypeOK BY DEF Inv
<1>1. \A r \in Routines : \A j \in JobsOf(r) : TurnedAway(j) \/ MarkedAt(r, jobs[j].due)
  BY DEF MarkersTell, JobsTouched, Underway, MarkersSettled
<1>2. ASSUME NEW l \in ScheduleLateness, NEW j \in JobsOf(l.routine), jobs[j].due >= l.due
      PROVE  TurnedAway(j)
  <2>1. PICK r \in Routines : l \in RoutineLateness(r)
    <3>1. ScheduleLateness \subseteq UNION {RoutineLateness(x) : x \in Routines}
      BY DEF ScheduleLateness
    <3> QED BY <3>1
  <2>2. /\ l.routine = r /\ l.due \in Nat
        /\ r \in AtRoutines =>
             l.due = TodayAt(r) /\ now >= TodayAt(r) /\ Date(now) \notin marks[r]
        /\ r \in EveryRoutines => \A t \in marks[r] : t \in Nat /\ l.due = t + Period[r]
    BY <1>0, <2>1, LateRoutine
  <2>3. jobs[j].due \in Nat /\ j \in JobsOf(r)
    BY <1>0, <2>2, RecordTyped DEF JobsOf, JobRecord, Times
  <2>4. SUFFICES ~MarkedAt(r, jobs[j].due) BY <1>1, <2>3
  <2>5. CASE r \in AtRoutines
    <3>1. jobs[j].due <= NewestOwed(r) BY <2>3 DEF Inv, NoneBeyondOwed
    <3>2. NewestOwed(r) = TodayAt(r) BY <1>0, <2>2, <2>5, Today DEF NewestOwed
    <3>3. jobs[j].due = TodayAt(r) BY <1>2, <2>2, <2>3, <2>5, <3>1, <3>2
    <3>4. Date(jobs[j].due) = Date(now) BY <1>0, <2>5, <3>3, Today
    <3> QED BY <2>2, <2>5, <3>4 DEF MarkedAt
  <2>6. CASE r \in EveryRoutines
    <3>1. Period[r] \in Nat \ {0} BY <2>6, ScheduleAssumption
    <3>2. \A t \in marks[r] : ~(jobs[j].due <= t) BY <1>2, <2>2, <2>3, <2>6, <3>1
    <3> QED BY <2>6, <3>2, ScheduleAssumption DEF MarkedAt
  <2> QED BY <2>5, <2>6 DEF Routines
<1>3. ASSUME NEW r \in AtRoutines, now >= TodayAt(r),
             \A j \in JobsOf(r) : jobs[j].due # TodayAt(r)
      PROVE  AgentStatuses \cap {"healthy", "never_run"} = {}
  <2>1. Date(now) \in Nat /\ Date(Start) <= Date(now) /\ TodayAt(r) \in Nat
    BY <1>0, Today
  <2>2. Date(now) \notin FirstMarks[r]
    <3>1. Date(Start) \in Nat BY DaysGrow, ScheduleAssumption
    <3> QED BY <2>1, <3>1 DEF FreshDays
  <2>3. Date(now) \notin marks[r]
    BY <1>3, <2>2 DEF MarkersTell, DaysFromJobs, TodayAt
  <2>4. now \in Nat BY <1>0, ScheduleAssumption DEF TypeOK
  <2>5. ~(now < TodayAt(r)) BY <1>3, <2>1, <2>4
  <2>6. RoutineLateness(r) # {} BY <2>3, <2>5 DEF RoutineLateness, AtLateness, AsLateness
  <2> QED BY <1>0, <2>6, LateAgent DEF Routines
<1> QED BY <1>2, <1>3

(* The next run the page shows is not after an occurrence of today that a cycle
   is about to start. *)
LEMMA NextRunTrue == ASSUME Inv PROVE NextRunIsHonest
<1>1. TypeOK BY DEF Inv
<1> SUFFICES ASSUME NEW r \in todo, Fires(r), Date(DueOccurrence(r)) = Date(now),
                    lost[r] # DueOccurrence(r)
             PROVE  NextRun <= now
  BY DEF NextRunIsHonest
<1>2. r \in Routines /\ now \in Nat BY <1>1, ScheduleAssumption DEF TypeOK
<1>3. NextOccurrence(r) <= now
  <2>1. CASE r \in AtRoutines
    <3>1. DueOccurrence(r) = LastAtOccurrence(r) BY <2>1 DEF DueOccurrence
    <3>2. TodayAt(r) \in Nat /\ ~(now < TodayAt(r)) BY <1>1, <1>2, <2>1, <3>1, Today
    <3>3. Date(now) \notin marks[r] BY <2>1 DEF Fires, AlreadyMarked
    <3>4. NextOccurrence(r) = TodayAt(r) + 0 BY <2>1, <3>3 DEF NextOccurrence
    <3> QED BY <1>2, <3>2, <3>4
  <2>2. CASE r \in EveryRoutines
    <3>1. r \notin AtRoutines BY <2>2, ScheduleAssumption
    <3>2. CASE marks[r] = {} BY <1>2, <3>1, <3>2 DEF NextOccurrence
    <3>3. CASE marks[r] # {}
      <4>1. PICK t \in marks[r] : TRUE BY <3>3
      <4>2. t \in Nat /\ Anchor(r) = t
        BY <1>1, <1>2, <2>2, <4>1, AnchorIsMark, ScheduleAssumption DEF TypeOK, Times
      <4>3. LastEveryOccurrence(r, t) # None
        BY <3>1, <3>3, <4>2 DEF Fires, DueOccurrence
      <4>4. Period[r] \in Nat BY <2>2, ScheduleAssumption
      <4>5. now - t >= Period[r] BY <1>2, <4>2, <4>3, <4>4 DEF LastEveryOccurrence
      <4>6. NextOccurrence(r) = t + Period[r] BY <3>1, <3>3, <4>2 DEF NextOccurrence
      <4> QED BY <1>2, <4>2, <4>4, <4>5, <4>6
    <3> QED BY <3>2, <3>3
  <2> QED BY <1>2, <2>1, <2>2 DEF Routines
<1> DEFINE S == {NextOccurrence(x) : x \in Routines}
<1>4. ASSUME NEW x \in Routines PROVE NextOccurrence(x) \in Nat
  <2>1. CASE x \in AtRoutines
    <3>1. TodayAt(x) \in Nat /\ Day \in Nat BY <1>1, <2>1, Today, ScheduleAssumption
    <3> QED BY <2>1, <3>1 DEF NextOccurrence
  <2>2. CASE x \in EveryRoutines
    <3>1. x \notin AtRoutines /\ Period[x] \in Nat BY <2>2, ScheduleAssumption
    <3>2. ASSUME marks[x] # {} PROVE Anchor(x) \in Nat
      <4>1. PICK t \in marks[x] : TRUE BY <3>2
      <4> QED BY <1>1, <2>2, <4>1, AnchorIsMark, ScheduleAssumption DEF TypeOK, Times
    <3> QED BY <1>2, <3>1, <3>2 DEF NextOccurrence
  <2> QED BY <2>1, <2>2 DEF Routines
<1>5. S \in SUBSET Nat /\ NextOccurrence(r) \in S /\ NextRun = Min(S) BY <1>2, <1>4 DEF NextRun
<1> HIDE DEF S
<1>6. \E x \in S : \A y \in S : x <= y BY <1>5, Least
<1>7. Min(S) \in S /\ \A y \in S : Min(S) <= y BY <1>6 DEF Min
<1>8. PICK k \in Nat : k = Min(S) BY <1>5, <1>7
<1>9. PICK o \in Nat : o = NextOccurrence(r) BY <1>2, <1>4
<1>10. k <= o /\ o <= now BY <1>3, <1>5, <1>7, <1>8, <1>9
<1> QED BY <1>2, <1>5, <1>8, <1>10

(* What the dashboard shows of the schedule agrees with what the cycle does: an
   agent is shown late exactly when work is missing, and its next run is never
   shown after an occurrence of the day that a cycle starts (health.py against
   run.py), for every set of routines, schedules and bounds, when no submission is
   torn from its marker and the markers at the start are of earlier days. *)
THEOREM DashboardIsHonestAlways ==
  ASSUME Sheltered, FreshDays PROVE Spec => []DashboardIsHonest
<1>1. Sheltered /\ FreshDays OBVIOUS
<1>2. Init => Inv /\ MarkersTell
  <2> SUFFICES ASSUME Init PROVE MarkersTell BY InvInit
  <2>1. jobs = <<>> /\ marks = FirstMarks BY DEF Init
  <2>2. \A r : JobsOf(r) = {} BY <2>1 DEF JobsOf
  <2> QED BY <2>1, <2>2 DEF MarkersTell, JobsTouched, DaysFromJobs, DuesOnSchedule
<1>3. Inv /\ MarkersTell /\ [Next]_vars => (Inv /\ MarkersTell)'
  BY <1>1, InvStep, MarkersStep
<1>4. Inv /\ MarkersTell => DashboardIsHonest
  BY <1>1, LatenessTrue, NextRunTrue DEF DashboardIsHonest
<1> QED BY <1>2, <1>3, <1>4, PTL DEF Spec

-----------------------------------------------------------------------------
(***************************************************************************)
(* The timer that starts the cycles (DispatchTimer): what its status is     *)
(* worth, for any number of administrators, configurations and intervals.   *)
(*                                                                         *)
(* The argument: a running timer differs from the definition on disk only   *)
(* while some installation has written a file and not yet told systemd      *)
(* (Fresh).  On launchd the label is unloaded before anything is written,   *)
(* and a removal stops the timer before it removes a file, so whoever is    *)
(* past that step sees no timer (Stopped); both need that nobody else works *)
(* at the same time (RemovesAlone).                                         *)
(***************************************************************************)

TimerSpec == TimerInit /\ [][TimerNext]_timerVars

\* The operations the results are about: no update stops between its files and
\* their reload, a stop command that fails is noticed, and installations do not
\* overlap on launchd, where the label is unloaded and loaded around the write.
Calm == ~LateInterrupts /\ ~IgnoredErrors /\ "macos" \notin OverlapOn

\* The steps an operation of this kind has on platform p.
Steps(p, kind) ==
  {"idle", "approve"} \cup
  (IF p = "linux"
   THEN IF kind = "remove" THEN {"disable", "no timer", "no service"}
        ELSE {"service", "timer", "reload", "enable"}
   ELSE IF p = "macos"
   THEN IF kind = "remove" THEN {"unload", "no plist"} ELSE {"unload", "plist", "load"}
   ELSE IF kind = "remove" THEN {"delete"} ELSE {"register"})

Pcs ==
  {"idle", "approve", "disable", "no timer", "no service", "service", "timer", "reload",
   "enable", "unload", "no plist", "plist", "load", "delete", "register"}

Kinds == {"none", "repair", "install", "remove"}

AnyOperation ==
  [pc : Pcs, kind : Kinds, config : Configs \cup {Absent}, interval : Intervals \cup {Absent},
   approved : BOOLEAN]

TimerTypeOK ==
  /\ platform \in Platforms
  /\ service \in Configs \cup {Absent, Torn}
  /\ unit \in Intervals \cup {Absent}
  /\ loaded \in [config : Configs \cup {Absent, Torn}, interval : Intervals \cup {Absent}]
                \cup {Absent}
  /\ interval \in [Configs -> Intervals]
  /\ ops \in [Admins -> AnyOperation]
  /\ interrupts \in Nat

\* An operation under way works for a configuration, in a step of its kind.
StepsFit ==
  \A a \in Admins :
    ops[a].pc # "idle" =>
      /\ ops[a].pc \in Steps(platform, ops[a].kind)
      /\ ops[a].config \in Configs /\ ops[a].interval \in Intervals

\* Two operations are under way only where installations may overlap.
RemovesAlone ==
  \A a, b \in Admins :
    a # b /\ ops[a].pc # "idle" /\ ops[b].pc # "idle" =>
      /\ platform \in OverlapOn
      /\ ops[a].kind # "remove" /\ ops[b].kind # "remove"

\* A running timer is the one on disk, or somebody has yet to reload it.
Fresh ==
  \/ loaded = Absent
  \/ loaded = OnDisk
  \/ \E a \in Admins : ops[a].pc \in {"timer", "reload"}

\* Where the timer is stopped before its files change, nothing runs meanwhile.
Stopped ==
  \A a \in Admins :
    /\ ops[a].pc \in {"no timer", "no service", "no plist", "plist", "load"} =>
         loaded = Absent
    /\ ops[a].pc = "load" => service # Absent

\* launchd runs no label without a property list.
ListedWhenLoaded == platform = "macos" /\ loaded # Absent => service # Absent

TimerInv ==
  /\ TimerTypeOK /\ StepsFit /\ RemovesAlone /\ Fresh /\ Stopped /\ ListedWhenLoaded

-----------------------------------------------------------------------------
\* The initial state, no timer and nobody at work, satisfies the invariant.
LEMMA InitInv == TimerInit => TimerInv
<1> SUFFICES ASSUME TimerInit PROVE TimerInv
  OBVIOUS
<1> \A a \in Admins : ops[a] = Idle
  BY DEF TimerInit
<1>1. TimerTypeOK
  BY TimerAssumption DEF TimerInit, TimerTypeOK, Idle, AnyOperation, Pcs, Kinds
<1>2. StepsFit /\ RemovesAlone /\ Fresh /\ Stopped /\ ListedWhenLoaded
  BY DEF StepsFit, RemovesAlone, Fresh, Stopped, ListedWhenLoaded, TimerInit, Idle
<1> QED BY <1>1, <1>2 DEF TimerInv

-----------------------------------------------------------------------------
\* What Goto does: it moves one administrator to a step, or lets it go.
LEMMA GotoMoves ==
  ASSUME TimerTypeOK, NEW a \in Admins, NEW step \in Pcs, Goto(a, step)
  PROVE  /\ ops' \in [Admins -> AnyOperation]
         /\ \A b \in Admins : b # a => ops'[b] = ops[b]
         /\ ops'[a].pc = step
         /\ step # "idle" =>
              /\ ops'[a].kind = ops[a].kind /\ ops'[a].config = ops[a].config
              /\ ops'[a].interval = ops[a].interval
<1>1. CASE step = "idle"
  <2>1. Idle \in AnyOperation
    BY DEF Idle, AnyOperation, Pcs, Kinds
  <2>2. ops' = [ops EXCEPT ![a] = Idle]
    BY <1>1 DEF Goto
  <2>3. Idle.pc = "idle"
    BY DEF Idle
  <2> QED BY <2>1, <2>2, <2>3, <1>1 DEF TimerTypeOK
<1>2. CASE step # "idle"
  <2>1. ops' = [ops EXCEPT ![a] = [ops[a] EXCEPT !.pc = step]]
    BY <1>2 DEF Goto
  <2> QED BY <2>1, <1>2 DEF TimerTypeOK, AnyOperation
<1> QED BY <1>1, <1>2

\* Administrator a goes to a step of its operation: what stays true of the
\* operations, whatever happens to the timer.
LEMMA GotoKeeps ==
  ASSUME TimerTypeOK, StepsFit, RemovesAlone, NEW a \in Admins, NEW step \in Pcs, Goto(a, step),
         ops[a].pc # "idle", platform' = platform, step \in Steps(platform, ops[a].kind)
  PROVE  StepsFit' /\ RemovesAlone'
<1>1. /\ \A b \in Admins : b # a => ops'[b] = ops[b]
      /\ ops'[a].pc = step
      /\ step # "idle" =>
           /\ ops'[a].kind = ops[a].kind /\ ops'[a].config = ops[a].config
           /\ ops'[a].interval = ops[a].interval
  BY GotoMoves
<1>2. StepsFit'
  BY <1>1 DEF StepsFit
<1>3. RemovesAlone'
  BY <1>1 DEF RemovesAlone
<1> QED BY <1>2, <1>3

\* A page or a command begins an operation.
LEMMA BeginInv ==
  ASSUME TimerInv, NEW a \in Admins, NEW kind \in Kinds, NEW c \in Configs, NEW i \in Intervals,
         NEW approved \in BOOLEAN, Begin(a, Operation(kind, c, i, approved)),
         interval' \in [Configs -> Intervals]
  PROVE  TimerInv'
<1> DEFINE op == Operation(kind, c, i, approved)
<1>1. op \in AnyOperation
  BY DEF Operation, AnyOperation, Pcs, Kinds
<1>2. op.pc = "approve" /\ op.kind = kind /\ op.config = c /\ op.interval = i
  BY DEF Operation
<1> HIDE DEF op
<1>3. ops' = [ops EXCEPT ![a] = op] /\ ops[a].pc = "idle" /\ MayBegin(a, kind)
  BY <1>2 DEF Begin, op
<1>4. UNCHANGED <<platform, service, unit, loaded, interrupts>>
  BY DEF Begin
<1>5. ops \in [Admins -> AnyOperation]
  BY DEF TimerInv, TimerTypeOK
<1>6. ops' \in [Admins -> AnyOperation] /\ ops'[a] = op
      /\ \A b \in Admins : b # a => ops'[b] = ops[b]
  BY <1>1, <1>3, <1>5
<1>7. TimerTypeOK'
  BY <1>4, <1>6 DEF TimerInv, TimerTypeOK
<1>8. StepsFit'
  BY <1>2, <1>4, <1>6 DEF TimerInv, StepsFit, Steps
<1>9. RemovesAlone'
  BY <1>2, <1>3, <1>4, <1>6 DEF TimerInv, RemovesAlone, MayBegin
<1>10. Fresh'
  BY <1>3, <1>4, <1>6 DEF TimerInv, Fresh, OnDisk
<1>11. Stopped' /\ ListedWhenLoaded'
  BY <1>2, <1>4, <1>6 DEF TimerInv, Stopped, ListedWhenLoaded
<1> QED BY <1>7, <1>8, <1>9, <1>10, <1>11 DEF TimerInv

-----------------------------------------------------------------------------
\* The platform is one of the three, and the operation under way on launchd, or
\* the removal under way anywhere, is the only one.
LEMMA WorksAlone ==
  ASSUME Calm, TimerInv, NEW a \in Admins, ops[a].pc # "idle",
         platform = "macos" \/ ops[a].kind = "remove"
  PROVE  \A b \in Admins : b # a => ops[b].pc = "idle"
BY DEF Calm, TimerInv, RemovesAlone

\* A step of an operation under way: each writes or removes a file, or tells the
\* platform, and goes to the next one.
LEMMA StepInv ==
  ASSUME Calm, TimerInv, NEW a \in Admins, TimerStep(a)
  PROVE  TimerInv'
<1> platform \in {"linux", "macos", "windows"} /\ platform' = platform
  BY TimerAssumption DEF TimerInv, TimerTypeOK, TimerStep, Approve, WriteService, WriteTimer,
     DaemonReload, Enable, Disable, RemoveTimer, RemoveService, Unload, WritePlist, Load,
     RemovePlist, RegisterTask, DeleteTask
<1>2. CASE WriteService(a)
  <2>1. ops[a].pc = "service" /\ Goto(a, "timer")
    BY <1>2 DEF WriteService
  <2>2. ops[a].config \in Configs /\ ops[a].interval \in Intervals
        /\ ops[a].pc \in Steps(platform, ops[a].kind)
    BY <2>1 DEF TimerInv, StepsFit
  <2>3. "timer" \in Pcs /\ "timer" \in Steps(platform, ops[a].kind)
    BY <2>1, <2>2 DEF Pcs, Steps
  <2>4. StepsFit' /\ RemovesAlone'
    BY <2>1, <2>3, GotoKeeps DEF TimerInv
  <2>5. ops' \in [Admins -> AnyOperation] /\ ops'[a].pc = "timer"
        /\ \A b \in Admins : b # a => ops'[b] = ops[b]
    BY <2>1, <2>3, GotoMoves DEF TimerInv
  <2>6. TimerTypeOK'
    BY <1>2, <2>2, <2>5 DEF WriteService, TimerInv, TimerTypeOK, OnDisk, Definition, Calm
  <2>7. Fresh'
    BY <1>2, <2>1, <2>2, <2>5, WorksAlone
    DEF WriteService, TimerInv, Fresh, Stopped, OnDisk, Definition, Calm, Steps
  <2>8. Stopped'
    BY <1>2, <2>1, <2>2, <2>5, WorksAlone, TimerAssumption
    DEF WriteService, TimerInv, Stopped, Calm, Steps
  <2>9. ListedWhenLoaded'
    BY <1>2, <2>1, <2>2, TimerAssumption
    DEF WriteService, TimerInv, ListedWhenLoaded, Stopped, Steps, Calm
  <2> QED BY <2>4, <2>6, <2>7, <2>8, <2>9 DEF TimerInv
<1>3. CASE WriteTimer(a)
  <2>1. ops[a].pc = "timer" /\ Goto(a, "reload")
    BY <1>3 DEF WriteTimer
  <2>2. ops[a].config \in Configs /\ ops[a].interval \in Intervals
        /\ ops[a].pc \in Steps(platform, ops[a].kind)
    BY <2>1 DEF TimerInv, StepsFit
  <2>3. "reload" \in Pcs /\ "reload" \in Steps(platform, ops[a].kind)
    BY <2>1, <2>2 DEF Pcs, Steps
  <2>4. StepsFit' /\ RemovesAlone'
    BY <2>1, <2>3, GotoKeeps DEF TimerInv
  <2>5. ops' \in [Admins -> AnyOperation] /\ ops'[a].pc = "reload"
        /\ \A b \in Admins : b # a => ops'[b] = ops[b]
    BY <2>1, <2>3, GotoMoves DEF TimerInv
  <2>6. TimerTypeOK'
    BY <1>3, <2>2, <2>5 DEF WriteTimer, TimerInv, TimerTypeOK, OnDisk, Definition, Calm
  <2>7. Fresh'
    BY <1>3, <2>1, <2>2, <2>5, WorksAlone
    DEF WriteTimer, TimerInv, Fresh, Stopped, OnDisk, Definition, Calm, Steps
  <2>8. Stopped'
    BY <1>3, <2>1, <2>2, <2>5, WorksAlone, TimerAssumption
    DEF WriteTimer, TimerInv, Stopped, Calm, Steps
  <2>9. ListedWhenLoaded'
    BY <1>3, <2>1, <2>2, TimerAssumption
    DEF WriteTimer, TimerInv, ListedWhenLoaded, Stopped, Steps, Calm
  <2> QED BY <2>4, <2>6, <2>7, <2>8, <2>9 DEF TimerInv
<1>4. CASE DaemonReload(a)
  <2>1. ops[a].pc = "reload" /\ Goto(a, "enable")
    BY <1>4 DEF DaemonReload
  <2>2. ops[a].config \in Configs /\ ops[a].interval \in Intervals
        /\ ops[a].pc \in Steps(platform, ops[a].kind)
    BY <2>1 DEF TimerInv, StepsFit
  <2>3. "enable" \in Pcs /\ "enable" \in Steps(platform, ops[a].kind)
    BY <2>1, <2>2 DEF Pcs, Steps
  <2>4. StepsFit' /\ RemovesAlone'
    BY <2>1, <2>3, GotoKeeps DEF TimerInv
  <2>5. ops' \in [Admins -> AnyOperation] /\ ops'[a].pc = "enable"
        /\ \A b \in Admins : b # a => ops'[b] = ops[b]
    BY <2>1, <2>3, GotoMoves DEF TimerInv
  <2>6. TimerTypeOK'
    BY <1>4, <2>2, <2>5 DEF DaemonReload, TimerInv, TimerTypeOK, OnDisk, Definition, Calm
  <2>7. Fresh'
    BY <1>4, <2>1, <2>2, <2>5, WorksAlone
    DEF DaemonReload, TimerInv, Fresh, Stopped, OnDisk, Definition, Calm, Steps
  <2>8. Stopped'
    BY <1>4, <2>1, <2>2, <2>5, WorksAlone, TimerAssumption
    DEF DaemonReload, TimerInv, Stopped, Calm, Steps
  <2>9. ListedWhenLoaded'
    BY <1>4, <2>1, <2>2, TimerAssumption
    DEF DaemonReload, TimerInv, ListedWhenLoaded, Stopped, Steps, Calm
  <2> QED BY <2>4, <2>6, <2>7, <2>8, <2>9 DEF TimerInv
<1>5. CASE Enable(a)
  <2>1. ops[a].pc = "enable" /\ Goto(a, "idle")
    BY <1>5 DEF Enable
  <2>2. ops[a].config \in Configs /\ ops[a].interval \in Intervals
        /\ ops[a].pc \in Steps(platform, ops[a].kind)
    BY <2>1 DEF TimerInv, StepsFit
  <2>3. "idle" \in Pcs /\ "idle" \in Steps(platform, ops[a].kind)
    BY <2>1, <2>2 DEF Pcs, Steps
  <2>4. StepsFit' /\ RemovesAlone'
    BY <2>1, <2>3, GotoKeeps DEF TimerInv
  <2>5. ops' \in [Admins -> AnyOperation] /\ ops'[a].pc = "idle"
        /\ \A b \in Admins : b # a => ops'[b] = ops[b]
    BY <2>1, <2>3, GotoMoves DEF TimerInv
  <2>6. TimerTypeOK'
    BY <1>5, <2>2, <2>5 DEF Enable, TimerInv, TimerTypeOK, OnDisk, Definition, Calm
  <2>7. Fresh'
    BY <1>5, <2>1, <2>2, <2>5, WorksAlone
    DEF Enable, TimerInv, Fresh, Stopped, OnDisk, Definition, Calm, Steps
  <2>8. Stopped'
    <3>1. ASSUME NEW b \in Admins, b # a, ops[b].pc # "idle"
          PROVE  ops[b].pc \notin {"no timer", "no service", "no plist", "plist", "load"}
      BY <2>1, <2>2, <3>1 DEF TimerInv, StepsFit, RemovesAlone, Steps
    <3> QED BY <2>5, <3>1 DEF Stopped
  <2>9. ListedWhenLoaded'
    BY <1>5, <2>1, <2>2, TimerAssumption DEF Enable, TimerInv, ListedWhenLoaded, Stopped, Steps, Calm
  <2> QED BY <2>4, <2>6, <2>7, <2>8, <2>9 DEF TimerInv
<1>6. CASE Disable(a)
  <2>1. ops[a].pc = "disable" /\ Goto(a, "no timer")
    BY <1>6 DEF Disable
  <2>2. ops[a].config \in Configs /\ ops[a].interval \in Intervals
        /\ ops[a].pc \in Steps(platform, ops[a].kind)
    BY <2>1 DEF TimerInv, StepsFit
  <2>3. "no timer" \in Pcs /\ "no timer" \in Steps(platform, ops[a].kind)
    BY <2>1, <2>2 DEF Pcs, Steps
  <2>4. StepsFit' /\ RemovesAlone'
    BY <2>1, <2>3, GotoKeeps DEF TimerInv
  <2>5. ops' \in [Admins -> AnyOperation] /\ ops'[a].pc = "no timer"
        /\ \A b \in Admins : b # a => ops'[b] = ops[b]
    BY <2>1, <2>3, GotoMoves DEF TimerInv
  <2>6. TimerTypeOK'
    BY <1>6, <2>2, <2>5 DEF Disable, TimerInv, TimerTypeOK, OnDisk, Definition, Calm
  <2>7. Fresh'
    BY <1>6, <2>1, <2>2, <2>5, WorksAlone
    DEF Disable, TimerInv, Fresh, Stopped, OnDisk, Definition, Calm, Steps
  <2>8. Stopped'
    BY <1>6, <2>1, <2>2, <2>5, WorksAlone, TimerAssumption
    DEF Disable, TimerInv, Stopped, Calm, Steps
  <2>9. ListedWhenLoaded'
    BY <1>6, <2>1, <2>2, TimerAssumption
    DEF Disable, TimerInv, ListedWhenLoaded, Stopped, Steps, Calm
  <2> QED BY <2>4, <2>6, <2>7, <2>8, <2>9 DEF TimerInv
<1>7. CASE RemoveTimer(a)
  <2>1. ops[a].pc = "no timer" /\ Goto(a, "no service")
    BY <1>7 DEF RemoveTimer
  <2>2. ops[a].config \in Configs /\ ops[a].interval \in Intervals
        /\ ops[a].pc \in Steps(platform, ops[a].kind)
    BY <2>1 DEF TimerInv, StepsFit
  <2>3. "no service" \in Pcs /\ "no service" \in Steps(platform, ops[a].kind)
    BY <2>1, <2>2 DEF Pcs, Steps
  <2>4. StepsFit' /\ RemovesAlone'
    BY <2>1, <2>3, GotoKeeps DEF TimerInv
  <2>5. ops' \in [Admins -> AnyOperation] /\ ops'[a].pc = "no service"
        /\ \A b \in Admins : b # a => ops'[b] = ops[b]
    BY <2>1, <2>3, GotoMoves DEF TimerInv
  <2>6. TimerTypeOK'
    BY <1>7, <2>2, <2>5 DEF RemoveTimer, TimerInv, TimerTypeOK, OnDisk, Definition, Calm
  <2>7. Fresh'
    BY <1>7, <2>1, <2>2, <2>5, WorksAlone
    DEF RemoveTimer, TimerInv, Fresh, Stopped, OnDisk, Definition, Calm, Steps
  <2>8. Stopped'
    BY <1>7, <2>1, <2>2, <2>5, WorksAlone, TimerAssumption
    DEF RemoveTimer, TimerInv, Stopped, Calm, Steps
  <2>9. ListedWhenLoaded'
    BY <1>7, <2>1, <2>2, TimerAssumption
    DEF RemoveTimer, TimerInv, ListedWhenLoaded, Stopped, Steps, Calm
  <2> QED BY <2>4, <2>6, <2>7, <2>8, <2>9 DEF TimerInv
<1>8. CASE RemoveService(a)
  <2>1. ops[a].pc = "no service" /\ Goto(a, "idle")
    BY <1>8 DEF RemoveService
  <2>2. ops[a].config \in Configs /\ ops[a].interval \in Intervals
        /\ ops[a].pc \in Steps(platform, ops[a].kind)
    BY <2>1 DEF TimerInv, StepsFit
  <2>3. "idle" \in Pcs /\ "idle" \in Steps(platform, ops[a].kind)
    BY <2>1, <2>2 DEF Pcs, Steps
  <2>4. StepsFit' /\ RemovesAlone'
    BY <2>1, <2>3, GotoKeeps DEF TimerInv
  <2>5. ops' \in [Admins -> AnyOperation] /\ ops'[a].pc = "idle"
        /\ \A b \in Admins : b # a => ops'[b] = ops[b]
    BY <2>1, <2>3, GotoMoves DEF TimerInv
  <2>6. TimerTypeOK'
    BY <1>8, <2>2, <2>5 DEF RemoveService, TimerInv, TimerTypeOK, OnDisk, Definition, Calm
  <2>7. Fresh'
    BY <1>8, <2>1, <2>2, <2>5, WorksAlone
    DEF RemoveService, TimerInv, Fresh, Stopped, OnDisk, Definition, Calm, Steps
  <2>8. Stopped'
    BY <1>8, <2>1, <2>2, <2>5, WorksAlone, TimerAssumption
    DEF RemoveService, TimerInv, Stopped, Calm, Steps
  <2>9. ListedWhenLoaded'
    BY <1>8, <2>1, <2>2, TimerAssumption
    DEF RemoveService, TimerInv, ListedWhenLoaded, Stopped, Steps, Calm
  <2> QED BY <2>4, <2>6, <2>7, <2>8, <2>9 DEF TimerInv
<1>10. CASE WritePlist(a)
  <2>1. ops[a].pc = "plist" /\ Goto(a, "load")
    BY <1>10 DEF WritePlist
  <2>2. ops[a].config \in Configs /\ ops[a].interval \in Intervals
        /\ ops[a].pc \in Steps(platform, ops[a].kind)
    BY <2>1 DEF TimerInv, StepsFit
  <2>3. "load" \in Pcs /\ "load" \in Steps(platform, ops[a].kind)
    BY <2>1, <2>2 DEF Pcs, Steps
  <2>4. StepsFit' /\ RemovesAlone'
    BY <2>1, <2>3, GotoKeeps DEF TimerInv
  <2>5. ops' \in [Admins -> AnyOperation] /\ ops'[a].pc = "load"
        /\ \A b \in Admins : b # a => ops'[b] = ops[b]
    BY <2>1, <2>3, GotoMoves DEF TimerInv
  <2>6. TimerTypeOK'
    BY <1>10, <2>2, <2>5 DEF WritePlist, TimerInv, TimerTypeOK, OnDisk, Definition, Calm
  <2>7. Fresh'
    BY <1>10, <2>1, <2>2, <2>5, WorksAlone
    DEF WritePlist, TimerInv, Fresh, Stopped, OnDisk, Definition, Calm, Steps
  <2>8. Stopped'
    BY <1>10, <2>1, <2>2, <2>5, WorksAlone, TimerAssumption
    DEF WritePlist, TimerInv, Stopped, Calm, Steps
  <2>9. ListedWhenLoaded'
    BY <1>10, <2>1, <2>2, TimerAssumption
    DEF WritePlist, TimerInv, ListedWhenLoaded, Stopped, Steps, Calm
  <2> QED BY <2>4, <2>6, <2>7, <2>8, <2>9 DEF TimerInv
<1>11. CASE Load(a)
  <2>1. ops[a].pc = "load" /\ Goto(a, "idle")
    BY <1>11 DEF Load
  <2>2. ops[a].config \in Configs /\ ops[a].interval \in Intervals
        /\ ops[a].pc \in Steps(platform, ops[a].kind)
    BY <2>1 DEF TimerInv, StepsFit
  <2>3. "idle" \in Pcs /\ "idle" \in Steps(platform, ops[a].kind)
    BY <2>1, <2>2 DEF Pcs, Steps
  <2>4. StepsFit' /\ RemovesAlone'
    BY <2>1, <2>3, GotoKeeps DEF TimerInv
  <2>5. ops' \in [Admins -> AnyOperation] /\ ops'[a].pc = "idle"
        /\ \A b \in Admins : b # a => ops'[b] = ops[b]
    BY <2>1, <2>3, GotoMoves DEF TimerInv
  <2>6. TimerTypeOK'
    BY <1>11, <2>2, <2>5 DEF Load, TimerInv, TimerTypeOK, OnDisk, Definition, Calm
  <2>7. Fresh'
    BY <1>11, <2>1, <2>2, <2>5, WorksAlone
    DEF Load, TimerInv, Fresh, Stopped, OnDisk, Definition, Calm, Steps
  <2>8. Stopped'
    BY <1>11, <2>1, <2>2, <2>5, WorksAlone, TimerAssumption DEF Load, TimerInv, Stopped, Calm, Steps
  <2>9. ListedWhenLoaded'
    BY <1>11, <2>1, <2>2, TimerAssumption DEF Load, TimerInv, ListedWhenLoaded, Stopped, Steps, Calm
  <2> QED BY <2>4, <2>6, <2>7, <2>8, <2>9 DEF TimerInv
<1>12. CASE RemovePlist(a)
  <2>1. ops[a].pc = "no plist" /\ Goto(a, "idle")
    BY <1>12 DEF RemovePlist
  <2>2. ops[a].config \in Configs /\ ops[a].interval \in Intervals
        /\ ops[a].pc \in Steps(platform, ops[a].kind)
    BY <2>1 DEF TimerInv, StepsFit
  <2>3. "idle" \in Pcs /\ "idle" \in Steps(platform, ops[a].kind)
    BY <2>1, <2>2 DEF Pcs, Steps
  <2>4. StepsFit' /\ RemovesAlone'
    BY <2>1, <2>3, GotoKeeps DEF TimerInv
  <2>5. ops' \in [Admins -> AnyOperation] /\ ops'[a].pc = "idle"
        /\ \A b \in Admins : b # a => ops'[b] = ops[b]
    BY <2>1, <2>3, GotoMoves DEF TimerInv
  <2>6. TimerTypeOK'
    BY <1>12, <2>2, <2>5 DEF RemovePlist, TimerInv, TimerTypeOK, OnDisk, Definition, Calm
  <2>7. Fresh'
    BY <1>12, <2>1, <2>2, <2>5, WorksAlone
    DEF RemovePlist, TimerInv, Fresh, Stopped, OnDisk, Definition, Calm, Steps
  <2>8. Stopped'
    BY <1>12, <2>1, <2>2, <2>5, WorksAlone, TimerAssumption
    DEF RemovePlist, TimerInv, Stopped, Calm, Steps
  <2>9. ListedWhenLoaded'
    BY <1>12, <2>1, <2>2, TimerAssumption
    DEF RemovePlist, TimerInv, ListedWhenLoaded, Stopped, Steps, Calm
  <2> QED BY <2>4, <2>6, <2>7, <2>8, <2>9 DEF TimerInv
<1>13. CASE RegisterTask(a)
  <2>1. ops[a].pc = "register" /\ Goto(a, "idle")
    BY <1>13 DEF RegisterTask
  <2>2. ops[a].config \in Configs /\ ops[a].interval \in Intervals
        /\ ops[a].pc \in Steps(platform, ops[a].kind)
    BY <2>1 DEF TimerInv, StepsFit
  <2>3. "idle" \in Pcs /\ "idle" \in Steps(platform, ops[a].kind)
    BY <2>1, <2>2 DEF Pcs, Steps
  <2>4. StepsFit' /\ RemovesAlone'
    BY <2>1, <2>3, GotoKeeps DEF TimerInv
  <2>5. ops' \in [Admins -> AnyOperation] /\ ops'[a].pc = "idle"
        /\ \A b \in Admins : b # a => ops'[b] = ops[b]
    BY <2>1, <2>3, GotoMoves DEF TimerInv
  <2>6. TimerTypeOK'
    BY <1>13, <2>2, <2>5 DEF RegisterTask, TimerInv, TimerTypeOK, OnDisk, Definition, Calm
  <2>7. Fresh'
    BY <1>13, <2>1, <2>2, <2>5, WorksAlone
    DEF RegisterTask, TimerInv, Fresh, Stopped, OnDisk, Definition, Calm, Steps
  <2>8. Stopped'
    <3>1. ASSUME NEW b \in Admins, b # a, ops[b].pc # "idle"
          PROVE  ops[b].pc \notin {"no timer", "no service", "no plist", "plist", "load"}
      BY <2>1, <2>2, <3>1 DEF TimerInv, StepsFit, RemovesAlone, Steps
    <3> QED BY <2>5, <3>1 DEF Stopped
  <2>9. ListedWhenLoaded'
    BY <1>13, <2>1, <2>2, TimerAssumption
    DEF RegisterTask, TimerInv, ListedWhenLoaded, Stopped, Steps, Calm
  <2> QED BY <2>4, <2>6, <2>7, <2>8, <2>9 DEF TimerInv
<1>14. CASE DeleteTask(a)
  <2>1. ops[a].pc = "delete" /\ Goto(a, "idle")
    BY <1>14 DEF DeleteTask
  <2>2. ops[a].config \in Configs /\ ops[a].interval \in Intervals
        /\ ops[a].pc \in Steps(platform, ops[a].kind)
    BY <2>1 DEF TimerInv, StepsFit
  <2>3. "idle" \in Pcs /\ "idle" \in Steps(platform, ops[a].kind)
    BY <2>1, <2>2 DEF Pcs, Steps
  <2>4. StepsFit' /\ RemovesAlone'
    BY <2>1, <2>3, GotoKeeps DEF TimerInv
  <2>5. ops' \in [Admins -> AnyOperation] /\ ops'[a].pc = "idle"
        /\ \A b \in Admins : b # a => ops'[b] = ops[b]
    BY <2>1, <2>3, GotoMoves DEF TimerInv
  <2>6. TimerTypeOK'
    BY <1>14, <2>2, <2>5 DEF DeleteTask, TimerInv, TimerTypeOK, OnDisk, Definition, Calm
  <2>7. Fresh'
    BY <1>14, <2>1, <2>2, <2>5, WorksAlone
    DEF DeleteTask, TimerInv, Fresh, Stopped, OnDisk, Definition, Calm, Steps
  <2>8. Stopped'
    BY <1>14, <2>1, <2>2, <2>5, WorksAlone, TimerAssumption
    DEF DeleteTask, TimerInv, Stopped, Calm, Steps
  <2>9. ListedWhenLoaded'
    BY <1>14, <2>1, <2>2, TimerAssumption
    DEF DeleteTask, TimerInv, ListedWhenLoaded, Stopped, Steps, Calm
  <2> QED BY <2>4, <2>6, <2>7, <2>8, <2>9 DEF TimerInv
<1>1. CASE Approve(a)
  <2> DEFINE step == IF Refused(a) THEN "idle" ELSE FirstStep(ops[a].kind)
  <2>1. ops[a].pc = "approve" /\ Goto(a, step)
    BY <1>1 DEF Approve
  <2>2. UNCHANGED <<platform, service, unit, loaded, interval, interrupts>>
    BY <1>1 DEF Approve
  <2>3. ~Refused(a) /\ platform = "macos" /\ ops[a].kind = "remove" => service # Absent
    BY DEF Refused, Status, MacStatus
  <2>4. step \in Pcs /\ step \in Steps(platform, ops[a].kind)
    BY <2>3 DEF Pcs, Steps, FirstStep
  <2>5. step = "plist" => platform = "macos" /\ service = Absent
    BY <2>3 DEF FirstStep
  <2>6. step \notin {"no timer", "no service", "no plist", "load"}
    BY DEF FirstStep
  <2> HIDE DEF step
  <2>7. StepsFit' /\ RemovesAlone'
    BY <2>1, <2>2, <2>4, GotoKeeps DEF TimerInv
  <2>8. ops' \in [Admins -> AnyOperation] /\ ops'[a].pc = step
        /\ \A b \in Admins : b # a => ops'[b] = ops[b]
    BY <2>1, <2>4, GotoMoves DEF TimerInv
  <2>9. TimerTypeOK'
    BY <2>2, <2>8 DEF TimerInv, TimerTypeOK
  <2>10. Fresh'
    BY <2>1, <2>2, <2>8 DEF TimerInv, Fresh, OnDisk
  <2>11. Stopped' /\ ListedWhenLoaded'
    BY <2>2, <2>5, <2>6, <2>8 DEF TimerInv, Stopped, ListedWhenLoaded
  <2> QED BY <2>7, <2>9, <2>10, <2>11 DEF TimerInv
<1>9. CASE Unload(a)
  <2> DEFINE step == IF ops[a].kind = "remove" THEN "no plist" ELSE "plist"
  <2>1. ops[a].pc = "unload" /\ Goto(a, step)
    BY <1>9 DEF Unload
  <2>2. loaded' = Absent /\ UNCHANGED <<platform, service, unit, interval, interrupts>>
    BY <1>9 DEF Unload, Calm
  <2>3. step \in Pcs /\ step \in Steps(platform, ops[a].kind)
    BY <2>1 DEF Pcs, Steps, TimerInv, StepsFit
  <2>4. step \in {"no plist", "plist"}
    OBVIOUS
  <2> HIDE DEF step
  <2>5. StepsFit' /\ RemovesAlone'
    BY <2>1, <2>2, <2>3, GotoKeeps DEF TimerInv
  <2>6. ops' \in [Admins -> AnyOperation] /\ ops'[a].pc = step
        /\ \A b \in Admins : b # a => ops'[b] = ops[b]
    BY <2>1, <2>3, GotoMoves DEF TimerInv
  <2>7. TimerTypeOK'
    BY <2>2, <2>6 DEF TimerInv, TimerTypeOK
  <2>8. Fresh' /\ Stopped' /\ ListedWhenLoaded'
    BY <2>2, <2>4, <2>6 DEF TimerInv, Fresh, Stopped, ListedWhenLoaded
  <2> QED BY <2>5, <2>7, <2>8 DEF TimerInv
<1> QED
  BY <1>1, <1>2, <1>3, <1>4, <1>5, <1>6, <1>7, <1>8, <1>9, <1>10, <1>11, <1>12, <1>13, <1>14
  DEF TimerStep

\* An operation that fails or dies leaves what it did: it was not between its
\* files and their reload, unless no timer ran.
LEMMA InterruptedInv ==
  ASSUME Calm, TimerInv, NEW a \in Admins, Interrupted(a)
  PROVE  TimerInv'
<1>1. /\ ops[a].pc # "idle" /\ Goto(a, "idle")
      /\ loaded = Absent \/ ops[a].pc \notin {"timer", "reload", "load"}
      /\ UNCHANGED <<platform, unit, loaded, interval>>
      /\ interrupts' \in Nat
  BY DEF Interrupted, Calm, TimerInv, TimerTypeOK
<1>2. service' = service \/ (ops[a].pc = "plist" /\ service' = Torn)
  BY DEF Interrupted
<1>3. "idle" \in Pcs /\ "idle" \in Steps(platform, ops[a].kind)
  BY DEF Pcs, Steps
<1>4. StepsFit' /\ RemovesAlone'
  BY <1>1, <1>3, GotoKeeps DEF TimerInv
<1>5. ops' \in [Admins -> AnyOperation] /\ ops'[a].pc = "idle"
      /\ \A b \in Admins : b # a => ops'[b] = ops[b]
  BY <1>1, <1>3, GotoMoves DEF TimerInv
<1>6. TimerTypeOK'
  BY <1>1, <1>2, <1>5 DEF TimerInv, TimerTypeOK
<1>7. Fresh'
  BY <1>1, <1>2, <1>5 DEF TimerInv, Fresh, Stopped, OnDisk
<1>8. Stopped' /\ ListedWhenLoaded'
  BY <1>1, <1>2, <1>5, TimerAssumption DEF TimerInv, Stopped, ListedWhenLoaded
<1> QED BY <1>4, <1>6, <1>7, <1>8 DEF TimerInv

\* Every step keeps the invariant.
LEMMA NextInv ==
  ASSUME Calm, TimerInv, [TimerNext]_timerVars
  PROVE  TimerInv'
<1>1. CASE TimerNext
  <2> PICK a \in Admins :
        \/ \E c \in Configs, i \in Intervals : SaveSettings(a, c, i)
        \/ \E c \in Configs, approved \in BOOLEAN :
             InstallDispatch(a, c, approved) \/ CommandUninstall(a, c, approved)
        \/ \E c \in Configs, i \in Intervals, approved \in BOOLEAN :
             CommandInstall(a, c, i, approved)
        \/ TimerStep(a)
        \/ Interrupted(a)
    BY <1>1 DEF TimerNext
  <2>0. /\ interval \in [Configs -> Intervals] /\ Default \in Intervals
        /\ {"repair", "install", "remove"} \subseteq Kinds
    BY TimerAssumption DEF TimerInv, TimerTypeOK, Kinds
  <2>1. ASSUME NEW c \in Configs, NEW i \in Intervals, SaveSettings(a, c, i)
        PROVE  TimerInv'
    BY <2>0, <2>1, BeginInv DEF SaveSettings
  <2>2. ASSUME NEW c \in Configs, NEW approved \in BOOLEAN, InstallDispatch(a, c, approved)
        PROVE  TimerInv'
    BY <2>0, <2>2, BeginInv DEF InstallDispatch
  <2>3. ASSUME NEW c \in Configs, NEW approved \in BOOLEAN, CommandUninstall(a, c, approved)
        PROVE  TimerInv'
    BY <2>0, <2>3, BeginInv DEF CommandUninstall
  <2>4. ASSUME NEW c \in Configs, NEW i \in Intervals, NEW approved \in BOOLEAN,
               CommandInstall(a, c, i, approved)
        PROVE  TimerInv'
    BY <2>0, <2>4, BeginInv DEF CommandInstall
  <2> QED BY <2>1, <2>2, <2>3, <2>4, StepInv, InterruptedInv
<1>2. CASE UNCHANGED timerVars
  BY <1>2 DEF timerVars, TimerInv, TimerTypeOK, StepsFit, RemovesAlone, Fresh, Stopped,
     ListedWhenLoaded, OnDisk
<1> QED BY <1>1, <1>2

\* The invariant holds in every reachable state.
THEOREM TimerInvAlways ==
  ASSUME Calm
  PROVE  TimerSpec => []TimerInv
<1>1. TimerInit => TimerInv
  BY InitInv
<1>2. TimerInv /\ [TimerNext]_timerVars => TimerInv'
  BY NextInv
<1> QED BY <1>1, <1>2, PTL DEF TimerSpec

\* Between operations, a dispatcher that is shown active for a configuration
\* starts that configuration's cycles at the interval it asks for, for any number
\* of administrators, configurations and intervals: no interleaving of two
\* installations and no failure leaves files that say so while another timer runs.
THEOREM StatusTellsTruthAlways ==
  ASSUME Calm
  PROVE  TimerSpec => []StatusTellsTruth
<1>1. TimerInv => StatusTellsTruth
  <2> SUFFICES ASSUME TimerInv, \A a \in Admins : ops[a].pc = "idle", NEW c \in Configs,
                      TimerState(c, interval[c]) = "active"
               PROVE  loaded = [config |-> c, interval |-> interval[c]]
    BY DEF StatusTellsTruth
  <2>1. loaded = Absent \/ loaded = OnDisk
    BY DEF TimerInv, Fresh
  <2>2. /\ Status.installed /\ Status.active
        /\ Status.config = c /\ Status.interval = interval[c]
    BY DEF TimerState
  <2>3. platform \in {"linux", "macos", "windows"}
    BY TimerAssumption DEF TimerInv, TimerTypeOK
  <2>4. loaded # Absent
    BY <2>2, <2>3 DEF Status, LinuxStatus, MacStatus, WindowsStatus
  <2>5. service = c /\ unit = interval[c]
    BY <2>2, <2>3, TimerAssumption DEF Status, LinuxStatus, MacStatus, WindowsStatus
  <2> QED BY <2>1, <2>4, <2>5 DEF OnDisk
<1> QED BY <1>1, TimerInvAlways, PTL

\* An operation without approval, that nobody's overlaps, goes ahead only while no
\* other configuration's timer runs: whatever earlier operations left behind, the
\* definition it is judged by names the timer that runs.
THEOREM NoSilentTakeoverAlways ==
  ASSUME Calm
  PROVE  TimerSpec => NoSilentTakeover
<1> DEFINE Taken ==
      \A a \in Admins :
       (/\ ops[a].pc = "approve" /\ ~ops[a].approved
        /\ \A b \in Admins \ {a} : ops[b].pc = "idle"
        /\ ops'[a].pc \notin {"approve", "idle"})
       => \A c \in Configs \ {ops[a].config} : ~TimerRuns(c)
<1>1. TimerInv /\ [TimerNext]_timerVars => [Taken]_timerVars
  <2> SUFFICES ASSUME TimerInv, TimerNext, NEW a \in Admins, ops[a].pc = "approve",
                      ~ops[a].approved, \A b \in Admins \ {a} : ops[b].pc = "idle",
                      ops'[a].pc \notin {"approve", "idle"},
                      NEW c \in Configs \ {ops[a].config}, TimerRuns(c)
               PROVE  FALSE
    OBVIOUS
  <2>1. loaded # Absent /\ loaded = OnDisk
    BY DEF TimerInv, Fresh, TimerRuns
  <2>2. service = c
    BY <2>1 DEF TimerRuns, OnDisk
  <2>3. ConfigConflict(ops[a].config)
    <3>1. platform \in {"linux", "macos", "windows"}
      BY TimerAssumption DEF TimerInv, TimerTypeOK
    <3>2. Status.installed /\ Status.config = c
      BY <2>2, <3>1, TimerAssumption DEF Status, LinuxStatus, MacStatus, WindowsStatus
    <3> QED BY <3>2, TimerAssumption DEF ConfigConflict
  <2>4. Refused(a)
    BY <2>3 DEF Refused
  <2>5. ops'[a].pc \in {"approve", "idle"}
    <3> ops \in [Admins -> AnyOperation]
      BY DEF TimerInv, TimerTypeOK
    <3>1. PICK b \in Admins :
        \/ \E d \in Configs, i \in Intervals : SaveSettings(b, d, i)
        \/ \E d \in Configs, approved \in BOOLEAN :
             InstallDispatch(b, d, approved) \/ CommandUninstall(b, d, approved)
        \/ \E d \in Configs, i \in Intervals, approved \in BOOLEAN :
             CommandInstall(b, d, i, approved)
        \/ TimerStep(b)
        \/ Interrupted(b)
      BY DEF TimerNext
    <3>2. CASE b # a
      <4>1. ops'[a] = ops[a]
        BY <3>1, <3>2 DEF SaveSettings, InstallDispatch, CommandUninstall, CommandInstall,
           Begin, Interrupted, Goto, TimerStep, Approve, WriteService, WriteTimer,
           DaemonReload, Enable, Disable, RemoveTimer, RemoveService, Unload, WritePlist,
           Load, RemovePlist, RegisterTask, DeleteTask
      <4> QED BY <4>1
    <3>3. CASE b = a
      <4>1. Approve(a) \/ Interrupted(a)
        BY <3>1, <3>3 DEF SaveSettings, InstallDispatch, CommandUninstall, CommandInstall,
           Begin, TimerStep, WriteService, WriteTimer, DaemonReload, Enable, Disable,
           RemoveTimer, RemoveService, Unload, WritePlist, Load, RemovePlist,
           RegisterTask, DeleteTask
      <4>2. Goto(a, "idle")
        BY <4>1, <2>4 DEF Approve, Interrupted
      <4> QED BY <4>2, GotoMoves DEF TimerInv, Pcs
    <3> QED BY <3>2, <3>3
  <2> QED BY <2>5
<1>2. TimerSpec => [][Taken]_timerVars
  BY <1>1, TimerInvAlways, PTL DEF TimerSpec
<1> QED BY <1>2 DEF NoSilentTakeover

=============================================================================
