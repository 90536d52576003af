--------------------------- MODULE JobQueueProofs ---------------------------
(***************************************************************************)
(* Theorems about module JobQueue, for any sets of jobs, pids and          *)
(* memories, any pool and any number of process deaths.                    *)
(***************************************************************************)
EXTENDS MCJobQueue, FiniteSetTheorems, TLAPS

\* Every step of the queue keeps the types.
LEMMA TypeStep == TypeOK /\ [Next]_vars => TypeOK'
<1> SUFFICES ASSUME TypeOK, [Next]_vars PROVE TypeOK'
  OBVIOUS
<1> USE DEF TypeOK, Statuses, ActiveStatuses, TerminalStatuses, SubStates, DrainPcs,
            Phases, recordVars, workerVars, drainVars
<1>1. ASSUME NEW j \in Jobs, SubmitPin(j) PROVE TypeOK'
  BY <1>1 DEF SubmitPin
<1>2. ASSUME NEW j \in Jobs, SubmitCreate(j) PROVE TypeOK'
  BY <1>2 DEF SubmitCreate
<1>3. ASSUME NEW j \in Jobs, SubmitCreateFails(j) PROVE TypeOK'
  BY <1>3 DEF SubmitCreateFails
<1>4. ASSUME NEW j \in Jobs, Settle(j) PROVE TypeOK'
  BY <1>4 DEF Settle, SettleRejects
<1>5. ASSUME NEW j \in Jobs, Cancel(j) PROVE TypeOK'
  BY <1>5 DEF Cancel
<1>6. ASSUME NEW j \in Jobs, GraceExpires(j) PROVE TypeOK'
  BY <1>6 DEF GraceExpires
<1>7. ASSUME NEW j \in Jobs, SubmitterDies(j) PROVE TypeOK'
  BY <1>7 DEF SubmitterDies, DropQueueLock, ReleaseQueue
<1>8. ASSUME NEW j \in Jobs, ReconcileSkip(j) PROVE TypeOK'
  BY <1>8 DEF ReconcileSkip
<1>9. ASSUME NEW j \in Jobs, ReconcileRead(j) PROVE TypeOK'
  BY <1>9 DEF ReconcileRead
<1>10. ASSUME NEW j \in Jobs, SnapshotRead(j) PROVE TypeOK'
  BY <1>10 DEF SnapshotRead
<1>11. ASSUME NEW j \in Jobs, StartSkip(j) PROVE TypeOK'
  BY <1>11 DEF StartSkip, IsHead
<1>12. ASSUME NEW j \in Jobs, LaunchRaises(j) PROVE TypeOK'
  BY <1>12 DEF LaunchRaises, IsHead
<1>13. ASSUME NEW d \in Jobs \cup Pids \cup {Cycle}, EnterDrain(d) PROVE TypeOK'
  BY <1>13 DEF EnterDrain, Records
<1>14. ASSUME NEW d \in Jobs \cup Pids \cup {Cycle}, LeaveQueueToHolder(d) PROVE TypeOK'
  BY <1>14 DEF LeaveQueueToHolder, AfterDrain
<1>15. ASSUME NEW j \in Jobs, NEW p \in Pids, LaunchSpawns(j, p) PROVE TypeOK'
  BY <1>15 DEF LaunchSpawns, IsHead
<1>16. ASSUME ReconcileProbe PROVE TypeOK'
  BY <1>16 DEF ReconcileProbe, CanTransition, ValidTransition, ConfirmedAbsent
<1>17. ASSUME ReconcileUnpin PROVE TypeOK'
  BY <1>17 DEF ReconcileUnpin
<1>18. ASSUME ReconcileDone PROVE TypeOK'
  BY <1>18 DEF ReconcileDone, Records
<1>19. ASSUME SnapshotDone PROVE TypeOK'
  BY <1>19 DEF SnapshotDone
<1>20. ASSUME RecordLaunchFailure PROVE TypeOK'
  BY <1>20 DEF RecordLaunchFailure, CanTransition, ValidTransition
<1>21. ASSUME Claim PROVE TypeOK'
  BY <1>21 DEF Claim, ClaimJob
<1>22. ASSUME DrainDone PROVE TypeOK'
  BY <1>22 DEF DrainDone, AfterDrain, ReleaseQueue
<1>23. ASSUME CycleDies PROVE TypeOK'
  BY <1>23 DEF CycleDies, ReleaseQueue
<1>24. ASSUME NEW p \in Pids, BeginTakes(p) PROVE TypeOK'
  BY <1>24 DEF BeginTakes, Goto, CanTransition, ValidTransition
<1>25. ASSUME NEW p \in Pids, BeginRetired(p) PROVE TypeOK'
  BY ZenonT(60), <1>25 DEF BeginRetired, Goto, CanTransition, ValidTransition
<1>26. ASSUME NEW p \in Pids, BeginRefused(p) PROVE TypeOK'
  BY <1>26 DEF BeginRefused, Exits
<1>27. ASSUME NEW p \in Pids, WaitCancelled(p) PROVE TypeOK'
  BY <1>27 DEF WaitCancelled, Goto
<1>28. ASSUME NEW p \in Pids, AcquireMemory(p) PROVE TypeOK'
  BY <1>28 DEF AcquireMemory, Goto, MemOf
<1>29. ASSUME NEW p \in Pids, LockedCancelled(p) PROVE TypeOK'
  BY <1>29 DEF LockedCancelled, Goto
<1>30. ASSUME NEW p \in Pids, StartRunning(p) PROVE TypeOK'
  BY <1>30 DEF StartRunning, Goto, CanTransition, ValidTransition
<1>31. ASSUME NEW p \in Pids, Raises(p) PROVE TypeOK'
  BY <1>31 DEF Raises, Goto, ReleasedBy
<1>32. ASSUME NEW p \in Pids, TerminalizeRead(p) PROVE TypeOK'
  BY <1>32 DEF TerminalizeRead, Goto, SlotStatuses
<1>33. ASSUME NEW p \in Pids, TerminalizeWrite(p) PROVE TypeOK'
  BY <1>33 DEF TerminalizeWrite, Goto, SlotStatuses
<1>34. ASSUME NEW p \in Pids, FinishFailed(p) PROVE TypeOK'
  BY <1>34 DEF FinishFailed, Goto, CanTransition, ValidTransition
<1>35. ASSUME NEW p \in Pids, FinishComplete(p) PROVE TypeOK'
  BY <1>35 DEF FinishComplete, Goto, CanTransition, ValidTransition
<1>36. ASSUME NEW p \in Pids, ReleaseMemory(p) PROVE TypeOK'
  BY <1>36 DEF ReleaseMemory, Goto, ReleasedBy
<1>37. ASSUME NEW p \in Pids, ReleasePin(p) PROVE TypeOK'
  BY <1>37 DEF ReleasePin, Goto
<1>38. ASSUME NEW p \in Pids, AbortReleasePin(p) PROVE TypeOK'
  BY <1>38 DEF AbortReleasePin, Exits
<1>39. ASSUME NEW p \in Pids, WorkerDies(p) PROVE TypeOK'
  BY <1>39 DEF WorkerDies, DropQueueLock, ReleaseQueue, Exits, ReleasedBy
<1>40. CASE UNCHANGED vars
  BY <1>40 DEF vars
<1> QED
  BY <1>1, <1>2, <1>3, <1>4, <1>5, <1>6, <1>7, <1>8, <1>9, <1>10, <1>11, 
     <1>12, <1>13, <1>14, <1>15, <1>16, <1>17, <1>18, <1>19, <1>20, <1>21, 
     <1>22, <1>23, <1>24, <1>25, <1>26, <1>27, <1>28, <1>29, <1>30, <1>31, 
     <1>32, <1>33, <1>34, <1>35, <1>36, <1>37, <1>38, <1>39, <1>40
     DEF Next, NextWith, DrainStep, WorkerStep, SubmitStep

\* Type correctness of the queue, its drains and its workers.
THEOREM TypeCorrect == Spec => []TypeOK
<1>1. Init => TypeOK
  BY ConstantsAssumption DEF Init, TypeOK, Statuses, ActiveStatuses, TerminalStatuses, SubStates, DrainPcs, Phases
<1> QED
  BY <1>1, TypeStep, PTL DEF Spec

-----------------------------------------------------------------------------
(* The inductive invariant *)

\* A process exists exactly while it has a job.
ProcInv == \A p \in Pids : phase[p] = "absent" <=> wjob[p] = Nobody

\* A worker past its first transition is the executor of its job.
ExecInv == \A p \in Pids : Executing(p) => executor[wjob[p]] = p

\* What the record says in each phase of its worker.
PhaseInv ==
  \A p \in Pids :
    /\ phase[p] \in {"waiting", "locked"} =>
         status[wjob[p]] \in {"waiting_for_memory", "cancelled"}
    /\ phase[p] = "running" => status[wjob[p]] = "running"
    /\ phase[p] \in {"failing", "terminalize"} =>
         status[wjob[p]] \in SlotStatuses \cup TerminalStatuses
    /\ phase[p] \in {"unlock", "unpin", "abort"} => status[wjob[p]] \in TerminalStatuses
    /\ phase[p] = "unpin" => executor[wjob[p]] \in {p, Nobody}

\* A record names its executor, and only a record past the queue has one.
TakenInv ==
  \A j \in Jobs :
    /\ status[j] \in {"none", "queued"} => executor[j] = Nobody
    /\ status[j] \in SlotStatuses => executor[j] # Nobody
    /\ executor[j] # Nobody => workerPid[j] = executor[j]

\* A pin exists from before the record until the job has ended.
PinInv ==
  /\ \A j \in Jobs : sub[j] \in {"none", "pinned"} => status[j] = "none"
  /\ \A j \in Jobs : sub[j] = "pinned" => j \in pins
  /\ PinHeldWhileNeeded

\* The record a drain is working on.
DrainInv ==
  /\ dpc \in {"probe", "unpin", "claim", "launchFailed"} => dcur \in Jobs
  /\ dpc = "probe" => dseen \in SlotStatuses
  /\ dpc = "unpin" => status[dcur] = "failed"

\* The inductive invariant.
Inv == TypeOK /\ ProcInv /\ ExecInv /\ PhaseInv /\ TakenInv /\ PinInv /\ DrainInv

\* A fresh installation satisfies the invariant.
LEMMA InvInit == Init => Inv
  BY ConstantsAssumption, IdentityAssumption
     DEF Init, Inv, TypeOK, ProcInv, ExecInv, PhaseInv, TakenInv, PinInv, DrainInv,
         PinHeldWhileNeeded, Executing, Statuses, ActiveStatuses, TerminalStatuses,
         SlotStatuses, SubStates, DrainPcs, Phases

\* Every submission, drain, worker and death step preserves it.
LEMMA InvStep == Inv /\ [Next]_vars => Inv'
<1> SUFFICES ASSUME Inv, [Next]_vars PROVE Inv'
  OBVIOUS
<1>0. TypeOK'
  BY TypeStep DEF Inv
<1> USE IdentityAssumption DEF Inv, ProcInv, ExecInv, PhaseInv, TakenInv, PinInv, DrainInv,
            PinHeldWhileNeeded, Executing, ActiveStatuses, TerminalStatuses, SlotStatuses,
            recordVars, workerVars, drainVars
<1>1. ASSUME NEW j \in Jobs, SubmitPin(j) PROVE Inv'
  BY <1>0, <1>1 DEF TypeOK, SubmitPin
<1>2. ASSUME NEW j \in Jobs, SubmitCreate(j) PROVE Inv'
  BY <1>0, <1>2 DEF TypeOK, SubmitCreate
<1>3. ASSUME NEW j \in Jobs, SubmitCreateFails(j) PROVE Inv'
  BY <1>0, <1>3 DEF TypeOK, SubmitCreateFails
<1>4. ASSUME NEW j \in Jobs, Settle(j) PROVE Inv'
  BY <1>0, <1>4 DEF TypeOK, Settle, SettleRejects
<1>5. ASSUME NEW j \in Jobs, Cancel(j) PROVE Inv'
  BY <1>0, <1>5 DEF TypeOK, Cancel
<1>6. ASSUME NEW j \in Jobs, GraceExpires(j) PROVE Inv'
  BY <1>0, <1>6 DEF TypeOK, GraceExpires
<1>7. ASSUME NEW j \in Jobs, SubmitterDies(j) PROVE Inv'
  BY <1>0, <1>7 DEF TypeOK, SubmitterDies, DropQueueLock, ReleaseQueue
<1>8. ASSUME NEW j \in Jobs, ReconcileSkip(j) PROVE Inv'
  BY <1>0, <1>8 DEF TypeOK, ReconcileSkip
<1>9. ASSUME NEW j \in Jobs, ReconcileRead(j) PROVE Inv'
  BY <1>0, <1>9 DEF TypeOK, ReconcileRead
<1>10. ASSUME NEW j \in Jobs, SnapshotRead(j) PROVE Inv'
  BY <1>0, <1>10 DEF TypeOK, SnapshotRead
<1>11. ASSUME NEW j \in Jobs, StartSkip(j) PROVE Inv'
  BY <1>0, <1>11 DEF TypeOK, StartSkip, IsHead
<1>12. ASSUME NEW j \in Jobs, LaunchRaises(j) PROVE Inv'
  BY <1>0, <1>12 DEF TypeOK, LaunchRaises, IsHead
<1>13. ASSUME NEW d \in Jobs \cup Pids \cup {Cycle}, EnterDrain(d) PROVE Inv'
  BY <1>0, <1>13 DEF TypeOK, EnterDrain, Records
<1>14. ASSUME NEW d \in Jobs \cup Pids \cup {Cycle}, LeaveQueueToHolder(d) PROVE Inv'
  BY <1>0, <1>14 DEF TypeOK, LeaveQueueToHolder, AfterDrain
<1>15. ASSUME NEW j \in Jobs, NEW p \in Pids, LaunchSpawns(j, p) PROVE Inv'
  BY <1>0, <1>15 DEF TypeOK, LaunchSpawns, IsHead
<1>16. ASSUME ReconcileProbe PROVE Inv'
  BY <1>0, <1>16 DEF TypeOK, ReconcileProbe, CanTransition, ValidTransition, ConfirmedAbsent
<1>17. ASSUME ReconcileUnpin PROVE Inv'
  BY <1>0, <1>17 DEF TypeOK, ReconcileUnpin
<1>18. ASSUME ReconcileDone PROVE Inv'
  BY <1>0, <1>18 DEF TypeOK, ReconcileDone, Records
<1>19. ASSUME SnapshotDone PROVE Inv'
  BY <1>0, <1>19 DEF TypeOK, SnapshotDone
<1>20. ASSUME RecordLaunchFailure PROVE Inv'
  BY <1>0, <1>20 DEF TypeOK, RecordLaunchFailure, CanTransition, ValidTransition
<1>21. ASSUME Claim PROVE Inv'
  BY <1>0, <1>21 DEF TypeOK, Claim, ClaimJob
<1>22. ASSUME DrainDone PROVE Inv'
  BY <1>0, <1>22 DEF TypeOK, DrainDone, AfterDrain, ReleaseQueue
<1>23. ASSUME CycleDies PROVE Inv'
  BY <1>0, <1>23 DEF TypeOK, CycleDies, ReleaseQueue
<1>24. ASSUME NEW p \in Pids, BeginTakes(p) PROVE Inv'
  BY <1>0, <1>24 DEF TypeOK, BeginTakes, Goto, CanTransition, ValidTransition
<1>25. ASSUME NEW p \in Pids, BeginRetired(p) PROVE Inv'
  BY <1>0, <1>25 DEF TypeOK, BeginRetired, Goto, CanTransition, ValidTransition
<1>26. ASSUME NEW p \in Pids, BeginRefused(p) PROVE Inv'
  BY <1>0, <1>26 DEF TypeOK, BeginRefused, Exits
<1>27. ASSUME NEW p \in Pids, WaitCancelled(p) PROVE Inv'
  BY <1>0, <1>27 DEF TypeOK, WaitCancelled, Goto
<1>28. ASSUME NEW p \in Pids, AcquireMemory(p) PROVE Inv'
  BY <1>0, <1>28 DEF TypeOK, AcquireMemory, Goto, MemOf
<1>29. ASSUME NEW p \in Pids, LockedCancelled(p) PROVE Inv'
  BY <1>0, <1>29 DEF TypeOK, LockedCancelled, Goto
<1>30. ASSUME NEW p \in Pids, StartRunning(p) PROVE Inv'
  BY <1>0, <1>30 DEF TypeOK, StartRunning, Goto, CanTransition, ValidTransition
<1>31. ASSUME NEW p \in Pids, Raises(p) PROVE Inv'
  BY <1>0, <1>31 DEF TypeOK, Raises, Goto, ReleasedBy
<1>32. ASSUME NEW p \in Pids, TerminalizeRead(p) PROVE Inv'
  BY <1>0, <1>32 DEF TypeOK, TerminalizeRead, Goto
<1>33. ASSUME NEW p \in Pids, TerminalizeWrite(p) PROVE Inv'
  BY <1>0, <1>33 DEF TypeOK, TerminalizeWrite, Goto
<1>34. ASSUME NEW p \in Pids, FinishFailed(p) PROVE Inv'
  BY <1>0, <1>34 DEF TypeOK, FinishFailed, Goto, CanTransition, ValidTransition
<1>35. ASSUME NEW p \in Pids, FinishComplete(p) PROVE Inv'
  BY <1>0, <1>35 DEF TypeOK, FinishComplete, Goto, CanTransition, ValidTransition
<1>36. ASSUME NEW p \in Pids, ReleaseMemory(p) PROVE Inv'
  BY <1>0, <1>36 DEF TypeOK, ReleaseMemory, Goto, ReleasedBy
<1>37. ASSUME NEW p \in Pids, ReleasePin(p) PROVE Inv'
  BY <1>0, <1>37 DEF TypeOK, ReleasePin, Goto
<1>38. ASSUME NEW p \in Pids, AbortReleasePin(p) PROVE Inv'
  BY <1>0, <1>38 DEF TypeOK, AbortReleasePin, Exits
<1>39. ASSUME NEW p \in Pids, WorkerDies(p) PROVE Inv'
  BY <1>0, <1>39 DEF TypeOK, WorkerDies, DropQueueLock, ReleaseQueue, Exits, ReleasedBy
<1>40. CASE UNCHANGED vars
  BY <1>0, <1>40 DEF TypeOK, vars
<1> QED
  BY <1>0, <1>1, <1>2, <1>3, <1>4, <1>5, <1>6, <1>7, <1>8, <1>9, <1>10, 
     <1>11, <1>12, <1>13, <1>14, <1>15, <1>16, <1>17, <1>18, <1>19, <1>20, 
     <1>21, <1>22, <1>23, <1>24, <1>25, <1>26, <1>27, <1>28, <1>29, <1>30, 
     <1>31, <1>32, <1>33, <1>34, <1>35, <1>36, <1>37, <1>38, <1>39, <1>40
     DEF Next, NextWith, DrainStep, WorkerStep, SubmitStep

\* The invariant holds in every reachable state of the queue.
THEOREM Invariance == Spec => []Inv
  BY InvInit, InvStep, PTL DEF Spec

-----------------------------------------------------------------------------
(* Safety *)

\* Two processes never execute the same job, however often it was launched.
THEOREM OneExecutorAlways == Spec => []OneExecutor
<1>1. Inv => OneExecutor
  BY DEF Inv, ExecInv, OneExecutor
<1> QED
  BY <1>1, Invariance, PTL

\* No other process takes a running record away from its live worker.
THEOREM RunnerOwnsRecordAlways == Spec => []RunnerOwnsRecord
<1>1. Inv => RunnerOwnsRecord
  <2> SUFFICES ASSUME Inv, NEW p \in Pids, phase[p] = "running"
               PROVE  status[wjob[p]] = "running" /\ workerPid[wjob[p]] = p
    BY DEF RunnerOwnsRecord
  <2>1. wjob[p] \in Jobs
    BY DEF Inv, TypeOK, ProcInv
  <2>2. executor[wjob[p]] = p
    BY DEF Inv, ExecInv, Executing
  <2>3. status[wjob[p]] = "running"
    BY DEF Inv, PhaseInv
  <2> QED
    BY <2>1, <2>2, <2>3, IdentityAssumption DEF Inv, TakenInv
<1> QED
  BY <1>1, Invariance, PTL

\* One worker executes a job, and while it does the record is its own.
THEOREM ExclusiveExecutionAlways == Spec => []ExclusiveExecution
<1>1. OneExecutor /\ RunnerOwnsRecord => ExclusiveExecution
  BY DEF ExclusiveExecution
<1> QED
  BY <1>1, OneExecutorAlways, RunnerOwnsRecordAlways, PTL

\* A pin is never released while its job can start or its worker reads the artifact.
THEOREM PinHeldAlways == Spec => []PinHeldWhileNeeded
<1>1. Inv => PinHeldWhileNeeded
  BY DEF Inv, PinInv
<1> QED
  BY <1>1, Invariance, PTL

\* A failed record with neither stamp nor pid was never taken by a worker.
THEOREM UnstampedNeverTakenAlways == Spec => []UnstampedNeverTaken
<1>1. Inv => UnstampedNeverTaken
  BY DEF Inv, TakenInv, UnstampedNeverTaken, IsLaunched
<1> QED
  BY <1>1, Invariance, PTL

-----------------------------------------------------------------------------
(* Refinement *)

\* Every step of the queue is a lifecycle step of one record, or none.
LEMMA LifecycleStep ==
  Inv /\ [Next]_vars => [Lifecycle!Next]_(Lifecycle!lifecycleVars)
<1> SUFFICES ASSUME Inv, [Next]_vars
             PROVE  [Lifecycle!Next]_(Lifecycle!lifecycleVars)
  OBVIOUS
<1> USE DEF Lifecycle!Next, Lifecycle!lifecycleVars, recordVars, workerVars, drainVars
<1>1. ASSUME NEW j \in Jobs, SubmitPin(j) PROVE [Lifecycle!Next]_(Lifecycle!lifecycleVars)
  BY <1>1 DEF SubmitPin
<1>2. ASSUME NEW j \in Jobs, SubmitCreate(j) PROVE [Lifecycle!Next]_(Lifecycle!lifecycleVars)
  BY <1>2 DEF SubmitCreate, Inv, PinInv, Lifecycle!Create
<1>3. ASSUME NEW j \in Jobs, SubmitCreateFails(j) PROVE [Lifecycle!Next]_(Lifecycle!lifecycleVars)
  BY <1>3 DEF SubmitCreateFails
<1>4. ASSUME NEW j \in Jobs, Settle(j) PROVE [Lifecycle!Next]_(Lifecycle!lifecycleVars)
  BY <1>4 DEF Settle
<1>5. ASSUME NEW j \in Jobs, Cancel(j) PROVE [Lifecycle!Next]_(Lifecycle!lifecycleVars)
  BY <1>5 DEF Cancel, Lifecycle!CancelJob
<1>6. ASSUME NEW j \in Jobs, GraceExpires(j) PROVE [Lifecycle!Next]_(Lifecycle!lifecycleVars)
  BY <1>6 DEF GraceExpires
<1>7. ASSUME NEW j \in Jobs, SubmitterDies(j) PROVE [Lifecycle!Next]_(Lifecycle!lifecycleVars)
  BY <1>7 DEF SubmitterDies
<1>8. ASSUME NEW j \in Jobs, ReconcileSkip(j) PROVE [Lifecycle!Next]_(Lifecycle!lifecycleVars)
  BY <1>8 DEF ReconcileSkip
<1>9. ASSUME NEW j \in Jobs, ReconcileRead(j) PROVE [Lifecycle!Next]_(Lifecycle!lifecycleVars)
  BY <1>9 DEF ReconcileRead
<1>10. ASSUME NEW j \in Jobs, SnapshotRead(j) PROVE [Lifecycle!Next]_(Lifecycle!lifecycleVars)
  BY <1>10 DEF SnapshotRead
<1>11. ASSUME NEW j \in Jobs, StartSkip(j) PROVE [Lifecycle!Next]_(Lifecycle!lifecycleVars)
  BY <1>11 DEF StartSkip
<1>12. ASSUME NEW j \in Jobs, LaunchRaises(j) PROVE [Lifecycle!Next]_(Lifecycle!lifecycleVars)
  BY <1>12 DEF LaunchRaises
<1>13. ASSUME NEW d \in Jobs \cup Pids \cup {Cycle}, EnterDrain(d) PROVE [Lifecycle!Next]_(Lifecycle!lifecycleVars)
  BY <1>13 DEF EnterDrain
<1>14. ASSUME NEW d \in Jobs \cup Pids \cup {Cycle}, LeaveQueueToHolder(d) PROVE [Lifecycle!Next]_(Lifecycle!lifecycleVars)
  BY <1>14 DEF LeaveQueueToHolder
<1>15. ASSUME NEW j \in Jobs, NEW p \in Pids, LaunchSpawns(j, p) PROVE [Lifecycle!Next]_(Lifecycle!lifecycleVars)
  BY <1>15 DEF LaunchSpawns
<1>16. ASSUME ReconcileProbe PROVE [Lifecycle!Next]_(Lifecycle!lifecycleVars)
  BY <1>16 DEF ReconcileProbe, CanTransition, ValidTransition, Inv, DrainInv, SlotStatuses, Lifecycle!Fail
<1>17. ASSUME ReconcileUnpin PROVE [Lifecycle!Next]_(Lifecycle!lifecycleVars)
  BY <1>17 DEF ReconcileUnpin
<1>18. ASSUME ReconcileDone PROVE [Lifecycle!Next]_(Lifecycle!lifecycleVars)
  BY <1>18 DEF ReconcileDone
<1>19. ASSUME SnapshotDone PROVE [Lifecycle!Next]_(Lifecycle!lifecycleVars)
  BY <1>19 DEF SnapshotDone
<1>20. ASSUME RecordLaunchFailure PROVE [Lifecycle!Next]_(Lifecycle!lifecycleVars)
  BY <1>20 DEF RecordLaunchFailure, CanTransition, ValidTransition, Inv, DrainInv, Lifecycle!Fail
<1>21. ASSUME Claim PROVE [Lifecycle!Next]_(Lifecycle!lifecycleVars)
  BY <1>21 DEF Claim
<1>22. ASSUME DrainDone PROVE [Lifecycle!Next]_(Lifecycle!lifecycleVars)
  BY <1>22 DEF DrainDone
<1>23. ASSUME CycleDies PROVE [Lifecycle!Next]_(Lifecycle!lifecycleVars)
  BY <1>23 DEF CycleDies
<1>24. ASSUME NEW p \in Pids, BeginTakes(p) PROVE [Lifecycle!Next]_(Lifecycle!lifecycleVars)
  BY <1>24, IdentityAssumption DEF BeginTakes, Goto, CanTransition, ValidTransition, Inv, TypeOK, ProcInv, TakenInv, Lifecycle!Take
<1>25. ASSUME NEW p \in Pids, BeginRetired(p) PROVE [Lifecycle!Next]_(Lifecycle!lifecycleVars)
  BY <1>25, IdentityAssumption DEF BeginRetired, Goto, CanTransition, ValidTransition, Inv, TypeOK, ProcInv, Lifecycle!Fail
<1>26. ASSUME NEW p \in Pids, BeginRefused(p) PROVE [Lifecycle!Next]_(Lifecycle!lifecycleVars)
  BY <1>26 DEF BeginRefused
<1>27. ASSUME NEW p \in Pids, WaitCancelled(p) PROVE [Lifecycle!Next]_(Lifecycle!lifecycleVars)
  BY <1>27 DEF WaitCancelled
<1>28. ASSUME NEW p \in Pids, AcquireMemory(p) PROVE [Lifecycle!Next]_(Lifecycle!lifecycleVars)
  BY <1>28 DEF AcquireMemory
<1>29. ASSUME NEW p \in Pids, LockedCancelled(p) PROVE [Lifecycle!Next]_(Lifecycle!lifecycleVars)
  BY <1>29 DEF LockedCancelled
<1>30. ASSUME NEW p \in Pids, StartRunning(p) PROVE [Lifecycle!Next]_(Lifecycle!lifecycleVars)
  BY <1>30, IdentityAssumption DEF StartRunning, Goto, CanTransition, ValidTransition, Inv, TypeOK, ProcInv, TakenInv, Lifecycle!Run, SlotStatuses
<1>31. ASSUME NEW p \in Pids, Raises(p) PROVE [Lifecycle!Next]_(Lifecycle!lifecycleVars)
  BY <1>31 DEF Raises
<1>32. ASSUME NEW p \in Pids, TerminalizeRead(p) PROVE [Lifecycle!Next]_(Lifecycle!lifecycleVars)
  BY <1>32 DEF TerminalizeRead
<1>33. ASSUME NEW p \in Pids, TerminalizeWrite(p) PROVE [Lifecycle!Next]_(Lifecycle!lifecycleVars)
  BY <1>33, IdentityAssumption DEF TerminalizeWrite, Goto, SlotStatuses, Inv, TypeOK, ProcInv, Lifecycle!Fail
<1>34. ASSUME NEW p \in Pids, FinishFailed(p) PROVE [Lifecycle!Next]_(Lifecycle!lifecycleVars)
  BY <1>34, IdentityAssumption DEF FinishFailed, Goto, CanTransition, ValidTransition, Inv, TypeOK, ProcInv, Lifecycle!Fail
<1>35. ASSUME NEW p \in Pids, FinishComplete(p) PROVE [Lifecycle!Next]_(Lifecycle!lifecycleVars)
  BY <1>35, IdentityAssumption DEF FinishComplete, Goto, CanTransition, ValidTransition, Inv, TypeOK, ProcInv, Lifecycle!Complete
<1>36. ASSUME NEW p \in Pids, ReleaseMemory(p) PROVE [Lifecycle!Next]_(Lifecycle!lifecycleVars)
  BY <1>36 DEF ReleaseMemory
<1>37. ASSUME NEW p \in Pids, ReleasePin(p) PROVE [Lifecycle!Next]_(Lifecycle!lifecycleVars)
  BY <1>37 DEF ReleasePin
<1>38. ASSUME NEW p \in Pids, AbortReleasePin(p) PROVE [Lifecycle!Next]_(Lifecycle!lifecycleVars)
  BY <1>38 DEF AbortReleasePin
<1>39. ASSUME NEW p \in Pids, WorkerDies(p) PROVE [Lifecycle!Next]_(Lifecycle!lifecycleVars)
  BY <1>39 DEF WorkerDies
<1>40. CASE UNCHANGED vars
  BY <1>40 DEF vars
<1> QED
  BY <1>1, <1>2, <1>3, <1>4, <1>5, <1>6, <1>7, <1>8, <1>9, <1>10, <1>11, 
     <1>12, <1>13, <1>14, <1>15, <1>16, <1>17, <1>18, <1>19, <1>20, <1>21, 
     <1>22, <1>23, <1>24, <1>25, <1>26, <1>27, <1>28, <1>29, <1>30, <1>31, 
     <1>32, <1>33, <1>34, <1>35, <1>36, <1>37, <1>38, <1>39, <1>40
     DEF Next, NextWith, DrainStep, WorkerStep, SubmitStep

\* The queue implements the lifecycle contract of job records.
THEOREM QueueImplementsLifecycle == Spec => ImplementsLifecycle
<1>1. Init => Lifecycle!Init
  BY DEF Init, Lifecycle!Init
<1> QED
  BY <1>1, LifecycleStep, Invariance, PTL DEF Spec, Lifecycle!Spec, ImplementsLifecycle

\* An ended job keeps its status whatever drains, workers and cancellations follow.
THEOREM TerminalIsFinalAlways == Spec => TerminalIsFinal
<1>1. TypeOK /\ [Lifecycle!Next]_(Lifecycle!lifecycleVars) =>
        \A j \in Jobs : status[j] \in TerminalStatuses => status'[j] = status[j]
  BY DEF Lifecycle!Next, Lifecycle!lifecycleVars, Lifecycle!Create, Lifecycle!Take,
         Lifecycle!Run, Lifecycle!Complete, Lifecycle!Fail, Lifecycle!CancelJob, TerminalStatuses, TypeOK
<1>2. Inv /\ [Next]_vars =>
        [\A j \in Jobs : status[j] \in TerminalStatuses => status'[j] = status[j]]_vars
  BY <1>1, LifecycleStep DEF Inv
<1> QED
  BY <1>2, Invariance, PTL DEF Spec, TerminalIsFinal

-----------------------------------------------------------------------------
(* The pool *)

\* Jobs that have a live worker which executes them or still may.
Live == {j \in Jobs : /\ status[j] \in ActiveStatuses
                      /\ \E p \in Pids : /\ wjob[p] = j
                                         /\ phase[p] \in {"starting", "waiting", "locked", "running"}}

\* A worker that has not reached its record is known from the record's stamp,
\* or is the one the drain is about to stamp.
StampInv ==
  /\ \A p \in Pids : phase[p] # "absent" => status[wjob[p]] # "none"
  /\ queueLock = Nobody => dpc = "idle"
  /\ ~ReportsPid =>
       /\ dpid = Nobody
       /\ \A j \in Jobs : status[j] \in {"none", "queued"} => workerPid[j] = Nobody
  /\ \A p \in Pids : phase[p] = "starting" /\ status[wjob[p]] = "queued" =>
       IF dpc = "claim" /\ dcur = wjob[p] THEN ReportsPid => dpid = p
       ELSE IF ReportsPid THEN workerPid[wjob[p]] = p
       ELSE launchedAt[wjob[p]] = "fresh"

\* The drain has counted a slot for every live job it has read, and launches
\* only below the pool.
CountInv ==
  /\ IsFiniteSet(Live) /\ Cardinality(Live) <= Pool
  /\ dpc = "snapshot" => Cardinality(Live \ dtodo) <= dused
  /\ dpc \in {"start", "launchFailed"} => Cardinality(Live) <= dused
  /\ dpc = "claim" => Cardinality(Live \ {dcur}) <= dused /\ dused < Pool

PoolInv == lapsed \/ (StampInv /\ CountInv)


\* A part of a finite set is finite and not larger.
LEMMA PartIsSmaller ==
  ASSUME NEW S, IsFiniteSet(S), NEW T, T \subseteq S
  PROVE  /\ IsFiniteSet(T)
         /\ Cardinality(T) \in Nat /\ Cardinality(S) \in Nat
         /\ Cardinality(T) <= Cardinality(S)
  BY FS_Subset, FS_CardinalityType

\* One more element makes a set larger by one at most.
LEMMA OneMore ==
  ASSUME NEW S, NEW x, IsFiniteSet(S \ {x})
  PROVE  /\ IsFiniteSet(S)
         /\ Cardinality(S) \in Nat /\ Cardinality(S \ {x}) \in Nat
         /\ Cardinality(S) <= Cardinality(S \ {x}) + 1
<1> DEFINE T == (S \ {x}) \cup {x}
<1>1. IsFiniteSet(T) /\ Cardinality(T) = Cardinality(S \ {x}) + 1
  BY FS_AddElement
<1>2. S \subseteq T
  OBVIOUS
<1>3. Cardinality(S \ {x}) \in Nat
  BY FS_CardinalityType
<1> HIDE DEF T
<1> QED
  BY <1>1, <1>2, <1>3, PartIsSmaller

\* Phases of a worker that executes its job or still may.
Alive == {"starting", "waiting", "locked", "running"}

\* Only a launch gives a job a worker.
LEMMA WorkersStep ==
  ASSUME Inv, [Next]_vars
  PROVE  \/ \A p \in Pids : phase'[p] \in Alive => phase[p] \in Alive /\ wjob'[p] = wjob[p]
         \/ \E j \in Jobs, p \in Pids : LaunchSpawns(j, p)
<1> DEFINE NoneNew ==
      \A p \in Pids : phase'[p] \in Alive => phase[p] \in Alive /\ wjob'[p] = wjob[p]
<1> USE DEF Inv, TypeOK, Alive, recordVars, workerVars, drainVars
<1>1. ASSUME NEW j \in Jobs, SubmitPin(j) PROVE NoneNew
  BY <1>1 DEF SubmitPin
<1>2. ASSUME NEW j \in Jobs, SubmitCreate(j) PROVE NoneNew
  BY <1>2 DEF SubmitCreate
<1>3. ASSUME NEW j \in Jobs, SubmitCreateFails(j) PROVE NoneNew
  BY <1>3 DEF SubmitCreateFails
<1>4. ASSUME NEW j \in Jobs, Settle(j) PROVE NoneNew
  BY <1>4 DEF Settle, SettleRejects
<1>5. ASSUME NEW j \in Jobs, Cancel(j) PROVE NoneNew
  BY <1>5 DEF Cancel
<1>6. ASSUME NEW j \in Jobs, GraceExpires(j) PROVE NoneNew
  BY <1>6 DEF GraceExpires
<1>7. ASSUME NEW j \in Jobs, SubmitterDies(j) PROVE NoneNew
  BY <1>7 DEF SubmitterDies, DropQueueLock, ReleaseQueue
<1>8. ASSUME NEW j \in Jobs, ReconcileSkip(j) PROVE NoneNew
  BY <1>8 DEF ReconcileSkip
<1>9. ASSUME NEW j \in Jobs, ReconcileRead(j) PROVE NoneNew
  BY <1>9 DEF ReconcileRead
<1>10. ASSUME NEW j \in Jobs, SnapshotRead(j) PROVE NoneNew
  BY <1>10 DEF SnapshotRead
<1>11. ASSUME NEW j \in Jobs, StartSkip(j) PROVE NoneNew
  BY <1>11 DEF StartSkip, IsHead
<1>12. ASSUME NEW j \in Jobs, LaunchRaises(j) PROVE NoneNew
  BY <1>12 DEF LaunchRaises, IsHead
<1>13. ASSUME NEW d \in Jobs \cup Pids \cup {Cycle}, EnterDrain(d) PROVE NoneNew
  BY <1>13 DEF EnterDrain, Records
<1>14. ASSUME NEW d \in Jobs \cup Pids \cup {Cycle}, LeaveQueueToHolder(d) PROVE NoneNew
  BY <1>14 DEF LeaveQueueToHolder, AfterDrain
<1>15. ASSUME NEW j \in Jobs, NEW p \in Pids, LaunchSpawns(j, p)
       PROVE  \E i \in Jobs, q \in Pids : LaunchSpawns(i, q)
  BY <1>15
<1>16. ASSUME ReconcileProbe PROVE NoneNew
  BY <1>16 DEF ReconcileProbe, CanTransition, ValidTransition, ConfirmedAbsent
<1>17. ASSUME ReconcileUnpin PROVE NoneNew
  BY <1>17 DEF ReconcileUnpin
<1>18. ASSUME ReconcileDone PROVE NoneNew
  BY <1>18 DEF ReconcileDone, Records
<1>19. ASSUME SnapshotDone PROVE NoneNew
  BY <1>19 DEF SnapshotDone
<1>20. ASSUME RecordLaunchFailure PROVE NoneNew
  BY <1>20 DEF RecordLaunchFailure, CanTransition, ValidTransition
<1>21. ASSUME Claim PROVE NoneNew
  BY <1>21 DEF Claim, ClaimJob
<1>22. ASSUME DrainDone PROVE NoneNew
  BY <1>22 DEF DrainDone, AfterDrain, ReleaseQueue
<1>23. ASSUME CycleDies PROVE NoneNew
  BY <1>23 DEF CycleDies, ReleaseQueue
<1>24. ASSUME NEW p \in Pids, BeginTakes(p) PROVE NoneNew
  BY <1>24 DEF BeginTakes, Goto, CanTransition, ValidTransition
<1>25. ASSUME NEW p \in Pids, BeginRetired(p) PROVE NoneNew
  BY <1>25 DEF BeginRetired, Goto, CanTransition, ValidTransition
<1>26. ASSUME NEW p \in Pids, BeginRefused(p) PROVE NoneNew
  BY <1>26 DEF BeginRefused, Exits
<1>27. ASSUME NEW p \in Pids, WaitCancelled(p) PROVE NoneNew
  BY <1>27 DEF WaitCancelled, Goto
<1>28. ASSUME NEW p \in Pids, AcquireMemory(p) PROVE NoneNew
  BY <1>28 DEF AcquireMemory, Goto, MemOf
<1>29. ASSUME NEW p \in Pids, LockedCancelled(p) PROVE NoneNew
  BY <1>29 DEF LockedCancelled, Goto
<1>30. ASSUME NEW p \in Pids, StartRunning(p) PROVE NoneNew
  BY <1>30 DEF StartRunning, Goto, CanTransition, ValidTransition
<1>31. ASSUME NEW p \in Pids, Raises(p) PROVE NoneNew
  BY <1>31 DEF Raises, Goto, ReleasedBy
<1>32. ASSUME NEW p \in Pids, TerminalizeRead(p) PROVE NoneNew
  BY <1>32 DEF TerminalizeRead, Goto
<1>33. ASSUME NEW p \in Pids, TerminalizeWrite(p) PROVE NoneNew
  BY <1>33 DEF TerminalizeWrite, Goto
<1>34. ASSUME NEW p \in Pids, FinishFailed(p) PROVE NoneNew
  BY <1>34 DEF FinishFailed, Goto, CanTransition, ValidTransition
<1>35. ASSUME NEW p \in Pids, FinishComplete(p) PROVE NoneNew
  BY <1>35 DEF FinishComplete, Goto, CanTransition, ValidTransition
<1>36. ASSUME NEW p \in Pids, ReleaseMemory(p) PROVE NoneNew
  BY <1>36 DEF ReleaseMemory, Goto, ReleasedBy
<1>37. ASSUME NEW p \in Pids, ReleasePin(p) PROVE NoneNew
  BY <1>37 DEF ReleasePin, Goto
<1>38. ASSUME NEW p \in Pids, AbortReleasePin(p) PROVE NoneNew
  BY <1>38 DEF AbortReleasePin, Exits
<1>39. ASSUME NEW p \in Pids, WorkerDies(p) PROVE NoneNew
  BY <1>39 DEF WorkerDies, DropQueueLock, ReleaseQueue, Exits, ReleasedBy
<1>40. CASE UNCHANGED vars
  BY <1>40 DEF vars
<1> QED
  BY <1>1, <1>2, <1>3, <1>4, <1>5, <1>6, <1>7, <1>8, <1>9, <1>10, 
     <1>11, <1>12, <1>13, <1>14, <1>15, <1>16, <1>17, <1>18, <1>19, <1>20, 
     <1>21, <1>22, <1>23, <1>24, <1>25, <1>26, <1>27, <1>28, <1>29, <1>30, 
     <1>31, <1>32, <1>33, <1>34, <1>35, <1>36, <1>37, <1>38, <1>39, <1>40
     DEF Next, NextWith, DrainStep, WorkerStep, SubmitStep

\* No other step adds a live job.
LEMMA LiveStep ==
  ASSUME Inv, Inv', StampInv, [Next]_vars
  PROVE  \/ Live' \subseteq Live
         \/ \E j \in Jobs, p \in Pids : LaunchSpawns(j, p)
<1> SUFFICES ASSUME ~\E j \in Jobs, p \in Pids : LaunchSpawns(j, p),
                    NEW j \in Live'
             PROVE  j \in Live
  OBVIOUS
<1>1. PICK p \in Pids : wjob'[p] = j /\ phase'[p] \in Alive
  BY DEF Live, Alive
<1>2. phase[p] \in Alive /\ wjob[p] = j
  BY <1>1, WorkersStep
<1>3. j \in Jobs /\ status'[j] \in ActiveStatuses
  BY DEF Live
<1>4. status[j] # "none"
  BY <1>2 DEF StampInv, Alive
<1>5. status[j] \in ActiveStatuses
  BY <1>3, <1>4, LifecycleStep
     DEF Inv, TypeOK, Statuses, ActiveStatuses, TerminalStatuses, Lifecycle!Next,
         Lifecycle!lifecycleVars, Lifecycle!Create, Lifecycle!Take, Lifecycle!Run,
         Lifecycle!Complete, Lifecycle!Fail, Lifecycle!CancelJob
<1> QED
  BY <1>2, <1>3, <1>5 DEF Live, Alive

\* Outside the moment between a launch and its claim, a live job holds a slot.
LEMMA LiveOccupies ==
  ASSUME Inv, StampInv, NEW j \in Live, ~(dpc = "claim" /\ dcur = j)
  PROVE  OccupiesSlot(j)
<1>1. PICK p \in Pids : wjob[p] = j /\ phase[p] \in Alive
  BY DEF Live, Alive
<1>2. j \in Jobs /\ status[j] \in ActiveStatuses
  BY DEF Live
<1>3. CASE phase[p] # "starting"
  BY <1>1, <1>2, <1>3 DEF Inv, PhaseInv, OccupiesSlot, Alive, ActiveStatuses, SlotStatuses
<1>4. CASE phase[p] = "starting" /\ status[j] # "queued"
  BY <1>2, <1>4 DEF OccupiesSlot, ActiveStatuses, SlotStatuses
<1>5. CASE phase[p] = "starting" /\ status[j] = "queued"
  <2>1. IF ReportsPid THEN workerPid[j] = p
        ELSE launchedAt[j] = "fresh" /\ workerPid[j] = Nobody
    BY <1>1, <1>2, <1>5 DEF StampInv
  <2> QED
    BY <1>5, <2>1, IdentityAssumption
       DEF OccupiesSlot, IsLaunched, LaunchAbandoned, ConfirmedAbsent
<1> QED
  BY <1>3, <1>4, <1>5

\* The stamps stay known, if a launched worker is either reported by its pid or
\* reaches its record within the grace.
LEMMA StampStep ==
  ASSUME ReportsPid \/ PromptStart, Inv, Inv', StampInv, [Next]_vars,
         ~(dpc = "claim" /\ crashes' # crashes /\ dpc' # dpc)
  PROVE  StampInv'
<1> USE ConstantsAssumption, IdentityAssumption
    DEF Inv, TypeOK, ProcInv, StampInv, DrainInv, ActiveStatuses, TerminalStatuses,
        SlotStatuses, recordVars, workerVars, drainVars
<1>1. ASSUME NEW j \in Jobs, SubmitPin(j) PROVE StampInv'
  BY <1>1 DEF SubmitPin
<1>2. ASSUME NEW j \in Jobs, SubmitCreate(j) PROVE StampInv'
  BY <1>2 DEF SubmitCreate, PinInv
<1>3. ASSUME NEW j \in Jobs, SubmitCreateFails(j) PROVE StampInv'
  BY <1>3 DEF SubmitCreateFails
<1>4. ASSUME NEW j \in Jobs, Settle(j) PROVE StampInv'
  BY <1>4 DEF Settle, SettleRejects
<1>5. ASSUME NEW j \in Jobs, Cancel(j) PROVE StampInv'
  BY <1>5 DEF Cancel
<1>6. ASSUME NEW j \in Jobs, GraceExpires(j) PROVE StampInv'
  BY <1>6 DEF GraceExpires
<1>7. ASSUME NEW j \in Jobs, SubmitterDies(j) PROVE StampInv'
  BY <1>7 DEF SubmitterDies, DropQueueLock, ReleaseQueue
<1>8. ASSUME NEW j \in Jobs, ReconcileSkip(j) PROVE StampInv'
  BY <1>8 DEF ReconcileSkip
<1>9. ASSUME NEW j \in Jobs, ReconcileRead(j) PROVE StampInv'
  BY <1>9 DEF ReconcileRead
<1>10. ASSUME NEW j \in Jobs, SnapshotRead(j) PROVE StampInv'
  BY <1>10 DEF SnapshotRead
<1>11. ASSUME NEW j \in Jobs, StartSkip(j) PROVE StampInv'
  BY <1>11 DEF StartSkip, IsHead
<1>12. ASSUME NEW j \in Jobs, LaunchRaises(j) PROVE StampInv'
  BY <1>12 DEF LaunchRaises, IsHead
<1>13. ASSUME NEW d \in Jobs \cup Pids \cup {Cycle}, EnterDrain(d) PROVE StampInv'
  BY <1>13 DEF EnterDrain, Records
<1>14. ASSUME NEW d \in Jobs \cup Pids \cup {Cycle}, LeaveQueueToHolder(d) PROVE StampInv'
  BY <1>14 DEF LeaveQueueToHolder, AfterDrain
<1>15. ASSUME NEW j \in Jobs, NEW p \in Pids, LaunchSpawns(j, p) PROVE StampInv'
  <2> SUFFICES ASSUME NEW q \in Pids, phase'[q] = "starting", status'[wjob'[q]] = "queued"
               PROVE  IF dpc' = "claim" /\ dcur' = wjob'[q] THEN ReportsPid => dpid' = q
                      ELSE IF ReportsPid THEN workerPid'[wjob'[q]] = q
                      ELSE launchedAt'[wjob'[q]] = "fresh"
    BY <1>15 DEF LaunchSpawns, IsHead, IsLaunchable
  <2>1. CASE q = p
    BY <1>15, <2>1 DEF LaunchSpawns
  <2>2. CASE q # p
    <3>1. phase[q] = "starting" /\ wjob'[q] = wjob[q] /\ status[wjob[q]] = "queued"
      BY <1>15, <2>2 DEF LaunchSpawns
    <3>2. dpc # "claim" /\ wjob[q] \in Jobs
      BY <1>15, <3>1 DEF LaunchSpawns, IsHead
    <3>3. IF ReportsPid THEN workerPid[wjob[q]] = q ELSE launchedAt[wjob[q]] = "fresh"
      BY <3>1, <3>2
    <3>4. wjob[q] # j
      BY <1>15, <3>1, <3>2, <3>3
         DEF LaunchSpawns, IsLaunchable, IsLaunched, LaunchAbandoned, ConfirmedAbsent
    <3> QED
      BY <1>15, <3>1, <3>3, <3>4 DEF LaunchSpawns
  <2> QED
    BY <2>1, <2>2
<1>16. ASSUME ReconcileProbe PROVE StampInv'
  BY <1>16 DEF ReconcileProbe, CanTransition, ValidTransition, ConfirmedAbsent
<1>17. ASSUME ReconcileUnpin PROVE StampInv'
  BY <1>17 DEF ReconcileUnpin
<1>18. ASSUME ReconcileDone PROVE StampInv'
  BY <1>18 DEF ReconcileDone, Records
<1>19. ASSUME SnapshotDone PROVE StampInv'
  BY <1>19 DEF SnapshotDone
<1>20. ASSUME RecordLaunchFailure PROVE StampInv'
  BY <1>20 DEF RecordLaunchFailure, CanTransition, ValidTransition
<1>21. ASSUME Claim PROVE StampInv'
  BY <1>21 DEF Claim, ClaimJob
<1>22. ASSUME DrainDone PROVE StampInv'
  BY <1>22 DEF DrainDone, AfterDrain, ReleaseQueue
<1>23. ASSUME CycleDies PROVE StampInv'
  BY <1>23 DEF CycleDies, ReleaseQueue
<1>24. ASSUME NEW p \in Pids, BeginTakes(p) PROVE StampInv'
  BY <1>24 DEF BeginTakes, Goto, CanTransition, ValidTransition
<1>25. ASSUME NEW p \in Pids, BeginRetired(p) PROVE StampInv'
  BY <1>25 DEF BeginRetired, Goto, CanTransition, ValidTransition
<1>26. ASSUME NEW p \in Pids, BeginRefused(p) PROVE StampInv'
  BY <1>26 DEF BeginRefused, Exits
<1>27. ASSUME NEW p \in Pids, WaitCancelled(p) PROVE StampInv'
  BY <1>27 DEF WaitCancelled, Goto
<1>28. ASSUME NEW p \in Pids, AcquireMemory(p) PROVE StampInv'
  BY <1>28 DEF AcquireMemory, Goto, MemOf
<1>29. ASSUME NEW p \in Pids, LockedCancelled(p) PROVE StampInv'
  BY <1>29 DEF LockedCancelled, Goto
<1>30. ASSUME NEW p \in Pids, StartRunning(p) PROVE StampInv'
  BY <1>30 DEF StartRunning, Goto, CanTransition, ValidTransition
<1>31. ASSUME NEW p \in Pids, Raises(p) PROVE StampInv'
  BY <1>31 DEF Raises, Goto, ReleasedBy
<1>32. ASSUME NEW p \in Pids, TerminalizeRead(p) PROVE StampInv'
  BY <1>32 DEF TerminalizeRead, Goto
<1>33. ASSUME NEW p \in Pids, TerminalizeWrite(p) PROVE StampInv'
  BY <1>33 DEF TerminalizeWrite, Goto
<1>34. ASSUME NEW p \in Pids, FinishFailed(p) PROVE StampInv'
  BY <1>34 DEF FinishFailed, Goto, CanTransition, ValidTransition
<1>35. ASSUME NEW p \in Pids, FinishComplete(p) PROVE StampInv'
  BY <1>35 DEF FinishComplete, Goto, CanTransition, ValidTransition
<1>36. ASSUME NEW p \in Pids, ReleaseMemory(p) PROVE StampInv'
  BY <1>36 DEF ReleaseMemory, Goto, ReleasedBy
<1>37. ASSUME NEW p \in Pids, ReleasePin(p) PROVE StampInv'
  BY <1>37 DEF ReleasePin, Goto
<1>38. ASSUME NEW p \in Pids, AbortReleasePin(p) PROVE StampInv'
  BY <1>38 DEF AbortReleasePin, Exits
<1>39. ASSUME NEW p \in Pids, WorkerDies(p) PROVE StampInv'
  BY <1>39 DEF WorkerDies, DropQueueLock, ReleaseQueue, Exits, ReleasedBy
<1>40. CASE UNCHANGED vars
  BY <1>40 DEF vars
<1> QED
  BY <1>1, <1>2, <1>3, <1>4, <1>5, <1>6, <1>7, <1>8, <1>9, <1>10, 
     <1>11, <1>12, <1>13, <1>14, <1>15, <1>16, <1>17, <1>18, <1>19, <1>20, 
     <1>21, <1>22, <1>23, <1>24, <1>25, <1>26, <1>27, <1>28, <1>29, <1>30, 
     <1>31, <1>32, <1>33, <1>34, <1>35, <1>36, <1>37, <1>38, <1>39, <1>40
     DEF Next, NextWith, DrainStep, WorkerStep, SubmitStep

\* The drain counts every live job it reads, launches one at a time and only
\* below the pool; everything else takes live jobs away.
LEMMA CountStep ==
  ASSUME ReportsPid \/ PromptStart, Inv, Inv', StampInv, CountInv, [Next]_vars,
         ~(dpc = "claim" /\ crashes' # crashes /\ dpc' # dpc)
  PROVE  CountInv'
<1> USE ConstantsAssumption, IdentityAssumption DEF recordVars, workerVars, drainVars
<1>t. /\ Pool \in Nat /\ dused \in Nat /\ dused' \in Nat
      /\ IsFiniteSet(Live) /\ Cardinality(Live) \in Nat
      /\ dtodo \subseteq Jobs
  BY FS_CardinalityType DEF Inv, TypeOK, CountInv
<1>1. CASE \E j \in Jobs, p \in Pids : LaunchSpawns(j, p)
  <2>1. PICK j \in Jobs, p \in Pids : LaunchSpawns(j, p)
    BY <1>1
  <2>2. /\ dpc = "start" /\ dused < Pool /\ dused' = dused /\ dpc' = "claim" /\ dcur' = j
        /\ status' = status
    BY <2>1 DEF LaunchSpawns, IsHead
  <2>3. Live' \ {j} \subseteq Live
    BY <2>1 DEF Live, LaunchSpawns, Inv, TypeOK
  <2>4. /\ IsFiniteSet(Live' \ {j}) /\ Cardinality(Live' \ {j}) \in Nat
        /\ Cardinality(Live' \ {j}) <= Cardinality(Live)
    BY <1>t, <2>3, PartIsSmaller
  <2>5. /\ IsFiniteSet(Live') /\ Cardinality(Live') \in Nat
        /\ Cardinality(Live') <= Cardinality(Live' \ {j}) + 1
    BY <2>4, OneMore
  <2>6. Cardinality(Live) <= dused
    BY <2>2 DEF CountInv
  <2> QED
    BY <1>t, <2>2, <2>4, <2>5, <2>6 DEF CountInv
<1>2. CASE Live' \subseteq Live
  <2>1. /\ IsFiniteSet(Live') /\ Cardinality(Live') \in Nat
        /\ Cardinality(Live') <= Cardinality(Live)
    BY <1>t, <1>2, PartIsSmaller
  <2>2. Cardinality(Live') <= Pool
    BY <1>t, <2>1 DEF CountInv
  <2>3. ASSUME NEW X
        PROVE  /\ IsFiniteSet(Live \ X)
               /\ Cardinality(Live' \ X) \in Nat /\ Cardinality(Live \ X) \in Nat
               /\ Cardinality(Live' \ X) <= Cardinality(Live \ X)
    <3>1. IsFiniteSet(Live \ X)
      BY <1>t, PartIsSmaller
    <3>2. Live' \ X \subseteq Live \ X
      BY <1>2
    <3> QED
      BY <3>1, <3>2, PartIsSmaller
  <2>4. CASE UNCHANGED <<dpc, dtodo, dcur, dused>>
    <3>1. dpc = "snapshot" => Cardinality(Live' \ dtodo) <= dused
      <4>1. /\ Cardinality(Live' \ dtodo) \in Nat /\ Cardinality(Live \ dtodo) \in Nat
            /\ Cardinality(Live' \ dtodo) <= Cardinality(Live \ dtodo)
        BY <2>3
      <4>2. dpc = "snapshot" => Cardinality(Live \ dtodo) <= dused
        BY DEF CountInv
      <4> QED
        BY <1>t, <4>1, <4>2
    <3>2. dpc \in {"start", "launchFailed"} => Cardinality(Live') <= dused
      BY <1>t, <2>1 DEF CountInv
    <3>3. dpc = "claim" => Cardinality(Live' \ {dcur}) <= dused /\ dused < Pool
      <4>1. /\ Cardinality(Live' \ {dcur}) \in Nat /\ Cardinality(Live \ {dcur}) \in Nat
            /\ Cardinality(Live' \ {dcur}) <= Cardinality(Live \ {dcur})
        BY <2>3
      <4>2. dpc = "claim" => Cardinality(Live \ {dcur}) <= dused /\ dused < Pool
        BY DEF CountInv
      <4> QED
        BY <1>t, <4>1, <4>2
    <3> QED
      BY <2>1, <2>2, <2>4, <3>1, <3>2, <3>3 DEF CountInv
  <2>5. CASE dpc' \notin {"snapshot", "start", "launchFailed", "claim"}
    BY <2>1, <2>2, <2>5 DEF CountInv
  <2>6. CASE ReconcileDone
    <3>1. Live' \ dtodo' = {}
      BY <2>6 DEF ReconcileDone, Live, Records, ActiveStatuses
    <3>2. Cardinality(Live' \ dtodo') <= dused'
      <4>1. Cardinality(Live' \ dtodo') = 0
        BY <3>1, FS_EmptySet, Zenon
      <4>2. dused' \in Nat
        BY <1>t
      <4> QED
        BY <4>1, <4>2
    <3>3. dpc' = "snapshot"
      BY <2>6 DEF ReconcileDone
    <3> QED
      BY <2>1, <2>2, <3>2, <3>3 DEF CountInv
  <2>7. ASSUME NEW j \in Jobs, SnapshotRead(j) PROVE CountInv'
    <3>1. Live' = Live
      BY <2>7 DEF SnapshotRead, Live
    <3>2. dpc = "snapshot" /\ dpc' = "snapshot" /\ dtodo' = dtodo \ {j}
      BY <2>7 DEF SnapshotRead
    <3>3. Cardinality(Live \ dtodo) <= dused
      BY <3>2 DEF CountInv
    <3>4. CASE j \in Live
      <4>1. dused' = dused + 1
        BY <2>7, <3>2, <3>4, LiveOccupies DEF SnapshotRead
      <4>2. (Live \ dtodo') \ {j} \subseteq Live \ dtodo
        BY <3>2
      <4>3. /\ IsFiniteSet((Live \ dtodo') \ {j})
            /\ Cardinality((Live \ dtodo') \ {j}) \in Nat /\ Cardinality(Live \ dtodo) \in Nat
            /\ Cardinality((Live \ dtodo') \ {j}) <= Cardinality(Live \ dtodo)
        BY <2>3, <4>2, PartIsSmaller
      <4>4. /\ Cardinality(Live \ dtodo') \in Nat
            /\ Cardinality(Live \ dtodo') <= Cardinality((Live \ dtodo') \ {j}) + 1
        BY <4>3, OneMore
      <4>5. Cardinality(Live' \ dtodo') <= dused'
        BY <1>t, <3>1, <3>3, <4>1, <4>3, <4>4
      <4> QED
        BY <2>1, <2>2, <3>2, <4>5 DEF CountInv
    <3>5. CASE j \notin Live
      <4>1. Live \ dtodo' = Live \ dtodo
        BY <3>2, <3>5
      <4>2. dused <= dused' /\ Cardinality(Live \ dtodo) \in Nat
        <5>1. dused <= dused'
          BY <1>t, <2>7 DEF SnapshotRead
        <5>2. Cardinality(Live \ dtodo) \in Nat
          BY <2>3
        <5> QED
          BY <5>1, <5>2
      <4>3. Cardinality(Live' \ dtodo') <= dused'
        <5>1. Live' \ dtodo' = Live \ dtodo
          BY <3>1, <4>1
        <5>2. Cardinality(Live' \ dtodo') = Cardinality(Live \ dtodo)
          BY <5>1, Zenon
        <5> QED
          BY <1>t, <3>3, <4>2, <5>2
      <4> QED
        BY <2>1, <2>2, <3>2, <4>3 DEF CountInv
    <3> QED
      BY <3>4, <3>5
  <2>8. CASE SnapshotDone
    <3>1. Live' = Live /\ dpc = "snapshot" /\ dpc' = "start" /\ dtodo = {} /\ dused' = dused
      BY <2>8 DEF SnapshotDone, Live
    <3>2. Live \ dtodo = Live
      BY <3>1
    <3> QED
      BY <2>1, <2>2, <3>1, <3>2 DEF CountInv
  <2>9. CASE \/ RecordLaunchFailure
             \/ \E j \in Jobs : LaunchRaises(j)
    <3>1. /\ dpc \in {"start", "launchFailed"} /\ dpc' \in {"start", "launchFailed"}
          /\ dused' = dused
      BY <2>9 DEF RecordLaunchFailure, LaunchRaises, IsHead
    <3> QED
      BY <1>t, <2>1, <2>2, <3>1 DEF CountInv
  <2>10. CASE Claim
    <3>1. dpc = "claim" /\ dpc' = "start" /\ dused' = dused + 1 /\ Live' = Live
      BY <2>10 DEF Claim, Live
    <3>2. Cardinality(Live \ {dcur}) <= dused /\ IsFiniteSet(Live \ {dcur})
      BY <2>3, <3>1 DEF CountInv
    <3>3. /\ Cardinality(Live \ {dcur}) \in Nat
          /\ Cardinality(Live) <= Cardinality(Live \ {dcur}) + 1
      BY <3>2, OneMore
    <3> QED
      BY <1>t, <2>1, <2>2, <3>1, <3>2, <3>3 DEF CountInv
  <2>11. \/ UNCHANGED <<dpc, dtodo, dcur, dused>>
         \/ dpc' \notin {"snapshot", "start", "launchFailed", "claim"}
         \/ ReconcileDone \/ SnapshotDone \/ RecordLaunchFailure \/ Claim
         \/ \E j \in Jobs : SnapshotRead(j) \/ LaunchRaises(j)
         \/ \E j \in Jobs, p \in Pids : LaunchSpawns(j, p)
    <3>1. ASSUME NEW j \in Jobs, SubmitStep(j) \/ Cancel(j) \/ GraceExpires(j)
          PROVE  UNCHANGED <<dpc, dtodo, dcur, dused>>
      BY <3>1 DEF SubmitStep, SubmitPin, SubmitCreate, SubmitCreateFails, Settle, Cancel,
                  GraceExpires
    <3>2. ASSUME NEW p \in Pids, WorkerStep(p) PROVE UNCHANGED <<dpc, dtodo, dcur, dused>>
      BY <3>2 DEF WorkerStep, BeginTakes, BeginRetired, BeginRefused, WaitCancelled,
                  AcquireMemory, LockedCancelled, StartRunning, Raises, TerminalizeRead,
                  TerminalizeWrite, FinishFailed, FinishComplete, ReleaseMemory, ReleasePin,
                  AbortReleasePin
    <3>3. ASSUME \/ \E d \in Jobs \cup Pids \cup {Cycle} : EnterDrain(d) \/ LeaveQueueToHolder(d)
                 \/ \E j \in Jobs : SubmitterDies(j)
                 \/ \E p \in Pids : WorkerDies(p)
                 \/ CycleDies
          PROVE  \/ UNCHANGED <<dpc, dtodo, dcur, dused>>
                 \/ dpc' \notin {"snapshot", "start", "launchFailed", "claim"}
      BY <3>3 DEF EnterDrain, LeaveQueueToHolder, SubmitterDies, WorkerDies, CycleDies,
                  DropQueueLock, ReleaseQueue
    <3>4. ASSUME \/ \E j \in Jobs : ReconcileSkip(j) \/ ReconcileRead(j)
                 \/ ReconcileProbe \/ ReconcileUnpin \/ DrainDone
          PROVE  dpc' \notin {"snapshot", "start", "launchFailed", "claim"}
      BY <3>4 DEF ReconcileSkip, ReconcileRead, ReconcileProbe, ReconcileUnpin, DrainDone,
                  ReleaseQueue
    <3>5. ASSUME NEW j \in Jobs, StartSkip(j) PROVE UNCHANGED <<dpc, dtodo, dcur, dused>>
      BY <3>5 DEF StartSkip
    <3>6. CASE UNCHANGED vars
      BY <3>6 DEF vars
    <3> QED
      BY <3>1, <3>2, <3>3, <3>4, <3>5, <3>6 DEF Next, NextWith, DrainStep
  <2> QED
    BY <1>1, <2>4, <2>5, <2>6, <2>7, <2>8, <2>9, <2>10, <2>11
<1> QED
  BY <1>1, <1>2, LiveStep

\* Different workers run different jobs, so there are no more of them than of
\* live jobs.
LEMMA PoolCapFollows ==
  ASSUME Inv, CountInv
  PROVE  PoolCap
<1> DEFINE Runners == {p \in Pids : phase[p] = "running"}
           job == [p \in Runners |-> wjob[p]]
<1>1. ASSUME NEW p \in Runners PROVE wjob[p] \in Live
  BY <1>1 DEF Live, Inv, TypeOK, ProcInv, PhaseInv, ActiveStatuses
<1>2. ASSUME NEW p \in Runners, NEW q \in Runners, wjob[p] = wjob[q] PROVE p = q
  BY <1>2 DEF Inv, ExecInv, Executing
<1>3. job \in Injection(Runners, Live)
  BY <1>1, <1>2 DEF Injection, IsInjective
<1>4. IsFiniteSet(Runners) /\ Cardinality(Runners) <= Cardinality(Live)
  BY <1>3, FS_Injection DEF CountInv
<1>5. Cardinality(Runners) \in Nat /\ Cardinality(Live) \in Nat /\ Pool \in Nat
  BY <1>4, FS_CardinalityType, ConstantsAssumption DEF CountInv
<1> QED
  BY <1>4, <1>5 DEF CountInv, PoolCap

\* The pool caps the integrations that run at a time, if a launched worker is
\* reported by its pid or reaches its record within the grace, as long as no
\* drainer died between a launch and its claim.
THEOREM PoolCapAlways ==
  ASSUME ReportsPid \/ PromptStart
  PROVE  MCStart /\ [][MCNext]_mcVars => []PoolCapUnlessLapsed
<1>1. MCStart => Inv /\ PoolInv
  <2> SUFFICES ASSUME MCStart PROVE Inv /\ PoolInv
    OBVIOUS
  <2>1. Inv
    BY InvInit DEF MCStart
  <2>2. Live = {}
    BY DEF MCStart, Init, Live
  <2>3. StampInv
    BY IdentityAssumption DEF MCStart, Init, StampInv
  <2>4. CountInv
    BY <2>2, FS_EmptySet, ConstantsAssumption DEF MCStart, Init, CountInv
  <2> QED
    BY <2>1, <2>3, <2>4 DEF PoolInv
<1>2. Inv /\ PoolInv /\ [MCNext]_mcVars => Inv' /\ PoolInv'
  <2> SUFFICES ASSUME Inv, PoolInv, [MCNext]_mcVars PROVE Inv' /\ PoolInv'
    OBVIOUS
  <2>1. [Next]_vars
    BY DEF MCNext, mcVars
  <2>2. Inv'
    BY <2>1, InvStep
  <2>3. lapsed => lapsed'
    BY DEF MCNext, mcVars
  <2>4. ~lapsed' => ~(dpc = "claim" /\ crashes' # crashes /\ dpc' # dpc)
    BY DEF MCNext, mcVars, vars, drainVars
  <2> QED
    BY <2>1, <2>2, <2>3, <2>4, StampStep, CountStep DEF PoolInv
<1>3. Inv /\ PoolInv => PoolCapUnlessLapsed
  BY PoolCapFollows DEF PoolInv, PoolCapUnlessLapsed
<1> QED
  BY <1>1, <1>2, <1>3, PTL

=============================================================================
