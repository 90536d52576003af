----------------------------- MODULE MCJobQueue -----------------------------
(* Instances of JobQueue for TLC. *)
EXTENDS JobQueue, TLC

CONSTANTS j1, j2, p1, p2, m1, m2

VARIABLE lapsed  \* history: a drainer died between a launch and its claim

mcVars == <<vars, lapsed>>

MCOneMemory == [j \in Jobs |-> m1]
MCOwnMemory == [j \in Jobs |-> IF j = j1 THEN m1 ELSE m2]
MCRank == [j \in Jobs |-> IF j = j1 THEN 2 ELSE 1]

\* Pids are interchangeable; only the runs of state invariants use this.
MCPidSymmetry == Permutations(Pids)

\* The jobs of queued are queued and their submissions have returned: each one's
\* drain found the queue held by another drainer.
MCInit(queued) ==
  /\ status = [j \in Jobs |-> IF j \in queued THEN "queued" ELSE "none"]
  /\ pins = queued
  /\ sub = [j \in Jobs |-> IF j \in queued THEN "accepted" ELSE "none"]
  /\ workerPid = [j \in Jobs |-> Nobody]
  /\ launchedAt = [j \in Jobs |-> "none"]
  /\ phase = [p \in Pids |-> "absent"]
  /\ wjob = [p \in Pids |-> Nobody]
  /\ memLock = [m \in Memories |-> Nobody]
  /\ queueLock = Nobody
  /\ dpc = "idle"
  /\ dtodo = {}
  /\ dcur = Nobody
  /\ dseen = "none"
  /\ dpid = Nobody
  /\ dwait = {}
  /\ dused = 0
  /\ crashes = 0
  /\ executor = [j \in Jobs |-> Nobody]

MCNext == Next /\ lapsed' = (lapsed \/ (dpc = "claim" /\ crashes' # crashes /\ dpc' # dpc))

\* j2 is submitted first and never cancelled: the jobs differ in nothing but their
\* rank, so j1 meets every cancellation and every drain already under way.
MCStaggered ==
  /\ (j1 \in pins' \ pins) => status[j2] # "none"
  /\ status'[j2] # "cancelled"

MCStart == Init /\ lapsed = FALSE

MCSpec == MCStart /\ [][MCNext /\ MCStaggered]_mcVars

MCQueuedSpec ==
  MCInit(Jobs) /\ lapsed = FALSE /\ [][MCNext]_mcVars /\ QueueFairness /\ TimerFairness

\* The pool caps the integrations that run at a time, as long as no drainer died
\* with a worker launched and its record not claimed (such a worker has no slot).
PoolCapUnlessLapsed == lapsed \/ PoolCap
=============================================================================
