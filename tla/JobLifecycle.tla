---------------------------- MODULE JobLifecycle ----------------------------
(***************************************************************************)
(* What the durable job queue promises about one job record, whatever the  *)
(* drains, workers, cancellations and crashes around it do.                *)
(*                                                                         *)
(* A job is created queued.  At most one worker process ever becomes its   *)
(* executor; that process alone may run it and only a run may complete it. *)
(* A job that ended stays as it ended.  The statuses are those of          *)
(* flowgency/jobs/store.py.                                                *)
(***************************************************************************)
CONSTANTS Jobs,     \* job records
          Pids,     \* worker processes
          Nobody    \* no process

VARIABLES state,    \* state[j]: "none" before creation, then the record's status
          executor  \* executor[j]: the process that took the job, if one did

lifecycleVars == <<state, executor>>

Init == /\ state = [j \in Jobs |-> "none"]
        /\ executor = [j \in Jobs |-> Nobody]

\* The record is written, queued.
Create(j) == /\ state[j] = "none"
             /\ state' = [state EXCEPT ![j] = "queued"]
             /\ UNCHANGED executor

\* A process takes a queued job that no process took before.
Take(j, p) == /\ state[j] = "queued"
              /\ executor[j] = Nobody
              /\ state' = [state EXCEPT ![j] = "waiting_for_memory"]
              /\ executor' = [executor EXCEPT ![j] = p]

\* A taken job starts to run.
Run(j) == /\ state[j] = "waiting_for_memory"
          /\ executor[j] # Nobody
          /\ state' = [state EXCEPT ![j] = "running"]
          /\ UNCHANGED executor

\* Only a running job completes.
Complete(j) == /\ state[j] = "running"
               /\ state' = [state EXCEPT ![j] = "complete"]
               /\ UNCHANGED executor

\* A job that has not ended may fail.
Fail(j) == /\ state[j] \in {"queued", "waiting_for_memory", "running"}
           /\ state' = [state EXCEPT ![j] = "failed"]
           /\ UNCHANGED executor

\* A job may be cancelled until it runs.
CancelJob(j) == /\ state[j] \in {"queued", "waiting_for_memory"}
                /\ state' = [state EXCEPT ![j] = "cancelled"]
                /\ UNCHANGED executor

Next == \E j \in Jobs : \/ Create(j)
                        \/ \E p \in Pids : Take(j, p)
                        \/ Run(j)
                        \/ Complete(j)
                        \/ Fail(j)
                        \/ CancelJob(j)

Spec == Init /\ [][Next]_lifecycleVars
=============================================================================
