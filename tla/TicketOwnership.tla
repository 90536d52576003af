--------------------------- MODULE TicketOwnership ---------------------------
(***************************************************************************)
(* What the ticket workflows promise of one ticket, without revisions,    *)
(* sessions, reservations or cleanup: a ticket has at most one owning run, *)
(* only that run moves it between workflow states, ownership is taken from *)
(* a run only when the run gives it up or its processes are known to be    *)
(* gone, and nobody reassigns a ticket that a run owns.                    *)
(*                                                                         *)
(* Design: docs/superpowers/specs/2026-09-08-ticket-workflows-design.md,   *)
(* section 7.  Tickets.tla is shown to implement this module.              *)
(***************************************************************************)

CONSTANTS Runs,      \* the runs (jobs) that may work on the ticket
          NoRun,     \* "no run owns the ticket"
          Agents,    \* the configured agents
          NoAgent,   \* "unassigned"
          States     \* the workflow states

VARIABLES assignee,  \* the agent the ticket is assigned to
          owner,     \* the run that works on it
          state,     \* its workflow state
          alive      \* the runs whose processes may still be at work

vars == <<assignee, owner, state, alive>>

Init == /\ assignee = NoAgent
        /\ owner = NoRun
        /\ state \in States
        /\ alive = {}

(* The user assigns or unassigns a ticket that no run owns. *)
Assign(a) == /\ owner = NoRun
             /\ assignee' = a
             /\ UNCHANGED <<owner, state, alive>>

(* A run of agent a takes an unowned ticket that is a's or nobody's. *)
Claim(r, a) == /\ owner = NoRun
               /\ assignee \in {NoAgent, a}
               /\ owner' = r
               /\ assignee' = a
               /\ UNCHANGED <<state, alive>>

(* The owner moves the ticket through its workflow. *)
Move(r) == /\ owner = r
           /\ state' \in States
           /\ UNCHANGED <<assignee, owner, alive>>

(* The owner ends its work, or also signs off the assignment. *)
GiveUp(r) == /\ owner = r
             /\ owner' = NoRun
             /\ assignee' \in {assignee, NoAgent}
             /\ UNCHANGED <<state, alive>>

(* Ownership of a run whose processes are gone is withdrawn. *)
Withdraw(r) == /\ owner = r
               /\ r \notin alive
               /\ owner' = NoRun
               /\ UNCHANGED <<assignee, state, alive>>

(* Processes start and stop on their own. *)
Live == /\ alive' \in SUBSET Runs
        /\ UNCHANGED <<assignee, owner, state>>

Next == \/ \E a \in Agents \cup {NoAgent} : Assign(a)
        \/ \E r \in Runs, a \in Agents : Claim(r, a)
        \/ \E r \in Runs : Move(r) \/ GiveUp(r) \/ Withdraw(r)
        \/ Live

Spec == Init /\ [][Next]_vars

=============================================================================
