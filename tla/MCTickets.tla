----------------------------- MODULE MCTickets -----------------------------
(* Instances of Tickets for TLC. *)
EXTENDS Tickets, TLC

MCPromptAgent == [j \in PromptJobs |-> CHOOSE a \in Agents : TRUE]

(* A workflow with one field and two transitions: finishing gives the field as an
   output and meets a criterion, reopening needs the field to be set. *)
MCFieldKinds == [f \in {"proof"} |-> "boolean"]

MCTransitions ==
    {[from |-> "open", to |-> "done", inputs |-> <<>>,
      outputs |-> [f \in {"proof"} |-> [required |-> TRUE]],
      preconditions |-> {}, criteria |-> {"tested"}],
     [from |-> "done", to |-> "open", inputs |-> <<>>, outputs |-> <<>>,
      preconditions |-> {[field |-> "proof", operator |-> "is_present", value |-> Null]},
      criteria |-> {}]}

MCOpenOnly == {[t EXCEPT !.to = "open"] : t \in {u \in MCTransitions : u.from = "open"}}

MCFieldValues == {<<>>} \cup [{"proof"} -> {Null, [type |-> "boolean", value |-> "true"]}]

MCAssessments == {<<>>} \cup
    {<<[criterion |-> "tested", satisfied |-> b, fields |-> {"proof"}]>> : b \in BOOLEAN}

(* Requests are interchangeable, and so are agents when no job names one. *)
MCSymmetry == Permutations(Requests) \cup Permutations(Agents)
=============================================================================
