--------------------------- MODULE WorkflowRules ---------------------------
(***************************************************************************)
(* The rule that decides whether a ticket may take a transition            *)
(* (workflows/rules.py): a pure function of the transition's declaration,   *)
(* the ticket's state and values, and what the agent supplies.  The order   *)
(* of the refusals is not kept, since every refusal leaves the ticket as it *)
(* is.                                                                      *)
(*                                                                         *)
(* A field value is [type, value]; a field that was never set is outside    *)
(* the domain of the values.  A transition is a record with its source and  *)
(* destination, the fields it takes and gives (with whether each is         *)
(* required), its preconditions, and the criteria the agent must assess.    *)
(***************************************************************************)
EXTENDS Naturals, Sequences, Functions

(* An explicit null. *)
Null == [type |-> "null", value |-> "none"]

(* get: the value of a field, null when it was never set. *)
ValueOf(values, f) == IF f \in DOMAIN values THEN values[f] ELSE Null

(* _kind_matches_value *)
KindMatches(kind, v) == v.type = kind

(* validate_field_value: an optional value may be null, a required text must not
   be blank, and every value has its field's kind. *)
FieldValueOK(kind, v, required) ==
    IF v = Null THEN ~required
    ELSE KindMatches(kind, v) /\ ~(kind = "text" /\ required /\ v.value = "blank")

(* The values the transition is judged on: the ticket's, overridden by what the
   agent supplies, declared as an input or not. *)
Effective(current, supplied) ==
    [f \in DOMAIN current \cup DOMAIN supplied |->
        IF f \in DOMAIN supplied THEN supplied[f] ELSE current[f]]

InputsValid(kinds, t, effective) ==
    \A f \in DOMAIN t.inputs :
        FieldValueOK(kinds[f], ValueOf(effective, f), t.inputs[f].required)

OutputsValid(kinds, t, outputs) ==
    /\ DOMAIN outputs \subseteq DOMAIN t.outputs
    /\ \A f \in DOMAIN t.outputs :
          FieldValueOK(kinds[f], ValueOf(outputs, f), t.outputs[f].required)

(* A missing value satisfies neither "equals" nor "not_equals". *)
PreconditionHolds(kinds, t, effective, pre) ==
    LET v == ValueOf(effective, pre.field) IN
    /\ pre.field \notin DOMAIN t.inputs /\ v # Null => KindMatches(kinds[pre.field], v)
    /\ CASE pre.operator = "equals"     -> v = pre.value
         [] pre.operator = "not_equals" -> v # Null /\ v # pre.value
         [] pre.operator = "is_present" -> v # Null

(* Every criterion is assessed once, as satisfied, on fields that are there. *)
CriteriaMet(t, effective, outputs, assessments) ==
    /\ \A i \in DOMAIN assessments :
          /\ assessments[i].criterion \in t.criteria
          /\ assessments[i].satisfied
          /\ assessments[i].fields \subseteq DOMAIN effective \cup DOMAIN outputs
    /\ \A i, k \in DOMAIN assessments :
          assessments[i].criterion = assessments[k].criterion => i = k
    /\ t.criteria = {assessments[i].criterion : i \in DOMAIN assessments}

(* evaluate_transition: the transition is accepted. *)
EvaluateTransition(kinds, t, state, current, supplied, outputs, assessments) ==
    LET effective == Effective(current, supplied) IN
    /\ t.from = state
    /\ InputsValid(kinds, t, effective)
    /\ OutputsValid(kinds, t, outputs)
    /\ \A pre \in t.preconditions : PreconditionHolds(kinds, t, effective, pre)
    /\ CriteriaMet(t, effective, outputs, assessments)
=============================================================================
