------------------------------ MODULE MCAgents ------------------------------
(* One agent with a private prompt that a routine names and a memory of its
   own, a second team to move it to, a channel with content and a channel key
   that is not declared yet. *)
EXTENDS Agents, TLC

CONSTANTS e1, e2, n1, p1, c1, c2, j1, j2, A, B

MCAgent(uses, m) == [prompts |-> {p1}, uses |-> uses, memory |-> m, section |-> FALSE]

MCInitialStates ==
    {[config |-> [agents |-> [s \in Slots |->
                                IF s = <<1, n1>> THEN MCAgent(uses, m) ELSE NoAgent],
                  channels |-> {c1}],
      files |-> [x \in Slots \X Prompts |-> IF x = <<<<1, n1>>, p1>> THEN A ELSE Missing],
      memory |-> [x \in Slots \cup Channels |->
                    IF x \in Channels THEN IF x = c1 THEN A ELSE Missing
                    ELSE IF x = <<1, n1>> THEN A ELSE Missing]] :
     uses \in {{}, {p1}}, m \in {OwnMemory, c1}}

MCEditorSymmetry == Permutations(Editors)
=============================================================================
