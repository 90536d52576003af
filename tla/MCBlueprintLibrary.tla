-------------------------- MODULE MCBlueprintLibrary --------------------------
(***************************************************************************)
(* Instances of BlueprintLibrary for TLC: a blueprint of two files, an     *)
(* edit of each of them or the deletion of its prompt, and two jobs.       *)
(***************************************************************************)
EXTENDS BlueprintLibrary

CONSTANTS e1, e2, j1, j2

\* ".agents" sorts before "AGENTS.md".
MCFileOrder == <<"prompt", "AGENTS.md">>
MCEditFile == [e \in Editors |-> IF e = e1 THEN "AGENTS.md" ELSE "prompt"]

\* j1 reads the blueprint among the steps of everyone else. j2 is there for what
\* it does to the cache: it reads the blueprint in one go, and neither dies nor
\* fails to write an entry (j1 does).
MCNext ==
  /\ Next
  /\ job[j2].pc \in Captures => job'[j2] # job[j2]
  /\ trouble' # trouble => job'[j2] = job[j2]

MCSpec == Init /\ [][MCNext]_vars /\ Fairness

=============================================================================
