------------------------ MODULE MCMemoryPublication ------------------------
(***************************************************************************)
(* Instances of MemoryPublication for TLC.                                 *)
(***************************************************************************)
EXTENDS MemoryPublication, TLC

\* Jobs that differ in nothing but their names.
MCJobSymmetry == Permutations(Jobs)
=============================================================================
