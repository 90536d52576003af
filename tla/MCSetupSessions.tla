--------------------------- MODULE MCSetupSessions ---------------------------
(* Instances of SetupSessions for TLC. *)
EXTENDS SetupSessions, TLC

\* Requests are interchangeable (runs without liveness).
MCSymmetry == Permutations(Requests)
=============================================================================
