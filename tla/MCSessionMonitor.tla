-------------------------- MODULE MCSessionMonitor --------------------------
(* Small instances of SessionMonitor. *)
EXTENDS SessionMonitor, TLC

\* The players of a session differ in nothing.
Symmetry == Permutations(Players)
=============================================================================
