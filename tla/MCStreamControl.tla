-------------------------- MODULE MCStreamControl --------------------------
(* Small instances of StreamControl. *)
EXTENDS StreamControl, TLC

\* Players differ in nothing.
Symmetry == Permutations(Players)
=============================================================================
