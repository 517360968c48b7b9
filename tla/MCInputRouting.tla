--------------------------- MODULE MCInputRouting ---------------------------
(* Small instances of InputRouting. *)
EXTENDS InputRouting, TLC

\* Sessions and viewers differ in nothing; neither do the players.
Symmetry == Permutations(Sessions) \cup Permutations(Players) \cup Permutations(Viewers)
=============================================================================
