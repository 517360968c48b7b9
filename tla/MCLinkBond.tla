----------------------------- MODULE MCLinkBond -----------------------------
(* Small instances of LinkBond. *)
EXTENDS LinkBond, TLC

\* Users differ in nothing; slots do, by their index.
Symmetry == Permutations(Users)
=============================================================================
