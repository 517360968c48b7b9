--------------------------- MODULE MCHostProcesses ---------------------------
(* Small instances of HostProcesses. *)
EXTENDS HostProcesses, TLC

CONSTANTS h1, h2, s1, s2, s3

Symmetry == Permutations({h1, h2}) \cup Permutations({s1, s2, s3})
=============================================================================
