-------------------------- MODULE MCHostAdmission --------------------------
(* Small instances of HostAdmission for TLC. *)
EXTENDS HostAdmission, TLC

CONSTANTS u1, u2, g1

\* Players of both modes and a viewer, two users, one game: the start of one
\* session races the joins and starts of the others.
OneGameHellos ==
    [user : {u1, u2}, game : {g1}, mode : Modes, seats : {1}]
        \cup {[user |-> u2, game |-> g1, mode |-> "single", seats |-> 0]}

\* One slot: a singleplayer client, multiplayer clients that need company or
\* come with two players, and a viewer.
OneSlotHellos ==
    {[user |-> u1, game |-> g1, mode |-> "single", seats |-> 1],
     [user |-> u2, game |-> g1, mode |-> "single", seats |-> 0],
     [user |-> u1, game |-> g1, mode |-> "multi",  seats |-> 1],
     [user |-> u2, game |-> g1, mode |-> "multi",  seats |-> 2]}

ConnSymmetry == Permutations(Conns)
=============================================================================
