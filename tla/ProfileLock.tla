---------------------------- MODULE ProfileLock ----------------------------
(***************************************************************************)
(* What the host promises about persistent save and config profiles,       *)
(* whatever its threads do: a lock per profile, taken by a session when it *)
(* is admitted and given back after its emulator has stopped and its saves *)
(* have been pulled back.  A session that gave its profile back never      *)
(* takes one again.                                                        *)
(***************************************************************************)
CONSTANTS Sessions, Profiles, None

VARIABLES holder, spent

lockVars == <<holder, spent>>

LockTypeOK ==
    /\ holder \in [Profiles -> Sessions \cup {None}]
    /\ spent \subseteq Sessions

LockInit ==
    /\ holder = [p \in Profiles |-> None]
    /\ spent = {}

Acquire(p, s) ==
    /\ holder[p] = None
    /\ s \notin spent
    /\ \A q \in Profiles : holder[q] # s
    /\ holder' = [holder EXCEPT ![p] = s]
    /\ UNCHANGED spent

Release(p) ==
    /\ holder[p] # None
    /\ spent' = spent \cup {holder[p]}
    /\ holder' = [holder EXCEPT ![p] = None]

LockNext == \E p \in Profiles : Release(p) \/ \E s \in Sessions : Acquire(p, s)

LockSpec == LockInit /\ [][LockNext]_lockVars
=============================================================================
