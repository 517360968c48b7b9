---------------------------- MODULE LinkBondProofs ----------------------------
(***************************************************************************)
(* What holds of Link for any slots, users, systems and number of client   *)
(* ids, although the slot threads share the coordinator without a lock.    *)
(***************************************************************************)
EXTENDS LinkBond, TLAPS

-----------------------------------------------------------------------------
(* The inductive invariant. *)

\* Ids not given out yet belong to nobody and ask for nobody.
FreshIds ==
    \A i \in Ids : i >= nextId =>
        client[i].user = None /\ client[i].slot = None /\ ~client[i].up /\ offer[i] = None

\* An id in a plan has a user, and its session runs.
KnownRun ==
    \A i \in Ids :
        /\ client[i].slot # None => client[i].user \in Users /\ runtime[client[i].slot] # "off"
        /\ client[i].up => client[i].slot # None

\* A user is in one session at a time, under one id.
OneLiveId ==
    \A i, j \in Ids : client[i].slot # None /\ client[j].slot # None
                      /\ client[i].user = client[j].user => i = j

\* A request that is being handled is of a connected client of that slot, whose
\* earlier offer has gone.
Handled ==
    \A s \in Slots : at[s] # None =>
        /\ client[at[s].id].slot = s /\ client[at[s].id].up
        /\ said[client[at[s].id].user] = at[s].target
        /\ offer[at[s].id] = None
        /\ at[s].peer # at[s].id

\* A slot without a session has nothing left to do.
OffClean ==
    \A s \in Slots : runtime[s] = "off" => netplay[s] = None /\ playing[s] = None

\* The cable names ids that have been given out.
CableOld == cable.a < nextId /\ cable.b < nextId

Safe == OffersStand /\ CableFits /\ RelaunchFits
Strong == FreshIds /\ KnownRun /\ OneLiveId /\ Handled /\ OffClean /\ CableOld
IInv == TypeOK /\ Strong /\ Safe

-----------------------------------------------------------------------------
(* Lemmas about the operators of the model. *)

\* A crew is one user or two different ones.
LEMMA CrewShape ==
    ASSUME NEW crew \in Crews
    PROVE  /\ Len(crew) \in 1 .. 2
           /\ \A k \in 1 .. Len(crew) : crew[k] \in Users
           /\ DOMAIN crew = 1 .. Len(crew)
           /\ \A k, l \in 1 .. Len(crew) : crew[k] = crew[l] => k = l
<1>1. PICK n \in 1 .. 2 : crew \in [1 .. n -> Users]
    BY DEF Crews
<1>2. crew \in Seq(Users) /\ Len(crew) = n
    <2>1. n \in Nat
        OBVIOUS
    <2> QED  BY <1>1, <2>1
<1>3. Len(crew) = 2 => crew[1] # crew[2]
    BY DEF Crews
<1> QED  BY <1>1, <1>2, <1>3

\* The initial state satisfies the invariant.
LEMMA InitInv == Init => IInv
<1> SUFFICES ASSUME Init PROVE IInv
    OBVIOUS
<1> USE LinkAssumption DEF LinkAssumption
<1>1. TypeOK
    BY DEF Init, TypeOK, NoCable, NoId, Ids
<1>2. Strong
    BY DEF Init, Strong, FreshIds, KnownRun, OneLiveId, Handled, OffClean, CableOld, NoCable, NoId, Ids
<1>3. Safe
    BY DEF Init, Safe, OffersStand, CableFits, RelaunchFits, NoCable
<1> QED  BY <1>1, <1>2, <1>3 DEF IInv

-----------------------------------------------------------------------------
(* Every action keeps the invariant. *)

\* A request is read and looked up.
LEMMA AskInv ==
    ASSUME IInv, NEW s \in Slots, NEW i \in Ids, NEW target \in Users, Ask(s, i, target)
    PROVE  IInv'
<1> USE LinkAssumption DEF LinkAssumption, IInv
<1>1. PICK p \in FindMutual(offer', i, target) :
          at' = [at EXCEPT ![s] = [id |-> i, target |-> target, peer |-> p]]
    BY DEF Ask
<1>2. p \in (Ids \ {i}) \cup {NoId}
    BY <1>1 DEF FindMutual, Backs
<1>3. /\ runtime[s] # "off" /\ at[s] = None /\ client[i].slot = s /\ client[i].up
      /\ offer' = [offer EXCEPT ![i] = None]
      /\ said' = [said EXCEPT ![client[i].user] = target]
      /\ UNCHANGED <<sessionVars, runtime, cable, promotion, netplay, playing>>
    BY DEF Ask, Free
<1>4. client[i].user \in Users
    BY <1>3 DEF Strong, KnownRun
<1>5. TypeOK'
    BY <1>1, <1>2, <1>3, <1>4 DEF TypeOK, Pauses, sessionVars
<1>6. FreshIds' /\ KnownRun' /\ OneLiveId' /\ OffClean' /\ CableOld'
    BY <1>3 DEF Strong, FreshIds, KnownRun, OneLiveId, OffClean, CableOld, TypeOK, sessionVars
<1>7. Handled'
    <2>1. at'[s].id = i /\ at'[s].target = target /\ at'[s].peer # i
        BY <1>1, <1>2, <1>3 DEF TypeOK, NoId, Ids
    <2>2. offer'[i] = None /\ said'[client[i].user] = target
        BY <1>3, <1>4 DEF TypeOK
    <2>3. ASSUME NEW t \in Slots \ {s}, at[t] # None
          PROVE  said'[client[at[t].id].user] = said[client[at[t].id].user]
                 /\ offer'[at[t].id] = None
        <3>1. at[t].id \in Ids /\ client[at[t].id].slot = t
            BY <2>3 DEF TypeOK, Pauses, Strong, Handled
        <3>2. client[at[t].id].user # client[i].user
            BY <3>1, <1>3 DEF Strong, OneLiveId
        <3> QED  BY <2>3, <3>1, <3>2, <1>3, <1>4 DEF TypeOK, Strong, Handled, KnownRun
    <2>4. \A t \in Slots \ {s} : at'[t] = at[t]
        BY <1>1 DEF TypeOK
    <2>5. client' = client
        BY <1>3 DEF sessionVars
    <2> QED  BY <2>1, <2>2, <2>3, <2>4, <2>5, <1>3 DEF Strong, Handled
<1>8. OffersStand'
    <2>1. ASSUME NEW j \in Ids, offer'[j] # None, client[j].slot # None
          PROVE  client[j].up /\ said'[client[j].user] = offer'[j]
        <3>1. j # i /\ offer'[j] = offer[j]
            BY <2>1, <1>3 DEF TypeOK
        <3>2. client[j].user # client[i].user /\ client[j].user \in Users
            BY <3>1, <2>1, <1>3 DEF Strong, OneLiveId, KnownRun
        <3> QED  BY <3>1, <3>2, <2>1, <1>3, <1>4 DEF TypeOK, Safe, OffersStand, Known
    <2> QED  BY <2>1, <1>3 DEF OffersStand, Known, sessionVars
<1>9. CableFits' /\ RelaunchFits'
    BY <1>3 DEF Safe, CableFits, RelaunchFits, Known, sessionVars
<1> QED  BY <1>5, <1>6, <1>7, <1>8, <1>9 DEF Strong, Safe

\* Nobody asks back: the offer waits.
LEMMA OfferInv ==
    ASSUME IInv, NEW s \in Slots, Offer(s)
    PROVE  IInv'
<1> USE LinkAssumption DEF LinkAssumption, IInv
<1> DEFINE i == at[s].id
<1>1. /\ at[s] # None
      /\ offer' = [offer EXCEPT ![i] = at[s].target]
      /\ at' = [at EXCEPT ![s] = None]
      /\ UNCHANGED <<sessionVars, runtime, cable, promotion, netplay, playing, said>>
    BY DEF Offer
<1>2. i \in Ids /\ at[s].target \in Users
    BY <1>1 DEF TypeOK, Pauses
<1>3. client[i].slot = s /\ client[i].up /\ said[client[i].user] = at[s].target
    BY <1>1 DEF Strong, Handled
<1> HIDE DEF i
<1>4. TypeOK'
    BY <1>1, <1>2 DEF TypeOK, sessionVars
<1>5. FreshIds'
    BY <1>1, <1>2, <1>3 DEF Strong, FreshIds, TypeOK, sessionVars
<1>6. KnownRun' /\ OneLiveId' /\ OffClean' /\ CableOld'
    BY <1>1 DEF Strong, KnownRun, OneLiveId, OffClean, CableOld, sessionVars
<1>7. Handled'
    <2>1. ASSUME NEW t \in Slots, at'[t] # None
          PROVE  t # s /\ at'[t] = at[t] /\ offer'[at[t].id] = None
        <3>1. t # s /\ at'[t] = at[t]
            BY <2>1, <1>1 DEF TypeOK
        <3>2. at[t].id \in Ids /\ client[at[t].id].slot = t /\ offer[at[t].id] = None
            BY <2>1, <3>1 DEF TypeOK, Pauses, Strong, Handled
        <3> QED  BY <3>1, <3>2, <1>1, <1>3 DEF TypeOK
    <2> QED  BY <2>1, <1>1 DEF Strong, Handled, sessionVars
<1>8. OffersStand'
    BY <1>1, <1>2, <1>3 DEF Safe, OffersStand, Known, TypeOK, sessionVars
<1>9. CableFits' /\ RelaunchFits'
    BY <1>1 DEF Safe, CableFits, RelaunchFits, Known, sessionVars
<1> QED  BY <1>4, <1>5, <1>6, <1>7, <1>8, <1>9 DEF Strong, Safe

\* A match: the cable joins two ids whose slots are of one system, and each
\* slot is given the name of its own player.
LEMMA MatchInv ==
    ASSUME IInv, NEW s \in Slots, Match(s)
    PROVE  IInv'
<1> USE LinkAssumption DEF LinkAssumption, IInv
<1> DEFINE i == at[s].id
           q == at[s].peer
<1>1. /\ at[s] # None /\ q # NoId
      /\ offer' = [offer EXCEPT ![q] = None]
      /\ at' = [at EXCEPT ![s] = None]
      /\ UNCHANGED <<sessionVars, runtime, playing, said>>
    BY DEF Match
<1>2. i \in Ids /\ q \in Ids
    BY <1>1 DEF TypeOK, Pauses
<1>3. client[i].slot = s /\ client[i].up /\ q # i
    BY <1>1 DEF Strong, Handled
<1>4. PICK p \in Resolved(q, i) :
        IF ~CableFor(s, p)
        THEN UNCHANGED <<cable, promotion, netplay>>
        ELSE /\ cable' = Cabled(system[s], p, i)
             /\ promotion' = IF system[s] = "netplay" /\ client[p].slot = s
                             THEN [promotion EXCEPT ![s] = TRUE] ELSE promotion
             /\ netplay' = IF system[s] = "netplay" /\ client[p].slot # s
                           THEN Queued(s, client[p].slot, p, i) ELSE netplay
    BY DEF Match
<1> HIDE DEF i, q
<1>5. p # NoId => p \in Ids /\ p # i /\ client[p].slot # None
    BY <1>2, <1>3 DEF Resolved, Known
<1>6. client[i].user \in Users /\ i < nextId /\ (p # NoId => client[p].user \in Users /\ p < nextId)
    BY <1>2, <1>3, <1>5 DEF Strong, KnownRun, FreshIds, TypeOK, Ids
<1>7. CASE ~CableFor(s, p)
    <2>1. UNCHANGED <<cable, promotion, netplay>>
        BY <1>4, <1>7
    <2>2. TypeOK'
        BY <1>1, <1>2, <2>1 DEF TypeOK, sessionVars
    <2>3. FreshIds' /\ KnownRun' /\ OneLiveId' /\ Handled' /\ OffClean' /\ CableOld'
        BY <1>1, <1>2, <2>1 DEF Strong, FreshIds, KnownRun, OneLiveId, Handled, OffClean,
                                CableOld, TypeOK, Pauses, sessionVars
    <2>4. OffersStand'
        BY <1>1, <1>2 DEF Safe, OffersStand, Known, TypeOK, sessionVars
    <2>5. CableFits' /\ RelaunchFits'
        BY <1>1, <1>2, <2>1 DEF Safe, CableFits, RelaunchFits, Known, sessionVars
    <2> QED  BY <2>2, <2>3, <2>4, <2>5 DEF Strong, Safe
<1>8. CASE CableFor(s, p)
    <2> DEFINE t == client[p].slot
    <2>1. p \in Ids /\ p # i /\ t \in Slots /\ system[t] = system[s] /\ p < nextId
          /\ client[p].user \in Users
        BY <1>5, <1>6, <1>8 DEF CableFor, TypeOK
    <2>2. cable' = Cabled(system[s], p, i)
        BY <1>4, <1>8
    <2>3. promotion' \in [Slots -> BOOLEAN]
        BY <1>4, <1>8 DEF TypeOK
    <2>4. \/ netplay' = netplay
          \/ t # s /\ netplay' = Queued(s, t, p, i)
        BY <1>4, <1>8
    <2>0. client[p].slot = t
        OBVIOUS
    <2> HIDE DEF t
    <2>5. LowerOf(s, t) \in Slots /\ LowerOf(s, t) <= s /\ LowerOf(s, t) <= t
        BY <2>1 DEF LowerOf
    <2>6. runtime[s] # "off" /\ runtime[t] # "off"
        BY <1>2, <1>3, <2>0, <2>1 DEF Strong, KnownRun
    <2>7. TypeOK'
        <3>1. cable' \in [on : BOOLEAN, a : Ids \cup {NoId}, b : Ids \cup {NoId}]
            BY <2>1, <2>2, <1>2 DEF Cabled, NoCable
        <3>2. netplay' \in [Slots -> Requests \cup {None}]
            <4> DEFINE hr == [host |-> TRUE,  port |-> LowerOf(s, t), nick |-> client[p].user]
                       cr == [host |-> FALSE, port |-> LowerOf(s, t), nick |-> client[i].user]
            <4>1. hr \in Requests /\ cr \in Requests
                BY <2>1, <2>5, <1>6 DEF Requests
            <4>2. Queued(s, t, p, i) = [netplay EXCEPT ![t] = hr, ![s] = cr]
                BY DEF Queued
            <4> HIDE DEF hr, cr
            <4> QED  BY <4>1, <4>2, <2>1, <2>4 DEF TypeOK
        <3> QED  BY <3>1, <3>2, <2>3, <1>1, <1>2 DEF TypeOK, sessionVars
    <2>8. FreshIds' /\ KnownRun' /\ OneLiveId' /\ Handled'
        <3>1. KnownRun' /\ OneLiveId'
            BY <1>1 DEF Strong, KnownRun, OneLiveId, sessionVars
        <3>2. FreshIds'
            BY <1>1, <1>2 DEF Strong, FreshIds, TypeOK, sessionVars
        <3>3. \A x \in Slots : at'[x] # None => at'[x] = at[x] /\ at[x].id \in Ids
            BY <1>1 DEF TypeOK, Pauses
        <3>4. \A j \in Ids : offer[j] = None => offer'[j] = None
            BY <1>1, <1>2 DEF TypeOK
        <3> QED  BY <3>1, <3>2, <3>3, <3>4, <1>1 DEF Strong, Handled, sessionVars
    <2>9. OffClean'
        BY <2>4, <2>6, <1>1, <2>1 DEF Strong, OffClean, Queued, TypeOK
    <2>10. CableOld'
        <3>1. nextId' = nextId /\ NoId < nextId
            BY <1>1 DEF sessionVars, TypeOK, NoId
        <3> QED  BY <3>1, <2>1, <2>2, <1>6 DEF Strong, CableOld, Cabled, NoCable
    <2>11. OffersStand'
        BY <1>1, <1>2 DEF Safe, OffersStand, Known, TypeOK, sessionVars
    <2>12. CableFits'
        <3>1. cable'.on => cable' = [on |-> TRUE, a |-> p, b |-> i]
            BY <2>2 DEF Cabled, NoCable
        <3>2. UNCHANGED <<client, system>>
            BY <1>1 DEF sessionVars
        <3> QED  BY <3>1, <3>2, <2>0, <2>1, <1>2, <1>3 DEF CableFits, Ids, NoId
    <2>13. RelaunchFits'
        <3>1. UNCHANGED <<client, playing>>
            BY <1>1 DEF sessionVars
        <3>2. CASE netplay' = netplay
            BY <3>1, <3>2 DEF Safe, RelaunchFits
        <3>3. CASE t # s /\ netplay' = Queued(s, t, p, i)
            <4>1. netplay'[t].port <= t /\ netplay'[t].nick = client[p].user
                BY <3>3, <2>1, <2>5 DEF Queued, TypeOK
            <4>2. netplay'[s].port <= s /\ netplay'[s].nick = client[i].user
                BY <3>3, <2>1, <2>5 DEF Queued, TypeOK
            <4>3. \A x \in Slots : x # s /\ x # t => netplay'[x] = netplay[x]
                BY <3>3, <2>1 DEF Queued, TypeOK
            <4> QED  BY <4>1, <4>2, <4>3, <3>1, <2>0, <2>1, <1>2, <1>3 DEF Safe, RelaunchFits
        <3> QED  BY <2>4, <3>2, <3>3
    <2> QED  BY <2>7, <2>8, <2>9, <2>10, <2>11, <2>12, <2>13 DEF Strong, Safe
<1> QED  BY <1>7, <1>8

\* A cancel takes back what the client asked for.
LEMMA CancelInv ==
    ASSUME IInv, NEW s \in Slots, NEW i \in Ids, Cancel(s, i)
    PROVE  IInv'
<1> USE LinkAssumption DEF LinkAssumption, IInv
<1>1. /\ at[s] = None /\ client[i].slot = s /\ client[i].up
      /\ offer' = [offer EXCEPT ![i] = None]
      /\ said' = [said EXCEPT ![client[i].user] = None]
      /\ UNCHANGED <<sessionVars, runtime, cable, promotion, netplay, playing, at>>
    BY DEF Cancel, Free
<1>2. client[i].user \in Users
    BY <1>1 DEF Strong, KnownRun
<1>3. TypeOK'
    BY <1>1, <1>2 DEF TypeOK, sessionVars
<1>4. FreshIds' /\ KnownRun' /\ OneLiveId' /\ OffClean' /\ CableOld'
    BY <1>1 DEF Strong, FreshIds, KnownRun, OneLiveId, OffClean, CableOld, TypeOK, sessionVars
<1>5. ASSUME NEW j \in Ids \ {i}, client[j].slot # None
      PROVE  said'[client[j].user] = said[client[j].user] /\ offer'[j] = offer[j]
    <2>1. client[j].user # client[i].user /\ client[j].user \in Users
        BY <1>1, <1>5 DEF Strong, OneLiveId, KnownRun
    <2> QED  BY <2>1, <1>1, <1>2 DEF TypeOK
<1>6. Handled'
    <2>1. ASSUME NEW t \in Slots, at[t] # None
          PROVE  at[t].id \in Ids \ {i} /\ client[at[t].id].slot # None
        BY <2>1, <1>1 DEF TypeOK, Pauses, Strong, Handled
    <2> QED  BY <2>1, <1>1, <1>5 DEF Strong, Handled, sessionVars
<1>7. OffersStand'
    <2>1. offer'[i] = None
        BY <1>1 DEF TypeOK
    <2> QED  BY <2>1, <1>1, <1>5 DEF Safe, OffersStand, Known, sessionVars
<1>8. CableFits' /\ RelaunchFits'
    BY <1>1 DEF Safe, CableFits, RelaunchFits, Known, sessionVars
<1> QED  BY <1>3, <1>4, <1>6, <1>7, <1>8 DEF Strong, Safe

\* The end of a session takes everything of its slot along.
LEMMA OverInv ==
    ASSUME IInv, NEW s \in Slots, at[s] = None, Over(s),
           UNCHANGED <<nextId, offer, cable, at, said>>
    PROVE  IInv'
<1> USE LinkAssumption DEF LinkAssumption, IInv
<1>1. /\ runtime' = [runtime EXCEPT ![s] = "off"]
      /\ system' = [system EXCEPT ![s] = None]
      /\ promotion' = [promotion EXCEPT ![s] = FALSE]
      /\ netplay' = [netplay EXCEPT ![s] = None]
      /\ playing' = [playing EXCEPT ![s] = None]
    BY DEF Over
<1>2. client' = [j \in Ids |->
          IF client[j].slot = s THEN [user |-> client[j].user, slot |-> None, up |-> FALSE]
          ELSE client[j]]
    BY DEF Over
<1>3. client' \in [Ids -> [user : Users \cup {None}, slot : Slots \cup {None}, up : BOOLEAN]]
    BY <1>2 DEF TypeOK
<1>4. \A j \in Ids : \/ client[j].slot # s /\ client'[j] = client[j]
                     \/ /\ client[j].slot = s /\ client'[j].slot = None
                        /\ ~client'[j].up /\ client'[j].user = client[j].user
    BY <1>2
<1>5. TypeOK'
    BY <1>1, <1>3 DEF TypeOK
<1>6. FreshIds'
    BY <1>4 DEF Strong, FreshIds
<1>7. KnownRun'
    <2>1. SUFFICES ASSUME NEW j \in Ids
                   PROVE  /\ client'[j].slot # None => client'[j].user \in Users
                                                      /\ runtime'[client'[j].slot] # "off"
                          /\ client'[j].up => client'[j].slot # None
        BY DEF KnownRun
    <2>2. client'[j].up => client'[j].slot # None
        BY <1>4 DEF Strong, KnownRun
    <2>3. client'[j].slot # None => client'[j].user \in Users /\ runtime'[client'[j].slot] # "off"
        BY <1>1, <1>4 DEF Strong, KnownRun, TypeOK
    <2> QED  BY <2>2, <2>3
<1>8. OneLiveId'
    BY <1>4 DEF Strong, OneLiveId
<1>9. Handled'
    <2>1. ASSUME NEW t \in Slots, at[t] # None
          PROVE  client'[at[t].id] = client[at[t].id]
        <3>1. t # s
            BY <2>1
        <3>2. at[t].id \in Ids /\ client[at[t].id].slot = t
            BY <2>1 DEF TypeOK, Pauses, Strong, Handled
        <3> QED  BY <3>1, <3>2, <1>4
    <2>2. offer' = offer /\ at' = at /\ said' = said
        OBVIOUS
    <2>3. ASSUME NEW t \in Slots, at'[t] # None
          PROVE  /\ client'[at'[t].id].slot = t /\ client'[at'[t].id].up
                 /\ said'[client'[at'[t].id].user] = at'[t].target
                 /\ offer'[at'[t].id] = None
                 /\ at'[t].peer # at'[t].id
        <3>1. at[t] # None
            BY <2>2, <2>3
        <3>2. /\ client[at[t].id].slot = t /\ client[at[t].id].up
              /\ said[client[at[t].id].user] = at[t].target
              /\ offer[at[t].id] = None
              /\ at[t].peer # at[t].id
            BY <3>1 DEF Strong, Handled
        <3>3. client'[at[t].id] = client[at[t].id]
            BY <2>1, <3>1
        <3> QED  BY <2>2, <3>2, <3>3
    <2> QED  BY <2>3 DEF Handled
<1>10. OffClean' /\ CableOld'
    BY <1>1 DEF Strong, OffClean, CableOld, TypeOK
<1>11. OffersStand'
    BY <1>4 DEF Safe, OffersStand, Known
<1>12. CableFits'
    <2>1. ASSUME NEW j \in Ids, client'[j].slot # None
          PROVE  system'[client'[j].slot] = system[client[j].slot]
        BY <1>1, <1>4, <2>1 DEF TypeOK
    <2> QED  BY <1>4, <2>1 DEF Safe, CableFits, Known
<1>13. RelaunchFits'
    <2>1. ASSUME NEW t \in Slots, NEW r \in {netplay'[t], playing'[t]} \ {None}
          PROVE  t # s /\ r \in {netplay[t], playing[t]} \ {None}
        BY <1>1 DEF TypeOK
    <2>2. ASSUME NEW t \in Slots \ {s}, NEW j \in Ids, client[j].slot = t
          PROVE  client'[j] = client[j]
        <3>1. client[j].slot # s
            BY <2>2
        <3> QED  BY <1>4, <3>1
    <2>3. SUFFICES ASSUME NEW t \in Slots, NEW r \in {netplay'[t], playing'[t]} \ {None}
                   PROVE  /\ \E i \in Ids : client'[i].slot = t /\ client'[i].user = r.nick
                          /\ r.port <= t
        BY DEF RelaunchFits
    <2>5. t # s /\ r \in {netplay[t], playing[t]} \ {None}
        BY <2>1
    <2>6. PICK j \in Ids : client[j].slot = t /\ client[j].user = r.nick
        BY <2>5 DEF Safe, RelaunchFits
    <2>7. client'[j] = client[j] /\ r.port <= t
        BY <2>2, <2>5, <2>6 DEF Safe, RelaunchFits
    <2> QED  BY <2>6, <2>7
<1> QED  BY <1>5, <1>6, <1>7, <1>8, <1>9, <1>10, <1>11, <1>12, <1>13 DEF Strong, Safe

\* A runtime is promoted or lost.
LEMMA PromoteInv ==
    ASSUME IInv, NEW s \in Slots, Promote(s)
    PROVE  IInv'
<1> USE LinkAssumption DEF LinkAssumption, IInv
<1>1. CASE Over(s)
    BY <1>1, OverInv DEF Promote, Free
<1>2. CASE ~Over(s)
    <2>1. /\ runtime[s] # "off" /\ runtime' = [runtime EXCEPT ![s] = "link"]
          /\ promotion' = [promotion EXCEPT ![s] = FALSE]
          /\ UNCHANGED <<nextId, client, system, offer, cable, netplay, playing, at, said>>
        BY <1>2 DEF Promote, Free
    <2>2. TypeOK'
        BY <2>1 DEF TypeOK
    <2>3. FreshIds' /\ OneLiveId' /\ Handled' /\ CableOld' /\ Safe'
        BY <2>1 DEF Strong, FreshIds, OneLiveId, Handled, CableOld, Safe, OffersStand,
                    CableFits, RelaunchFits, Known
    <2>4. KnownRun' /\ OffClean'
        BY <2>1 DEF Strong, KnownRun, OffClean, TypeOK
    <2> QED  BY <2>2, <2>3, <2>4 DEF Strong
<1> QED  BY <1>1, <1>2

\* A slot relaunches with the request it was given, or its session is over.
LEMMA RelaunchInv ==
    ASSUME IInv, NEW s \in Slots, Relaunch(s)
    PROVE  IInv'
<1> USE LinkAssumption DEF LinkAssumption, IInv
<1>1. CASE Over(s)
    BY <1>1, OverInv DEF Relaunch, Free
<1>2. CASE ~Over(s)
    <2>1. /\ netplay[s] # None /\ netplay' = [netplay EXCEPT ![s] = None]
          /\ playing' \in {playing, [playing EXCEPT ![s] = netplay[s]]}
          /\ UNCHANGED <<nextId, client, runtime, system, offer, cable, promotion, at, said>>
        BY <1>2 DEF Relaunch
    <2>2. TypeOK'
        BY <2>1 DEF TypeOK
    <2>3. FreshIds' /\ KnownRun' /\ OneLiveId' /\ Handled' /\ CableOld'
        BY <2>1 DEF Strong, FreshIds, KnownRun, OneLiveId, Handled, CableOld
    <2>4. OffClean'
        BY <2>1 DEF Strong, OffClean, TypeOK
    <2>5. OffersStand' /\ CableFits'
        BY <2>1 DEF Safe, OffersStand, CableFits, Known
    <2>6. RelaunchFits'
        <3>1. ASSUME NEW t \in Slots, NEW r \in {netplay'[t], playing'[t]} \ {None}
              PROVE  r \in {netplay[t], playing[t]} \ {None}
            BY <2>1 DEF TypeOK
        <3> QED  BY <3>1, <2>1 DEF Safe, RelaunchFits
    <2> QED  BY <2>2, <2>3, <2>4, <2>5, <2>6 DEF Strong, Safe
<1> QED  BY <1>1, <1>2

\* A session starts: its ids are new, and its users are in no other session.
LEMMA StartInv ==
    ASSUME IInv, NEW s \in Slots, NEW crew \in Crews, NEW kind \in Systems, Start(s, crew, kind)
    PROVE  IInv'
<1> USE LinkAssumption DEF LinkAssumption, IInv
<1> DEFINE n == Len(crew)
           new == nextId .. nextId + n - 1
<1>1. /\ n \in 1 .. 2
      /\ \A k \in 1 .. n : crew[k] \in Users
      /\ \A k, l \in 1 .. n : crew[k] = crew[l] => k = l
      /\ DOMAIN crew = 1 .. n
    BY CrewShape
<1>2. /\ runtime[s] = "off" /\ nextId + n <= MaxId + 1
      /\ \A k \in 1 .. n : ~Plays(crew[k])
      /\ runtime' = [runtime EXCEPT ![s] = "shared"]
      /\ system' = [system EXCEPT ![s] = kind]
      /\ client' = [i \in Ids |->
             IF i \in new THEN [user |-> crew[i - nextId + 1], slot |-> s, up |-> TRUE]
             ELSE client[i]]
      /\ nextId' = nextId + n
      /\ UNCHANGED <<offer, cable, promotion, netplay, playing, at, said>>
    BY <1>1 DEF Start
<1> HIDE DEF n
<1>3. nextId \in Nat /\ n \in Nat /\ nextId' \in Nat /\ nextId < nextId' /\ new \subseteq Ids
    BY <1>1, <1>2 DEF TypeOK, Ids
<1>4. \A i \in new : /\ i - nextId + 1 \in 1 .. n /\ i >= nextId /\ i < nextId'
                     /\ i \in Ids /\ client[i].slot = None /\ offer[i] = None
    BY <1>1, <1>2, <1>3 DEF Strong, FreshIds
<1>5. \A i \in Ids : i >= nextId' => i \notin new /\ i >= nextId
    BY <1>1, <1>2, <1>3 DEF Ids
<1> HIDE DEF new
<1>6. \A i \in new : /\ client'[i].user = crew[i - nextId + 1] /\ client'[i].user \in Users
                     /\ client'[i].slot = s /\ client'[i].up
    BY <1>1, <1>2, <1>4
<1>7. \A i \in Ids \ new : client'[i] = client[i]
    BY <1>2
<1>8. TypeOK'
    <2>1. \A i \in Ids : client'[i] \in [user : Users \cup {None}, slot : Slots \cup {None}, up : BOOLEAN]
        <3>1. TAKE i \in Ids
        <3>2. CASE i \in new
            BY <1>1, <1>2, <1>4, <3>2
        <3>3. CASE i \notin new
            BY <1>7, <3>3 DEF TypeOK
        <3> QED  BY <3>2, <3>3
    <2>2. client' \in [Ids -> [user : Users \cup {None}, slot : Slots \cup {None}, up : BOOLEAN]]
        BY <2>1, <1>2
    <2>3. nextId' \in 1 .. MaxId + 1
        BY <1>1, <1>2, <1>3 DEF TypeOK
    <2> QED  BY <2>2, <2>3, <1>2 DEF TypeOK
<1>9. FreshIds'
    BY <1>2, <1>5, <1>7 DEF Strong, FreshIds
<1>10. KnownRun'
    <2>1. \A t \in Slots : runtime[t] # "off" => runtime'[t] # "off"
        BY <1>2 DEF TypeOK
    <2>2. runtime'[s] # "off"
        BY <1>2 DEF TypeOK
    <2>3. ASSUME NEW i \in Ids \ new
          PROVE  /\ client'[i].slot # None => client'[i].user \in Users
                                             /\ runtime'[client'[i].slot] # "off"
                 /\ client'[i].up => client'[i].slot # None
        <3>1. client'[i] = client[i] /\ client[i].slot \in Slots \cup {None}
            BY <1>7 DEF TypeOK
        <3> QED  BY <3>1, <2>1 DEF Strong, KnownRun
    <2> QED  BY <2>2, <2>3, <1>6 DEF KnownRun
<1>11. OneLiveId'
    <2>1. ASSUME NEW i \in Ids, NEW j \in Ids, client'[i].slot # None, client'[j].slot # None,
                 client'[i].user = client'[j].user
          PROVE  i = j
        <3>1. CASE i \in new /\ j \in new
            BY <2>1, <3>1, <1>1, <1>3, <1>4, <1>6 DEF Ids
        <3>2. CASE i \in new /\ j \notin new
            BY <2>1, <3>2, <1>2, <1>4, <1>6, <1>7 DEF Plays, Known
        <3>3. CASE i \notin new /\ j \in new
            BY <2>1, <3>3, <1>2, <1>4, <1>6, <1>7 DEF Plays, Known
        <3>4. CASE i \notin new /\ j \notin new
            BY <2>1, <3>4, <1>7 DEF Strong, OneLiveId
        <3> QED  BY <3>1, <3>2, <3>3, <3>4
    <2> QED  BY <2>1 DEF OneLiveId
<1>12. Handled'
    <2>1. ASSUME NEW t \in Slots, at[t] # None
          PROVE  client'[at[t].id] = client[at[t].id]
        <3>1. at[t].id \in Ids /\ client[at[t].id].slot = t
            BY <2>1 DEF TypeOK, Pauses, Strong, Handled
        <3>2. at[t].id \notin new
            BY <3>1, <1>4
        <3> QED  BY <3>1, <3>2, <1>7
    <2>2. UNCHANGED <<at, said, offer>>
        BY <1>2
    <2> QED  BY <2>1, <2>2 DEF Strong, Handled
<1>13. OffClean' /\ CableOld'
    <2>1. OffClean'
        BY <1>2 DEF Strong, OffClean, TypeOK
    <2>2. cable.a \in Nat /\ cable.b \in Nat
        BY DEF TypeOK, Ids, NoId
    <2> QED  BY <2>1, <2>2, <1>2, <1>3 DEF Strong, CableOld
<1>14. OffersStand'
    <2>1. ASSUME NEW i \in Ids, offer[i] # None, client'[i].slot # None
          PROVE  client'[i].up /\ said[client'[i].user] = offer[i]
        <3>1. i \notin new
            BY <2>1, <1>4
        <3> QED  BY <2>1, <3>1, <1>7 DEF Safe, OffersStand, Known
    <2> QED  BY <2>1, <1>2 DEF OffersStand, Known
<1>15. CableFits'
    <2>1. ASSUME NEW i \in Ids, i < nextId
          PROVE  client'[i] = client[i]
        BY <2>1, <1>3, <1>4, <1>7 DEF Ids
    <2>2. ASSUME NEW i \in Ids, client[i].slot # None
          PROVE  system'[client[i].slot] = system[client[i].slot]
        <3>1. client[i].slot # s /\ client[i].slot \in Slots
            BY <2>2, <1>2 DEF Strong, KnownRun, TypeOK
        <3> QED  BY <3>1, <1>2 DEF TypeOK
    <2>3. cable' = cable /\ cable.a < nextId /\ cable.b < nextId
        BY <1>2 DEF Strong, CableOld
    <2>4. cable.on => cable.a # cable.b /\ cable.a # NoId /\ cable.b # NoId
        BY DEF Safe, CableFits
    <2>5. ASSUME cable.on, cable.a \in Ids, client'[cable.a].slot # None,
                 cable.b \in Ids, client'[cable.b].slot # None
          PROVE  system'[client'[cable.a].slot] = system'[client'[cable.b].slot]
        <3>1. client'[cable.a] = client[cable.a] /\ client'[cable.b] = client[cable.b]
            BY <2>1, <2>3, <2>5
        <3>2. system[client[cable.a].slot] = system[client[cable.b].slot]
            BY <2>5, <3>1 DEF Safe, CableFits, Known
        <3> QED  BY <2>2, <2>5, <3>1, <3>2
    <2> QED  BY <2>3, <2>4, <2>5 DEF CableFits, Known
<1>16. RelaunchFits'
    <2>1. ASSUME NEW t \in Slots, NEW r \in {netplay[t], playing[t]} \ {None}
          PROVE  r.port <= t /\ \E i \in Ids : client'[i].slot = t /\ client'[i].user = r.nick
        <3>1. PICK i \in Ids : client[i].slot = t /\ client[i].user = r.nick
            BY DEF Safe, RelaunchFits
        <3>2. r.port <= t
            BY DEF Safe, RelaunchFits
        <3>3. i \notin new
            BY <3>1, <1>4
        <3> QED  BY <3>1, <3>2, <3>3, <1>7
    <2> QED  BY <2>1, <1>2 DEF RelaunchFits
<1> QED  BY <1>8, <1>9, <1>10, <1>11, <1>12, <1>13, <1>14, <1>15, <1>16 DEF Strong, Safe

\* A lost player takes its offer along; a player that is back asks anew.
LEMMA SeatInv ==
    ASSUME IInv, NEW s \in Slots, NEW i \in Ids, Lose(s, i) \/ Return(s, i)
    PROVE  IInv'
<1> USE LinkAssumption DEF LinkAssumption, IInv
<1>1. /\ at[s] = None /\ client[i].slot = s
      /\ UNCHANGED <<nextId, runtime, system, promotion, netplay, playing, at, said>>
    BY DEF Lose, Return, Free
<1>2. PICK b \in BOOLEAN : client' = [client EXCEPT ![i].up = b]
    BY DEF Lose, Return
<1>3. /\ client' \in [Ids -> [user : Users \cup {None}, slot : Slots \cup {None}, up : BOOLEAN]]
      /\ \A j \in Ids : client'[j].user = client[j].user /\ client'[j].slot = client[j].slot
      /\ \A j \in Ids \ {i} : client'[j] = client[j]
    BY <1>2 DEF TypeOK
<1>4. cable' = cable \/ cable' = NoCable
    BY DEF Lose, Return
<1>5. offer' = [offer EXCEPT ![i] = None] \/ (offer' = offer /\ client'[i].up)
    BY <1>2 DEF Lose, Return, TypeOK
<1>6. TypeOK'
    <2>1. cable' \in [on : BOOLEAN, a : Ids \cup {NoId}, b : Ids \cup {NoId}]
        <3>1. NoCable \in [on : BOOLEAN, a : Ids \cup {NoId}, b : Ids \cup {NoId}]
            BY DEF NoCable
        <3>2. cable \in [on : BOOLEAN, a : Ids \cup {NoId}, b : Ids \cup {NoId}]
            BY DEF TypeOK
        <3> QED  BY <3>1, <3>2, <1>4
    <2>2. offer' \in [Ids -> Users \cup {None}]
        BY <1>5 DEF TypeOK
    <2> QED  BY <2>1, <2>2, <1>1, <1>3 DEF TypeOK
<1>7. FreshIds'
    <2>1. i < nextId
        BY <1>1 DEF Strong, FreshIds, TypeOK, Ids
    <2> QED  BY <2>1, <1>1, <1>3, <1>5 DEF Strong, FreshIds, TypeOK
<1>8. KnownRun' /\ OneLiveId' /\ OffClean'
    BY <1>1, <1>3 DEF Strong, KnownRun, OneLiveId, OffClean
<1>9. Handled'
    <2>1. ASSUME NEW t \in Slots, at[t] # None
          PROVE  client'[at[t].id] = client[at[t].id] /\ offer'[at[t].id] = offer[at[t].id]
        <3>1. at[t].id \in Ids /\ client[at[t].id].slot = t /\ t # s
            <4>1. at[t] \in Pauses
                BY <2>1 DEF TypeOK
            <4>2. at[t].id \in Ids
                BY <4>1 DEF Pauses
            <4>3. client[at[t].id].slot = t
                BY <2>1 DEF Strong, Handled
            <4> QED  BY <2>1, <1>1, <4>2, <4>3
        <3>2. at[t].id # i
            BY <3>1, <1>1
        <3> QED  BY <3>1, <3>2, <1>3, <1>5 DEF TypeOK
    <2> QED  BY <2>1, <1>1 DEF Strong, Handled
<1>10. CableOld'
    BY <1>1, <1>4 DEF Strong, CableOld, NoCable, NoId, TypeOK
<1>11. OffersStand'
    BY <1>1, <1>3, <1>5 DEF Safe, OffersStand, Known, TypeOK
<1>12. CableFits' /\ RelaunchFits'
    BY <1>1, <1>3, <1>4 DEF Safe, CableFits, RelaunchFits, Known, NoCable
<1> QED  BY <1>6, <1>7, <1>8, <1>9, <1>10, <1>11, <1>12 DEF Strong, Safe

\* Every step keeps the invariant.
LEMMA StepInv == IInv /\ [Next]_vars => IInv'
<1> SUFFICES ASSUME IInv, [Next]_vars PROVE IInv'
    OBVIOUS
<1>1. CASE UNCHANGED vars
    BY <1>1 DEF vars, IInv, TypeOK, Strong, FreshIds, KnownRun, OneLiveId, Handled, OffClean,
                CableOld, Safe, OffersStand, CableFits, RelaunchFits, Known
<1>2. CASE Next
    <2>1. PICK s \in Slots :
              \/ SlotStep(s) \/ End(s)
              \/ \E crew \in Crews, kind \in Systems : Start(s, crew, kind)
              \/ \E i \in Ids :
                  \/ \E target \in Users : Ask(s, i, target)
                  \/ Cancel(s, i) \/ Lose(s, i) \/ Return(s, i)
        BY <1>2 DEF Next
    <2>2. CASE SlotStep(s)
        BY <2>2, OfferInv, MatchInv, PromoteInv, RelaunchInv DEF SlotStep
    <2>3. CASE End(s)
        BY <2>3, OverInv DEF End, Free
    <2> QED  BY <2>1, <2>2, <2>3, StartInv, AskInv, CancelInv, SeatInv
<1> QED  BY <1>1, <1>2

-----------------------------------------------------------------------------
(* What a step queues. *)

\* Only a match asks a slot to relaunch; every other step carries a request out,
\* drops it with its session, or leaves it alone.
LEMMA OnlyMatchQueues ==
    ASSUME TypeOK, [Next]_vars, \A s \in Slots : ~Match(s), NEW x \in Slots
    PROVE  netplay'[x] \in {None, netplay[x]}
<1>1. CASE UNCHANGED netplay
    BY <1>1
<1>2. ASSUME NEW s \in Slots, netplay' = [netplay EXCEPT ![s] = None]
      PROVE  netplay'[x] \in {None, netplay[x]}
    BY <1>2 DEF TypeOK
<1>3. ASSUME NEW s \in Slots, SlotStep(s)
      PROVE  netplay'[x] \in {None, netplay[x]}
    <2>1. CASE Offer(s)
        BY <2>1, <1>1 DEF Offer
    <2>2. CASE Promote(s)
        BY <2>2, <1>1, <1>2 DEF Promote, Over
    <2>3. CASE Relaunch(s)
        BY <2>3, <1>2 DEF Relaunch, Over
    <2> QED  BY <1>3, <2>1, <2>2, <2>3 DEF SlotStep
<1>4. ASSUME NEW s \in Slots, End(s)
      PROVE  netplay'[x] \in {None, netplay[x]}
    BY <1>4, <1>2 DEF End, Over
<1>5. ASSUME NEW s \in Slots, NEW crew \in Crews, NEW kind \in Systems, Start(s, crew, kind)
      PROVE  UNCHANGED netplay
    BY <1>5 DEF Start
<1>6. ASSUME NEW s \in Slots, NEW i \in Ids,
             \/ \E target \in Users : Ask(s, i, target)
             \/ Cancel(s, i) \/ Lose(s, i) \/ Return(s, i)
      PROVE  UNCHANGED netplay
    BY <1>6 DEF Ask, Cancel, Lose, Return
<1> QED  BY <1>1, <1>3, <1>4, <1>5, <1>6 DEF Next, vars

\* A match asks two slots or none, one to host and one to join, on one port.
LEMMA MatchQueuesPair ==
    ASSUME TypeOK, NEW s \in Slots, Match(s)
    PROVE  \/ netplay' = netplay
           \/ \E t \in Slots \ {s} :
                 /\ \A x \in Slots \ {s, t} : netplay'[x] = netplay[x]
                 /\ netplay'[t].host /\ ~netplay'[s].host
                 /\ netplay'[t].port = netplay'[s].port
<1> DEFINE i == at[s].id
           q == at[s].peer
<1>1. q # NoId
    BY DEF Match
<1>2. i \in Ids /\ q \in Ids
    <2>1. at[s] \in Pauses
        BY DEF Match, TypeOK
    <2> QED  BY <2>1, <1>1 DEF Pauses
<1>3. PICK p \in Resolved(q, i) :
          \/ netplay' = netplay
          \/ /\ CableFor(s, p) /\ client[p].slot # s
             /\ netplay' = Queued(s, client[p].slot, p, i)
    BY DEF Match
<1> HIDE DEF i, q
<1>4. CASE netplay' = netplay
    BY <1>4
<1>5. CASE netplay' # netplay
    <2> DEFINE t == client[p].slot
    <2>1. netplay' = Queued(s, t, p, i) /\ t # s /\ CableFor(s, p)
        BY <1>3, <1>5
    <2>2. p \in Ids /\ client[p].slot # None
        BY <1>2, <2>1 DEF Resolved, Known, CableFor
    <2>3. t \in Slots \ {s}
        BY <2>1, <2>2 DEF TypeOK
    <2> HIDE DEF t
    <2>4. \A x \in Slots \ {s, t} : netplay'[x] = netplay[x]
        BY <2>1, <2>3 DEF Queued, TypeOK
    <2>5. /\ netplay'[t].host /\ ~netplay'[s].host
          /\ netplay'[t].port = netplay'[s].port
        BY <2>1, <2>3 DEF Queued, TypeOK
    <2> QED  BY <2>3, <2>4, <2>5
<1> QED  BY <1>4, <1>5

\* So two slots that are asked in one step are the host and the client of a pair.
LEMMA StepQueuesPair ==
    ASSUME TypeOK, [Next]_vars, NEW a \in Slots, NEW b \in Slots, a # b,
           netplay'[a] \notin {None, netplay[a]}, netplay'[b] \notin {None, netplay[b]}
    PROVE  netplay'[a].host # netplay'[b].host /\ netplay'[a].port = netplay'[b].port
<1>1. PICK s \in Slots : Match(s)
    BY OnlyMatchQueues
<1>2. PICK t \in Slots \ {s} :
          /\ \A x \in Slots \ {s, t} : netplay'[x] = netplay[x]
          /\ netplay'[t].host /\ ~netplay'[s].host
          /\ netplay'[t].port = netplay'[s].port
    BY <1>1, MatchQueuesPair
<1>3. {a, b} = {s, t}
    BY <1>2
<1>4. CASE a = s /\ b = t
    BY <1>2, <1>4
<1>5. CASE a = t /\ b = s
    BY <1>2, <1>5
<1> QED  BY <1>3, <1>4, <1>5

-----------------------------------------------------------------------------
(* Theorems. *)

\* The invariant holds in every reachable state.
THEOREM LinkInvariant == Spec => []IInv
BY InitInv, StepInv, PTL DEF Spec

\* The state of Link keeps its types.
THEOREM TypeCorrect == Spec => []TypeOK
BY LinkInvariant, PTL DEF IInv

\* Pending offers are of connected players who still mean them, whatever the
\* other slot threads are in the middle of.
THEOREM OffersAreMeant == Spec => []OffersStand
BY LinkInvariant, PTL DEF IInv, Safe

\* The cable joins two different ids, whose slots run games of one system.
THEOREM CableJoinsOneSystem == Spec => []CableFits
BY LinkInvariant, PTL DEF IInv, Safe

\* A slot relaunches under the name of one of its own players.
THEOREM RelaunchOfOwnPlayer == Spec => []RelaunchFits
BY LinkInvariant, PTL DEF IInv, Safe

\* The relaunches that a step queues make one host and one client of a port.
THEOREM MatchMakesOneHost == Spec => OneHostPerMatch
<1>1. TypeOK /\ [Next]_vars =>
          [\A s, t \in Slots :
              s # t /\ netplay'[s] \notin {None, netplay[s]} /\ netplay'[t] \notin {None, netplay[t]}
                  => netplay'[s].host # netplay'[t].host /\ netplay'[s].port = netplay'[t].port]_vars
    BY StepQueuesPair
<1> QED  BY <1>1, TypeCorrect, PTL DEF Spec, OneHostPerMatch
=============================================================================
