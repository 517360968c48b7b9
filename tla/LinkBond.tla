------------------------------- MODULE LinkBond -------------------------------
(***************************************************************************)
(* Link: two players of the host ask for each other and their emulators    *)
(* get a cable.                                                            *)
(*                                                                         *)
(* Every slot thread serves the link requests of its own clients, but the  *)
(* LinkCoordinator with the pending offers and the LinkCableBackend belong *)
(* to the HostSessionHub and are shared by all of them without a lock.  A  *)
(* match arms the cable: both slots are asked to relaunch into netplay, or *)
(* the runtime of the one slot is promoted, or the emulators already talk  *)
(* to each other.  The slot threads carry these requests out on a later    *)
(* round.  Sessions start and end and players are lost and come back       *)
(* meanwhile; sessions are what HostAdmission lets through: a user plays   *)
(* in one at a time.                                                       *)
(***************************************************************************)
EXTENDS Naturals, Sequences

CONSTANTS
    Slots,      \* slot indexes of the host
    Users,
    Systems,    \* kinds of system_key the games have, see Kinds
    MaxId,      \* bound: client ids ever given out
    None        \* no user, no slot, no request

\* What LinkCableBackend::begin can do for a system: relaunch into netplay,
\* nothing more to start (LDN, melonDS LAN), no core installed, not a linkable
\* system.
Kinds == {"netplay", "wireless", "coreless", "unsupported"}

Ids == 1 .. MaxId
NoId == 0

\* GbaNetplayRelaunchRequest, and a link request in the middle of handle_link
Requests == [host : BOOLEAN, port : Slots, nick : Users]
Pauses == [id : Ids, target : Users, peer : Ids \cup {NoId}]

ASSUME LinkAssumption ==
    /\ Slots \subseteq Nat /\ MaxId \in Nat
    /\ Systems \subseteq Kinds
    /\ None \notin Slots /\ None \notin Users /\ None \notin Kinds
    /\ None \notin Requests /\ None \notin Pauses

VARIABLES
    nextId,     \* client ids are given out in order
    client,     \* client[i]: whose id it is, the slot whose plan holds it, is it connected
    runtime,    \* session_runtime_ of each slot
    system,     \* plan().game.system_key of each slot
    offer,      \* LinkCoordinator::pending_: offer[i] is the user the id asks for
    cable,      \* LinkCableBackend of the hub
    promotion,  \* plan().link.pending_promotion of each slot
    netplay,    \* pending_gba_netplay_ of each slot
    playing,    \* netplay arguments the emulator of each slot runs with
    at,         \* place of each slot thread inside handle_link
    said        \* said[u]: the user u asked for last, unless u cancelled since

vars == <<nextId, client, runtime, system, offer, cable, promotion, netplay,
          playing, at, said>>
sessionVars == <<nextId, client, system>>

TypeOK ==
    /\ nextId \in 1 .. MaxId + 1
    /\ client \in [Ids -> [user : Users \cup {None}, slot : Slots \cup {None}, up : BOOLEAN]]
    /\ runtime \in [Slots -> {"off", "shared", "link"}]
    /\ system \in [Slots -> Systems \cup {None}]
    /\ offer \in [Ids -> Users \cup {None}]
    /\ cable \in [on : BOOLEAN, a : Ids \cup {NoId}, b : Ids \cup {NoId}]
    /\ promotion \in [Slots -> BOOLEAN]
    /\ netplay \in [Slots -> Requests \cup {None}]
    /\ playing \in [Slots -> Requests \cup {None}]
    /\ at \in [Slots -> Pauses \cup {None}]
    /\ said \in [Users -> Users \cup {None}]

NoCable == [on |-> FALSE, a |-> NoId, b |-> NoId]

Init ==
    /\ nextId = 1
    /\ client = [i \in Ids |-> [user |-> None, slot |-> None, up |-> FALSE]]
    /\ runtime = [s \in Slots |-> "off"]
    /\ system = [s \in Slots |-> None]
    /\ offer = [i \in Ids |-> None]
    /\ cable = NoCable
    /\ promotion = [s \in Slots |-> FALSE]
    /\ netplay = [s \in Slots |-> None]
    /\ playing = [s \in Slots |-> None]
    /\ at = [s \in Slots |-> None]
    /\ said = [u \in Users |-> None]

-----------------------------------------------------------------------------
(* Lookups of the hub. *)

\* slot_for_client finds a slot: the id is in the plan of a live session.
Known(i) == i \in Ids /\ client[i].slot # None

\* username_seated: a connected player of that name on this host
Seated(u) == \E i \in Ids : Known(i) /\ client[i].up /\ client[i].user = u

\* find_mutual: an offer from the target back to the user.  All candidates are
\* ids of the target; an older id has asked before a newer one, so the first
\* offer in pending_ is that of the least id.
Backs(offers, i, target) ==
    {j \in Ids \ {i} : client[j].user = target /\ offers[j] = client[i].user}
FindMutual(offers, i, target) ==
    IF Backs(offers, i, target) = {} THEN {NoId}
    ELSE {j \in Backs(offers, i, target) : \A k \in Backs(offers, i, target) : j <= k}

\* Whom handle_link takes for the peer: the id of the offer while it is known,
\* otherwise a connected client of that name.
Resolved(peer, i) ==
    IF Known(peer) THEN {peer}
    ELSE LET named == {j \in Ids \ {i} : /\ Known(j) /\ client[j].up
                                         /\ client[j].user = client[peer].user}
         IN IF named = {} THEN {NoId} ELSE named

\* The thread of a running session between two packets
Free(s) == runtime[s] # "off" /\ at[s] = None

\* The netplay port of a pair goes by its lower slot.
\* Mutant: by the sum of both, past the range of ports of the slots.
SumOf(s, t) == s + t + 1
LowerOf(s, t) == IF s <= t THEN s ELSE t

-----------------------------------------------------------------------------
(* Link requests, on the thread of the slot of the client that sends them. *)

\* LinkCoordinator::handle up to find_mutual: the target is seated somewhere,
\* the client's earlier offer goes, and an offer back is looked for.  Another
\* thread may get in before the answer is settled.
Ask(s, i, target) ==
    /\ Free(s) /\ client[i].slot = s /\ client[i].up
    /\ target # client[i].user
    /\ Seated(target)
    /\ offer' = [offer EXCEPT ![i] = None]
    /\ \E p \in FindMutual(offer', i, target) :
        at' = [at EXCEPT ![s] = [id |-> i, target |-> target, peer |-> p]]
    /\ said' = [said EXCEPT ![client[i].user] = target]
    /\ UNCHANGED <<sessionVars, runtime, cable, promotion, netplay, playing>>

\* Nobody asks for the client yet: the offer waits for the target's own request.
Offer(s) ==
    /\ at[s] # None /\ at[s].peer = NoId
    /\ offer' = [offer EXCEPT ![at[s].id] = at[s].target]
    /\ at' = [at EXCEPT ![s] = None]
    /\ UNCHANGED <<sessionVars, runtime, cable, promotion, netplay, playing, said>>

\* Mutants of Queued: both relaunch as host; the requests go to the wrong slots.
BothHost(s, t, a, b) ==
    [netplay EXCEPT ![t] = [host |-> TRUE, port |-> LowerOf(s, t), nick |-> client[a].user],
                    ![s] = [host |-> TRUE, port |-> LowerOf(s, t), nick |-> client[b].user]]
Crossed(s, t, a, b) ==
    [netplay EXCEPT ![s] = [host |-> TRUE,  port |-> LowerOf(s, t), nick |-> client[a].user],
                    ![t] = [host |-> FALSE, port |-> LowerOf(s, t), nick |-> client[b].user]]
\* Relaunch requests of both slots: the peer t asked first and is the host.
Queued(s, t, a, b) ==
    [netplay EXCEPT ![t] = [host |-> TRUE,  port |-> LowerOf(s, t), nick |-> client[a].user],
                    ![s] = [host |-> FALSE, port |-> LowerOf(s, t), nick |-> client[b].user]]

\* Is there an in-game cable for this pair?
\* Mutant: whatever the systems are.
CableForAll(s, p) == p # NoId
CableFor(s, p) == p # NoId /\ system[client[p].slot] = system[s]

\* LinkCableBackend::begin drops the cable of an earlier pair first.
Cabled(kind, a, b) ==
    IF kind = "unsupported" THEN NoCable
    ELSE [on |-> kind # "coreless", a |-> a, b |-> b]

\* The rest of handle and handle_link after a match: the offer back is taken,
\* the cable begins, and the slots are told what to do with their emulators.
Match(s) ==
    /\ at[s] # None /\ at[s].peer # NoId
    /\ offer' = [offer EXCEPT ![at[s].peer] = None]
    /\ \E p \in Resolved(at[s].peer, at[s].id) :
        IF ~CableFor(s, p)
        THEN UNCHANGED <<cable, promotion, netplay>>
        ELSE LET t == client[p].slot IN
            /\ cable' = Cabled(system[s], p, at[s].id)
            /\ promotion' = IF system[s] = "netplay" /\ t = s
                            THEN [promotion EXCEPT ![s] = TRUE] ELSE promotion
            /\ netplay' = IF system[s] = "netplay" /\ t # s
                          THEN Queued(s, t, p, at[s].id) ELSE netplay
    /\ at' = [at EXCEPT ![s] = None]
    /\ UNCHANGED <<sessionVars, runtime, playing, said>>

\* LinkAction::Cancel
Cancel(s, i) ==
    /\ Free(s) /\ client[i].slot = s /\ client[i].up
    /\ offer' = [offer EXCEPT ![i] = None]
    /\ said' = [said EXCEPT ![client[i].user] = None]
    /\ UNCHANGED <<sessionVars, runtime, cable, promotion, netplay, playing, at>>

-----------------------------------------------------------------------------
(* What the slot threads do about it, and the life of sessions and clients. *)

\* Everything of a slot goes with its session; offers and the cable stay.
Over(s) ==
    /\ runtime' = [runtime EXCEPT ![s] = "off"]
    /\ system' = [system EXCEPT ![s] = None]
    /\ client' = [i \in Ids |->
           IF client[i].slot = s THEN [user |-> client[i].user, slot |-> None, up |-> FALSE]
           ELSE client[i]]
    /\ promotion' = [promotion EXCEPT ![s] = FALSE]
    /\ netplay' = [netplay EXCEPT ![s] = None]
    /\ playing' = [playing EXCEPT ![s] = None]

\* handle_pending_link_promotion: a runtime that is a link runtime already is
\* not promoted again, and that ends the session.
Promote(s) ==
    /\ Free(s) /\ promotion[s]
    /\ \/ /\ runtime[s] = "shared"
          /\ runtime' = [runtime EXCEPT ![s] = "link"]
          /\ promotion' = [promotion EXCEPT ![s] = FALSE]
          /\ UNCHANGED <<client, system, netplay, playing>>
       \/ /\ runtime[s] = "link"
          /\ Over(s)
    /\ UNCHANGED <<nextId, offer, cable, at, said>>

\* handle_gba_netplay_relaunch: a standalone emulator ignores the request, the
\* others restart with it; an emulator that exits at once ends the session.
\* Mutant: a slot that plays already keeps its cable and leaves the request.
RelaunchOnce(s) ==
    /\ Free(s) /\ ~promotion[s] /\ netplay[s] # None /\ playing[s] = None
    /\ netplay' = [netplay EXCEPT ![s] = None]
    /\ playing' = [playing EXCEPT ![s] = netplay[s]]
    /\ UNCHANGED <<sessionVars, runtime, offer, cable, promotion, at, said>>
Relaunch(s) ==
    /\ Free(s) /\ ~promotion[s] /\ netplay[s] # None
    /\ \/ /\ netplay' = [netplay EXCEPT ![s] = None]
          /\ playing' \in {playing, [playing EXCEPT ![s] = netplay[s]]}
          /\ UNCHANGED <<client, system, runtime, promotion>>
       \/ Over(s)
    /\ UNCHANGED <<nextId, offer, cable, at, said>>

\* The session ends for one of the reasons of SessionMonitor.
End(s) ==
    /\ Free(s)
    /\ Over(s)
    /\ UNCHANGED <<nextId, offer, cable, at, said>>

Plays(u) == \E i \in Ids : Known(i) /\ client[i].user = u

\* A session starts for one or two users.
Start(s, crew, kind) ==
    /\ runtime[s] = "off"
    /\ nextId + Len(crew) <= MaxId + 1
    /\ \A k \in DOMAIN crew : ~Plays(crew[k])
    /\ runtime' = [runtime EXCEPT ![s] = "shared"]
    /\ system' = [system EXCEPT ![s] = kind]
    /\ client' = [i \in Ids |->
           IF i \in nextId .. nextId + Len(crew) - 1
           THEN [user |-> crew[i - nextId + 1], slot |-> s, up |-> TRUE] ELSE client[i]]
    /\ nextId' = nextId + Len(crew)
    /\ UNCHANGED <<offer, cable, promotion, netplay, playing, at, said>>

\* mark_player_disconnected with clear_link_client
\* Mutant: the coordinator keeps the offer.
LoseKeepingOffer(s, i) ==
    /\ Free(s) /\ client[i].slot = s /\ client[i].up
    /\ client' = [client EXCEPT ![i].up = FALSE]
    /\ cable' = IF i \in {cable.a, cable.b} THEN NoCable ELSE cable
    /\ UNCHANGED <<nextId, runtime, system, offer, promotion, netplay, playing, at, said>>
Lose(s, i) ==
    /\ Free(s) /\ client[i].slot = s /\ client[i].up
    /\ client' = [client EXCEPT ![i].up = FALSE]
    /\ offer' = [offer EXCEPT ![i] = None]
    /\ cable' = IF i \in {cable.a, cable.b} THEN NoCable ELSE cable
    /\ UNCHANGED <<nextId, runtime, system, promotion, netplay, playing, at, said>>

\* The client of a reserved seat is back.
Return(s, i) ==
    /\ Free(s) /\ client[i].slot = s /\ ~client[i].up
    /\ client' = [client EXCEPT ![i].up = TRUE]
    /\ UNCHANGED <<nextId, runtime, system, offer, cable, promotion, netplay,
                   playing, at, said>>

Crews == {c \in UNION {[1 .. n -> Users] : n \in 1 .. 2} :
             Len(c) = 2 => c[1] # c[2]}

SlotStep(s) == Offer(s) \/ Match(s) \/ Promote(s) \/ Relaunch(s)

Next ==
    \E s \in Slots :
        \/ SlotStep(s) \/ End(s)
        \/ \E crew \in Crews, kind \in Systems : Start(s, crew, kind)
        \/ \E i \in Ids :
            \/ \E target \in Users : Ask(s, i, target)
            \/ Cancel(s, i) \/ Lose(s, i) \/ Return(s, i)

Spec == Init /\ [][Next]_vars

\* Slot threads finish what they handle and pass the promotion and the relaunch
\* in every round, however many requests arrive; clients owe nothing.
FairSpec ==
    Spec /\ \A s \in Slots :
        WF_vars(Offer(s) \/ Match(s)) /\ SF_vars(Promote(s)) /\ SF_vars(Relaunch(s))

-----------------------------------------------------------------------------
(* Properties. *)

\* A pending offer of a session that still runs is what its player last asked
\* for: never one the player has cancelled or replaced, and none of a player
\* that is known to be lost, whatever the other slot threads are in the middle
\* of.  (LinkCoordinator::handle, clear_client)
OffersStand ==
    \A i \in Ids : offer[i] # None /\ Known(i) =>
        client[i].up /\ said[client[i].user] = offer[i]

\* The armed cable joins two different players, of the same system as long as
\* both of their sessions run.  (HostSessionHub::handle_link)
CableFits ==
    cable.on =>
        /\ cable.a # cable.b /\ cable.a # NoId /\ cable.b # NoId
        /\ Known(cable.a) /\ Known(cable.b) =>
            system[client[cable.a].slot] = system[client[cable.b].slot]

\* A slot relaunches under the name of one of its own players, and on the port
\* of a pair it belongs to.  (handle_link, handle_gba_netplay_relaunch)
RelaunchFits ==
    \A s \in Slots : \A r \in {netplay[s], playing[s]} \ {None} :
        /\ \E i \in Ids : client[i].slot = s /\ client[i].user = r.nick
        /\ r.port <= s

\* A relaunch leaves nobody hosting against itself: the requests queued by one
\* match make one host and one client on the same port.
OneHostPerMatch ==
    [][\A s, t \in Slots :
          s # t /\ netplay'[s] \notin {None, netplay[s]} /\ netplay'[t] \notin {None, netplay[t]}
              => netplay'[s].host # netplay'[t].host /\ netplay'[s].port = netplay'[t].port]_vars

\* A relaunch that has been asked for is carried out, or its session is over.
\* (the slot threads go round poll_while)
RelaunchLands == \A s \in Slots : (netplay[s] # None) ~> (netplay[s] = None)
=============================================================================
