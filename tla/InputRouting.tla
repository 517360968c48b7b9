---------------------------- MODULE InputRouting ----------------------------
(***************************************************************************)
(* The way of a controller sample from a client's pad to the virtual pad   *)
(* of its seat.                                                            *)
(*                                                                         *)
(* A client sends its samples as UDP datagrams, each with the client id it *)
(* was welcomed with and the time of the sample.  The network may drop,    *)
(* duplicate and reorder them.  The thread of NetworkInputReceiver takes   *)
(* one datagram at a time: InputRouterDemux maps the client id to the      *)
(* InputRouter of a session under the lock of the demux, and only then,    *)
(* without that lock, InputRouter::route applies the sample.  Meanwhile    *)
(* the threads of the sessions register, neutralize and unregister.        *)
(*                                                                         *)
(* A session and its router are one member of Sessions; a client has one   *)
(* pad, which the plan seats under its client id.                          *)
(***************************************************************************)
EXTENDS Integers, Sequences, FiniteSets, SequencesExt, FiniteSetsExt

CONSTANTS
    Sessions,      \* sessions the host may run, each at most once
    Players,       \* clients with a pad
    Viewers,       \* clients without one
    Nobody,        \* no client, no session, no id
    Presses, Rest, \* what a pad can hold down, and nothing held
    IdLimit,       \* number of ClientId values (256 in the code)
    MaxClients,    \* clients a multiplayer gather may collect
    GateHolds,     \* whether no start slips through the mode gate of the lobby
    MaxSamples,    \* bound: samples a device takes
    MaxInFlight,   \* bound: datagrams in the network
    MaxTime,       \* bound: last applied time up to which a player may be lost
    Copies         \* kChangeCopies: datagrams of one sample

Clients == Players \cup Viewers
ClientIds == 0 .. IdLimit - 1

ASSUME RoutingAssumption ==
    /\ IsFiniteSet(Clients) /\ IsFiniteSet(Sessions)
    /\ Players \cap Viewers = {}
    /\ IdLimit \in Nat \ {0, 1} /\ GateHolds \in BOOLEAN
    /\ MaxClients \in Nat \ {0} /\ MaxSamples \in Nat /\ Copies \in Nat \ {0}
    /\ MaxInFlight \in Nat /\ MaxTime \in Nat
    /\ Rest \notin Presses
    /\ Nobody \notin Clients \cup Sessions \cup Int

VARIABLES
    nextId,     \* HostSessionHub::next_client_id_
    router,     \* router[s]: life of the InputRouter of session s
    session,    \* session[c]: the session whose plan holds client c
    id,         \* id[c]: the client id c was last welcomed with
    link,       \* link[c]: control connection of c, as its session sees it
    route,      \* InputRouterDemux::routers_
    last,       \* last[s][i]: last_input_timestamp_by_player_, 0 for no entry
    pad,        \* pad[s][i]: virtual pad of the seat of client id i
    sent,       \* sent[p]: samples the device of player p has taken
    net,        \* datagrams in flight
    udp         \* the receiver thread: datagram looked up, not applied yet

vars == <<nextId, router, session, id, link, route, last, pad, sent, net, udp>>

Datagrams == [id : ClientIds, from : Players, time : Nat, held : Presses \cup {Rest}]
Pads == [by : Players \cup {Nobody}, time : Nat, held : Presses \cup {Rest}]

TypeOK ==
    /\ nextId \in ClientIds
    /\ router \in [Sessions -> {"none", "live", "unrouted", "gone"}]
    /\ session \in [Clients -> Sessions \cup {Nobody}]
    /\ id \in [Clients -> ClientIds \cup {Nobody}]
    /\ link \in [Clients -> {"out", "up", "lost"}]
    /\ \A c \in Clients : link[c] = "out" <=> session[c] = Nobody
    /\ route \in [ClientIds -> Sessions \cup {Nobody}]
    /\ last \in [Sessions -> [ClientIds -> Nat]]
    /\ pad \in [Sessions -> [ClientIds -> Pads]]
    /\ sent \in [Players -> 0 .. MaxSamples]
    /\ net \subseteq Datagrams
    /\ udp.pc \in {"idle", "routing", "crashed"}
    /\ udp.pc = "routing" => udp.router \in Sessions /\ udp.packet \in Datagrams

Neutral(t) == [by |-> Nobody, time |-> t, held |-> Rest]
Receiving == [pc |-> "idle", router |-> Nobody, packet |-> Nobody]

Init ==
    /\ nextId = 1
    /\ router = [s \in Sessions |-> "none"]
    /\ session = [c \in Clients |-> Nobody]
    /\ id = [c \in Clients |-> Nobody]
    /\ link = [c \in Clients |-> "out"]
    /\ route = [i \in ClientIds |-> Nobody]
    /\ last = [s \in Sessions |-> [i \in ClientIds |-> 0]]
    /\ pad = [s \in Sessions |-> [i \in ClientIds |-> Neutral(0)]]
    /\ sent = [p \in Players |-> 0]
    /\ net = {}
    /\ udp = Receiving

-----------------------------------------------------------------------------
(* Plans, seats and client ids. *)

Plan(s) == {c \in Clients : session[c] = s}
Seated(s, i) == \E p \in Players : session[p] = s /\ id[p] = i
Running(s) == router[s] \in {"live", "unrouted"}
Multiplayer(s) == Cardinality(Plan(s) \cap Players) > 1

Wrap(n) == n % IdLimit

\* HostSessionHub::allocate_client_id: a uint8_t counter, post-incremented.
\* Mutant: the counter is read without being advanced.
SameIdAgain(i) == i
FollowingId(i) == Wrap(i + 1)

\* next_session_client_id is the greatest of these: the plan counts for itself.
\* Mutant: the sum is not narrowed to a ClientId.
IdsAfterWide(s) == {1} \cup {id[c] + 1 : c \in Plan(s)}
IdsAfter(s) == {1} \cup {Wrap(id[c] + 1) : c \in Plan(s)}

-----------------------------------------------------------------------------
(* The lobby and the session threads. *)

\* The mode gate of handle_hello: multiplayer runs alone.  Two starts that are
\* queued together are not held up by it (see MultiplayerExclusive of HostAdmission).
ModeGate(count) ==
    \A t \in Sessions : Running(t) => count = 1 /\ ~Multiplayer(t)

\* The hub gives the first client its id; a multiplayer gather numbers the
\* others from there by itself.  The session then creates its router and
\* registers the id of every seat.
Start(s, ps) ==
    LET number == [k \in DOMAIN ps |-> Wrap(nextId + k - 1)]
        at(c) == CHOOSE k \in DOMAIN ps : ps[k] = c
    IN
    /\ router[s] = "none"
    /\ \A c \in ToSet(ps) : link[c] = "out"
    /\ GateHolds => ModeGate(Len(ps))
    /\ nextId' = FollowingId(nextId)
    /\ router' = [router EXCEPT ![s] = "live"]
    /\ session' = [c \in Clients |-> IF c \in ToSet(ps) THEN s ELSE session[c]]
    /\ id' = [c \in Clients |-> IF c \in ToSet(ps) THEN number[at(c)] ELSE id[c]]
    /\ link' = [c \in Clients |-> IF c \in ToSet(ps) THEN "up" ELSE link[c]]
    /\ route' = [i \in ClientIds |-> IF i \in ToSet(number) THEN s ELSE route[i]]
    /\ UNCHANGED <<last, pad, sent, net, udp>>

\* mark_player_disconnected: the seat stays reserved and neutralize_client
\* releases its pad.
Lost(p) ==
    LET s == session[p]
        i == id[p]
        t == IF last[s][i] = 0 THEN 0 ELSE last[s][i] + 1
    IN
    /\ link[p] = "up" /\ router[s] = "live" /\ last[s][i] < MaxTime
    /\ link' = [link EXCEPT ![p] = "lost"]
    /\ last' = [last EXCEPT ![s][i] = t]
    /\ pad' = [pad EXCEPT ![s][i] = Neutral(t)]
    /\ UNCHANGED <<nextId, router, session, id, route, sent, net, udp>>

\* drain_pending_joins of a reconnecting player: the same id, registered again.
\* The times of the samples come from a clock that counts since the device
\* booted, so they may start over.
Reconnect(p) ==
    /\ link[p] = "lost" /\ router[session[p]] = "live"
    /\ link' = [link EXCEPT ![p] = "up"]
    /\ route' = [route EXCEPT ![id[p]] = session[p]]
    /\ \/ UNCHANGED sent
       \/ sent' = [sent EXCEPT ![p] = 0]
    /\ UNCHANGED <<nextId, router, session, id, last, pad, net, udp>>

\* drain_pending_joins of a late viewer, whose id comes from the plan alone.
ViewerJoin(v, s) ==
    /\ link[v] = "out" /\ router[s] = "live"
    /\ session' = [session EXCEPT ![v] = s]
    /\ link' = [link EXCEPT ![v] = "up"]
    /\ \E i \in IdsAfter(s) :
           /\ \A j \in IdsAfter(s) : j <= i
           /\ id' = [id EXCEPT ![v] = i]
           /\ route' = [route EXCEPT ![i] = s]
    /\ UNCHANGED <<nextId, router, last, pad, sent, net, udp>>

\* remove_viewer: the client leaves the plan, its id stays in the demux.
ViewerLeave(v) ==
    /\ link[v] = "up" /\ router[session[v]] = "live"
    /\ session' = [session EXCEPT ![v] = Nobody]
    /\ link' = [link EXCEPT ![v] = "out"]
    /\ UNCHANGED <<nextId, router, id, route, last, pad, sent, net, udp>>

\* unregister_all_for: every id that leads to the router of s is erased.
\* Mutants: only the ids of the current plan are; the whole table is.
UnregisterPlan(s) ==
    [i \in ClientIds |-> IF \E c \in Plan(s) : id[c] = i THEN Nobody ELSE route[i]]
UnregisterAll(s) == [i \in ClientIds |-> Nobody]
UnregisterAllFor(s) ==
    [i \in ClientIds |-> IF route[i] = s THEN Nobody ELSE route[i]]

\* cleanup, for whatever reason the session ends: first the demux forgets the
\* router ...
Unregister(s) ==
    /\ router[s] = "live"
    /\ router' = [router EXCEPT ![s] = "unrouted"]
    /\ route' = UnregisterAllFor(s)
    /\ UNCHANGED <<nextId, session, id, link, last, pad, sent, net, udp>>

\* ... then the router is destroyed, its pads are unplugged and the clients are
\* told.  Each may go on sending with its old id until it notices.
Destroy(s) ==
    /\ router[s] = "unrouted"
    /\ router' = [router EXCEPT ![s] = "gone"]
    /\ session' = [c \in Clients |-> IF session[c] = s THEN Nobody ELSE session[c]]
    /\ link' = [c \in Clients |-> IF session[c] = s THEN "out" ELSE link[c]]
    /\ last' = [last EXCEPT ![s] = [i \in ClientIds |-> 0]]
    /\ pad' = [pad EXCEPT ![s] = [i \in ClientIds |-> Neutral(0)]]
    /\ UNCHANGED <<nextId, id, route, sent, net, udp>>

-----------------------------------------------------------------------------
(* The devices, the network and the receiver thread. *)

\* The input loop of ClientApp: one sample, its copies a tick of time apart.
Send(p, held) ==
    /\ id[p] # Nobody /\ sent[p] < MaxSamples /\ Cardinality(net) + Copies <= MaxInFlight
    /\ sent' = [sent EXCEPT ![p] = @ + 1]
    /\ net' = net \cup
           {[id |-> id[p], from |-> p, time |-> Copies * sent[p] + k, held |-> held] :
               k \in 1 .. Copies}
    /\ UNCHANGED <<nextId, router, session, id, link, route, last, pad, udp>>

Lose(d) ==
    /\ net' = net \ {d}
    /\ UNCHANGED <<nextId, router, session, id, link, route, last, pad, sent, udp>>

\* poll and InputRouterDemux::route up to the end of its critical section.  The
\* network may deliver the datagram again.
Lookup(d) ==
    /\ udp.pc = "idle"
    /\ IF route[d.id] = Nobody
       THEN /\ net' = net \ {d}
            /\ UNCHANGED udp
       ELSE /\ net' \in {net, net \ {d}}
            /\ udp' = [pc |-> "routing", router |-> route[d.id], packet |-> d]
    /\ UNCHANGED <<nextId, router, session, id, link, route, last, pad, sent>>

\* InputRouter::route turns away what is older than the last applied sample.
\* Mutant: whatever arrives is applied.
AnyTime(s, d) == TRUE
InOrder(s, d) == d.time >= last[s][d.id]

Apply ==
    LET s == udp.router
        d == udp.packet
    IN
    /\ udp.pc = "routing" /\ router[s] # "gone"
    /\ IF Seated(s, d.id) /\ InOrder(s, d)
       THEN /\ last' = [last EXCEPT ![s][d.id] = d.time]
            /\ pad' = [pad EXCEPT ![s][d.id] =
                   [by |-> d.from, time |-> d.time, held |-> d.held]]
       ELSE UNCHANGED <<last, pad>>
    /\ udp' = Receiving
    /\ UNCHANGED <<nextId, router, session, id, link, route, sent, net>>

\* The router was destroyed after the lookup.  What the call does to the freed
\* object is undefined: it may go unnoticed or take the host down.
ApplyToFreed ==
    /\ udp.pc = "routing" /\ router[udp.router] = "gone"
    /\ udp' \in {Receiving, [Receiving EXCEPT !.pc = "crashed"]}
    /\ UNCHANGED <<nextId, router, session, id, link, route, last, pad, sent, net>>

-----------------------------------------------------------------------------

SessionThread(s) ==
    \/ \E S \in {S \in SUBSET Players : Cardinality(S) \in 1 .. MaxClients} :
           \E ps \in SetToSeqs(S) : Start(s, ps)
    \/ \E v \in Viewers : ViewerJoin(v, s)
    \/ Unregister(s)
    \/ Destroy(s)

ClientEvents ==
    \/ \E p \in Players : Lost(p) \/ Reconnect(p) \/ \E held \in Presses \cup {Rest} : Send(p, held)
    \/ \E v \in Viewers : ViewerLeave(v)

Network == \E d \in net : Lose(d) \/ Lookup(d)

Next ==
    /\ udp.pc # "crashed"
    /\ \/ \E s \in Sessions : SessionThread(s)
       \/ ClientEvents
       \/ Network
       \/ Apply
       \/ ApplyToFreed

Spec == Init /\ [][Next]_vars

-----------------------------------------------------------------------------
(* Properties. *)

\* The demux never leads to a router that its session has taken out of it,
\* whoever joined and left meanwhile: a datagram that arrives after the
\* unregistration is dropped (InputRouterDemux::unregister_all_for).
RoutesLive ==
    \A i \in ClientIds : route[i] # Nobody => router[route[i]] = "live"

\* Reordered and duplicated datagrams, losses and reconnections never make a
\* plugged pad show a sample older than the one it has shown
\* (InputRouter::route and neutralize_client share one table of times).
NoRewind ==
    [][\A s \in Sessions, i \in ClientIds :
           router'[s] = "live" => pad'[s][i].time >= pad[s][i].time]_vars

\* What a pad shows was sampled by the player that holds its seat, never by a
\* client of another session, of an earlier one, or of another seat.
PortsIsolated ==
    \A s \in Sessions, i \in ClientIds :
        pad[s][i].by # Nobody =>
            /\ session[pad[s][i].by] = s
            /\ id[pad[s][i].by] = i

\* The samples of a connected player reach the session that seats the player.
RoutesHome ==
    \A p \in Players :
        link[p] = "up" /\ router[session[p]] = "live" => route[id[p]] = session[p]

\* Once the samples of a connected player reach its session they go on doing so,
\* whatever other sessions start, end, lose and take back, until a late viewer is
\* welcomed with the id of that player.  (register_client, unregister_all_for)
HomeKept ==
    [][\A p \in Players :
        /\ link'[p] = "up" /\ router'[session'[p]] = "live"
        /\ link[p] = "up" => route[id[p]] = session[p]
        /\ ~\E v \in Viewers : link[v] = "out" /\ link'[v] = "up" /\ id'[v] = id'[p]
        => route'[id'[p]] = session'[p]]_vars
=============================================================================
