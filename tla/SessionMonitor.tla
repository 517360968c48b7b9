--------------------------- MODULE SessionMonitor ---------------------------
(***************************************************************************)
(* Supervision of the clients of one running session.                      *)
(*                                                                         *)
(* The thread of an ActiveSessionSlot goes round poll_while: it attaches   *)
(* the joins that the lobby has put in its inbox, then the                 *)
(* SessionControlMonitor carries out the kicks an administrator has        *)
(* requested and visits every client of the plan: it reads what the        *)
(* control connection has delivered, notices closed and silent             *)
(* connections, reserves the seats of lost players, and decides when the   *)
(* session is over.  Clients leave, die, fall silent and come back at any  *)
(* point of that round, and time passes.                                   *)
(***************************************************************************)
EXTENDS Naturals, Sequences, FiniteSets, SequencesExt

CONSTANTS
    Players, Viewers,   \* clients with and without seats
    Single,             \* is the session a singleplayer one
    Grace,              \* player_reconnect_timeout_seconds
    Timeout,            \* client_timeout_seconds
    Startup,            \* kStartupHeartbeatGrace
    MaxInbox,           \* bound: joins waiting in the inbox
    Cuts,               \* the ways in which connections end
    NoClient

Clients == Players \cup Viewers

ASSUME MonitorAssumption ==
    /\ IsFiniteSet(Clients) /\ Players \cap Viewers = {}
    /\ NoClient \notin Clients
    /\ Single \in BOOLEAN
    /\ Grace \in Nat /\ Timeout \in Nat /\ Startup \in Nat /\ MaxInbox \in Nat
    /\ Cuts \subseteq {"fin", "reset", "mute"}

VARIABLES
    plan,     \* plan_.clients, in order
    seat,     \* seat[c]: lifecycle of c as the monitor sees it
    wire,     \* wire[c]: control connection of c, as the slot thread will read it
    inbox,    \* pending_joins_: connections the lobby has handed over
    slot,     \* the slot thread: its place in poll_while
    kicks,    \* clients with a disconnect request on disk
    client,   \* client[c]: what c is really doing
    quiet,    \* quiet[c]: time since c last sent a heartbeat or was attached
    age,      \* time since the monitor was created
    over      \* why and because of whom the session has ended

vars == <<plan, seat, wire, inbox, slot, kicks, client, quiet, age, over>>

\* The end of a connection: none, orderly, by error, or cut without a trace.
Ends == {"open", "fin"} \cup Cuts
Reasons == {"", "left", "kicked", "disconnected", "heartbeat timed out"}
Causes == {"no", "left", "kicked", "timeout", "error", "stopped"}

TypeOK ==
    /\ plan \in Seq(Clients)
    /\ seat \in [Clients -> [at : {"out", "up", "down"}, reason : Reasons,
                             away : 0 .. Grace, silent : 0 .. Timeout + 1]]
    /\ \A c \in Clients : Contains(plan, c) <=> seat[c].at # "out"
    /\ \A v \in Viewers : seat[v].at # "down"
    /\ wire \in [Clients -> [sent : SUBSET {"beat", "leave"}, end : Ends]]
    /\ inbox \in Seq([who : Clients, end : Ends])
    /\ slot \in [pc : {"drain", "attach", "kick", "visit"}, i : Nat \ {0},
                 batch : Seq([who : Clients, end : Ends])]
    /\ kicks \subseteq Clients
    /\ client \in [Clients -> {"in", "away", "gone", "left", "kicked"}]
    /\ quiet \in [Clients -> 0 .. Timeout + 1]
    /\ age \in 0 .. Startup
    /\ over \in [why : Causes, who : Clients \cup {NoClient}]

Out == [at |-> "out", reason |-> "", away |-> 0, silent |-> 0]
Up == [Out EXCEPT !.at = "up"]
Down(why) == [at |-> "down", reason |-> why, away |-> 0, silent |-> 0]

\* The session starts with every player of its plan connected.
Init ==
    /\ plan \in Bijection(1 .. Cardinality(Players), Players)
    /\ seat = [c \in Clients |-> IF c \in Players THEN Up ELSE Out]
    /\ wire = [c \in Clients |-> [sent |-> {}, end |-> "open"]]
    /\ inbox = <<>>
    /\ slot = [pc |-> "drain", i |-> 1, batch |-> <<>>]
    /\ kicks = {}
    /\ client = [c \in Clients |-> IF c \in Players THEN "in" ELSE "away"]
    /\ quiet = [c \in Clients |-> 0]
    /\ age = 0
    /\ over = [why |-> "no", who |-> NoClient]

-----------------------------------------------------------------------------
(* What the monitor computes. *)

\* any_connected_seated_player, after c has been lost
OthersConnected(c) == \E p \in Players \ {c} : seat[p].at = "up"

\* reconnect_grace_for: none after an explicit leave or a kick
\* Mutant: none after a missed heartbeat either.
GraceForClosedOnly(c) == IF seat[c].reason = "disconnected" THEN Grace ELSE 0
GraceFor(c) == IF seat[c].reason \in {"left", "kicked"} THEN 0 ELSE Grace

\* The reservation of a lost player's seat has run out, whoever else is there.
\* Mutant: not while somebody watches.
ExpiredUnwatched(c) ==
    seat[c].away >= GraceFor(c) /\ \A v \in Viewers : seat[v].at # "up"
Expired(c) == seat[c].away >= GraceFor(c)

\* The heartbeats that have arrived are read before the time-out is tested.
\* Mutants: it is tested first; viewers are exempt from it.
LateUnread(c) == age = Startup /\ seat[c].silent > Timeout
LatePlayers(c) ==
    /\ age = Startup /\ c \in Players
    /\ seat[c].silent > Timeout /\ "beat" \notin wire[c].sent
Late(c) ==
    /\ age = Startup
    /\ seat[c].silent > Timeout /\ "beat" \notin wire[c].sent

Kicked(c) == seat[c].at = "up" /\ c \in kicks

-----------------------------------------------------------------------------
(* The slot thread. *)

Visiting == plan[slot.i]
GoTo(place) == slot' = [pc |-> place, i |-> 1, batch |-> slot.batch]
Advance == slot' = [slot EXCEPT !.i = @ + 1]
End(why, c) ==
    /\ over' = [why |-> why, who |-> c]
    /\ UNCHANGED slot

\* remove_viewer and mark_player_disconnected: a viewer leaves the plan, so that
\* the next client moves to its place; a player keeps its place and its seat.
\* Either way a pending disconnect request is removed (clear_connected_client).
\* Mutant: players lose their place as well.
DropPlace(c, why) ==
    /\ kicks' = kicks \ {c}
    /\ plan' = RemoveAt(plan, slot.i)
    /\ seat' = [seat EXCEPT ![c] = IF c \in Viewers THEN Out ELSE Down(why)]
Drop(c, why) ==
    /\ kicks' = kicks \ {c}
    /\ IF c \in Viewers
       THEN /\ plan' = RemoveAt(plan, slot.i)
            /\ seat' = [seat EXCEPT ![c] = Out]
       ELSE /\ seat' = [seat EXCEPT ![c] = Down(why)]
            /\ UNCHANGED plan

\* The loop moves on from a client it has dropped.
AfterDrop(c) == IF c \in Viewers THEN UNCHANGED slot ELSE Advance

\* drain_pending_joins takes the whole inbox ...
TakeInbox ==
    /\ slot.pc = "drain"
    /\ slot' = [slot EXCEPT !.pc = "attach", !.batch = inbox]
    /\ inbox' = <<>>
    /\ UNCHANGED <<plan, seat, wire, kicks, client, quiet, age, over>>

\* resolve_live_session_join_target and attach_pending_join: a viewer is appended
\* to the plan, a player takes its reserved seat again.  The join is turned down
\* with an ErrorPacket when that seat is taken meanwhile or when a packet of the
\* handshake cannot be sent.
\* Mutant: the seat is not looked at again.
AttachableAnyway(c) == TRUE
Attachable(c) == IF c \in Players THEN seat[c].at = "down" ELSE seat[c].at = "out"
Attach ==
    LET join == Head(slot.batch)
        c == join.who
        refused == ~Attachable(c) \/ join.end \in {"fin", "reset"}
    IN
    /\ slot.pc = "attach" /\ slot.batch # <<>>
    /\ slot' = [slot EXCEPT !.batch = Tail(@)]
    /\ \/ /\ Attachable(c)
          /\ plan' = IF c \in Viewers THEN Append(plan, c) ELSE plan
          /\ seat' = [seat EXCEPT ![c] = Up]
          /\ wire' = [wire EXCEPT ![c] = [sent |-> {}, end |-> join.end]]
          /\ quiet' = [quiet EXCEPT ![c] = 0]
          /\ UNCHANGED client
       \/ /\ refused
          /\ client' = IF join.end = "open" /\ client[c] = "in"
                       THEN [client EXCEPT ![c] = "away"] ELSE client
          /\ UNCHANGED <<plan, seat, wire, quiet>>
    /\ UNCHANGED <<inbox, kicks, age, over>>

\* ... and leaves the joins that arrive meanwhile to the next round.
StartPoll ==
    /\ slot.pc = "attach" /\ slot.batch = <<>>
    /\ GoTo("kick")
    /\ UNCHANGED <<plan, seat, wire, inbox, kicks, client, quiet, age, over>>

\* The first loop of poll: a kick closes the connection and counts as a leave.
PassKick ==
    /\ slot.pc = "kick" /\ slot.i <= Len(plan) /\ ~Kicked(Visiting)
    /\ Advance
    /\ UNCHANGED <<plan, seat, wire, inbox, kicks, client, quiet, age, over>>

CarryOutKick ==
    LET c == Visiting IN
    /\ slot.pc = "kick" /\ slot.i <= Len(plan) /\ Kicked(c)
    /\ Drop(c, "kicked")
    /\ client' = [client EXCEPT ![c] = IF @ = "in"
                      THEN IF c \in Players THEN "kicked" ELSE "away" ELSE @]
    /\ IF c \in Players /\ (Single \/ ~OthersConnected(c))
       THEN End("kicked", c)
       ELSE AfterDrop(c) /\ UNCHANGED over
    /\ UNCHANGED <<wire, inbox, quiet, age>>

StartVisits ==
    /\ slot.pc = "kick" /\ slot.i > Len(plan)
    /\ GoTo("visit")
    /\ UNCHANGED <<plan, seat, wire, inbox, kicks, client, quiet, age, over>>

\* The second loop of poll, one action per outcome of a visit.
AtVisit(c) == slot.pc = "visit" /\ slot.i <= Len(plan) /\ c = Visiting
Connected(c) == AtVisit(c) /\ seat[c].at = "up"

\* A reserved seat is given up, and the session with it, when its time is over.
VisitReserved ==
    LET c == Visiting IN
    /\ AtVisit(c) /\ seat[c].at = "down"
    /\ IF Expired(c)
       THEN End("timeout", c)
       ELSE Advance /\ UNCHANGED over
    /\ UNCHANGED <<plan, seat, wire, inbox, kicks, client, quiet, age>>

\* ClientSessionLeave ends the session at once unless other players go on.
VisitLeave ==
    LET c == Visiting IN
    /\ Connected(c) /\ "leave" \in wire[c].sent
    /\ Drop(c, "left")
    /\ IF c \in Players /\ (Single \/ ~OthersConnected(c))
       THEN End("left", c)
       ELSE AfterDrop(c) /\ UNCHANGED over
    /\ UNCHANGED <<wire, inbox, client, quiet, age>>

\* receive_packet returns nothing, or peer_closed notices the end; a reset that
\* arrives after the last read is noticed in the same way.
VisitClosed ==
    LET c == Visiting IN
    /\ Connected(c) /\ "leave" \notin wire[c].sent /\ wire[c].end \in {"fin", "reset"}
    /\ Drop(c, "disconnected")
    /\ AfterDrop(c)
    /\ UNCHANGED <<wire, inbox, client, quiet, age, over>>

\* receive_packet throws on a reset connection.  Nothing catches it before
\* thread_main, which ends the session.
VisitReset ==
    LET c == Visiting IN
    /\ Connected(c) /\ "leave" \notin wire[c].sent /\ wire[c].end = "reset"
    /\ End("error", c)
    /\ UNCHANGED <<plan, seat, wire, inbox, kicks, client, quiet, age>>

VisitSilent ==
    LET c == Visiting IN
    /\ Connected(c) /\ wire[c].end \in {"open", "mute"} /\ "leave" \notin wire[c].sent
    /\ Late(c)
    /\ Drop(c, "heartbeat timed out")
    /\ AfterDrop(c)
    /\ UNCHANGED <<wire, inbox, client, quiet, age, over>>

VisitHealthy ==
    LET c == Visiting IN
    /\ Connected(c) /\ wire[c].end \in {"open", "mute"} /\ "leave" \notin wire[c].sent
    /\ ~Late(c)
    /\ seat' = IF "beat" \in wire[c].sent THEN [seat EXCEPT ![c].silent = 0] ELSE seat
    /\ wire' = [wire EXCEPT ![c].sent = {}]
    /\ Advance
    /\ UNCHANGED <<plan, inbox, kicks, client, quiet, age, over>>

EndPoll ==
    /\ slot.pc = "visit" /\ slot.i > Len(plan)
    /\ GoTo("drain")
    /\ UNCHANGED <<plan, seat, wire, inbox, kicks, client, quiet, age, over>>

SlotStep ==
    \/ TakeInbox \/ Attach \/ StartPoll
    \/ PassKick \/ CarryOutKick \/ StartVisits
    \/ VisitReserved \/ VisitLeave \/ VisitClosed \/ VisitReset
    \/ VisitSilent \/ VisitHealthy \/ EndPoll

\* The emulator has exited, or the host or an administrator stops the session:
\* the loop condition of poll_while, tested once per round.
Stop ==
    /\ slot.pc = "drain"
    /\ over' = [why |-> "stopped", who |-> NoClient]
    /\ UNCHANGED <<plan, seat, wire, inbox, slot, kicks, client, quiet, age>>

-----------------------------------------------------------------------------
(* The clients, the lobby, the administrator and the clock. *)

\* A client that has been attached sends a heartbeat every second.
Beat(c) ==
    /\ client[c] = "in" /\ seat[c].at = "up" /\ wire[c].end = "open"
    /\ "leave" \notin wire[c].sent
    /\ wire' = [wire EXCEPT ![c].sent = @ \cup {"beat"}]
    /\ quiet' = [quiet EXCEPT ![c] = 0]
    /\ UNCHANGED <<plan, seat, inbox, slot, kicks, client, age, over>>

\* ClientSessionLeave, then the connection is closed.
Leave(c) ==
    /\ client[c] = "in" /\ seat[c].at = "up" /\ wire[c].end = "open"
    /\ wire' = [wire EXCEPT ![c] = [sent |-> @.sent \cup {"leave"}, end |-> "fin"]]
    /\ client' = [client EXCEPT ![c] = IF c \in Players THEN "left" ELSE "away"]
    /\ UNCHANGED <<plan, seat, inbox, slot, kicks, quiet, age, over>>

\* The client dies, gives up or loses its network: every connection it has
\* ends in one of the three ways.  It may be back later ("away") or never.
CloseJoins(joins, c, e) ==
    [k \in DOMAIN joins |->
        IF joins[k].who = c /\ joins[k].end = "open" THEN [joins[k] EXCEPT !.end = e]
                                                     ELSE joins[k]]
Vanish(c, e, next) ==
    /\ client[c] = "in"
    /\ client' = [client EXCEPT ![c] = next]
    /\ wire' = IF wire[c].end = "open" THEN [wire EXCEPT ![c].end = e] ELSE wire
    /\ inbox' = CloseJoins(inbox, c, e)
    /\ slot' = [slot EXCEPT !.batch = CloseJoins(@, c, e)]
    /\ UNCHANGED <<plan, seat, kicks, quiet, age, over>>

\* The lobby hands over a player whose seat is reserved, or a late viewer (who
\* is a client of its own until every trace of it has gone).
Waiting(joins) == {joins[k].who : k \in DOMAIN joins}
Join(c) ==
    /\ client[c] = "away" /\ Len(inbox) < MaxInbox
    /\ IF c \in Players
       THEN seat[c].at = "down"
       ELSE seat[c].at = "out" /\ c \notin Waiting(inbox) \cup Waiting(slot.batch)
    /\ client' = [client EXCEPT ![c] = "in"]
    /\ inbox' = Append(inbox, [who |-> c, end |-> "open"])
    /\ UNCHANGED <<plan, seat, wire, slot, kicks, quiet, age, over>>

\* request_connected_client_disconnect: the administrator picks from a list that
\* may be out of date, so the request can find its client gone.
Kick(c) ==
    /\ c \notin kicks
    /\ kicks' = kicks \cup {c}
    /\ UNCHANGED <<plan, seat, wire, inbox, slot, client, quiet, age, over>>

\* Times are counted no further than the code compares them.
UpTo(n, max) == IF n < max THEN n + 1 ELSE max
Tick ==
    /\ UNCHANGED <<plan, wire, inbox, slot, kicks, client, over>>
    /\ age' = UpTo(age, Startup)
    /\ quiet' = [c \in Clients |-> IF seat[c].at = "up" THEN UpTo(quiet[c], Timeout + 1) ELSE 0]
    /\ seat' = [c \in Clients |->
           CASE seat[c].at = "up" -> [seat[c] EXCEPT !.silent = UpTo(@, Timeout + 1)]
             [] seat[c].at = "down" -> [seat[c] EXCEPT !.away = UpTo(@, Grace)]
             [] OTHER -> seat[c]]

ClientStep(c) ==
    \/ Beat(c) \/ Leave(c) \/ Join(c) \/ Kick(c)
    \/ \E e \in Cuts, next \in {"away", "gone"} : Vanish(c, e, next)

Next ==
    /\ over.why = "no"
    /\ \/ SlotStep
       \/ Stop
       \/ \E c \in Clients : ClientStep(c)
       \/ Tick

Spec == Init /\ [][Next]_vars

Running(A) == over.why = "no" /\ A

\* The slot thread keeps polling and time keeps passing; no client owes anything.
FairSpec == Spec /\ WF_vars(Running(SlotStep)) /\ WF_vars(Running(Tick))

-----------------------------------------------------------------------------
(* Properties. *)

\* The monitor ends a session for a player's sake only: one that said it left,
\* one that was kicked, or one whose seat stayed reserved for the whole grace.
EndsForCause ==
    over.why \in {"left", "kicked", "timeout"} =>
        \E p \in Players :
            \/ client[p] = "left"
            \/ seat[p].at = "down" /\ seat[p].reason = "kicked"
            \/ seat[p].at = "down" /\ seat[p].away >= Grace

\* A client is given up as silent only if it really has sent nothing for longer
\* than the time-out, however late the slot thread reads what it sent.
OnlySilentTimedOut ==
    [][\A c \in Clients :
          /\ seat[c].at = "up"
          /\ \/ seat'[c].reason = "heartbeat timed out"
             \/ /\ c \in Viewers /\ seat'[c].at = "out"
                /\ wire[c].end \in {"open", "mute"} /\ c \notin kicks
                /\ "leave" \notin wire[c].sent
          => quiet[c] > Timeout]_vars

\* A seat belongs to one connection at a time: a connection that has ended is not
\* replaced by another one while the monitor still counts on it, so that two joins
\* of one player in the inbox do not both become the player.
NoTakeover ==
    [][\A c \in Clients :
          seat[c].at = "up" /\ seat'[c].at = "up" /\ wire[c].end # "open"
          => wire'[c].end = wire[c].end]_vars

\* When the players have all gone for good, the session ends by itself.
AbandonedEnds ==
    (\A p \in Players : client[p] \in {"gone", "left", "kicked"}) ~> (over.why # "no")

\* A client that died, even without a trace on its connection, or whose removal an
\* administrator has requested, is taken out of the session.
LostRemoved ==
    \A c \in Clients :
        client[c] = "gone" \/ c \in kicks ~> (seat[c].at # "up" \/ over.why # "no")

\* A viewer never ends the session.
ViewersHarmless == over.who \notin Viewers
=============================================================================
