--------------------------- MODULE HostAdmission ---------------------------
(***************************************************************************)
(* Admission of control connections into game sessions by the host.        *)
(*                                                                         *)
(* Three kinds of threads of host_runner interleave here:                  *)
(*   - the lobby thread (Lobby::thread_main) takes one connection at a     *)
(*     time through handle_hello: it reads the hub and the session manager *)
(*     and only QUEUES a command;                                          *)
(*   - the main thread (Lobby::run_until_stop) drains the queue and        *)
(*     applies each command through SessionManager::apply_commands, then   *)
(*     reaps the finished slots;                                           *)
(*   - every ActiveSessionSlot runs its session on a thread of its own.    *)
(* The decisions of the lobby thread are therefore taken on a state that   *)
(* the other two may have changed by the time its command is applied.      *)
(*                                                                         *)
(* A connection is identified by a member of Conns.  A slot is identified  *)
(* by the first connection of its plan, which no other slot ever has.      *)
(***************************************************************************)
EXTENDS Naturals, Sequences, FiniteSets, SequencesExt, FiniteSetsExt

CONSTANTS
    Conns,            \* control connections that may deliver a ClientHello
    Users, Games,     \* usernames (up to letter case) and catalog games
    Hellos,           \* the hellos the clients may send
    MaxSlots,         \* clamp_max_session_slots(config.clients)
    MinPlayers,       \* required_player_count of a multiplayer game
    MaxPlayers,       \* GameInfo.max_players
    None              \* no connection, no hello

Modes == {"single", "multi"}

ASSUME HostAssumption ==
    /\ MaxSlots \in Nat \ {0}
    /\ MinPlayers \in Nat /\ MaxPlayers \in Nat
    /\ Hellos \subseteq [user : Users, game : Games, mode : Modes, seats : Nat]
    /\ IsFiniteSet(Conns)
    /\ None \notin Conns /\ None \notin Hellos /\ None \notin Users

VARIABLES
    hello,     \* hello[c]: the ClientHello that connection c delivered
    stage,     \* stage[c]: where connection c is in the program
    lobby,     \* the lobby thread: handle_hello in progress
    queue,     \* Lobby::pending_commands_
    main,      \* the main thread: drained commands not applied yet
    managed,   \* SessionManager::slots_
    hub,       \* HostSessionHub::slots_, raw pointers to slots
    phase,     \* phase[s]: how far the thread of slot s is
    profile,   \* profile[s]: plan.game.save_username of slot s
    home,      \* home[c]: the slot whose plan holds client c
    inbox,     \* inbox[s]: ActiveSessionSlot::pending_joins_
    stopping   \* should_stop() of the host

vars == <<hello, stage, lobby, queue, main, managed, hub, phase, profile,
          home, inbox, stopping>>

\* new: not accepted; lobby: inside handle_hello; queued: inside a command;
\* pending: in the inbox of a slot; seated: connected client of a plan;
\* lost: disconnected player whose seat is reserved; ended: told SessionEnded
\* or gone by itself; error: told an ErrorPacket; closed: stream dropped
\* without a packet that says why.
Stages == {"new", "lobby", "queued", "pending", "seated", "lost", "ended",
           "error", "closed"}
Phases == {"none", "boot", "run", "cleanup", "ended", "unhubbed", "finished",
           "erased"}
LobbyPcs == {"accept", "read", "gatherRead", "route", "join", "admit", "capacity", "gather",
             "start", "down"}
MainPcs  == {"tick", "apply", "joinLobby", "joinSlots", "down"}

Commands ==
    [kind : {"StartSession"}, clients : Seq(Conns) \ {<<>>}, user : Users]
        \cup [kind : {"EnqueueJoin"}, conn : Conns, slot : Conns]

TypeOK ==
    /\ hello \in [Conns -> Hellos \cup {None}]
    /\ stage \in [Conns -> Stages]
    /\ lobby \in [pc : LobbyPcs, conn : Conns \cup {None},
                  target : Conns \cup {None}, gathered : Seq(Conns)]
    /\ lobby.pc \notin {"accept", "down"} => lobby.conn \in Conns
    /\ lobby.pc \in {"join", "gatherRead"} => lobby.target \in Conns
    /\ queue \in Seq(Commands)
    /\ main \in [pc : MainPcs, batch : Seq(Commands)]
    /\ managed \subseteq Conns /\ hub \subseteq Conns
    /\ phase \in [Conns -> Phases]
    /\ profile \in [Conns -> Users \cup {None}]
    /\ home \in [Conns -> Conns \cup {None}]
    /\ inbox \in [Conns -> Seq(Conns)]
    /\ stopping \in BOOLEAN

Init ==
    /\ hello = [c \in Conns |-> None]
    /\ stage = [c \in Conns |-> "new"]
    /\ lobby = [pc |-> "accept", conn |-> None, target |-> None, gathered |-> <<>>]
    /\ queue = <<>>
    /\ main = [pc |-> "tick", batch |-> <<>>]
    /\ managed = {} /\ hub = {}
    /\ phase = [s \in Conns |-> "none"]
    /\ profile = [s \in Conns |-> None]
    /\ home = [c \in Conns |-> None]
    /\ inbox = [s \in Conns |-> <<>>]
    /\ stopping = FALSE

-----------------------------------------------------------------------------
(* What the threads read of one another. *)

\* Mutant: finished_ is set before the slot leaves the hub.
FinishedEarly(s) == phase[s] \in {"ended", "unhubbed", "finished", "erased"}
Finished(s) == phase[s] \in {"finished", "erased"}

\* SessionManager::live_count
LiveCount == Cardinality({s \in managed : ~Finished(s)})

\* HostSessionHub: every lookup skips the finished slots
HubLive == {s \in hub : ~Finished(s)}
HasMultiplayerSlot == \E s \in HubLive : hello[s].mode = "multi"
\* Mutant: a profile counts as active only once the emulator of its slot polls.
SaveProfileActiveLate(u) == \E s \in HubLive : profile[s] = u /\ phase[s] = "run"
SaveProfileActive(u) == \E s \in HubLive : profile[s] = u
\* Mutant: an off-by-one in the comparison of live_slot_count with max_slots.
HasRoomOffByOne == Cardinality(HubLive) <= MaxSlots
HasRoom == Cardinality(HubLive) < MaxSlots
SameGame(s, h) == hello[s].game = h.game /\ hello[s].mode = h.mode

\* disconnected_player_for_reconnect: a reserved seat of the same user
\* Mutant: the connection state of the seat is not looked at.
AnySeats(s, h) ==
    {c \in Conns : /\ home[c] = s /\ stage[c] \in {"seated", "lost"}
                   /\ hello[c].user = h.user /\ hello[c].seats = h.seats}
LostSeats(s, h) ==
    {c \in Conns : /\ home[c] = s /\ stage[c] = "lost"
                   /\ hello[c].user = h.user /\ hello[c].seats = h.seats}
SlotsForReconnect(h) ==
    {s \in HubLive : SameGame(s, h) /\ LostSeats(s, h) # {}}
SlotsForLateViewer(h) == {s \in HubLive : SameGame(s, h)}

Put(f, S, v) == [x \in DOMAIN f |-> IF x \in S THEN v ELSE f[x]]

-----------------------------------------------------------------------------
(* The lobby thread. *)

Idle == [pc |-> "accept", conn |-> None, target |-> None, gathered |-> <<>>]

\* The connection of the hello in progress leaves with the given outcome.
LobbyDrops(S, outcome) ==
    /\ stage' = Put(stage, S, outcome)
    /\ lobby' = Idle

\* accept_once: the listener hands over a connection ...
Accept(c) ==
    /\ lobby.pc = "accept" /\ stage[c] = "new" /\ ~stopping
    /\ stage' = [stage EXCEPT ![c] = "lobby"]
    /\ lobby' = [Idle EXCEPT !.pc = "read", !.conn = c]
    /\ UNCHANGED <<hello, queue, main, managed, hub, phase, profile, home, inbox, stopping>>

\* ... and the thread blocks in receive_packet, which has no timeout, until the
\* client has authenticated and sent its hello, or has sent anything else
\* (a one-shot request, a rejected password) or nothing more.
ReadHello(h) ==
    /\ lobby.pc = "read"
    /\ hello' = [hello EXCEPT ![lobby.conn] = h]
    /\ lobby' = [lobby EXCEPT !.pc = "route"]
    /\ UNCHANGED <<stage, queue, main, managed, hub, phase, profile, home, inbox, stopping>>

ReadOther ==
    /\ lobby.pc = "read"
    /\ LobbyDrops({lobby.conn}, "closed")
    /\ UNCHANGED <<hello, queue, main, managed, hub, phase, profile, home, inbox, stopping>>

\* handle_hello: a player whose seat is reserved, or a viewer, goes to the slot
\* found now; only its session_id is kept until the command is applied.
Route ==
    LET h == hello[lobby.conn]
        slots == IF h.seats > 0 THEN SlotsForReconnect(h) ELSE SlotsForLateViewer(h)
    IN
    /\ lobby.pc = "route"
    /\ \/ \E s \in slots :
             /\ lobby' = [lobby EXCEPT !.pc = "join", !.target = s]
             /\ UNCHANGED stage
       \/ slots = {} /\ h.seats > 0
             /\ lobby' = [lobby EXCEPT !.pc = "admit"]
             /\ UNCHANGED stage
       \/ slots = {} /\ h.seats = 0 /\ LobbyDrops({lobby.conn}, "error")
    /\ UNCHANGED <<hello, queue, main, managed, hub, phase, profile, home, inbox, stopping>>

EnqueueJoin ==
    /\ lobby.pc = "join"
    /\ queue' = Append(queue, [kind |-> "EnqueueJoin", conn |-> lobby.conn,
                               slot |-> lobby.target])
    /\ LobbyDrops({lobby.conn}, "queued")
    /\ UNCHANGED <<hello, main, managed, hub, phase, profile, home, inbox, stopping>>

\* The mode gate of handle_hello.  A multiplayer hello starts a gather at once.
AdmitMode ==
    LET multi == hello[lobby.conn].mode = "multi"
        refused == IF multi THEN LiveCount > 0 ELSE HasMultiplayerSlot
    IN
    /\ lobby.pc = "admit"
    /\ IF refused
       THEN LobbyDrops({lobby.conn}, "error")
       ELSE /\ lobby' = [lobby EXCEPT
                  !.pc = IF multi THEN "gather" ELSE "capacity",
                  !.gathered = <<lobby.conn>>]
            /\ UNCHANGED stage
    /\ UNCHANGED <<hello, queue, main, managed, hub, phase, profile, home, inbox, stopping>>

\* The capacity gate of a singleplayer hello, then make_singleplayer_session_plan.
\* When the plan throws, the stream has already been moved into it, so the
\* ErrorPacket of the handler goes to an empty stream: the client is closed.
AdmitSingle ==
    /\ lobby.pc = "capacity"
    /\ \/ LiveCount >= MaxSlots /\ LobbyDrops({lobby.conn}, "error")
       \/ LiveCount < MaxSlots /\ LobbyDrops({lobby.conn}, "closed")
       \/ /\ LiveCount < MaxSlots /\ hello[lobby.conn].seats <= MaxPlayers
          /\ lobby' = [lobby EXCEPT !.pc = "start"]
          /\ UNCHANGED stage
    /\ UNCHANGED <<hello, queue, main, managed, hub, phase, profile, home, inbox, stopping>>

SeatTotal(cs, hs) == MapThenSumSet(LAMBDA c : hs[c].seats, ToSet(cs))

\* launch_requirements_satisfied; it throws when there are too many players.
TooMany(cs, hs) == SeatTotal(cs, hs) > MaxPlayers
Enough(cs, hs)  == SeatTotal(cs, hs) >= MinPlayers /\ ~TooMany(cs, hs)

\* gather_session_clients accepts another connection and blocks on it as well:
\* while it does, it sees neither its deadline nor a stop.
GatherAccept(c) ==
    /\ lobby.pc = "gather" /\ stage[c] = "new" /\ ~stopping
    /\ Len(lobby.gathered) < MaxSlots
    /\ ~Enough(lobby.gathered, hello) /\ ~TooMany(lobby.gathered, hello)
    /\ stage' = [stage EXCEPT ![c] = "lobby"]
    /\ lobby' = [lobby EXCEPT !.pc = "gatherRead", !.target = c]
    /\ UNCHANGED <<hello, queue, main, managed, hub, phase, profile, home, inbox, stopping>>

\* A candidate without a hello, or with another game or mode, is dropped without
\* a packet; one seat too many aborts the gather for everybody.
GatherReadOther ==
    /\ lobby.pc = "gatherRead"
    /\ stage' = [stage EXCEPT ![lobby.target] = "closed"]
    /\ lobby' = [lobby EXCEPT !.pc = "gather", !.target = None]
    /\ UNCHANGED <<hello, queue, main, managed, hub, phase, profile, home, inbox, stopping>>

GatherReadHello(h) ==
    LET c == lobby.target
        first == hello[lobby.conn]
        all == Append(lobby.gathered, c)
        hs == [hello EXCEPT ![c] = h]
    IN
    /\ lobby.pc = "gatherRead"
    /\ h.game = first.game /\ h.mode = first.mode
    /\ hello' = hs
    /\ IF TooMany(all, hs)
       THEN LobbyDrops(ToSet(all), "error")
       ELSE /\ lobby' = [lobby EXCEPT !.pc = "gather", !.target = None, !.gathered = all]
            /\ UNCHANGED stage
    /\ UNCHANGED <<queue, main, managed, hub, phase, profile, home, inbox, stopping>>

\* The Users tab kicks a waiting client.
GatherKick(i) ==
    /\ lobby.pc = "gather" /\ i \in DOMAIN lobby.gathered
    /\ ~Enough(lobby.gathered, hello) /\ ~TooMany(lobby.gathered, hello)
    /\ stage' = [stage EXCEPT ![lobby.gathered[i]] = "closed"]
    /\ lobby' = [lobby EXCEPT !.gathered = RemoveAt(@, i)]
    /\ UNCHANGED <<hello, queue, main, managed, hub, phase, profile, home, inbox, stopping>>

\* The gather ends: with enough players, at the timeout (or with max_slots
\* clients), or by an exception: too many players at the first client, a stop,
\* a client that cannot be welcomed, a save file of another name.
GatherEnd ==
    /\ lobby.pc = "gather"
    /\ \/ /\ Enough(lobby.gathered, hello)
          /\ lobby' = [lobby EXCEPT !.pc = "start"]
          /\ UNCHANGED stage
       \/ /\ Enough(lobby.gathered, hello) \/ TooMany(lobby.gathered, hello) \/ stopping
          /\ LobbyDrops(ToSet(lobby.gathered), "closed")
       \/ /\ ~Enough(lobby.gathered, hello) /\ ~TooMany(lobby.gathered, hello)
          /\ LobbyDrops(ToSet(lobby.gathered), "error")
    /\ UNCHANGED <<hello, queue, main, managed, hub, phase, profile, home, inbox, stopping>>

\* Mutant: the plan is queued before its save_username is filled in.
SaveUserUnset(cs, i) == None
SaveUser(cs, i) == hello[cs[i]].user

\* The save profile of the plan is the user of its first seated client
\* (assign_seats_welcome_and_save_username).
EnqueueStart ==
    /\ lobby.pc = "start"
    /\ \E i \in DOMAIN lobby.gathered :
          /\ hello[lobby.gathered[i]].seats > 0
          /\ \A j \in DOMAIN lobby.gathered : j < i => hello[lobby.gathered[j]].seats = 0
          /\ queue' = Append(queue, [kind |-> "StartSession",
                                     clients |-> lobby.gathered,
                                     user |-> SaveUser(lobby.gathered, i)])
    /\ LobbyDrops(ToSet(lobby.gathered), "queued")
    /\ UNCHANGED <<hello, main, managed, hub, phase, profile, home, inbox, stopping>>

LobbyExit ==
    /\ lobby.pc = "accept" /\ stopping
    /\ lobby' = [Idle EXCEPT !.pc = "down"]
    /\ UNCHANGED <<hello, stage, queue, main, managed, hub, phase, profile, home, inbox, stopping>>

ClientSpeaks ==
    \/ ReadOther \/ GatherReadOther
    \/ \E h \in Hellos : ReadHello(h) \/ GatherReadHello(h)

LobbyStep ==
    \/ Route \/ EnqueueJoin \/ AdmitMode \/ AdmitSingle
    \/ GatherEnd \/ EnqueueStart \/ LobbyExit

-----------------------------------------------------------------------------
(* The main thread. *)

Drain ==
    /\ main.pc = "tick" /\ ~stopping
    /\ main' = [pc |-> "apply", batch |-> queue]
    /\ queue' = <<>>
    /\ UNCHANGED <<hello, stage, lobby, managed, hub, phase, profile, home, inbox, stopping>>

\* ~ActiveSessionSlot: the slots leave SessionManager::slots_ and are destroyed,
\* with the joins left in their inboxes.
\* Mutant: the inbox of a destroyed slot is forgotten, its streams stay open.
UnansweredForgotten(dead) == {}
Unanswered(dead) == UNION {ToSet(inbox[s]) : s \in dead}
EmptyInboxes(dead) == inbox' = [s \in Conns |-> IF s \in dead THEN <<>> ELSE inbox[s]]

\* SessionManager::start_session: drop the finished slots, then the checks of
\* profile, capacity and (as a free choice here) the machine-wide slot lease and
\* the launch plan.  On a refusal the plan has been moved out of the command, so
\* send_error_to_session_clients finds no client in it: they are closed.
ApplyStart ==
    LET cmd == Head(main.batch)
        s == Head(cmd.clients)
        cs == ToSet(cmd.clients)
        u == cmd.user
        dead == {d \in managed : Finished(d)}
        gone == Unanswered(dead)
    IN
    /\ main.pc = "apply" /\ main.batch # <<>> /\ cmd.kind = "StartSession"
    /\ main' = [main EXCEPT !.batch = Tail(@)]
    /\ EmptyInboxes(dead)
    /\ \/ /\ ~SaveProfileActive(u) /\ HasRoom
          /\ managed' = (managed \ dead) \cup {s}
          /\ hub' = hub \cup {s}
          /\ phase' = [Put(phase, dead, "erased") EXCEPT ![s] = "boot"]
          /\ profile' = [profile EXCEPT ![s] = u]
          /\ home' = Put(home, cs, s)
          /\ stage' = Put(Put(stage, gone, "closed"), cs, "seated")
       \/ /\ managed' = managed \ dead
          /\ phase' = Put(phase, dead, "erased")
          /\ stage' = Put(stage, gone \cup cs, "closed")
          /\ UNCHANGED <<hub, profile, home>>
    /\ UNCHANGED <<hello, lobby, queue, stopping>>

\* find_by_session_id also finds a finished slot; a session already reaped is
\* looked for again through the hub; with none the join is dropped.
ApplyJoin ==
    LET cmd == Head(main.batch)
        c == cmd.conn
        again == IF hello[c].seats > 0 THEN SlotsForReconnect(hello[c])
                                       ELSE SlotsForLateViewer(hello[c])
        found == IF cmd.slot \in managed THEN {cmd.slot} ELSE again
    IN
    /\ main.pc = "apply" /\ main.batch # <<>> /\ cmd.kind = "EnqueueJoin"
    /\ main' = [main EXCEPT !.batch = Tail(@)]
    /\ \/ \E s \in found :
             /\ inbox' = [inbox EXCEPT ![s] = Append(@, c)]
             /\ stage' = [stage EXCEPT ![c] = "pending"]
       \/ /\ found = {}
          /\ stage' = [stage EXCEPT ![c] = "closed"]
          /\ UNCHANGED inbox
    /\ UNCHANGED <<hello, lobby, queue, managed, hub, phase, profile, home, stopping>>

Destroy(dead) ==
    /\ managed' = managed \ dead
    /\ phase' = Put(phase, dead, "erased")
    /\ EmptyInboxes(dead)

\* SessionManager::reap_finished, at the end of every tick.
Reap ==
    LET dead == {s \in managed : Finished(s)} IN
    /\ main.pc = "apply" /\ main.batch = <<>>
    /\ main' = [main EXCEPT !.pc = "tick"]
    /\ Destroy(dead)
    /\ stage' = Put(stage, Unanswered(dead), "closed")
    /\ UNCHANGED <<hello, lobby, queue, hub, profile, home, stopping>>

\* run_until_stop leaves its loop and joins the lobby thread ...
\* Mutant: the loop is left without joining the lobby thread and the slots.
StopWithoutJoin ==
    /\ main.pc = "tick" /\ stopping
    /\ main' = [main EXCEPT !.pc = "down"]
    /\ UNCHANGED <<hello, stage, lobby, queue, managed, hub, phase, profile, home, inbox, stopping>>
StopTicking ==
    /\ main.pc = "tick" /\ stopping
    /\ main' = [main EXCEPT !.pc = "joinLobby"]
    /\ UNCHANGED <<hello, stage, lobby, queue, managed, hub, phase, profile, home, inbox, stopping>>

JoinLobby ==
    /\ main.pc = "joinLobby" /\ lobby.pc = "down"
    /\ main' = [main EXCEPT !.pc = "joinSlots"]
    /\ UNCHANGED <<hello, stage, lobby, queue, managed, hub, phase, profile, home, inbox, stopping>>

\* ... then the slots; commands never applied are destroyed with the lobby.
JoinSlots ==
    /\ main.pc = "joinSlots" /\ \A s \in managed : Finished(s)
    /\ main' = [main EXCEPT !.pc = "down"]
    /\ Destroy(managed)
    /\ queue' = <<>>
    /\ stage' = Put(stage, Unanswered(managed) \cup {c \in Conns : stage[c] = "queued"},
                    "closed")
    /\ UNCHANGED <<hello, lobby, hub, profile, home, stopping>>

MainStep ==
    \/ Drain \/ ApplyStart \/ ApplyJoin \/ Reap
    \/ StopTicking \/ JoinLobby \/ JoinSlots

-----------------------------------------------------------------------------
(* The thread of slot s (ActiveSessionSlot::thread_main). *)

ClientsOf(s) == {c \in Conns : home[c] = s}
SeatedIn(s)  == {c \in ClientsOf(s) : stage[c] = "seated"}

\* run_session reaches its poll loop.
Booted(s) ==
    /\ phase[s] = "boot"
    /\ phase' = [phase EXCEPT ![s] = "run"]
    /\ UNCHANGED <<hello, stage, lobby, queue, main, managed, hub, profile, home, inbox, stopping>>

\* run_session throws: the clients are told, then the emulator is stopped.
Fail(s) ==
    /\ phase[s] \in {"boot", "run"}
    /\ phase' = [phase EXCEPT ![s] = "cleanup"]
    /\ stage' = Put(stage, SeatedIn(s), "error")
    /\ UNCHANGED <<hello, lobby, queue, main, managed, hub, profile, home, inbox, stopping>>

\* drain_pending_joins, one join: a player takes back a reserved seat of his, a
\* viewer is added, anything else (or a failing handshake) is an error.
DrainJoin(s) ==
    LET c == Head(inbox[s])
        lost == LostSeats(s, hello[c])
    IN
    /\ phase[s] = "run" /\ inbox[s] # <<>>
    /\ inbox' = [inbox EXCEPT ![s] = Tail(@)]
    /\ \/ \E old \in lost :
             /\ stage' = [stage EXCEPT ![old] = "ended", ![c] = "seated"]
             /\ home' = [home EXCEPT ![old] = None, ![c] = s]
       \/ /\ hello[c].seats = 0
          /\ stage' = [stage EXCEPT ![c] = "seated"]
          /\ home' = [home EXCEPT ![c] = s]
       \/ /\ stage' = [stage EXCEPT ![c] = "error"]
          /\ UNCHANGED home
    /\ UNCHANGED <<hello, lobby, queue, main, managed, hub, phase, profile, stopping>>

\* SessionControlMonitor::poll loses a client: a player keeps its seat, a
\* viewer is removed.
ClientLost(s) ==
    /\ phase[s] = "run"
    /\ \E c \in SeatedIn(s) :
          IF hello[c].seats > 0
          THEN stage' = [stage EXCEPT ![c] = "lost"] /\ UNCHANGED home
          ELSE stage' = [stage EXCEPT ![c] = "ended"] /\ home' = [home EXCEPT ![c] = None]
    /\ UNCHANGED <<hello, lobby, queue, main, managed, hub, phase, profile, inbox, stopping>>

\* The poll loop ends: emulator exit, monitor reason, admin stop, host stop.
\* Mutant: the slot leaves the hub here, before its emulator is stopped.
LeaveLoopUnregistered(s) ==
    /\ phase[s] = "run"
    /\ phase' = [phase EXCEPT ![s] = "cleanup"]
    /\ hub' = hub \ {s}
    /\ UNCHANGED <<hello, stage, lobby, queue, main, managed, profile, home, inbox, stopping>>
LeaveLoop(s) ==
    /\ phase[s] = "run"
    /\ phase' = [phase EXCEPT ![s] = "cleanup"]
    /\ UNCHANGED <<hello, stage, lobby, queue, main, managed, hub, profile, home, inbox, stopping>>

\* Input off, emulator stopped, saves pulled back, then SessionEnded.  The plan
\* keeps its clients, so a reserved seat is still visible through the hub.
Cleanup(s) ==
    /\ phase[s] = "cleanup"
    /\ phase' = [phase EXCEPT ![s] = "ended"]
    /\ stage' = Put(stage, SeatedIn(s), "ended")
    /\ UNCHANGED <<hello, lobby, queue, main, managed, hub, profile, home, inbox, stopping>>

Unregister(s) ==
    /\ phase[s] = "ended"
    /\ phase' = [phase EXCEPT ![s] = "unhubbed"]
    /\ hub' = hub \ {s}
    /\ stage' = Put(stage, {c \in ClientsOf(s) : stage[c] = "lost"}, "ended")
    /\ UNCHANGED <<hello, lobby, queue, main, managed, profile, home, inbox, stopping>>

Finish(s) ==
    /\ phase[s] = "unhubbed"
    /\ phase' = [phase EXCEPT ![s] = "finished"]
    /\ UNCHANGED <<hello, stage, lobby, queue, main, managed, hub, profile, home, inbox, stopping>>

SlotStep(s) ==
    \/ Booted(s) \/ Fail(s) \/ DrainJoin(s) \/ ClientLost(s) \/ LeaveLoop(s)
    \/ Cleanup(s) \/ Unregister(s) \/ Finish(s)

-----------------------------------------------------------------------------
RequestStop ==
    /\ ~stopping
    /\ stopping' = TRUE
    /\ UNCHANGED <<hello, stage, lobby, queue, main, managed, hub, phase, profile, home, inbox>>

Down == main.pc = "down" /\ UNCHANGED vars

Next ==
    \/ \E c \in Conns : Accept(c) \/ GatherAccept(c)
    \/ ClientSpeaks
    \/ \E i \in 1..MaxSlots : GatherKick(i)
    \/ LobbyStep \/ MainStep
    \/ \E s \in Conns : SlotStep(s)
    \/ RequestStop \/ Down

Spec == Init /\ [][Next]_vars

\* Each thread keeps running.  Nothing is assumed of the clients, of the admin,
\* or of how a session ends, except that its loop sees a stop of the host.
Fairness ==
    /\ WF_vars(LobbyStep) /\ WF_vars(MainStep)
    /\ \A s \in Conns :
          /\ WF_vars(Booted(s)) /\ WF_vars(DrainJoin(s)) /\ WF_vars(stopping /\ LeaveLoop(s))
          /\ WF_vars(Cleanup(s)) /\ WF_vars(Unregister(s)) /\ WF_vars(Finish(s))

ThreadFairSpec == Spec /\ Fairness

\* In addition, a client the lobby thread reads from sends something or goes.
FairSpec == ThreadFairSpec /\ WF_vars(ClientSpeaks)

-----------------------------------------------------------------------------
(* Properties. *)

\* The thread of slot s may write the save profile: from its admission until
\* its emulator is stopped and its saves are pulled back.
Writing(s) == phase[s] \in {"boot", "run", "cleanup"}

\* "A persistent save/config profile must have only one live writer"
\* (host_session_hub.hpp): two sessions never play on one profile, although the
\* lobby admits hellos on a state the main thread has not caught up with.
SingleLiveWriter ==
    \A s, t \in Conns : s # t /\ Writing(s) /\ Writing(t) => profile[s] # profile[t]

\* The host never runs more emulators than max_slots, although the capacity gate
\* of handle_hello counts neither the queued starts nor the gathering players.
CapacityHeld == Cardinality({s \in Conns : Writing(s)}) <= MaxSlots

\* The raw pointers of the hub always name a slot that SessionManager still owns
\* and that has not been reaped: a lookup under the hub's lock never meets a
\* destroyed slot.
HubPointsToLiveSlots == \A s \in hub : s \in managed /\ phase[s] # "erased"

\* The seats of a running session are fixed: a join adds viewers or takes a
\* reserved seat of the same user, it never adds a player, and it never takes a
\* seat whose player is still connected.  The roster counts the players of each
\* user and number of seats.
PlayersOf(s) == {c \in ClientsOf(s) : hello[c].seats > 0}
Holding(s, h) == {c \in PlayersOf(s) : hello[c].user = h.user /\ hello[c].seats = h.seats}
Roster(s) == [h \in Hellos |-> Cardinality(Holding(s, h))]
SeatsReserved ==
    [][\A s \in Conns : phase[s] = "run" /\ phase'[s] = "run" =>
         /\ Roster(s)' = Roster(s)
         /\ \A c \in PlayersOf(s) : stage[c] = "seated" => stage'[c] \in {"seated", "lost"}]_vars

\* No connection is forgotten: one that has been accepted is in the hands of the
\* lobby thread, in a command, in the inbox of a slot that SessionManager still
\* owns, in the plan of a session that runs, or has been answered or closed.
Held == CASE lobby.pc \in {"accept", "down"} -> {}
          [] lobby.pc = "gatherRead" -> ToSet(lobby.gathered) \cup {lobby.target}
          [] lobby.pc \in {"gather", "start"} -> ToSet(lobby.gathered)
          [] OTHER -> {lobby.conn}
Carried(cmd) == IF cmd.kind = "StartSession" THEN ToSet(cmd.clients) ELSE {cmd.conn}
Accounted(c) ==
    CASE stage[c] = "lobby"   -> c \in Held
      [] stage[c] = "queued"  -> \E cmd \in ToSet(queue) \cup ToSet(main.batch) : c \in Carried(cmd)
      [] stage[c] = "pending" -> \E s \in managed : c \in ToSet(inbox[s])
      [] stage[c] = "seated"  -> home[c] # None /\ Writing(home[c])
      [] stage[c] = "lost"    -> home[c] \in hub
      [] OTHER                -> TRUE
NothingLost == \A c \in Conns : Accounted(c)

\* Multiplayer "uses one shared-emulator session at a time" (ARCHITECTURE.md).
MultiplayerExclusive ==
    \A s \in HubLive : hello[s].mode = "multi" => HubLive = {s}

\* No client is left hanging while clients do speak: what the lobby accepted is
\* in the end seated, answered, or closed - through every queue it crosses, and
\* through the end of the session it was sent to.
HelloSettled ==
    \A c \in Conns : stage[c] \in {"lobby", "queued", "pending"} ~>
                     stage[c] \notin {"lobby", "queued", "pending"}

\* Stop Host ends every session and loses no connection in a queue.
StopCompletes ==
    stopping ~> /\ main.pc = "down" /\ managed = {} /\ hub = {}
                /\ \A c \in Conns : stage[c] \in {"new", "ended", "error", "closed"}

\* The host implements the lock on save profiles.
Holder == [u \in Users |-> IF \E s \in Conns : Writing(s) /\ profile[s] = u
                           THEN CHOOSE s \in Conns : Writing(s) /\ profile[s] = u
                           ELSE None]
Spent == {s \in Conns : phase[s] \notin {"none", "boot", "run", "cleanup"}}
Lock == INSTANCE ProfileLock WITH Sessions <- Conns, Profiles <- Users,
                                  holder <- Holder, spent <- Spent
ImplementsProfileLock == Lock!LockSpec
=============================================================================
