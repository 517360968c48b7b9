---------------------------- MODULE StreamControl ----------------------------
(***************************************************************************)
(* The video of one session: the level of the shared encode (the trunk)    *)
(* and the cutover of a client to an encoder of its own.                   *)
(*                                                                         *)
(* Seated players ask for a level with their heartbeats; the trunk is the  *)
(* greatest of these.  SessionControlMonitor answers a change with a       *)
(* cutover: a staging encoder warms up on another port, the client probes  *)
(* it and sends MediaVideoReady, and the host promotes the encoder or lays *)
(* out the shared pipeline again, which also happens when an encoder dies, *)
(* a player is lost or a picture stalls.  GStreamerVideoFanout keeps the   *)
(* ports and encoders, the monitor the pending cutovers and the endpoints  *)
(* it has told to the clients.  All of it runs on the slot thread; clients *)
(* answer, or not, at any time.                                            *)
(***************************************************************************)
EXTENDS Naturals

CONSTANTS
    Players, Viewers,
    MaxLevel,   \* bound: quality levels, ordered like VideoEncodeSettings
    AutoMax,    \* kAutoMaxTier: how far the automatic ladder climbs
    None

Clients == Players \cup Viewers
Levels == 1 .. MaxLevel
Automatic == 0
GivesUp == 3    \* time-outs after which a client is not asked again

\* Ports of a client: its own, and the two that staging encoders use in turn.
Ports == {"base", "staging", "alternate"}
Cutovers == [port : Ports, level : Levels]

ASSUME StreamAssumption ==
    /\ MaxLevel \in Nat \ {0} /\ AutoMax \in Levels
    /\ Players \cap Viewers = {}
    /\ None \notin Cutovers

VARIABLES
    conn,       \* Connected, and so a destination of the fanout
    wanted,     \* stream_preferences.wanted_* of a player
    applied,    \* stream_preferences.applied_* of a player
    ready,      \* video_health.initial_video_settings_ready
    trunk,      \* plan.stream.video_settings
    port,       \* Destination::port of a player; off the own one, an encoder
                \* for this player alone runs (Destination::dedicated)
    staging,    \* Destination::staging_port and staging_settings while active
    pending,    \* video_cutover.pending_video_uri and the pending preferences
    failures,   \* video_cutover.failures; at GivesUp the client is suppressed
    endpoint    \* port of media.endpoint, as the client was told

vars == <<conn, wanted, applied, ready, trunk, port, staging, pending, failures,
          endpoint>>
wishes == <<wanted, ready>>

TypeOK ==
    /\ conn \in [Clients -> BOOLEAN]
    /\ wanted \in [Players -> Levels \cup {Automatic}]
    /\ applied \in [Players -> Levels]
    /\ ready \in [Players -> BOOLEAN]
    /\ trunk \in Levels
    /\ port \in [Players -> Ports]
    /\ staging \in [Players -> Cutovers \cup {None}]
    /\ pending \in [Players -> Cutovers \cup {None}]
    /\ failures \in [Players -> 0 .. GivesUp]
    /\ endpoint \in [Players -> Ports]

\* configure_initial_session_video
Init ==
    /\ conn = [c \in Clients |-> c \in Players]
    /\ wanted = [p \in Players |-> Automatic]
    /\ trunk \in Levels
    /\ applied = [p \in Players |-> trunk]
    /\ ready = [p \in Players |-> FALSE]
    /\ port = [p \in Players |-> "base"]
    /\ staging = [p \in Players |-> None]
    /\ pending = [p \in Players |-> None]
    /\ failures = [p \in Players |-> 0]
    /\ endpoint = [p \in Players |-> "base"]

-----------------------------------------------------------------------------
(* The ceiling and the fanout plan. *)

\* player_encode_contribution of a player without override: what it asks for,
\* or what it has.
Asks(want, p) == IF want[p] = Automatic THEN applied[p] ELSE want[p]

\* compute_session_video_ceiling: the greatest level among the connected
\* players, with what the client itself asks now in place of its wish; the
\* trunk stays when nobody is left.
\* Mutant: reserved seats count as well.
CeilingOfAll(on, ask) ==
    {l \in {ask[p] : p \in Players} : \A q \in Players : ask[q] <= l}
Ceiling(on, ask) ==
    LET asked == {ask[p] : p \in {q \in Players : on[q]}}
    IN IF asked = {} THEN {trunk} ELSE {l \in asked : \A k \in asked : k <= l}

\* Settings of the branches: another player may be held at what it has by its
\* health; viewers ride the trunk.
Branches(ask, p) ==
    {b \in [Players -> Levels] : \A q \in Players :
        b[q] = ask[q] \/ (q # p /\ applied[q] < ask[q] /\ b[q] = applied[q])}

\* A layout in which every connected client rides the trunk
AllRide(b, top) == \A q \in Players : conn[q] => b[q] = top

\* Levels applied to the connected players after a layout
\* Mutant: everybody keeps what it had, but for the one who asked.
SyncedOne(b, on, p) == [applied EXCEPT ![p] = b[p]]
Synced(b, on, p) == [q \in Players |-> IF on[q] THEN b[q] ELSE applied[q]]

-----------------------------------------------------------------------------
(* GStreamerVideoFanout. *)

\* apply_branch_layout and reconfigure_shared: every staging encoder and every
\* encoder of one client stops, all ports are the own ones again.
Relaid ==
    /\ staging' = [p \in Players |-> None]
    /\ port' = [p \in Players |-> "base"]

\* abort_tier_cutover
Aborted(p) == staging' = [staging EXCEPT ![p] = None]

\* begin_tier_cutover: a port that the client does not use now
FreePort(p) == IF port[p] = "staging" THEN "alternate" ELSE "staging"

\* complete_tier_cutover: the staging encoder becomes the client's own.
\* Mutant: the destination keeps its port.
PromotedInPlace(p) ==
    /\ port' = port
    /\ Aborted(p)
Promoted(p) ==
    /\ port' = [port EXCEPT ![p] = staging[p].port]
    /\ Aborted(p)

-----------------------------------------------------------------------------
(* SessionControlMonitor. *)

\* apply_layout of the monitor: a pipeline that does not start leaves the trunk
\* of the plan as it was.
Layout(p, top, b) ==
    /\ Relaid
    /\ \/ trunk' = top /\ applied' = Synced(b, conn, p)
       \/ UNCHANGED <<trunk, applied>>

\* begin_trunk_replace: the new encoder runs for half a second and the client
\* could be told.
Begin(p, top) ==
    /\ staging' = [staging EXCEPT ![p] = [port |-> FreePort(p), level |-> top]]
    /\ pending' = [pending EXCEPT ![p] = [port |-> FreePort(p), level |-> top]]
    /\ UNCHANGED <<trunk, applied, port>>

\* apply_video_encode for player p with level r, after its other wishes
Apply(p, ask) ==
    \E top \in Ceiling(conn, ask) : \E b \in Branches(ask, p) :
        IF top = trunk
        THEN IF AllRide(b, top)
             THEN /\ applied' = [applied EXCEPT ![p] = trunk]
                  /\ UNCHANGED <<trunk, port, staging, pending>>
             ELSE Layout(p, top, b) /\ UNCHANGED pending
        ELSE \/ Begin(p, top)
             \/ Layout(p, top, b) /\ UNCHANGED pending

\* What handle_heartbeat makes of a wish: the wish, less of it under loss or
\* decode pressure, and one step of the ladder when the player leaves it to the
\* host.
Resolved(p, want) ==
    IF want # Automatic THEN {want} \cup {l \in Levels : l <= want /\ l <= applied[p]}
    ELSE {l \in Levels : l < applied[p]} \cup {l \in Levels : l = applied[p] + 1 /\ l <= AutoMax}

\* Nothing is asked while a cutover is under way or after it was given up.
\* Mutant: time-outs are counted and that is all.
MayAskOn(p) == pending[p] = None /\ staging[p] = None
MayAsk(p) == pending[p] = None /\ staging[p] = None /\ failures[p] < GivesUp

\* handle_heartbeat of a player, with recover_stalled_video_if_needed apart.
\* Changes wait for the first picture of the client, and nothing need happen in
\* the cool-down after a change.
Heartbeat(p, want, shows) ==
    /\ conn[p]
    /\ wanted' = [wanted EXCEPT ![p] = want]
    /\ ready' = [ready EXCEPT ![p] = ready[p] \/ shows]
    /\ \/ UNCHANGED <<applied, trunk, port, staging, pending>>
       \/ /\ MayAsk(p) /\ ready'[p]
          /\ \E r \in Resolved(p, want) \ {applied[p]} :
                Apply(p, [q \in Players |-> IF q = p THEN r ELSE Asks(wanted, q)])
    /\ UNCHANGED <<conn, failures, endpoint>>

\* MediaVideoReady with the pending uri: promote the encoder if the client is
\* the only one and the encoder still runs, otherwise lay out the pipeline and
\* tell the client its endpoint, the one it has, again.
Ready(p) ==
    /\ conn[p] /\ pending[p] # None
    /\ LET ask == [q \in Players |-> IF q = p THEN pending[p].level ELSE Asks(wanted, q)]
       IN \E top \in Ceiling(conn, ask) : \E b \in Branches(ask, p) :
            IF staging[p] # None /\ \A c \in Clients \ {p} : ~conn[c]
            THEN /\ Promoted(p)
                 /\ trunk' = top /\ applied' = Synced(b, conn, p)
                 /\ endpoint' = [endpoint EXCEPT ![p] = pending[p].port]
            ELSE Layout(p, top, b) /\ UNCHANGED endpoint
    /\ pending' = [pending EXCEPT ![p] = None]
    /\ failures' = [failures EXCEPT ![p] = 0]
    /\ UNCHANGED <<conn, wishes>>

\* An empty MediaVideoReady, or one with a uri of an earlier cutover
Refused(p) ==
    /\ conn[p] /\ pending[p] # None
    /\ Aborted(p)
    /\ pending' = [pending EXCEPT ![p] = None]
    /\ UNCHANGED <<conn, wishes, applied, trunk, port, failures, endpoint>>

\* kVideoCutoverTimeout
\* Mutants: only while the encoder runs; the encoder goes on.
TimeOutRunning(p) ==
    /\ conn[p] /\ pending[p] # None /\ staging[p] # None
    /\ Aborted(p)
    /\ pending' = [pending EXCEPT ![p] = None]
    /\ failures' = [failures EXCEPT ![p] = @ + 1]
    /\ UNCHANGED <<conn, wishes, applied, trunk, port, endpoint>>
TimeOutLeaking(p) ==
    /\ conn[p] /\ pending[p] # None
    /\ pending' = [pending EXCEPT ![p] = None]
    /\ failures' = [failures EXCEPT ![p] = @ + 1]
    /\ UNCHANGED <<conn, wishes, applied, trunk, port, staging, endpoint>>
TimeOut(p) ==
    /\ conn[p] /\ pending[p] # None
    /\ Aborted(p)
    /\ pending' = [pending EXCEPT ![p] = None]
    /\ failures' = [failures EXCEPT ![p] = @ + 1]
    /\ UNCHANGED <<conn, wishes, applied, trunk, port, endpoint>>

\* recover_stalled_video_if_needed: heartbeats without a picture, long enough
\* after a change.  The levels of the branches are left as they were noted.
Recover(p) ==
    /\ conn[p] /\ pending[p] = None /\ staging[p] = None
    /\ Relaid
    /\ \/ endpoint' = [q \in Players |-> IF conn[q] THEN "base" ELSE endpoint[q]]
       \/ UNCHANGED endpoint
    /\ UNCHANGED <<conn, wishes, applied, trunk, pending, failures>>

\* mark_player_disconnected: without the player the ceiling may change, and
\* then the pipeline is laid out for everybody; endpoints are not told again.
LosePlayer(p) ==
    /\ conn[p]
    /\ conn' = [conn EXCEPT ![p] = FALSE]
    /\ pending' = [pending EXCEPT ![p] = None]
    /\ \E top \in Ceiling(conn', [q \in Players |-> Asks(wanted, q)]) :
        \/ /\ top # trunk /\ \E c \in Clients : conn'[c]
           /\ Relaid
           /\ \/ trunk' = top /\ applied' = Synced([q \in Players |-> top], conn', p)
              \/ UNCHANGED <<trunk, applied>>
        \/ /\ top = trunk \/ \A c \in Clients : ~conn'[c]
           /\ Aborted(p)
           /\ port' = [port EXCEPT ![p] = "base"]
           /\ UNCHANGED <<trunk, applied>>
    /\ UNCHANGED <<wishes, failures, endpoint>>

\* remove_viewer
LoseViewer(v) ==
    /\ conn[v]
    /\ conn' = [conn EXCEPT ![v] = FALSE]
    /\ UNCHANGED <<wishes, applied, trunk, port, staging, pending, failures, endpoint>>

\* A reconnected player or a late viewer: add_client, then
\* reset_reconnected_session_client, which keeps the wish.
Join(c) ==
    /\ ~conn[c]
    /\ conn' = [conn EXCEPT ![c] = TRUE]
    /\ IF c \in Players
       THEN /\ applied' = [applied EXCEPT ![c] = trunk]
            /\ ready' = [ready EXCEPT ![c] = FALSE]
            /\ failures' = [failures EXCEPT ![c] = 0]
            /\ endpoint' = [endpoint EXCEPT ![c] = "base"]
       ELSE UNCHANGED <<applied, ready, failures, endpoint>>
    /\ UNCHANGED <<wanted, trunk, port, staging, pending>>

Next ==
    \/ \E p \in Players :
        \/ \E want \in Levels \cup {Automatic}, shows \in BOOLEAN : Heartbeat(p, want, shows)
        \/ Ready(p) \/ Refused(p) \/ TimeOut(p) \/ Recover(p) \/ LosePlayer(p)
    \/ \E v \in Viewers : LoseViewer(v)
    \/ \E c \in Clients : Join(c)

Spec == Init /\ [][Next]_vars

\* The monitor looks at the age of every pending cutover in each round.
FairSpec == Spec /\ \A p \in Players : WF_vars(TimeOut(p))

-----------------------------------------------------------------------------
(* Properties. *)

\* A staging encoder runs only for a connected player whose cutover the monitor
\* still waits for, and never sends to the port the client watches now: none is
\* left over after a refusal, a time-out, a loss or a layout for somebody else.
\* (begin_tier_cutover, abort_tier_cutover, stop_client)
StagingOwned ==
    \A p \in Players : staging[p] # None =>
        conn[p] /\ pending[p] = staging[p] /\ staging[p].port # port[p]

\* No player is noted above the trunk, whoever raised it, left or came back.
\* (sync_all_applied_from_fanout, mark_player_disconnected)
AppliedBelow == \A p \in Players : conn[p] => applied[p] <= trunk

\* The trunk goes up only to what a connected player asks for, or waits for in
\* its cutover: not for a viewer, a reconnection, a stall or a layout on behalf
\* of others.  (compute_session_video_ceiling)
RaisedForPlayer ==
    [][trunk' > trunk =>
        \E p \in Players : conn[p] /\
            \/ trunk' = wanted'[p]
            \/ trunk' = applied[p] + 1 /\ trunk' <= AutoMax
            \/ pending[p] # None /\ trunk' = pending[p].level]_vars

\* An endpoint that a client is told anew is the port its video goes to.
\* (send_media_endpoint_to_client)
ToldWhereSent ==
    [][\A p \in Players : endpoint'[p] # endpoint[p] => endpoint'[p] = port'[p]]_vars

\* A cutover ends, also when its client stays silent and when its encoder was
\* stopped for the sake of another player.  (kVideoCutoverTimeout)
CutoverSettles == \A p \in Players : (pending[p] # None) ~> (pending[p] = None)

\* A player that is not in a cutover was told the port its video goes to.
\* "Resend MediaEndpoint or they keep listening on a dead port."
\* (src/src/host/session/control_monitor.cpp:1429)
\* VIOLATED: a layout moves a promoted player back to its own port and only the
\* recovery of a stall tells it.
EndpointLive ==
    \A p \in Players : conn[p] /\ pending[p] = None => endpoint[p] = port[p]
=============================================================================
