---------------------------- MODULE HostProcesses ----------------------------
(***************************************************************************)
(* Several host_runner processes on one machine: slot leases, X displays,  *)
(* emulator trees, and the two reapers.                                    *)
(*                                                                         *)
(* A session claims a slot number by a lock on a file, which the kernel    *)
(* releases when the host dies, and only if the X display of that number   *)
(* has no server.  It starts the server and then the emulator, whose       *)
(* processes carry a token.  Some of them leave the tree of the host       *)
(* (AppImage, flatpak) and may survive its stop or its death.  A host that *)
(* starts alone kills what no host owns; a host that has destroyed a       *)
(* session kills what carries a token it does not know.  Anybody may wipe  *)
(* the directory of the locks, and hosts die at any time.                  *)
(*                                                                         *)
(* A session launches one emulator and stands for its token as well.       *)
(***************************************************************************)
CONSTANTS
    Hosts,
    Sessions,   \* sessions on this machine, each at most once
    Slots,      \* kSlotLeaseSpan slot numbers
    None

ASSUME ProcessesAssumption ==
    /\ None \notin Hosts \cup Sessions \cup Slots
    /\ "files" \notin Sessions

VARIABLES
    main,       \* the main thread of a host
    known,      \* what a reaper of it has read: trees to kill, or tokens to spare
    live,       \* g_live_tokens of a host
    at,         \* place of a session between its claim and its destruction
    host, slot, \* host and slot number of a session
    lock,       \* who holds the lock of the file slot-<n>.lock that is there now
    spoiled,    \* slots whose file was wiped under a lease without display yet
    server,     \* the X server of display base + n: its session, or left files
    procs       \* emulator processes that live

vars == <<main, known, live, at, host, slot, lock, spoiled, server, procs>>
leases == <<host, slot, lock, spoiled>>

\* The child of the host, and what has been re-parented to init.
Parts == {"root", "stray"}
Processes == [of : Sessions, part : Parts]
Root(s) == [of |-> s, part |-> "root"]
Stray(s) == [of |-> s, part |-> "stray"]

Starting == {"claimed", "checked"}
Playing == {"shown", "forked", "running"}
Closing == {"stopped", "finished"}

TypeOK ==
    /\ main \in [Hosts -> {"down", "starting", "reaping", "up", "stale"}]
    /\ known \in [Hosts -> SUBSET (Sessions \cup Processes)]
    /\ \A h \in Hosts : known[h] \subseteq IF main[h] = "reaping" THEN Processes ELSE Sessions
    /\ live \in [Hosts -> SUBSET Sessions]
    /\ at \in [Sessions -> {"none", "gone"} \cup Starting \cup Playing \cup Closing]
    /\ host \in [Sessions -> Hosts \cup {None}]
    /\ slot \in [Sessions -> Slots \cup {None}]
    /\ lock \in [Slots -> Sessions \cup {None}]
    /\ spoiled \subseteq Slots
    /\ server \in [Slots -> Sessions \cup {"files", None}]
    /\ procs \subseteq Processes
    /\ \A s \in Sessions :
          /\ at[s] # "none" => host[s] \in Hosts /\ slot[s] \in Slots
          /\ at[s] \notin {"none", "gone"} => main[host[s]] \in {"up", "stale"}
          /\ \A h \in Hosts : s \in live[h] <=> at[s] = "running" /\ host[s] = h
          /\ Root(s) \in procs => at[s] \in {"forked", "running", "gone"}

Init ==
    /\ main = [h \in Hosts |-> "down"]
    /\ known = [h \in Hosts |-> {}] /\ live = [h \in Hosts |-> {}]
    /\ at = [s \in Sessions |-> "none"]
    /\ host = [s \in Sessions |-> None] /\ slot = [s \in Sessions |-> None]
    /\ lock = [k \in Slots |-> None] /\ spoiled = {}
    /\ server = [k \in Slots |-> None]
    /\ procs = {}

Moves(s, from, to) == at[s] = from /\ at' = [at EXCEPT ![s] = to]

-----------------------------------------------------------------------------
(* The leases and the displays. *)

\* display_number_free; the files of a server that was killed look like one.
\* Mutant: the lock is all there is to look at.
Ignored(k) == TRUE
DisplayFree(k) == server[k] = None

\* SessionSlotLease::claim in start_session.  The lowest number is taken, but
\* one that becomes free behind the search is passed over.
Claim(h, s, k) ==
    /\ main[h] = "up" /\ lock[k] = None /\ DisplayFree(k)
    /\ Moves(s, "none", "claimed")
    /\ host' = [host EXCEPT ![s] = h]
    /\ slot' = [slot EXCEPT ![s] = k]
    /\ lock' = [lock EXCEPT ![k] = s]
    /\ UNCHANGED <<main, known, live, spoiled, server, procs>>

\* require_free_display
CheckDisplay(s) ==
    /\ Moves(s, "claimed", "checked")
    /\ server[slot[s]] = None
    /\ UNCHANGED <<main, known, live, leases, server, procs>>

\* The X server starts, unless another one has come first: then it exits, but
\* await_display_ready finds a socket and may not notice.
Serve(s) ==
    /\ Moves(s, "checked", "shown")
    /\ server' = IF server[slot[s]] = None THEN [server EXCEPT ![slot[s]] = s] ELSE server
    /\ UNCHANGED <<main, known, live, leases, procs>>

\* A tmp cleaner removes the lock files.  Who holds a lock keeps it on a file
\* that nobody will open any more.
Wipe ==
    /\ lock' = [k \in Slots |-> None]
    /\ spoiled' = spoiled \cup {slot[s] : s \in {r \in Sessions : at[r] \in Starting}}
    /\ UNCHANGED <<main, known, live, at, host, slot, server, procs>>

\* What becomes of a server that is told to stop: it goes, or it is killed
\* first and leaves its files.
Ended(Gone) ==
    \E left \in SUBSET {k \in Slots : server[k] \in Gone} :
        server' = [k \in Slots |-> IF server[k] \notin Gone THEN server[k]
                                   ELSE IF k \in left THEN "files" ELSE None]

-----------------------------------------------------------------------------
(* The emulators. *)

\* PosixRetroArchProcess::launch forks, then registers the token.
Fork(s) ==
    /\ Moves(s, "shown", "forked")
    /\ procs' = procs \cup {Root(s)}
    /\ UNCHANGED <<main, known, live, leases, server>>

Register(s) ==
    /\ Moves(s, "forked", "running")
    /\ live' = [live EXCEPT ![host[s]] = @ \cup {s}]
    /\ UNCHANGED <<main, known, leases, server, procs>>

\* A process of the tree leaves it; any process may exit by itself.
Escape(s) ==
    /\ at[s] \in {"forked", "running"} /\ Root(s) \in procs
    /\ procs' = procs \cup {Stray(s)}
    /\ UNCHANGED <<main, known, live, at, leases, server>>

Exit(p) ==
    /\ procs' = procs \ {p}
    /\ UNCHANGED <<main, known, live, at, leases, server>>

\* PosixRetroArchProcess::stop: what is re-parented while it kills may survive,
\* with a token that is no longer registered.
\* Mutant: the token stays registered while the session is torn down.
StopRegistered(s) ==
    /\ Moves(s, "running", "stopped")
    /\ \E left \in SUBSET {Stray(s)} :
           procs' = {p \in procs : p.of # s} \cup (left \cap procs)
    /\ UNCHANGED <<main, known, live, leases, server>>
Stop(s) ==
    /\ Moves(s, "running", "stopped")
    /\ \E left \in SUBSET {Stray(s)} :
           procs' = {p \in procs : p.of # s} \cup (left \cap procs)
    /\ live' = [live EXCEPT ![host[s]] = @ \ {s}]
    /\ UNCHANGED <<main, known, leases, server>>

\* The end of cleanup, or of the error path of a session without emulator
Finish(s) ==
    /\ at[s] \in Starting \cup {"shown", "stopped"}
    /\ at' = [at EXCEPT ![s] = "finished"]
    /\ Ended({s})
    /\ UNCHANGED <<main, known, live, leases, procs>>

-----------------------------------------------------------------------------
(* The hosts and their reapers. *)

Start(h) ==
    /\ main[h] = "down"
    /\ main' = [main EXCEPT ![h] = "starting"]
    /\ UNCHANGED <<known, live, at, leases, server, procs>>

\* has_live_owner_ancestor: the child of a host that lives
Attached(p) == p.part = "root" /\ at[p.of] # "gone"

\* reap_orphaned_emulator_processes looks at all processes: nothing to do if
\* there is another host.
Orphans(h) ==
    IF \E g \in Hosts \ {h} : main[g] # "down" THEN {}
    ELSE {p \in procs : ~Attached(p)}

Look(h) ==
    /\ main[h] = "starting"
    /\ main' = [main EXCEPT ![h] = "reaping"]
    /\ known' = [known EXCEPT ![h] = Orphans(h)]
    /\ UNCHANGED <<live, at, leases, server, procs>>

\* ... and kills what it has found.
Reap(h) ==
    /\ main[h] = "reaping"
    /\ main' = [main EXCEPT ![h] = "up"]
    /\ known' = [known EXCEPT ![h] = {}]
    /\ procs' = procs \ known[h]
    /\ UNCHANGED <<live, at, leases, server>>

\* The slots that have finished are destroyed and give their lease back: by
\* reap_finished, which looks for stale tokens then, or by start_session.
Destroy(h, S) ==
    /\ main[h] = "up"
    /\ S # {} /\ S = {s \in Sessions : at[s] = "finished" /\ host[s] = h}
    /\ at' = [s \in Sessions |-> IF s \in S THEN "gone" ELSE at[s]]
    /\ lock' = [k \in Slots |-> IF lock[k] \in S THEN None ELSE lock[k]]
    /\ \/ main' = [main EXCEPT ![h] = "stale"] /\ known' = [known EXCEPT ![h] = live[h]]
       \/ UNCHANGED <<main, known>>
    /\ UNCHANGED <<live, host, slot, spoiled, server, procs>>

\* reap_stale_emulator_session_tokens after it has copied the live tokens
\* Mutant: the token alone decides.
Unregistered(h) == {p \in procs : p.of \notin known[h]}
Stale(h) == {p \in procs : p.of \notin known[h] /\ ~Attached(p)}

ReapStale(h) ==
    /\ main[h] = "stale"
    /\ main' = [main EXCEPT ![h] = "up"]
    /\ known' = [known EXCEPT ![h] = {}]
    /\ procs' = procs \ Stale(h)
    /\ UNCHANGED <<live, at, leases, server>>

\* A host dies with its sessions: locks go, servers are told to stop, emulators
\* stay.
Crash(h) ==
    LET S == {s \in Sessions : host[s] = h /\ at[s] \notin {"none", "gone"}}
    IN
    /\ main[h] # "down"
    /\ main' = [main EXCEPT ![h] = "down"]
    /\ known' = [known EXCEPT ![h] = {}]
    /\ live' = [live EXCEPT ![h] = {}]
    /\ at' = [s \in Sessions |-> IF s \in S THEN "gone" ELSE at[s]]
    /\ lock' = [k \in Slots |-> IF lock[k] \in S THEN None ELSE lock[k]]
    /\ Ended(S)
    /\ UNCHANGED <<host, slot, spoiled, procs>>

Next ==
    \/ \E s \in Sessions :
        \/ \E h \in Hosts, k \in Slots : Claim(h, s, k)
        \/ CheckDisplay(s) \/ Serve(s)
        \/ Fork(s) \/ Register(s) \/ Escape(s) \/ Stop(s) \/ Finish(s)
    \/ \E p \in procs : Exit(p)
    \/ Wipe
    \/ \E h \in Hosts :
        \/ Start(h) \/ Look(h) \/ Reap(h) \/ ReapStale(h) \/ Crash(h)
        \/ \E S \in SUBSET Sessions : Destroy(h, S)

Spec == Init /\ [][Next]_vars

-----------------------------------------------------------------------------
(* Properties. *)

\* Two sessions of any hosts never use one slot number before the first has
\* closed its display, and each draws on the X server it has started: also after
\* crashes and after the lock files were wiped, unless that happened to a lease
\* whose display was not up yet.  (SessionSlotLease::claim, display_number_free)
SlotsApart ==
    \A s \in Sessions : at[s] \in Starting \cup Playing /\ slot[s] \notin spoiled =>
        /\ at[s] \in Playing => server[slot[s]] = s
        /\ \A r \in Sessions \ {s} : slot[r] = slot[s] => at[r] \notin Starting \cup Playing

\* The reap at the start of a host leaves every process of a live emulator
\* alone, and the one after a session every child of a host that lives,
\* whichever host it is and whatever is launched between the look and the kill.
\* (any_other_live_host, has_live_owner_ancestor)
ReapsSpare ==
    [][\A h \in Hosts : main[h] \in {"reaping", "stale"} /\ main'[h] = "up" =>
        \A p \in procs \ procs' :
            at[p.of] \in {"forked", "running"} => main[h] = "stale" /\ p.part = "stray"]_vars
=============================================================================
