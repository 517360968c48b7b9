------------------------- MODULE HostProcessesProofs -------------------------
(***************************************************************************)
(* Leases, displays and reapers for any number of hosts, sessions and slot *)
(* numbers.                                                                *)
(***************************************************************************)
EXTENDS HostProcesses, TLAPS

\* A lease in a slot that was not spoiled is protected by its lock until its
\* display is up, and by the display from then on.
LeaseOK ==
    \A s \in Sessions : slot[s] \notin spoiled =>
        /\ at[s] \in Starting => lock[slot[s]] = s /\ server[slot[s]] = None
        /\ at[s] \in Playing => server[slot[s]] = s

\* Emulators belong to sessions that were launched, and what a starting host
\* means to kill to sessions whose host has died.
ReapOK ==
    /\ \A p \in procs : at[p.of] # "none"
    /\ \A h \in Hosts : main[h] = "reaping" => \A p \in known[h] : at[p.of] = "gone"

IInv == TypeOK /\ LeaseOK /\ ReapOK

\* The step that ReapsSpare speaks of
SparingStep ==
    \A h \in Hosts : main[h] \in {"reaping", "stale"} /\ main'[h] = "up" =>
        \A p \in procs \ procs' :
            at[p.of] \in {"forked", "running"} => main[h] = "stale" /\ p.part = "stray"

-----------------------------------------------------------------------------
(* Types. *)

\* Before a host starts there is nothing.
LEMMA InitTypes == ASSUME Init PROVE TypeOK
<1> QED  BY ProcessesAssumption DEF Init, TypeOK, Starting, Playing, Closing, Processes, Parts

\* What moving one session does to the places
LEMMA MovesPlaces ==
    ASSUME TypeOK, NEW s \in Sessions, NEW from, NEW to, Moves(s, from, to)
    PROVE  /\ at[s] = from /\ at'[s] = to
           /\ \A r \in Sessions \ {s} : at'[r] = at[r]
<1> QED  BY DEF TypeOK, Moves

\* The processes of different sessions are different, and so are the two of one.
LEMMA RootStray ==
    \A s \in Sessions : /\ Root(s) \in Processes /\ Stray(s) \in Processes
                        /\ Root(s).of = s /\ Stray(s).of = s
                        /\ \A r \in Sessions : Root(s) = Root(r) => s = r
                        /\ \A r \in Sessions : Root(r) # Stray(s)
<1> QED  BY DEF Root, Stray, Processes, Parts

\* Servers that end leave None or files.
LEMMA EndedServers ==
    ASSUME TypeOK, NEW Gone \in SUBSET Sessions, Ended(Gone)
    PROVE  /\ server' \in [Slots -> Sessions \cup {"files", None}]
           /\ \A k \in Slots : server[k] \notin Gone => server'[k] = server[k]
<1>1. PICK left \in SUBSET {k \in Slots : server[k] \in Gone} :
        server' = [k \in Slots |-> IF server[k] \notin Gone THEN server[k]
                                   ELSE IF k \in left THEN "files" ELSE None]
    BY DEF Ended
<1> QED  BY <1>1 DEF TypeOK

-----------------------------------------------------------------------------
(* One lemma per action. *)

\* A claim takes a number nobody holds and nobody draws on.
LEMMA ClaimSafe ==
    ASSUME IInv, NEW h \in Hosts, NEW s \in Sessions, NEW k \in Slots, Claim(h, s, k)
    PROVE  IInv' /\ SparingStep
<1>1. /\ main' = main /\ known' = known /\ live' = live /\ spoiled' = spoiled
      /\ server' = server /\ procs' = procs
      /\ host' = [host EXCEPT ![s] = h] /\ slot' = [slot EXCEPT ![s] = k]
      /\ lock' = [lock EXCEPT ![k] = s] /\ lock[k] = None /\ server[k] = None
      /\ at' = [at EXCEPT ![s] = "claimed"] /\ at[s] = "none" /\ main[h] = "up"
    BY DEF Claim, Moves, DisplayFree
<1>2. TypeOK /\ LeaseOK /\ ReapOK
    BY DEF IInv
<1>3. TypeOK'
    <2>1. /\ at' \in [Sessions -> {"none", "gone"} \cup Starting \cup Playing \cup Closing]
          /\ host' \in [Sessions -> Hosts \cup {None}]
          /\ slot' \in [Sessions -> Slots \cup {None}]
          /\ lock' \in [Slots -> Sessions \cup {None}]
        BY <1>1, <1>2 DEF TypeOK, Starting
    <2>2. \A r \in Sessions :
              /\ at'[r] # "none" => host'[r] \in Hosts /\ slot'[r] \in Slots
              /\ at'[r] \notin {"none", "gone"} => main'[host'[r]] \in {"up", "stale"}
        BY <1>1, <1>2 DEF TypeOK
    <2>3. \A r \in Sessions :
              /\ \A g \in Hosts : r \in live'[g] <=> at'[r] = "running" /\ host'[r] = g
              /\ Root(r) \in procs' => at'[r] \in {"forked", "running", "gone"}
        BY <1>1, <1>2 DEF TypeOK
    <2> QED  BY <1>1, <1>2, <2>1, <2>2, <2>3 DEF TypeOK
<1>4. LeaseOK'
    BY <1>1, <1>2, ProcessesAssumption DEF TypeOK, LeaseOK, Starting, Playing
<1>5. ReapOK' /\ SparingStep
    <2>1. procs \subseteq Processes /\ \A g \in Hosts : main[g] = "reaping" => known[g] \subseteq Processes
        BY <1>2 DEF TypeOK
    <2>2. \A p \in Processes : p.of \in Sessions
        BY DEF Processes
    <2> QED  BY <1>1, <1>2, <2>1, <2>2 DEF TypeOK, ReapOK, SparingStep
<1> QED  BY <1>3, <1>4, <1>5 DEF IInv

\* Steps of a display: the place of a session and the servers change.
LEMMA DisplayTypes ==
    ASSUME TypeOK, NEW s \in Sessions, at[s] \notin {"none", "gone", "running"},
           NEW to \in Starting \cup {"shown", "finished"}, at' = [at EXCEPT ![s] = to],
           Root(s) \in procs => to = at[s],
           UNCHANGED <<main, known, live, leases, procs>>,
           server' \in [Slots -> Sessions \cup {"files", None}]
    PROVE  TypeOK'
<1>1. /\ main' = main /\ known' = known /\ live' = live /\ procs' = procs /\ host' = host
      /\ slot' = slot /\ lock' = lock /\ spoiled' = spoiled
    BY DEF leases
<1>2. at' \in [Sessions -> {"none", "gone"} \cup Starting \cup Playing \cup Closing]
    BY DEF TypeOK, Starting, Playing, Closing
<1>3. \A r \in Sessions :
          /\ at'[r] # "none" => host'[r] \in Hosts /\ slot'[r] \in Slots
          /\ at'[r] \notin {"none", "gone"} => main'[host'[r]] \in {"up", "stale"}
    BY <1>1 DEF TypeOK, Starting
<1>4. \A r \in Sessions :
          /\ \A g \in Hosts : r \in live'[g] <=> at'[r] = "running" /\ host'[r] = g
          /\ Root(r) \in procs' => at'[r] \in {"forked", "running", "gone"}
    BY <1>1 DEF TypeOK, Starting
<1> QED  BY <1>1, <1>2, <1>3, <1>4 DEF TypeOK

\* ReapOK outlives every step that kills nobody, starts no host and keeps who
\* is gone.
LEMMA ReapKept ==
    ASSUME TypeOK, ReapOK, main' = main, known' = known, procs' \subseteq procs,
           \A r \in Sessions : /\ at[r] # "none" => at'[r] # "none"
                               /\ at[r] = "gone" => at'[r] = "gone"
    PROVE  ReapOK' /\ SparingStep
<1>1. \A p \in procs : p.of \in Sessions
    BY DEF TypeOK, Processes
<1>2. \A g \in Hosts : main[g] = "reaping" => \A p \in known[g] : p.of \in Sessions
    BY DEF TypeOK, Processes
<1> QED  BY <1>1, <1>2 DEF ReapOK, SparingStep

\* A display that is free at the check belongs to nobody.
LEMMA CheckSafe ==
    ASSUME IInv, NEW s \in Sessions, CheckDisplay(s)
    PROVE  IInv' /\ SparingStep
<1>1. /\ UNCHANGED <<main, known, live, leases, procs>> /\ server' = server
      /\ at' = [at EXCEPT ![s] = "checked"] /\ at[s] = "claimed"
    BY DEF CheckDisplay, Moves
<1>2. TypeOK /\ LeaseOK /\ ReapOK
    BY DEF IInv
<1>3. slot' = slot /\ spoiled' = spoiled /\ lock' = lock
    BY <1>1 DEF leases
<1>4. TypeOK'
    BY <1>1, <1>2, DisplayTypes DEF TypeOK, Starting
<1>5. LeaseOK'
    BY <1>1, <1>2, <1>3 DEF TypeOK, LeaseOK, Starting, Playing
<1>6. ReapOK' /\ SparingStep
    BY <1>1, <1>2, ReapKept DEF TypeOK
<1> QED  BY <1>4, <1>5, <1>6 DEF IInv

\* The X server of the only holder of a number is its own.
LEMMA ServeSafe ==
    ASSUME IInv, NEW s \in Sessions, Serve(s)
    PROVE  IInv' /\ SparingStep
<1>1. /\ UNCHANGED <<main, known, live, leases, procs>>
      /\ server' = IF server[slot[s]] = None THEN [server EXCEPT ![slot[s]] = s] ELSE server
      /\ at' = [at EXCEPT ![s] = "shown"] /\ at[s] = "checked"
    BY DEF Serve, Moves
<1>2. TypeOK /\ LeaseOK /\ ReapOK
    BY DEF IInv
<1>3. slot' = slot /\ spoiled' = spoiled /\ lock' = lock
    BY <1>1 DEF leases
<1>4. server' \in [Slots -> Sessions \cup {"files", None}]
    BY <1>1, <1>2 DEF TypeOK
<1>5. TypeOK'
    BY <1>1, <1>2, <1>4, DisplayTypes DEF TypeOK, Starting
<1>6. ASSUME NEW r \in Sessions, slot[r] \notin spoiled
      PROVE  /\ at'[r] \in Starting => lock[slot[r]] = r /\ server'[slot[r]] = None
             /\ at'[r] \in Playing => server'[slot[r]] = r
    <2>1. CASE r = s
        BY <1>1, <1>2, <1>6, <2>1 DEF TypeOK, LeaseOK, Starting, Playing
    <2>2. CASE r # s
        <3>1. at'[r] = at[r]
            BY <1>1, <1>2, <2>2 DEF TypeOK
        <3>2. at[r] \in Starting \cup Playing => slot[r] \in Slots
            BY <1>2 DEF TypeOK, Starting, Playing
        <3>3. slot[s] \in Slots
            BY <1>1, <1>2 DEF TypeOK
        <3>4. at[r] \in Starting => slot[r] # slot[s]
            BY <1>1, <1>2, <1>6, <2>2 DEF LeaseOK, Starting
        <3>5. at[r] \in Playing /\ slot[r] = slot[s] => server[slot[s]] # None
            BY <1>2, <1>6, ProcessesAssumption DEF LeaseOK
        <3> QED  BY <1>1, <1>2, <1>6, <3>1, <3>2, <3>3, <3>4, <3>5 DEF TypeOK, LeaseOK
    <2> QED  BY <2>1, <2>2
<1>7. LeaseOK'
    BY <1>3, <1>6 DEF LeaseOK
<1>8. ReapOK' /\ SparingStep
    BY <1>1, <1>2, ReapKept DEF TypeOK
<1> QED  BY <1>5, <1>7, <1>8 DEF IInv

\* The end of cleanup ends the display of that session alone.
LEMMA FinishSafe ==
    ASSUME IInv, NEW s \in Sessions, Finish(s)
    PROVE  IInv' /\ SparingStep
<1>1. /\ UNCHANGED <<main, known, live, leases, procs>>
      /\ at' = [at EXCEPT ![s] = "finished"]
      /\ at[s] \in Starting \cup {"shown", "stopped"}
      /\ Ended({s})
    BY DEF Finish
<1>2. TypeOK /\ LeaseOK /\ ReapOK
    BY DEF IInv
<1>3. slot' = slot /\ spoiled' = spoiled /\ lock' = lock
    BY <1>1 DEF leases
<1>4. /\ server' \in [Slots -> Sessions \cup {"files", None}]
      /\ \A k \in Slots : server[k] # s => server'[k] = server[k]
    BY <1>1, <1>2, EndedServers
<1>5. TypeOK'
    BY <1>1, <1>2, <1>4, DisplayTypes DEF TypeOK, Starting
<1>6. ASSUME NEW r \in Sessions, slot[r] \notin spoiled
      PROVE  /\ at'[r] \in Starting => lock[slot[r]] = r /\ server'[slot[r]] = None
             /\ at'[r] \in Playing => server'[slot[r]] = r
    <2>1. at'[r] \in Starting \cup Playing => r # s /\ at'[r] = at[r] /\ slot[r] \in Slots
        BY <1>1, <1>2 DEF TypeOK, Starting, Playing
    <2> QED  BY <1>2, <1>4, <1>6, <2>1, ProcessesAssumption DEF LeaseOK
<1>7. LeaseOK'
    BY <1>3, <1>6 DEF LeaseOK
<1>8. ReapOK' /\ SparingStep
    BY <1>1, <1>2, ReapKept DEF TypeOK, Starting
<1> QED  BY <1>5, <1>7, <1>8 DEF IInv

\* A wipe spoils the numbers of the sessions that start, and no others.
LEMMA WipeSafe ==
    ASSUME IInv, Wipe
    PROVE  IInv' /\ SparingStep
<1>1. /\ main' = main /\ known' = known /\ live' = live /\ at' = at /\ host' = host
      /\ slot' = slot /\ server' = server /\ procs' = procs
      /\ lock' = [k \in Slots |-> None]
      /\ spoiled' = spoiled \cup {slot[s] : s \in {r \in Sessions : at[r] \in Starting}}
    BY DEF Wipe
<1>2. TypeOK /\ LeaseOK /\ ReapOK
    BY DEF IInv
<1>3. spoiled' \subseteq Slots
    BY <1>1, <1>2 DEF TypeOK, Starting
<1>4. TypeOK'
    BY <1>1, <1>2, <1>3 DEF TypeOK
<1>5. LeaseOK'
    BY <1>1, <1>2 DEF LeaseOK
<1>6. ReapOK' /\ SparingStep
    BY <1>1, <1>2, ReapKept
<1> QED  BY <1>4, <1>5, <1>6 DEF IInv

\* Leases are as they were where no session comes to or leaves its display.
LEMMA LeaseKept ==
    ASSUME LeaseOK, UNCHANGED <<leases, server>>,
           \A r \in Sessions : /\ at'[r] \in Starting => at[r] \in Starting
                               /\ at'[r] \in Playing => at[r] \in Playing
    PROVE  LeaseOK'
<1>1. slot' = slot /\ spoiled' = spoiled /\ lock' = lock /\ server' = server
    BY DEF leases
<1> QED  BY <1>1 DEF LeaseOK

\* A fork adds a child of a live host.
LEMMA ForkSafe ==
    ASSUME IInv, NEW s \in Sessions, Fork(s)
    PROVE  IInv' /\ SparingStep
<1>1. /\ UNCHANGED <<leases, server>> /\ main' = main /\ known' = known /\ live' = live
      /\ at' = [at EXCEPT ![s] = "forked"] /\ at[s] = "shown"
      /\ procs' = procs \cup {Root(s)}
    BY DEF Fork, Moves
<1>2. TypeOK /\ LeaseOK /\ ReapOK
    BY DEF IInv
<1>3. host' = host /\ slot' = slot /\ lock' = lock /\ spoiled' = spoiled /\ server' = server
    BY <1>1 DEF leases
<1>4. TypeOK'
    <2>1. at' \in [Sessions -> {"none", "gone"} \cup Starting \cup Playing \cup Closing]
        BY <1>1, <1>2 DEF TypeOK, Playing
    <2>2. procs' \subseteq Processes
        BY <1>1, <1>2, RootStray DEF TypeOK
    <2>3. \A r \in Sessions :
              /\ at'[r] # "none" => host'[r] \in Hosts /\ slot'[r] \in Slots
              /\ at'[r] \notin {"none", "gone"} => main'[host'[r]] \in {"up", "stale"}
        BY <1>1, <1>2, <1>3 DEF TypeOK
    <2>4. \A r \in Sessions : \A g \in Hosts :
              r \in live'[g] <=> at'[r] = "running" /\ host'[r] = g
        BY <1>1, <1>2, <1>3 DEF TypeOK
    <2>5. ASSUME NEW r \in Sessions, Root(r) \in procs'
          PROVE  at'[r] \in {"forked", "running", "gone"}
        <3>1. Root(r) \in procs \/ r = s
            BY <1>1, <2>5, RootStray
        <3> QED  BY <1>1, <1>2, <3>1 DEF TypeOK
    <2> QED  BY <1>1, <1>2, <1>3, <2>1, <2>2, <2>3, <2>4, <2>5 DEF TypeOK
<1>5. LeaseOK'
    BY <1>1, <1>2, LeaseKept DEF TypeOK, Starting, Playing
<1>6. ReapOK' /\ SparingStep
    <2>1. \A p \in procs : p.of \in Sessions
        BY <1>2 DEF TypeOK, Processes
    <2>2. \A g \in Hosts : main[g] = "reaping" => \A p \in known[g] : p.of \in Sessions
        BY <1>2 DEF TypeOK, Processes
    <2>3. \A r \in Sessions : at[r] # "none" => at'[r] # "none"
        BY <1>1, <1>2 DEF TypeOK
    <2>4. \A r \in Sessions : at[r] = "gone" => at'[r] = "gone"
        BY <1>1, <1>2 DEF TypeOK
    <2>5. \A p \in procs' : at'[p.of] # "none"
        BY <1>1, <1>2, <2>1, <2>3, RootStray DEF TypeOK, ReapOK
    <2>6. \A h \in Hosts : main'[h] = "reaping" => \A p \in known'[h] : at'[p.of] = "gone"
        BY <1>1, <1>2, <2>2, <2>4 DEF ReapOK
    <2>7. SparingStep
        BY <1>1 DEF SparingStep
    <2> QED  BY <2>5, <2>6, <2>7 DEF ReapOK
<1> QED  BY <1>4, <1>5, <1>6 DEF IInv

\* A token is registered while its emulator is a child of its host.
LEMMA RegisterSafe ==
    ASSUME IInv, NEW s \in Sessions, Register(s)
    PROVE  IInv' /\ SparingStep
<1>1. /\ UNCHANGED <<leases, server>> /\ main' = main /\ known' = known /\ procs' = procs
      /\ at' = [at EXCEPT ![s] = "running"] /\ at[s] = "forked"
      /\ live' = [live EXCEPT ![host[s]] = @ \cup {s}]
    BY DEF Register, Moves
<1>2. TypeOK /\ LeaseOK /\ ReapOK
    BY DEF IInv
<1>3. host' = host /\ slot' = slot /\ lock' = lock /\ spoiled' = spoiled /\ server' = server
    BY <1>1 DEF leases
<1>4. TypeOK'
    <2>1. /\ at' \in [Sessions -> {"none", "gone"} \cup Starting \cup Playing \cup Closing]
          /\ host[s] \in Hosts
          /\ live' \in [Hosts -> SUBSET Sessions]
        BY <1>1, <1>2 DEF TypeOK, Playing
    <2>2. \A r \in Sessions :
              /\ at'[r] # "none" => host'[r] \in Hosts /\ slot'[r] \in Slots
              /\ at'[r] \notin {"none", "gone"} => main'[host'[r]] \in {"up", "stale"}
        BY <1>1, <1>2, <1>3 DEF TypeOK
    <2>3. \A r \in Sessions : \A g \in Hosts : r \in live'[g] <=> at'[r] = "running" /\ host'[r] = g
        BY <1>1, <1>2, <1>3, <2>1 DEF TypeOK
    <2>4. \A r \in Sessions : Root(r) \in procs' => at'[r] \in {"forked", "running", "gone"}
        BY <1>1, <1>2 DEF TypeOK
    <2> QED  BY <1>1, <1>2, <1>3, <2>1, <2>2, <2>3, <2>4 DEF TypeOK
<1>5. LeaseOK'
    BY <1>1, <1>2, LeaseKept DEF TypeOK, Starting, Playing
<1>6. ReapOK' /\ SparingStep
    BY <1>1, <1>2, ReapKept DEF TypeOK
<1> QED  BY <1>4, <1>5, <1>6 DEF IInv

\* A stop kills processes of the session alone and takes its token back.
LEMMA StopSafe ==
    ASSUME IInv, NEW s \in Sessions, Stop(s)
    PROVE  IInv' /\ SparingStep
<1>1. PICK left \in SUBSET {Stray(s)} :
          procs' = {p \in procs : p.of # s} \cup (left \cap procs)
    BY DEF Stop
<1>2. /\ UNCHANGED <<leases, server>> /\ main' = main /\ known' = known
      /\ at' = [at EXCEPT ![s] = "stopped"] /\ at[s] = "running"
      /\ live' = [live EXCEPT ![host[s]] = @ \ {s}]
    BY DEF Stop, Moves
<1>3. TypeOK /\ LeaseOK /\ ReapOK
    BY DEF IInv
<1>4. host' = host /\ slot' = slot /\ lock' = lock /\ spoiled' = spoiled /\ server' = server
    BY <1>2 DEF leases
<1>5. procs' \subseteq procs /\ Root(s) \notin procs'
    BY <1>1, RootStray
<1>6. TypeOK'
    <2>1. /\ at' \in [Sessions -> {"none", "gone"} \cup Starting \cup Playing \cup Closing]
          /\ host[s] \in Hosts
          /\ live' \in [Hosts -> SUBSET Sessions]
        BY <1>2, <1>3 DEF TypeOK, Closing
    <2>2. \A r \in Sessions :
              /\ at'[r] # "none" => host'[r] \in Hosts /\ slot'[r] \in Slots
              /\ at'[r] \notin {"none", "gone"} => main'[host'[r]] \in {"up", "stale"}
        BY <1>2, <1>3, <1>4 DEF TypeOK
    <2>3. \A r \in Sessions : \A g \in Hosts : r \in live'[g] <=> at'[r] = "running" /\ host'[r] = g
        BY <1>2, <1>3, <1>4, <2>1 DEF TypeOK
    <2>4. \A r \in Sessions : Root(r) \in procs' => at'[r] \in {"forked", "running", "gone"}
        BY <1>2, <1>3, <1>5 DEF TypeOK
    <2> QED  BY <1>2, <1>3, <1>4, <1>5, <2>1, <2>2, <2>3, <2>4 DEF TypeOK
<1>7. LeaseOK'
    BY <1>2, <1>3, LeaseKept DEF TypeOK, Starting, Playing
<1>8. ReapOK' /\ SparingStep
    BY <1>2, <1>3, <1>5, ReapKept DEF TypeOK
<1> QED  BY <1>6, <1>7, <1>8 DEF IInv

\* Steps that only change processes and threads keep the types.
LEMMA ThreadTypes ==
    ASSUME TypeOK, UNCHANGED <<live, at, leases, server>>,
           main' \in [Hosts -> {"down", "starting", "reaping", "up", "stale"}],
           known' \in [Hosts -> SUBSET (Sessions \cup Processes)],
           \A h \in Hosts : known'[h] \subseteq IF main'[h] = "reaping" THEN Processes ELSE Sessions,
           \A h \in Hosts : main[h] \in {"up", "stale"} => main'[h] \in {"up", "stale"},
           procs' \subseteq Processes,
           \A r \in Sessions : Root(r) \in procs' => Root(r) \in procs
    PROVE  TypeOK'
<1>1. /\ live' = live /\ at' = at /\ host' = host /\ slot' = slot /\ lock' = lock
      /\ spoiled' = spoiled /\ server' = server
    BY DEF leases
<1> QED  BY <1>1 DEF TypeOK

\* A process that leaves its tree is a stray of its session.
LEMMA EscapeSafe ==
    ASSUME IInv, NEW s \in Sessions, Escape(s)
    PROVE  IInv' /\ SparingStep
<1>1. /\ UNCHANGED <<live, at, leases, server>> /\ main' = main /\ known' = known
      /\ at[s] \in {"forked", "running"} /\ procs' = procs \cup {Stray(s)}
    BY DEF Escape
<1>2. TypeOK /\ LeaseOK /\ ReapOK
    BY DEF IInv
<1>3. TypeOK'
    <2>1. procs' \subseteq Processes /\ \A r \in Sessions : Root(r) \in procs' => Root(r) \in procs
        BY <1>1, <1>2, RootStray DEF TypeOK
    <2> QED  BY <1>1, <1>2, <2>1, ThreadTypes DEF TypeOK
<1>4. LeaseOK'
    BY <1>1, <1>2, LeaseKept
<1>5. ReapOK' /\ SparingStep
    BY <1>1, <1>2, RootStray DEF ReapOK, SparingStep
<1> QED  BY <1>3, <1>4, <1>5 DEF IInv

\* A process that exits by itself harms nobody.
LEMMA ExitSafe ==
    ASSUME IInv, NEW p \in procs, Exit(p)
    PROVE  IInv' /\ SparingStep
<1>1. /\ UNCHANGED <<live, at, leases, server>> /\ main' = main /\ known' = known
      /\ procs' \subseteq procs
    BY DEF Exit
<1>2. TypeOK /\ LeaseOK /\ ReapOK
    BY DEF IInv
<1>3. TypeOK'
    BY <1>1, <1>2, ThreadTypes DEF TypeOK
<1>4. LeaseOK'
    BY <1>1, <1>2, LeaseKept
<1>5. ReapOK' /\ SparingStep
    BY <1>1, <1>2, ReapKept
<1> QED  BY <1>3, <1>4, <1>5 DEF IInv

\* A host that starts owns nothing yet.
LEMMA StartSafe ==
    ASSUME IInv, NEW h \in Hosts, Start(h)
    PROVE  IInv' /\ SparingStep
<1>1. /\ UNCHANGED <<live, at, leases, server>> /\ known' = known /\ procs' = procs
      /\ main' = [main EXCEPT ![h] = "starting"] /\ main[h] = "down"
    BY DEF Start
<1>2. TypeOK /\ LeaseOK /\ ReapOK
    BY DEF IInv
<1>3. TypeOK'
    BY <1>1, <1>2, ThreadTypes DEF TypeOK
<1>4. LeaseOK'
    BY <1>1, <1>2, LeaseKept
<1>5. ReapOK' /\ SparingStep
    BY <1>1, <1>2 DEF TypeOK, ReapOK, SparingStep
<1> QED  BY <1>3, <1>4, <1>5 DEF IInv

\* What a host finds without owner when it is alone belongs to the dead.
LEMMA LookSafe ==
    ASSUME IInv, NEW h \in Hosts, Look(h)
    PROVE  IInv' /\ SparingStep
<1>1. /\ UNCHANGED <<live, at, leases, server>> /\ procs' = procs
      /\ main' = [main EXCEPT ![h] = "reaping"] /\ main[h] = "starting"
      /\ known' = [known EXCEPT ![h] = Orphans(h)]
    BY DEF Look
<1>2. TypeOK /\ LeaseOK /\ ReapOK
    BY DEF IInv
<1>3. Orphans(h) \subseteq procs /\ procs \subseteq Processes
    BY <1>2 DEF Orphans, TypeOK
<1>4. ASSUME NEW p \in Orphans(h) PROVE at[p.of] = "gone"
    <2>1. /\ \A g \in Hosts \ {h} : main[g] = "down"
          /\ p \in procs /\ ~Attached(p)
        BY <1>4 DEF Orphans
    <2>2. p.of \in Sessions
        BY <1>3, <2>1 DEF Processes
    <2>3. at[p.of] # "none"
        BY <1>2, <2>1 DEF ReapOK
    <2>4. host[p.of] \in Hosts
        BY <1>2, <2>2, <2>3 DEF TypeOK
    <2>5. main[host[p.of]] \notin {"up", "stale"}
        BY <1>1, <2>1, <2>4
    <2> QED  BY <1>2, <2>2, <2>3, <2>5 DEF TypeOK
<1>5. TypeOK'
    <2>1. /\ main' \in [Hosts -> {"down", "starting", "reaping", "up", "stale"}]
          /\ \A g \in Hosts : main[g] \in {"up", "stale"} => main'[g] \in {"up", "stale"}
          /\ known' \in [Hosts -> SUBSET (Sessions \cup Processes)]
        BY <1>1, <1>2, <1>3 DEF TypeOK
    <2>2. \A g \in Hosts : known'[g] \subseteq IF main'[g] = "reaping" THEN Processes ELSE Sessions
        <3> SUFFICES ASSUME NEW g \in Hosts
                     PROVE  known'[g] \subseteq IF main'[g] = "reaping" THEN Processes ELSE Sessions
            OBVIOUS
        <3>1. CASE g = h
            <4>1. main'[g] = "reaping" /\ known'[g] = Orphans(h)
                BY <1>1, <1>2, <3>1 DEF TypeOK
            <4> QED  BY <1>3, <4>1
        <3>2. CASE g # h
            <4>1. main'[g] = main[g] /\ known'[g] = known[g]
                BY <1>1, <1>2, <3>2 DEF TypeOK
            <4> QED  BY <1>2, <4>1 DEF TypeOK
        <3> QED  BY <3>1, <3>2
    <2> QED  BY <1>1, <1>2, <1>3, <2>1, <2>2, ThreadTypes
<1>6. LeaseOK'
    BY <1>1, <1>2, LeaseKept
<1>7. ReapOK'
    <2>1. \A g \in Hosts \ {h} : main'[g] = main[g] /\ known'[g] = known[g]
        BY <1>1, <1>2 DEF TypeOK
    <2>2. known'[h] = Orphans(h)
        BY <1>1, <1>2 DEF TypeOK
    <2> QED  BY <1>1, <1>2, <1>4, <2>1, <2>2 DEF ReapOK
<1>8. SparingStep
    BY <1>1 DEF SparingStep
<1> QED  BY <1>5, <1>6, <1>7, <1>8 DEF IInv

\* The reap at a start kills what belongs to the dead.
LEMMA ReapSafe ==
    ASSUME IInv, NEW h \in Hosts, Reap(h)
    PROVE  IInv' /\ SparingStep
<1>1. /\ UNCHANGED <<live, at, leases, server>> /\ procs' = procs \ known[h]
      /\ main' = [main EXCEPT ![h] = "up"] /\ main[h] = "reaping"
      /\ known' = [known EXCEPT ![h] = {}]
    BY DEF Reap
<1>2. TypeOK /\ LeaseOK /\ ReapOK
    BY DEF IInv
<1>3. TypeOK'
    <2>1. main'[h] = "up" /\ known'[h] = {}
        BY <1>1, <1>2 DEF TypeOK
    <2>2. \A g \in Hosts \ {h} : main'[g] = main[g] /\ known'[g] = known[g]
        BY <1>1, <1>2 DEF TypeOK
    <2>3. \A g \in Hosts : known[g] \subseteq IF main[g] = "reaping" THEN Processes ELSE Sessions
        BY <1>2 DEF TypeOK
    <2>4. /\ main' \in [Hosts -> {"down", "starting", "reaping", "up", "stale"}]
          /\ known' \in [Hosts -> SUBSET (Sessions \cup Processes)]
          /\ procs' \subseteq procs /\ procs \subseteq Processes
        BY <1>1, <1>2 DEF TypeOK
    <2>5. /\ \A g \in Hosts : known'[g] \subseteq IF main'[g] = "reaping" THEN Processes ELSE Sessions
          /\ \A g \in Hosts : main[g] \in {"up", "stale"} => main'[g] \in {"up", "stale"}
        BY <2>1, <2>2, <2>3
    <2> QED  BY <1>1, <1>2, <2>4, <2>5, ThreadTypes
<1>4. LeaseOK'
    BY <1>1, <1>2, LeaseKept
<1>5. ReapOK'
    BY <1>1, <1>2 DEF TypeOK, ReapOK
<1>6. SparingStep
    BY <1>1, <1>2 DEF TypeOK, ReapOK, SparingStep
<1> QED  BY <1>3, <1>4, <1>5, <1>6 DEF IInv

\* The stale-token reap kills nothing that is still attached.
LEMMA ReapStaleSafe ==
    ASSUME IInv, NEW h \in Hosts, ReapStale(h)
    PROVE  IInv' /\ SparingStep
<1>1. /\ UNCHANGED <<live, at, leases, server>> /\ procs' = procs \ Stale(h)
      /\ main' = [main EXCEPT ![h] = "up"] /\ main[h] = "stale"
      /\ known' = [known EXCEPT ![h] = {}]
    BY DEF ReapStale
<1>2. TypeOK /\ LeaseOK /\ ReapOK
    BY DEF IInv
<1>3. TypeOK'
    BY <1>1, <1>2, ThreadTypes DEF TypeOK
<1>4. LeaseOK'
    BY <1>1, <1>2, LeaseKept
<1>5. ReapOK'
    BY <1>1, <1>2 DEF TypeOK, ReapOK
<1>6. \A p \in procs \ procs' : ~Attached(p) /\ p.part \in Parts
    BY <1>1, <1>2 DEF Stale, TypeOK, Processes
<1>7. SparingStep
    BY <1>1, <1>2, <1>6 DEF TypeOK, SparingStep, Attached, Parts
<1> QED  BY <1>3, <1>4, <1>5, <1>7 DEF IInv

\* A host that destroys sessions, or dies with them: they are gone, and so are
\* their locks.
LEMMA GoneTypes ==
    ASSUME TypeOK, NEW S \in SUBSET Sessions,
           \A s \in S : at[s] # "none",
           at' = [s \in Sessions |-> IF s \in S THEN "gone" ELSE at[s]],
           lock' = [k \in Slots |-> IF lock[k] \in S THEN None ELSE lock[k]],
           UNCHANGED <<host, slot, spoiled, procs>>,
           main' \in [Hosts -> {"down", "starting", "reaping", "up", "stale"}],
           known' \in [Hosts -> SUBSET (Sessions \cup Processes)],
           \A h \in Hosts : known'[h] \subseteq IF main'[h] = "reaping" THEN Processes ELSE Sessions,
           \A s \in Sessions \ S : at[s] \notin {"none", "gone"} =>
               main'[host[s]] \in {"up", "stale"},
           live' \in [Hosts -> SUBSET Sessions],
           \A s \in Sessions, h \in Hosts :
               s \in live'[h] <=> at'[s] = "running" /\ host[s] = h,
           server' \in [Slots -> Sessions \cup {"files", None}]
    PROVE  TypeOK'
<1>1. at' \in [Sessions -> {"none", "gone"} \cup Starting \cup Playing \cup Closing]
    BY DEF TypeOK
<1>2. lock' \in [Slots -> Sessions \cup {None}]
    BY DEF TypeOK
<1>3. \A s \in Sessions :
          /\ at'[s] # "none" => host'[s] \in Hosts /\ slot'[s] \in Slots
          /\ at'[s] \notin {"none", "gone"} => main'[host'[s]] \in {"up", "stale"}
          /\ Root(s) \in procs' => at'[s] \in {"forked", "running", "gone"}
    BY DEF TypeOK
<1> QED  BY <1>1, <1>2, <1>3 DEF TypeOK

\* Locks go with the sessions that are gone, and with no others.
LEMMA GoneLeases ==
    ASSUME TypeOK, LeaseOK, NEW S \in SUBSET Sessions,
           at' = [s \in Sessions |-> IF s \in S THEN "gone" ELSE at[s]],
           lock' = [k \in Slots |-> IF lock[k] \in S THEN None ELSE lock[k]],
           UNCHANGED <<slot, spoiled>>,
           \A k \in Slots : server[k] \notin S => server'[k] = server[k]
    PROVE  LeaseOK'
<1>1. ASSUME NEW s \in Sessions, slot[s] \notin spoiled, at'[s] \in Starting \cup Playing
      PROVE  s \notin S /\ at'[s] = at[s] /\ slot[s] \in Slots
    BY <1>1 DEF TypeOK, Starting, Playing
<1>2. ASSUME NEW s \in Sessions, slot[s] \notin spoiled, at'[s] \in Starting
      PROVE  lock'[slot[s]] = s /\ server'[slot[s]] = None
    <2>1. s \notin S /\ at[s] \in Starting /\ slot[s] \in Slots
        BY <1>1, <1>2
    <2>2. lock[slot[s]] = s /\ server[slot[s]] = None
        BY <1>2, <2>1 DEF LeaseOK
    <2> QED  BY <2>1, <2>2, ProcessesAssumption
<1>3. ASSUME NEW s \in Sessions, slot[s] \notin spoiled, at'[s] \in Playing
      PROVE  server'[slot[s]] = s
    BY <1>1, <1>3 DEF LeaseOK
<1> QED  BY <1>2, <1>3 DEF LeaseOK

\* Destroyed slots are those that have finished.
LEMMA DestroySafe ==
    ASSUME IInv, NEW h \in Hosts, NEW S \in SUBSET Sessions, Destroy(h, S)
    PROVE  IInv' /\ SparingStep
<1>1. /\ main[h] = "up" /\ S = {s \in Sessions : at[s] = "finished" /\ host[s] = h}
      /\ at' = [s \in Sessions |-> IF s \in S THEN "gone" ELSE at[s]]
      /\ lock' = [k \in Slots |-> IF lock[k] \in S THEN None ELSE lock[k]]
      /\ live' = live /\ server' = server /\ procs' = procs
      /\ host' = host /\ slot' = slot /\ spoiled' = spoiled
    BY DEF Destroy
<1>2. \/ main' = [main EXCEPT ![h] = "stale"] /\ known' = [known EXCEPT ![h] = live[h]]
      \/ main' = main /\ known' = known
    BY DEF Destroy
<1>3. TypeOK /\ LeaseOK /\ ReapOK
    BY DEF IInv
<1>4. /\ main' \in [Hosts -> {"down", "starting", "reaping", "up", "stale"}]
      /\ \A g \in Hosts : known'[g] \subseteq IF main'[g] = "reaping" THEN Processes ELSE Sessions
      /\ \A g \in Hosts : main[g] \in {"up", "stale"} => main'[g] \in {"up", "stale"}
      /\ \A g \in Hosts : main'[g] = "reaping" => main[g] = "reaping" /\ known'[g] = known[g]
      /\ known' \in [Hosts -> SUBSET (Sessions \cup Processes)]
    <2>1. CASE main' = main /\ known' = known
        BY <1>3, <2>1 DEF TypeOK
    <2>2. CASE main' = [main EXCEPT ![h] = "stale"] /\ known' = [known EXCEPT ![h] = live[h]]
        <3>1. live[h] \subseteq Sessions
            BY <1>3 DEF TypeOK
        <3>2. main'[h] = "stale" /\ known'[h] = live[h]
            BY <1>3, <2>2 DEF TypeOK
        <3>3. \A g \in Hosts \ {h} : main'[g] = main[g] /\ known'[g] = known[g]
            BY <1>3, <2>2 DEF TypeOK
        <3>4. \A g \in Hosts : known[g] \subseteq IF main[g] = "reaping" THEN Processes ELSE Sessions
            BY <1>3 DEF TypeOK
        <3>5. /\ main' \in [Hosts -> {"down", "starting", "reaping", "up", "stale"}]
              /\ known' \in [Hosts -> SUBSET (Sessions \cup Processes)]
            BY <1>3, <2>2, <3>1 DEF TypeOK
        <3> QED  BY <3>1, <3>2, <3>3, <3>4, <3>5
    <2> QED  BY <1>2, <2>1, <2>2
<1>5. \A s \in Sessions, g \in Hosts : s \in live'[g] <=> at'[s] = "running" /\ host[s] = g
    BY <1>1, <1>3 DEF TypeOK
<1>6. \A s \in Sessions \ S : at[s] \notin {"none", "gone"} => main'[host[s]] \in {"up", "stale"}
    BY <1>3, <1>4 DEF TypeOK
<1>7. TypeOK'
    BY <1>1, <1>3, <1>4, <1>5, <1>6, GoneTypes DEF TypeOK
<1>8. LeaseOK'
    BY <1>1, <1>3, GoneLeases
<1>9. ReapOK'
    <2>1. \A p \in procs : p.of \in Sessions
        BY <1>3 DEF TypeOK, Processes
    <2>2. \A g \in Hosts : main[g] = "reaping" => \A p \in known[g] : p.of \in Sessions
        BY <1>3 DEF TypeOK, Processes
    <2> QED  BY <1>1, <1>3, <1>4, <2>1, <2>2 DEF ReapOK
<1>10. SparingStep
    BY <1>1 DEF SparingStep
<1> QED  BY <1>7, <1>8, <1>9, <1>10 DEF IInv

\* A crash takes the sessions of the host with it, and no others.
LEMMA CrashSafe ==
    ASSUME IInv, NEW h \in Hosts, Crash(h)
    PROVE  IInv' /\ SparingStep
<1> DEFINE S == {s \in Sessions : host[s] = h /\ at[s] \notin {"none", "gone"}}
<1>1. /\ main' = [main EXCEPT ![h] = "down"]
      /\ known' = [known EXCEPT ![h] = {}]
      /\ live' = [live EXCEPT ![h] = {}]
      /\ at' = [s \in Sessions |-> IF s \in S THEN "gone" ELSE at[s]]
      /\ lock' = [k \in Slots |-> IF lock[k] \in S THEN None ELSE lock[k]]
      /\ Ended(S)
      /\ procs' = procs /\ host' = host /\ slot' = slot /\ spoiled' = spoiled
    BY DEF Crash
<1>2. TypeOK /\ LeaseOK /\ ReapOK
    BY DEF IInv
<1>3. S \in SUBSET Sessions /\ \A s \in S : host[s] = h /\ at[s] # "none"
    OBVIOUS
<1>4. \A s \in Sessions \ S : at[s] \in {"none", "gone"} \/ host[s] # h
    OBVIOUS
<1> HIDE DEF S
<1>5. /\ server' \in [Slots -> Sessions \cup {"files", None}]
      /\ \A k \in Slots : server[k] \notin S => server'[k] = server[k]
    BY <1>1, <1>2, <1>3, EndedServers
<1>6. /\ main' \in [Hosts -> {"down", "starting", "reaping", "up", "stale"}]
      /\ live' \in [Hosts -> SUBSET Sessions]
      /\ known' \in [Hosts -> SUBSET (Sessions \cup Processes)]
      /\ \A g \in Hosts : known'[g] \subseteq IF main'[g] = "reaping" THEN Processes ELSE Sessions
    <2>1. main'[h] = "down" /\ known'[h] = {}
        BY <1>1, <1>2 DEF TypeOK
    <2>2. \A g \in Hosts \ {h} : main'[g] = main[g] /\ known'[g] = known[g]
        BY <1>1, <1>2 DEF TypeOK
    <2>3. \A g \in Hosts : known[g] \subseteq IF main[g] = "reaping" THEN Processes ELSE Sessions
        BY <1>2 DEF TypeOK
    <2>4. /\ main' \in [Hosts -> {"down", "starting", "reaping", "up", "stale"}]
          /\ live' \in [Hosts -> SUBSET Sessions]
          /\ known' \in [Hosts -> SUBSET (Sessions \cup Processes)]
        BY <1>1, <1>2 DEF TypeOK
    <2> QED  BY <2>1, <2>2, <2>3, <2>4
<1>7. \A s \in Sessions \ S : at[s] \notin {"none", "gone"} => main'[host[s]] \in {"up", "stale"}
    BY <1>1, <1>2, <1>4 DEF TypeOK
<1>8. \A s \in Sessions, g \in Hosts : s \in live'[g] <=> at'[s] = "running" /\ host[s] = g
    BY <1>1, <1>2, <1>3, <1>4 DEF TypeOK
<1>9. TypeOK'
    <2>1. UNCHANGED <<host, slot, spoiled, procs>> /\ TypeOK
        BY <1>1, <1>2
    <2>2. \A s \in S : at[s] # "none"
        BY <1>3
    <2> QED  BY <1>1, <1>3, <1>5, <1>6, <1>7, <1>8, <2>1, <2>2, GoneTypes, SMTT(60)
<1>10. LeaseOK'
    BY <1>1, <1>2, <1>3, <1>5, GoneLeases
<1>11. ReapOK'
    <2>1. \A p \in procs : p.of \in Sessions
        BY <1>2 DEF TypeOK, Processes
    <2>2. \A g \in Hosts : main[g] = "reaping" => \A p \in known[g] : p.of \in Sessions
        BY <1>2 DEF TypeOK, Processes
    <2>3. \A g \in Hosts : main'[g] = "reaping" => main[g] = "reaping" /\ known'[g] = known[g]
        BY <1>1, <1>2 DEF TypeOK
    <2> QED  BY <1>1, <1>2, <2>1, <2>2, <2>3 DEF ReapOK
<1>12. SparingStep
    BY <1>1 DEF SparingStep
<1> QED  BY <1>9, <1>10, <1>11, <1>12 DEF IInv

-----------------------------------------------------------------------------
(* The theorems. *)

\* The invariant holds at first.
LEMMA InitSafe == ASSUME Init PROVE IInv
<1>1. TypeOK
    BY InitTypes
<1>2. LeaseOK /\ ReapOK
    BY DEF Init, LeaseOK, ReapOK, Starting, Playing
<1> QED  BY <1>1, <1>2 DEF IInv

\* Every step keeps the invariant, and reapers spare the living.
LEMMA StepSafe == IInv /\ [Next]_vars => IInv' /\ [SparingStep]_vars
<1> SUFFICES ASSUME IInv, [Next]_vars PROVE IInv' /\ [SparingStep]_vars
    OBVIOUS
<1>1. CASE UNCHANGED vars
    BY <1>1 DEF vars, IInv, TypeOK, LeaseOK, ReapOK
<1>2. CASE Next
    <2>1. ASSUME NEW s \in Sessions, NEW h \in Hosts, NEW k \in Slots, Claim(h, s, k)
          PROVE  IInv' /\ SparingStep
        BY <2>1, ClaimSafe
    <2>2. ASSUME NEW s \in Sessions, CheckDisplay(s) \/ Serve(s) \/ Finish(s)
          PROVE  IInv' /\ SparingStep
        BY <2>2, CheckSafe, ServeSafe, FinishSafe
    <2>3. ASSUME NEW s \in Sessions, Fork(s) \/ Register(s) \/ Escape(s) \/ Stop(s)
          PROVE  IInv' /\ SparingStep
        BY <2>3, ForkSafe, RegisterSafe, EscapeSafe, StopSafe
    <2>4. ASSUME NEW p \in procs, Exit(p) PROVE IInv' /\ SparingStep
        BY <2>4, ExitSafe
    <2>5. ASSUME Wipe PROVE IInv' /\ SparingStep
        BY <2>5, WipeSafe
    <2>6. ASSUME NEW h \in Hosts, Start(h) \/ Look(h) \/ Reap(h)
          PROVE  IInv' /\ SparingStep
        BY <2>6, StartSafe, LookSafe, ReapSafe
    <2>7. ASSUME NEW h \in Hosts, ReapStale(h) \/ Crash(h)
          PROVE  IInv' /\ SparingStep
        BY <2>7, ReapStaleSafe, CrashSafe
    <2>8. ASSUME NEW h \in Hosts, NEW S \in SUBSET Sessions, Destroy(h, S)
          PROVE  IInv' /\ SparingStep
        BY <2>8, DestroySafe
    <2> QED  BY <1>2, <2>1, <2>2, <2>3, <2>4, <2>5, <2>6, <2>7, <2>8 DEF Next
<1> QED  BY <1>1, <1>2

\* Leases, displays and reapers keep their invariant through crashes, wiped lock
\* directories and processes that leave their tree.
THEOREM ProcessesInvariant == Spec => []IInv
<1>1. Init => IInv
    BY InitSafe
<1>2. IInv /\ [Next]_vars => IInv'
    BY StepSafe
<1> QED  BY <1>1, <1>2, PTL DEF Spec

\* Types; in particular the live tokens of a host are those of its running
\* sessions.  (register_emulator_session_token)
THEOREM TypeCorrect == Spec => []TypeOK
<1>1. IInv => TypeOK
    BY DEF IInv
<1> QED  BY <1>1, ProcessesInvariant, PTL

\* No slot number is shared, and every session has its own X server.
\* (SessionSlotLease::claim)
THEOREM LeaseExclusive == Spec => []SlotsApart
<1>1. IInv => SlotsApart
    <2> SUFFICES ASSUME IInv, NEW s \in Sessions,
                        at[s] \in Starting \cup Playing, slot[s] \notin spoiled
                 PROVE  /\ at[s] \in Playing => server[slot[s]] = s
                        /\ \A r \in Sessions \ {s} :
                              slot[r] = slot[s] => at[r] \notin Starting \cup Playing
        BY DEF SlotsApart
    <2>1. \A r \in Sessions : slot[r] = slot[s] =>
              /\ at[r] \in Starting => lock[slot[s]] = r /\ server[slot[s]] = None
              /\ at[r] \in Playing => server[slot[s]] = r
        BY DEF IInv, LeaseOK
    <2> QED  BY <2>1, ProcessesAssumption
<1> QED  BY <1>1, ProcessesInvariant, PTL

\* Neither reaper kills a child of a live host, nor the one at the start
\* anything of a live session.  (reap_orphaned_emulator_processes,
\* reap_stale_emulator_session_tokens)
THEOREM ReapersSpare == Spec => ReapsSpare
<1>1. IInv /\ [Next]_vars => [SparingStep]_vars
    BY StepSafe
<1> QED  BY <1>1, ProcessesInvariant, PTL DEF Spec, ReapsSpare, SparingStep
=============================================================================
