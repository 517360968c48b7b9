------------------------- MODULE StreamControlProofs -------------------------
(***************************************************************************)
(* What holds of the video of a session for any number of players, viewers *)
(* and levels, whoever asks, drops out, answers late or not at all.        *)
(***************************************************************************)
EXTENDS StreamControl, TLAPS

-----------------------------------------------------------------------------
(* The inductive invariant. *)

\* A cutover is pending for connected players that were not given up.
PendingOpen == \A p \in Players : pending[p] # None => conn[p] /\ failures[p] < GivesUp

\* A player that is away has no encoder of its own.
AwayAtBase == \A p \in Players : ~conn[p] => port[p] = "base"

\* The two halves of StagingOwned
StagingMeant == \A p \in Players : staging[p] # None => conn[p] /\ pending[p] = staging[p]
PortsApart == \A p \in Players : staging[p] # None => staging[p].port # port[p]

Safe == StagingMeant /\ PortsApart /\ AppliedBelow
IInv == TypeOK /\ PendingOpen /\ AwayAtBase /\ Safe

\* What a step on the media leaves behind, for players connected in on
MediaOK(on) ==
    /\ trunk' \in Levels
    /\ applied' \in [Players -> Levels]
    /\ port' \in [Players -> Ports]
    /\ staging' \in [Players -> Cutovers \cup {None}]
    /\ \A p \in Players : ~on[p] => port'[p] = "base"
    /\ \A p \in Players : on[p] => applied'[p] <= trunk'
    /\ \A p \in Players : staging'[p] # None => staging'[p].port # port'[p]

\* The step of ToldWhereSent
ToldStep == \A p \in Players : endpoint'[p] # endpoint[p] => endpoint'[p] = port'[p]

\* The step of RaisedForPlayer
RaisedStep ==
    trunk' > trunk =>
        \E p \in Players : conn[p] /\
            \/ trunk' = wanted'[p]
            \/ trunk' = applied[p] + 1 /\ trunk' <= AutoMax
            \/ pending[p] # None /\ trunk' = pending[p].level

-----------------------------------------------------------------------------
(* Lemmas about the operators of the model. *)

\* The ceiling is a level that a connected player asks for, and covers all.
LEMMA CeilingTop ==
    ASSUME TypeOK, NEW on, NEW ask \in [Players -> Levels], NEW top \in Ceiling(on, ask)
    PROVE  /\ top \in Levels
           /\ top = trunk \/ \E p \in Players : on[p] /\ top = ask[p]
           /\ \A p \in Players : on[p] => ask[p] <= top
<1> DEFINE asked == {ask[p] : p \in {q \in Players : on[q]}}
<1>1. CASE asked = {}
    <2>1. top = trunk /\ \A p \in Players : ~on[p]
        BY <1>1 DEF Ceiling
    <2> QED  BY <2>1 DEF TypeOK
<1>2. CASE asked # {}
    <2>1. top \in asked /\ \A k \in asked : k <= top
        BY <1>2 DEF Ceiling
    <2> QED  BY <2>1
<1> QED  BY <1>1, <1>2

\* What a player asks for is a level.
LEMMA AsksLevel ==
    ASSUME TypeOK, NEW p \in Players
    PROVE  Asks(wanted, p) \in Levels
BY DEF Asks, TypeOK, Automatic, Levels

\* What a heartbeat makes of a wish is a level, and above the level the player
\* has only if it was the wish or the next step of the ladder.
LEMMA ResolvedLevel ==
    ASSUME TypeOK, NEW p \in Players, NEW want \in Levels \cup {Automatic},
           NEW r \in Resolved(p, want)
    PROVE  /\ r \in Levels
           /\ r = want \/ r <= applied[p] \/ (r = applied[p] + 1 /\ r <= AutoMax)
<1>1. Levels \subseteq Nat /\ applied[p] \in Nat
    BY StreamAssumption DEF TypeOK, Levels
<1>2. CASE want # Automatic
    BY <1>1, <1>2 DEF Resolved
<1>3. CASE want = Automatic
    BY <1>1, <1>3 DEF Resolved
<1> QED  BY <1>2, <1>3

\* Branches are levels that nobody asked more than.
LEMMA BranchLow ==
    ASSUME TypeOK, NEW p \in Players, NEW ask \in [Players -> Levels],
           NEW b \in Branches(ask, p)
    PROVE  b \in [Players -> Levels] /\ \A q \in Players : b[q] <= ask[q]
<1>1. b \in [Players -> Levels]
      /\ \A q \in Players : b[q] = ask[q] \/ (applied[q] < ask[q] /\ b[q] = applied[q])
    BY DEF Branches
<1>2. ASSUME NEW q \in Players PROVE b[q] <= ask[q]
    <2>1. ask[q] \in Nat /\ applied[q] \in Nat
        BY DEF TypeOK, Levels
    <2> QED  BY <1>1, <2>1
<1> QED  BY <1>1, <1>2

\* Laying out the pipeline stops all staging and leaves nobody above the trunk.
LEMMA LayoutMedia ==
    ASSUME TypeOK, AppliedBelow, NEW p \in Players, NEW top \in Levels,
           NEW b \in [Players -> Levels], \A q \in Players : conn[q] => b[q] <= top,
           Layout(p, top, b)
    PROVE  /\ MediaOK(conn)
           /\ \A q \in Players : staging'[q] = None
           /\ trunk' \in {trunk, top}
<1>1. /\ staging' = [q \in Players |-> None]
      /\ port' = [q \in Players |-> "base"]
      /\ \/ trunk' = top /\ applied' = [q \in Players |-> IF conn[q] THEN b[q] ELSE applied[q]]
         \/ trunk' = trunk /\ applied' = applied
    BY DEF Layout, Relaid, Synced
<1>2. applied' \in [Players -> Levels] /\ trunk' \in Levels
    BY <1>1 DEF TypeOK
<1>3. \A q \in Players : conn[q] => applied'[q] <= trunk'
    BY <1>1 DEF AppliedBelow, TypeOK
<1> QED  BY <1>1, <1>2, <1>3 DEF MediaOK, Ports

\* The staging port of a begun cutover is not the one in use.
LEMMA FreePortFree ==
    ASSUME NEW p \in Players
    PROVE  FreePort(p) \in Ports /\ FreePort(p) # port[p]
BY DEF FreePort, Ports

\* apply_video_encode: levels, ports and cutovers fit together afterwards.
LEMMA ApplyMedia ==
    ASSUME IInv, NEW p \in Players, conn[p], MayAsk(p), NEW ask \in [Players -> Levels],
           Apply(p, ask)
    PROVE  /\ MediaOK(conn)
           /\ pending' \in [Players -> Cutovers \cup {None}]
           /\ \A q \in Players : staging'[q] # None => conn[q] /\ pending'[q] = staging'[q]
           /\ \A q \in Players : pending'[q] # None => pending[q] # None \/ q = p
           /\ trunk' = trunk \/ trunk' \in Ceiling(conn, ask)
<1>1. PICK top \in Ceiling(conn, ask), b \in Branches(ask, p) :
        IF top = trunk
        THEN IF AllRide(b, top)
             THEN /\ applied' = [applied EXCEPT ![p] = trunk]
                  /\ UNCHANGED <<trunk, port, staging, pending>>
             ELSE Layout(p, top, b) /\ UNCHANGED pending
        ELSE \/ Begin(p, top)
             \/ Layout(p, top, b) /\ UNCHANGED pending
    BY DEF Apply
<1>2. TypeOK /\ AppliedBelow /\ StagingMeant /\ PortsApart /\ AwayAtBase
    BY DEF IInv, Safe
<1>3. top \in Levels /\ \A q \in Players : conn[q] => b[q] <= top
    <2>1. top \in Levels /\ \A q \in Players : conn[q] => ask[q] <= top
        BY <1>2, CeilingTop
    <2>2. b \in [Players -> Levels] /\ \A q \in Players : b[q] <= ask[q]
        BY <1>2, BranchLow
    <2>3. Levels \subseteq Nat
        BY StreamAssumption DEF Levels
    <2>4. ASSUME NEW q \in Players, conn[q] PROVE b[q] <= top
        <3>1. ask[q] \in Nat /\ b[q] \in Nat /\ top \in Nat
            BY <2>1, <2>2, <2>3
        <3> QED  BY <3>1, <2>1, <2>2, <2>4
    <2> QED  BY <2>1, <2>4
<1>4. CASE /\ applied' = [applied EXCEPT ![p] = trunk]
           /\ UNCHANGED <<trunk, port, staging, pending>>
    <2>1. trunk' = trunk /\ port' = port /\ staging' = staging /\ pending' = pending
        BY <1>4
    <2>2. applied' \in [Players -> Levels]
        BY <1>2, <1>4 DEF TypeOK
    <2>3. \A q \in Players : conn[q] => applied'[q] <= trunk'
        BY <1>2, <1>4, <2>1 DEF TypeOK, AppliedBelow, Levels
    <2>4. MediaOK(conn)
        BY <1>2, <2>1, <2>2, <2>3 DEF MediaOK, TypeOK, AwayAtBase, PortsApart
    <2> QED  BY <1>2, <2>1, <2>4 DEF TypeOK, StagingMeant
<1>5. CASE Layout(p, top, b) /\ UNCHANGED pending
    <2>1. b \in [Players -> Levels]
        BY <1>2, BranchLow
    <2>2. /\ MediaOK(conn)
          /\ \A q \in Players : staging'[q] = None
          /\ trunk' \in {trunk, top}
        BY <1>2, <1>3, <1>5, <2>1, LayoutMedia
    <2> QED  BY <1>2, <1>5, <2>2 DEF TypeOK
<1>6. CASE Begin(p, top)
    <2> DEFINE new == [port |-> FreePort(p), level |-> top]
    <2>1. /\ staging' = [staging EXCEPT ![p] = new]
          /\ pending' = [pending EXCEPT ![p] = new]
          /\ trunk' = trunk /\ applied' = applied /\ port' = port
        BY <1>6 DEF Begin
    <2>2. new \in Cutovers /\ new.port # port[p]
        BY <1>3, FreePortFree DEF Cutovers
    <2> HIDE DEF new
    <2>3. staging' \in [Players -> Cutovers \cup {None}]
          /\ pending' \in [Players -> Cutovers \cup {None}]
        BY <1>2, <2>1, <2>2 DEF TypeOK
    <2>4. \A q \in Players : staging'[q] # None =>
              /\ staging'[q].port # port[q]
              /\ conn[q] /\ pending'[q] = staging'[q]
        BY <1>2, <2>1, <2>2 DEF TypeOK, StagingMeant, PortsApart
    <2>5. MediaOK(conn)
        BY <1>2, <2>1, <2>3, <2>4 DEF MediaOK, TypeOK, AwayAtBase, AppliedBelow
    <2> QED  BY <1>2, <2>1, <2>3, <2>4, <2>5 DEF TypeOK
<1> QED  BY <1>1, <1>4, <1>5, <1>6

-----------------------------------------------------------------------------
(* The actions keep the invariant. *)

\* The invariant from its parts after a step on the media
LEMMA Rebuilt ==
    ASSUME MediaOK(conn'),
           conn' \in [Clients -> BOOLEAN],
           wanted' \in [Players -> Levels \cup {Automatic}],
           ready' \in [Players -> BOOLEAN],
           pending' \in [Players -> Cutovers \cup {None}],
           failures' \in [Players -> 0 .. GivesUp],
           endpoint' \in [Players -> Ports],
           PendingOpen', StagingMeant'
    PROVE  IInv'
<1>1. TypeOK'
    BY DEF MediaOK, TypeOK
<1>2. AwayAtBase'
    BY DEF MediaOK, AwayAtBase
<1>3. AppliedBelow'
    BY DEF MediaOK, AppliedBelow
<1>4. PortsApart'
    BY DEF MediaOK, PortsApart
<1> QED  BY <1>1, <1>2, <1>3, <1>4 DEF IInv, Safe

\* A trunk that takes what a connected player asks for by its noted wish is
\* raised for that player.
LEMMA AskedRaise ==
    ASSUME TypeOK, AppliedBelow, NEW q \in Players, conn[q], wanted'[q] = wanted[q],
           trunk' = Asks(wanted, q)
    PROVE  RaisedStep
<1>1. trunk \in Nat /\ applied[q] \in Nat /\ applied[q] <= trunk
    BY StreamAssumption DEF TypeOK, Levels, AppliedBelow
<1>2. trunk' = applied[q] \/ trunk' = wanted'[q]
    BY DEF Asks
<1>3. CASE trunk' = applied[q]
    <2>1. ~(trunk' > trunk)
        BY <1>1, <1>3
    <2> QED  BY <2>1 DEF RaisedStep
<1>4. CASE trunk' = wanted'[q]
    BY <1>4 DEF RaisedStep
<1> QED  BY <1>2, <1>3, <1>4

\* A trunk that does not change is not raised.
LEMMA SameTrunk ==
    ASSUME TypeOK, trunk' = trunk
    PROVE  RaisedStep
<1>1. trunk \in Nat
    BY StreamAssumption DEF TypeOK, Levels
<1>2. ~(trunk' > trunk)
    BY <1>1
<1> QED  BY <1>2 DEF RaisedStep

\* A heartbeat keeps the invariant, whatever it asks for.
LEMMA HeartbeatSafe ==
    ASSUME IInv, NEW p \in Players, NEW want \in Levels \cup {Automatic},
           NEW shows \in BOOLEAN, Heartbeat(p, want, shows)
    PROVE  IInv' /\ ToldStep /\ RaisedStep
<1>0. TypeOK /\ PendingOpen /\ AwayAtBase /\ StagingMeant /\ PortsApart /\ AppliedBelow
    BY DEF IInv, Safe
<1>1. /\ conn[p]
      /\ wanted' = [wanted EXCEPT ![p] = want]
      /\ ready' = [ready EXCEPT ![p] = ready[p] \/ shows]
      /\ conn' = conn /\ failures' = failures /\ endpoint' = endpoint
    BY DEF Heartbeat
<1>2. wanted' \in [Players -> Levels \cup {Automatic}]
    BY <1>0, <1>1 DEF TypeOK
<1>3. ready' \in [Players -> BOOLEAN]
    BY <1>0, <1>1 DEF TypeOK
<1>4. CASE UNCHANGED <<applied, trunk, port, staging, pending>>
    <2>1. MediaOK(conn')
        BY <1>0, <1>1, <1>4 DEF MediaOK, TypeOK, AwayAtBase, AppliedBelow, PortsApart
    <2>2. PendingOpen' /\ StagingMeant'
        BY <1>0, <1>1, <1>4 DEF PendingOpen, StagingMeant
    <2>3. IInv'
        BY <1>0, <1>1, <1>2, <1>3, <1>4, <2>1, <2>2, Rebuilt DEF TypeOK
    <2>4. RaisedStep
        BY <1>0, <1>4, SameTrunk
    <2> QED  BY <1>1, <2>3, <2>4 DEF ToldStep
<1>5. ASSUME MayAsk(p), NEW r \in Resolved(p, want) \ {applied[p]},
             Apply(p, [q \in Players |-> IF q = p THEN r ELSE Asks(wanted, q)])
      PROVE  IInv' /\ RaisedStep
    <2> DEFINE ask == [q \in Players |-> IF q = p THEN r ELSE Asks(wanted, q)]
    <2>1. r \in Levels
        BY ResolvedLevel, <1>0
    <2>2. ask \in [Players -> Levels]
        BY <2>1, <1>0, AsksLevel
    <2>2a. \A q \in Players : ask[q] = IF q = p THEN r ELSE Asks(wanted, q)
        OBVIOUS
    <2> HIDE DEF ask
    <2>3. /\ MediaOK(conn)
          /\ pending' \in [Players -> Cutovers \cup {None}]
          /\ \A q \in Players : staging'[q] # None => conn[q] /\ pending'[q] = staging'[q]
          /\ \A q \in Players : pending'[q] # None => pending[q] # None \/ q = p
          /\ trunk' = trunk \/ trunk' \in Ceiling(conn, ask)
        BY <1>1, <1>5, <2>2, ApplyMedia DEF ask
    <2>4. StagingMeant'
        BY <1>1, <2>3 DEF StagingMeant
    <2>5. PendingOpen'
        BY <1>0, <1>1, <1>5, <2>3 DEF PendingOpen, MayAsk
    <2>6. MediaOK(conn')
        BY <1>1, <2>3
    <2>7. IInv'
        BY <1>0, <1>1, <1>2, <1>3, <2>3, <2>4, <2>5, <2>6, Rebuilt DEF TypeOK
    <2>8. ASSUME trunk' = trunk PROVE RaisedStep
        BY <1>0, <2>8, SameTrunk
    <2>9. ASSUME NEW q \in Players, q # p, conn[q], trunk' = ask[q] PROVE RaisedStep
        <3>1. trunk' = Asks(wanted, q) /\ wanted'[q] = wanted[q]
            BY <1>0, <1>1, <2>2a, <2>9 DEF TypeOK
        <3> QED  BY <1>0, <2>9, <3>1, AskedRaise
    <2>10. ASSUME trunk' = r PROVE RaisedStep
        <3>1. r = want \/ r <= applied[p] \/ (r = applied[p] + 1 /\ r <= AutoMax)
            BY <1>0, ResolvedLevel
        <3>2. wanted'[p] = want
            BY <1>0, <1>1 DEF TypeOK
        <3>3. CASE r <= applied[p]
            <4>1. applied[p] \in Nat /\ trunk \in Nat /\ r \in Nat /\ applied[p] <= trunk
                BY <1>0, <1>1, <2>1, StreamAssumption DEF TypeOK, Levels, AppliedBelow
            <4>2. ~(trunk' > trunk)
                BY <2>10, <3>3, <4>1
            <4> QED  BY <4>2 DEF RaisedStep
        <3> QED  BY <1>1, <2>10, <3>1, <3>2, <3>3 DEF RaisedStep
    <2>11. trunk' = trunk \/ \E q \in Players : conn[q] /\ trunk' = ask[q]
        <3>1. CASE trunk' \in Ceiling(conn, ask)
            BY <1>0, <2>2, <3>1, CeilingTop
        <3> QED  BY <2>3, <3>1
    <2> QED  BY <2>2a, <2>7, <2>8, <2>9, <2>10, <2>11
<1>6. ToldStep
    BY <1>1 DEF ToldStep
<1> QED  BY <1>4, <1>5, <1>6 DEF Heartbeat

\* The answer of a client keeps it as well, promoted or laid out anew.
LEMMA ReadySafe ==
    ASSUME IInv, NEW p \in Players, Ready(p)
    PROVE  IInv' /\ ToldStep /\ RaisedStep
<1>0. TypeOK /\ PendingOpen /\ AwayAtBase /\ StagingMeant /\ PortsApart /\ AppliedBelow
    BY DEF IInv, Safe
<1> DEFINE ask == [q \in Players |-> IF q = p THEN pending[p].level ELSE Asks(wanted, q)]
<1>1. PICK top \in Ceiling(conn, ask), b \in Branches(ask, p) :
        IF staging[p] # None /\ \A c \in Clients \ {p} : ~conn[c]
        THEN /\ Promoted(p)
             /\ trunk' = top /\ applied' = Synced(b, conn, p)
             /\ endpoint' = [endpoint EXCEPT ![p] = pending[p].port]
        ELSE Layout(p, top, b) /\ UNCHANGED endpoint
    BY DEF Ready
<1>2. /\ conn[p] /\ pending[p] # None
      /\ pending' = [pending EXCEPT ![p] = None]
      /\ failures' = [failures EXCEPT ![p] = 0]
      /\ conn' = conn /\ wanted' = wanted /\ ready' = ready
    BY DEF Ready, wishes
<1>3. pending[p] \in Cutovers
    BY <1>0, <1>2 DEF TypeOK
<1>4. pending[p].level \in Levels /\ pending[p].port \in Ports
    BY <1>3 DEF Cutovers
<1>5. ask \in [Players -> Levels]
    BY <1>0, <1>4, AsksLevel
<1>5a. \A q \in Players : ask[q] = pending[p].level \/ ask[q] = Asks(wanted, q)
    OBVIOUS
<1> HIDE DEF ask
<1>6. /\ top \in Levels
      /\ top = trunk \/ \E q \in Players : conn[q] /\ top = ask[q]
      /\ \A q \in Players : conn[q] => ask[q] <= top
    BY <1>0, <1>5, CeilingTop
<1>7. b \in [Players -> Levels] /\ \A q \in Players : b[q] <= ask[q]
    BY <1>0, <1>5, BranchLow
<1>8. ASSUME NEW q \in Players, conn[q] PROVE b[q] <= top
    <2>1. Levels \subseteq Nat
        BY StreamAssumption DEF Levels
    <2>2. ask[q] \in Nat /\ b[q] \in Nat /\ top \in Nat
        BY <1>5, <1>6, <1>7, <2>1
    <2> QED  BY <1>6, <1>7, <1>8, <2>2
<1>9. pending' \in [Players -> Cutovers \cup {None}] /\ failures' \in [Players -> 0 .. GivesUp]
    BY <1>0, <1>2 DEF TypeOK, GivesUp
<1>10. PendingOpen'
    BY <1>0, <1>2 DEF PendingOpen, TypeOK
<1>10a. ASSUME trunk' \in {trunk, top} PROVE RaisedStep
    <2>1. CASE trunk' = trunk
        BY <1>0, <2>1, SameTrunk
    <2>2. ASSUME NEW q \in Players, conn[q], trunk' = ask[q] PROVE RaisedStep
        <3>1. CASE ask[q] = pending[p].level
            BY <1>2, <2>2, <3>1 DEF RaisedStep
        <3>2. CASE ask[q] = Asks(wanted, q)
            BY <1>0, <1>2, <2>2, <3>2, AskedRaise
        <3> QED  BY <1>5a, <3>1, <3>2
    <2> QED  BY <1>6, <1>10a, <2>1, <2>2
<1>11. CASE /\ staging[p] # None /\ Promoted(p)
            /\ trunk' = top /\ applied' = Synced(b, conn, p)
            /\ endpoint' = [endpoint EXCEPT ![p] = pending[p].port]
    <2>1. /\ staging' = [staging EXCEPT ![p] = None]
          /\ port' = [port EXCEPT ![p] = staging[p].port]
          /\ applied' = [q \in Players |-> IF conn[q] THEN b[q] ELSE applied[q]]
          /\ pending[p] = staging[p]
        BY <1>0, <1>11 DEF Promoted, Aborted, Synced, StagingMeant
    <2>2. applied' \in [Players -> Levels]
        BY <1>0, <1>7, <2>1 DEF TypeOK
    <2>3. \A q \in Players : conn[q] => applied'[q] <= trunk'
        BY <1>8, <1>11, <2>1
    <2>4. staging' \in [Players -> Cutovers \cup {None}]
        BY <1>0, <2>1 DEF TypeOK
    <2>4a. port' \in [Players -> Ports] /\ endpoint' \in [Players -> Ports]
        BY <1>0, <1>4, <1>11, <2>1 DEF TypeOK
    <2>5. \A q \in Players : staging'[q] # None => staging'[q].port # port'[q]
        BY <1>0, <2>1 DEF TypeOK, PortsApart
    <2>6. \A q \in Players : ~conn[q] => port'[q] = "base"
        BY <1>0, <1>2, <2>1 DEF TypeOK, AwayAtBase
    <2>7. MediaOK(conn')
        BY <1>2, <1>6, <1>11, <2>2, <2>3, <2>4, <2>4a, <2>5, <2>6 DEF MediaOK
    <2>8. StagingMeant'
        BY <1>0, <1>2, <2>1 DEF TypeOK, StagingMeant
    <2>9. IInv'
        BY <1>0, <1>2, <1>9, <1>10, <2>4a, <2>7, <2>8, Rebuilt DEF TypeOK
    <2>10. ToldStep
        BY <1>0, <1>11, <2>1 DEF ToldStep, TypeOK
    <2> QED  BY <1>10a, <1>11, <2>9, <2>10
<1>12. CASE Layout(p, top, b) /\ UNCHANGED endpoint
    <2>1. /\ MediaOK(conn)
          /\ \A q \in Players : staging'[q] = None
          /\ trunk' \in {trunk, top}
        BY <1>0, <1>6, <1>7, <1>8, <1>12, LayoutMedia
    <2>2. MediaOK(conn') /\ StagingMeant'
        BY <1>2, <2>1 DEF StagingMeant
    <2>3. IInv'
        BY <1>0, <1>2, <1>9, <1>10, <1>12, <2>2, Rebuilt DEF TypeOK
    <2>4. ToldStep
        BY <1>12 DEF ToldStep
    <2> QED  BY <1>10a, <2>1, <2>3, <2>4
<1> QED  BY <1>1, <1>11, <1>12

\* A refusal and a time-out stop the encoder and end the cutover.
LEMMA SettledSafe ==
    ASSUME IInv, NEW p \in Players, Refused(p) \/ TimeOut(p)
    PROVE  IInv' /\ ToldStep /\ RaisedStep
<1>0. TypeOK /\ PendingOpen /\ AwayAtBase /\ StagingMeant /\ PortsApart /\ AppliedBelow
    BY DEF IInv, Safe
<1>1. /\ conn[p] /\ pending[p] # None
      /\ staging' = [staging EXCEPT ![p] = None]
      /\ pending' = [pending EXCEPT ![p] = None]
      /\ conn' = conn /\ wanted' = wanted /\ ready' = ready /\ applied' = applied
      /\ trunk' = trunk /\ port' = port /\ endpoint' = endpoint
      /\ failures' = failures \/ failures' = [failures EXCEPT ![p] = failures[p] + 1]
    BY DEF Refused, TimeOut, Aborted, wishes
<1>2. staging' \in [Players -> Cutovers \cup {None}]
      /\ pending' \in [Players -> Cutovers \cup {None}]
    BY <1>0, <1>1 DEF TypeOK
<1>3. failures[p] \in 0 .. GivesUp /\ failures[p] < GivesUp
    BY <1>0, <1>1 DEF TypeOK, PendingOpen
<1>4. failures[p] + 1 \in 0 .. GivesUp
    BY <1>3 DEF GivesUp
<1>5. failures' \in [Players -> 0 .. GivesUp]
    BY <1>0, <1>1, <1>4 DEF TypeOK
<1>6. PendingOpen'
    BY <1>0, <1>1 DEF TypeOK, PendingOpen
<1>7. StagingMeant'
    BY <1>0, <1>1 DEF TypeOK, StagingMeant
<1>8. \A q \in Players : staging'[q] # None => staging'[q].port # port'[q]
    BY <1>0, <1>1 DEF TypeOK, PortsApart
<1>9. MediaOK(conn')
    BY <1>0, <1>1, <1>2, <1>8 DEF MediaOK, TypeOK, AwayAtBase, AppliedBelow
<1>10. IInv'
    BY <1>0, <1>1, <1>2, <1>5, <1>6, <1>7, <1>9, Rebuilt DEF TypeOK
<1> QED  BY <1>0, <1>1, <1>10, SameTrunk DEF ToldStep

\* The recovery of a stall keeps the invariant and tells live endpoints.
LEMMA RecoverSafe ==
    ASSUME IInv, NEW p \in Players, Recover(p)
    PROVE  IInv' /\ ToldStep /\ RaisedStep
<1>0. TypeOK /\ PendingOpen /\ AwayAtBase /\ StagingMeant /\ PortsApart /\ AppliedBelow
    BY DEF IInv, Safe
<1>1. /\ staging' = [q \in Players |-> None]
      /\ port' = [q \in Players |-> "base"]
      /\ \/ endpoint' = [q \in Players |-> IF conn[q] THEN "base" ELSE endpoint[q]]
         \/ endpoint' = endpoint
      /\ conn' = conn /\ wanted' = wanted /\ ready' = ready /\ applied' = applied
      /\ trunk' = trunk /\ pending' = pending /\ failures' = failures
    BY DEF Recover, Relaid, wishes
<1>2. endpoint' \in [Players -> Ports]
    BY <1>0, <1>1 DEF TypeOK, Ports
<1>3. MediaOK(conn')
    BY <1>0, <1>1 DEF MediaOK, TypeOK, AppliedBelow, Ports
<1>4. PendingOpen' /\ StagingMeant'
    BY <1>0, <1>1 DEF PendingOpen, StagingMeant
<1>5. IInv'
    BY <1>0, <1>1, <1>2, <1>3, <1>4, Rebuilt DEF TypeOK
<1>6. ToldStep
    BY <1>0, <1>1 DEF ToldStep, TypeOK
<1> QED  BY <1>0, <1>1, <1>5, <1>6, SameTrunk

\* So does the loss of a player,
LEMMA LosePlayerSafe ==
    ASSUME IInv, NEW p \in Players, LosePlayer(p)
    PROVE  IInv' /\ ToldStep /\ RaisedStep
<1>0. TypeOK /\ PendingOpen /\ AwayAtBase /\ StagingMeant /\ PortsApart /\ AppliedBelow
    BY DEF IInv, Safe
<1> DEFINE ask == [q \in Players |-> Asks(wanted, q)]
<1>1. PICK top \in Ceiling(conn', ask) :
        \/ /\ Relaid
           /\ \/ trunk' = top /\ applied' = Synced([q \in Players |-> top], conn', p)
              \/ UNCHANGED <<trunk, applied>>
        \/ /\ Aborted(p)
           /\ port' = [port EXCEPT ![p] = "base"]
           /\ UNCHANGED <<trunk, applied>>
    BY DEF LosePlayer
<1>2. /\ conn[p]
      /\ conn' = [conn EXCEPT ![p] = FALSE]
      /\ pending' = [pending EXCEPT ![p] = None]
      /\ wanted' = wanted /\ ready' = ready /\ failures' = failures /\ endpoint' = endpoint
    BY DEF LosePlayer, wishes
<1>3. ask \in [Players -> Levels]
    BY <1>0, AsksLevel
<1>3a. \A q \in Players : ask[q] = Asks(wanted, q)
    OBVIOUS
<1> HIDE DEF ask
<1>4. top \in Levels /\ (top = trunk \/ \E q \in Players : conn'[q] /\ top = ask[q])
    BY <1>0, <1>3, CeilingTop
<1>5. conn' \in [Clients -> BOOLEAN] /\ (\A q \in Players : conn'[q] => conn[q])
      /\ \A q \in Players : q # p => conn'[q] = conn[q]
    BY <1>0, <1>2 DEF TypeOK, Clients
<1>6. pending' \in [Players -> Cutovers \cup {None}]
    BY <1>0, <1>2 DEF TypeOK
<1>7. PendingOpen'
    BY <1>0, <1>2, <1>5 DEF TypeOK, PendingOpen
<1>8. trunk' \in {trunk, top} /\ applied' \in [Players -> Levels]
      /\ \A q \in Players : conn'[q] => applied'[q] <= trunk'
    <2>1. CASE trunk' = trunk /\ applied' = applied
        BY <1>0, <1>5, <2>1 DEF TypeOK, AppliedBelow
    <2>2. CASE trunk' = top /\ applied' = Synced([q \in Players |-> top], conn', p)
        <3>1. applied' = [q \in Players |-> IF conn'[q] THEN top ELSE applied[q]]
            BY <2>2 DEF Synced
        <3>2. applied' \in [Players -> Levels]
            BY <1>0, <1>4, <3>1 DEF TypeOK
        <3>3. top <= top
            BY <1>4, StreamAssumption DEF Levels
        <3> QED  BY <2>2, <3>1, <3>2, <3>3
    <2> QED  BY <1>1, <2>1, <2>2
<1>9. /\ \A q \in Players : staging'[q] # None => q # p /\ staging'[q] = staging[q] /\ port'[q] = port[q]
      /\ staging' \in [Players -> Cutovers \cup {None}]
      /\ port' \in [Players -> Ports]
      /\ \A q \in Players : ~conn'[q] => port'[q] = "base"
    <2>1. CASE Relaid
        BY <2>1 DEF Relaid, Ports
    <2>2. CASE Aborted(p) /\ port' = [port EXCEPT ![p] = "base"]
        <3>1. staging' = [staging EXCEPT ![p] = None]
            BY <2>2 DEF Aborted
        <3>2. staging' \in [Players -> Cutovers \cup {None}] /\ port' \in [Players -> Ports]
            BY <1>0, <2>2, <3>1 DEF TypeOK, Ports
        <3>3. \A q \in Players : staging'[q] # None => q # p /\ staging'[q] = staging[q] /\ port'[q] = port[q]
            BY <1>0, <2>2, <3>1 DEF TypeOK
        <3>4. \A q \in Players : ~conn'[q] => port'[q] = "base"
            BY <1>0, <1>5, <2>2 DEF TypeOK, AwayAtBase
        <3> QED  BY <3>2, <3>3, <3>4
    <2> QED  BY <1>1, <2>1, <2>2
<1>10. StagingMeant'
    <2>1. SUFFICES ASSUME NEW q \in Players, staging'[q] # None
                   PROVE  conn'[q] /\ pending'[q] = staging'[q]
        BY DEF StagingMeant
    <2>2. q # p /\ staging[q] # None /\ staging'[q] = staging[q]
        BY <1>9, <2>1
    <2> QED  BY <1>0, <1>2, <1>5, <2>2 DEF StagingMeant, TypeOK
<1>11. \A q \in Players : staging'[q] # None => staging'[q].port # port'[q]
    BY <1>0, <1>9 DEF PortsApart
<1>12. trunk' \in Levels
    BY <1>0, <1>4, <1>8 DEF TypeOK
<1>13. MediaOK(conn')
    BY <1>8, <1>9, <1>11, <1>12 DEF MediaOK
<1>14. IInv'
    BY <1>0, <1>2, <1>5, <1>6, <1>7, <1>10, <1>13, Rebuilt DEF TypeOK
<1>15. RaisedStep
    <2>1. CASE trunk' = trunk
        BY <1>0, <2>1, SameTrunk
    <2>2. ASSUME NEW q \in Players, conn'[q], trunk' = ask[q] PROVE RaisedStep
        <3>1. conn[q] /\ wanted'[q] = wanted[q] /\ trunk' = Asks(wanted, q)
            BY <1>2, <1>3a, <1>5, <2>2
        <3> QED  BY <1>0, <3>1, AskedRaise
    <2> QED  BY <1>4, <1>8, <2>1, <2>2
<1> QED  BY <1>2, <1>14, <1>15 DEF ToldStep

\* the loss of a viewer,
LEMMA LoseViewerSafe ==
    ASSUME IInv, NEW v \in Viewers, LoseViewer(v)
    PROVE  IInv' /\ ToldStep /\ RaisedStep
<1>0. TypeOK /\ PendingOpen /\ AwayAtBase /\ StagingMeant /\ PortsApart /\ AppliedBelow
    BY DEF IInv, Safe
<1>1. /\ conn' = [conn EXCEPT ![v] = FALSE]
      /\ wanted' = wanted /\ ready' = ready /\ applied' = applied /\ trunk' = trunk
      /\ port' = port /\ staging' = staging /\ pending' = pending
      /\ failures' = failures /\ endpoint' = endpoint
    BY DEF LoseViewer, wishes
<1>2. conn' \in [Clients -> BOOLEAN] /\ \A q \in Players : conn'[q] = conn[q]
    BY <1>0, <1>1, StreamAssumption DEF TypeOK, Clients
<1>3. MediaOK(conn')
    BY <1>0, <1>1, <1>2 DEF MediaOK, TypeOK, AwayAtBase, AppliedBelow, PortsApart
<1>4. PendingOpen' /\ StagingMeant'
    BY <1>0, <1>1, <1>2 DEF PendingOpen, StagingMeant
<1>5. IInv'
    BY <1>0, <1>1, <1>2, <1>3, <1>4, Rebuilt DEF TypeOK
<1> QED  BY <1>0, <1>1, <1>5, SameTrunk DEF ToldStep

\* and a reconnection or a late viewer.
LEMMA JoinSafe ==
    ASSUME IInv, NEW c \in Clients, Join(c)
    PROVE  IInv' /\ ToldStep /\ RaisedStep
<1>0. TypeOK /\ PendingOpen /\ AwayAtBase /\ StagingMeant /\ PortsApart /\ AppliedBelow
    BY DEF IInv, Safe
<1>1. /\ ~conn[c]
      /\ conn' = [conn EXCEPT ![c] = TRUE]
      /\ wanted' = wanted /\ trunk' = trunk /\ port' = port /\ staging' = staging
      /\ pending' = pending
    BY DEF Join
<1>2. conn' \in [Clients -> BOOLEAN] /\ \A q \in Players : q # c => conn'[q] = conn[q]
    BY <1>0, <1>1 DEF TypeOK, Clients
<1>3. /\ ready' \in [Players -> BOOLEAN] /\ failures' \in [Players -> 0 .. GivesUp]
      /\ applied' \in [Players -> Levels] /\ endpoint' \in [Players -> Ports]
      /\ \A q \in Players : /\ failures'[q] = failures[q] \/ q = c
                            /\ applied'[q] = applied[q] \/ (q = c /\ applied'[q] = trunk)
                            /\ endpoint'[q] = endpoint[q] \/ (q = c /\ endpoint'[q] = "base")
    <2>1. CASE c \in Players
        <3>1. /\ applied' = [applied EXCEPT ![c] = trunk]
              /\ ready' = [ready EXCEPT ![c] = FALSE]
              /\ failures' = [failures EXCEPT ![c] = 0]
              /\ endpoint' = [endpoint EXCEPT ![c] = "base"]
            BY <2>1 DEF Join
        <3>2. ready' \in [Players -> BOOLEAN] /\ applied' \in [Players -> Levels]
            BY <1>0, <3>1 DEF TypeOK
        <3>3. endpoint' \in [Players -> Ports]
            BY <1>0, <3>1 DEF TypeOK, Ports
        <3>4. 0 \in 0 .. GivesUp
            BY DEF GivesUp
        <3>5. failures' \in [Players -> 0 .. GivesUp]
            BY <1>0, <3>1, <3>4 DEF TypeOK
        <3>6. \A q \in Players : failures'[q] = failures[q] \/ q = c
            BY <1>0, <3>1 DEF TypeOK
        <3>7. \A q \in Players : applied'[q] = applied[q] \/ (q = c /\ applied'[q] = trunk)
            BY <1>0, <3>1 DEF TypeOK
        <3>8. \A q \in Players : endpoint'[q] = endpoint[q] \/ (q = c /\ endpoint'[q] = "base")
            BY <1>0, <3>1 DEF TypeOK
        <3> QED  BY <3>2, <3>3, <3>5, <3>6, <3>7, <3>8
    <2>2. CASE c \notin Players
        BY <1>0, <2>2 DEF Join, TypeOK
    <2> QED  BY <2>1, <2>2
<1>3a. ASSUME c \in Players PROVE applied'[c] = trunk
    BY <1>0, <1>3a DEF Join, TypeOK
<1>4. PendingOpen'
    <2> SUFFICES ASSUME NEW q \in Players, pending[q] # None
                 PROVE  conn'[q] /\ failures'[q] < GivesUp
        BY <1>1 DEF PendingOpen
    <2>1. conn[q] /\ failures[q] < GivesUp /\ q # c
        BY <1>0, <1>1 DEF PendingOpen
    <2> QED  BY <1>2, <1>3, <2>1
<1>5. StagingMeant'
    <2> SUFFICES ASSUME NEW q \in Players, staging[q] # None
                 PROVE  conn'[q] /\ pending[q] = staging[q]
        BY <1>1 DEF StagingMeant
    <2>1. conn[q] /\ pending[q] = staging[q] /\ q # c
        BY <1>0, <1>1 DEF StagingMeant
    <2> QED  BY <1>2, <2>1
<1>6. \A q \in Players : conn'[q] => applied'[q] <= trunk'
    <2> SUFFICES ASSUME NEW q \in Players, conn'[q]
                 PROVE  applied'[q] <= trunk
        BY <1>1
    <2>1. trunk <= trunk
        BY <1>0, StreamAssumption DEF TypeOK, Levels
    <2>2. CASE q # c
        BY <1>0, <1>2, <1>3, <2>2 DEF AppliedBelow
    <2>3. CASE applied'[q] = trunk
        BY <2>1, <2>3
    <2> QED  BY <1>3, <2>2, <2>3, <1>3a
<1>7. \A q \in Players : ~conn'[q] => port'[q] = "base"
    BY <1>0, <1>1, <1>2 DEF AwayAtBase, TypeOK, Clients
<1>8. MediaOK(conn')
    BY <1>0, <1>1, <1>3, <1>6, <1>7 DEF MediaOK, TypeOK, PortsApart
<1>9. IInv'
    BY <1>0, <1>1, <1>2, <1>3, <1>4, <1>5, <1>8, Rebuilt DEF TypeOK
<1>10. ToldStep
    BY <1>0, <1>1, <1>3 DEF ToldStep, AwayAtBase
<1> QED  BY <1>0, <1>1, <1>9, <1>10, SameTrunk

-----------------------------------------------------------------------------
(* The theorems. *)

\* The invariant holds when the session starts.
LEMMA InitSafe ==
    ASSUME Init
    PROVE  IInv
<1>1. TypeOK
    BY DEF Init, TypeOK, Clients, Ports, GivesUp
<1>2. PendingOpen /\ AwayAtBase /\ StagingMeant /\ PortsApart
    BY DEF Init, PendingOpen, AwayAtBase, StagingMeant, PortsApart, Clients
<1>3. AppliedBelow
    BY StreamAssumption DEF Init, AppliedBelow, Levels
<1> QED  BY <1>1, <1>2, <1>3 DEF IInv, Safe

\* Every step keeps the invariant, tells endpoints that are live and raises the
\* trunk for a player only.
LEMMA StepSafe ==
    ASSUME IInv, [Next]_vars
    PROVE  IInv' /\ (ToldStep \/ UNCHANGED vars) /\ (RaisedStep \/ UNCHANGED vars)
<1>1. CASE UNCHANGED vars
    BY <1>1 DEF vars, IInv, Safe, TypeOK, PendingOpen, AwayAtBase, StagingMeant, PortsApart, AppliedBelow
<1>2. ASSUME NEW p \in Players, NEW want \in Levels \cup {Automatic}, NEW shows \in BOOLEAN,
             Heartbeat(p, want, shows)
      PROVE  IInv' /\ ToldStep /\ RaisedStep
    BY <1>2, HeartbeatSafe
<1>3. ASSUME NEW p \in Players, Ready(p) PROVE IInv' /\ ToldStep /\ RaisedStep
    BY <1>3, ReadySafe
<1>4. ASSUME NEW p \in Players, Refused(p) \/ TimeOut(p) PROVE IInv' /\ ToldStep /\ RaisedStep
    BY <1>4, SettledSafe
<1>5. ASSUME NEW p \in Players, Recover(p) PROVE IInv' /\ ToldStep /\ RaisedStep
    BY <1>5, RecoverSafe
<1>6. ASSUME NEW p \in Players, LosePlayer(p) PROVE IInv' /\ ToldStep /\ RaisedStep
    BY <1>6, LosePlayerSafe
<1>7. ASSUME NEW v \in Viewers, LoseViewer(v) PROVE IInv' /\ ToldStep /\ RaisedStep
    BY <1>7, LoseViewerSafe
<1>8. ASSUME NEW c \in Clients, Join(c) PROVE IInv' /\ ToldStep /\ RaisedStep
    BY <1>8, JoinSafe
<1> QED  BY <1>1, <1>2, <1>3, <1>4, <1>5, <1>6, <1>7, <1>8 DEF Next

\* The invariant of the video control, whatever clients ask and answer.
THEOREM StreamInvariant == Spec => []IInv
<1>1. Init => IInv
    BY InitSafe
<1>2. IInv /\ [Next]_vars => IInv'
    BY StepSafe
<1> QED  BY <1>1, <1>2, PTL DEF Spec

\* Types, for any number of levels.
THEOREM TypeCorrect == Spec => []TypeOK
<1>1. IInv => TypeOK
    BY DEF IInv
<1> QED  BY <1>1, StreamInvariant, PTL

\* No staging encoder outlives its cutover, and one never sends to the port in
\* use.
THEOREM StagingIsOwned == Spec => []StagingOwned
<1>1. IInv => StagingOwned
    BY DEF IInv, Safe, StagingMeant, PortsApart, StagingOwned
<1> QED  BY <1>1, StreamInvariant, PTL

\* Nobody is noted above the trunk.
THEOREM TrunkCovers == Spec => []AppliedBelow
<1>1. IInv => AppliedBelow
    BY DEF IInv, Safe
<1> QED  BY <1>1, StreamInvariant, PTL

\* The trunk goes up only for a connected player that asks for it or waits.
THEOREM RaisesAreAsked == Spec => RaisedForPlayer
<1>1. IInv /\ [Next]_vars => [RaisedStep]_vars
    BY StepSafe
<1> QED  BY <1>1, StreamInvariant, PTL DEF Spec, RaisedForPlayer, RaisedStep

\* An endpoint told anew is the port the video goes to.
THEOREM EndpointsAreLive == Spec => ToldWhereSent
<1>1. IInv /\ [Next]_vars => [ToldStep]_vars
    BY StepSafe
<1> QED  BY <1>1, StreamInvariant, PTL DEF Spec, ToldWhereSent, ToldStep

\* Whoever watches a dead port had an encoder of its own and was laid out at its
\* base port meanwhile.
MisledAtBase == \A p \in Players : conn[p] /\ endpoint[p] # port[p] => port[p] = "base"

\* A layout sends to the base ports.
LEMMA LayoutAtBase ==
    ASSUME NEW p, NEW top, NEW b, Layout(p, top, b)
    PROVE  \A q \in Players : port'[q] = "base"
BY DEF Layout, Relaid

\* A heartbeat leaves every port as it is, or the video goes to the base ports.
LEMMA HeartbeatAtBase ==
    ASSUME NEW p \in Players, NEW want, NEW shows, Heartbeat(p, want, shows)
    PROVE  /\ UNCHANGED <<conn, endpoint>>
           /\ port' = port \/ \A q \in Players : port'[q] = "base"
<1>1. ASSUME NEW ask, Apply(p, ask)
      PROVE  port' = port \/ \A q \in Players : port'[q] = "base"
    BY <1>1, LayoutAtBase DEF Apply, Begin
<1> QED  BY <1>1 DEF Heartbeat

\* Only a layout, for somebody else or for a player itself, misleads a player.
LEMMA StepMisled ==
    ASSUME IInv, MisledAtBase, Next
    PROVE  MisledAtBase'
<1>0. /\ TypeOK /\ AwayAtBase /\ StagingMeant
      /\ Players \subseteq Clients
    BY DEF IInv, Safe, Clients
<1>1. ASSUME \A q \in Players : conn'[q] =>
                 \/ conn[q] /\ port'[q] = port[q] /\ endpoint'[q] = endpoint[q]
                 \/ port'[q] = "base"
                 \/ port'[q] = endpoint'[q]
      PROVE  MisledAtBase'
    BY <1>1 DEF MisledAtBase
<1>2. ASSUME NEW p \in Players, NEW want, NEW shows, Heartbeat(p, want, shows)
      PROVE  MisledAtBase'
    BY <1>1, <1>2, HeartbeatAtBase
<1>3. ASSUME NEW p \in Players, Ready(p)
      PROVE  MisledAtBase'
    <2>1. UNCHANGED conn
        BY <1>3 DEF Ready
    <2>2. CASE \A q \in Players : port'[q] = "base"
        BY <1>1, <2>2
    <2>3. CASE /\ staging[p] # None /\ port' = [port EXCEPT ![p] = staging[p].port]
               /\ endpoint' = [endpoint EXCEPT ![p] = pending[p].port]
        <3>1. pending[p] = staging[p]
            BY <1>0, <2>3 DEF StagingMeant
        <3> QED  BY <1>0, <1>1, <2>1, <2>3, <3>1 DEF TypeOK
    <2> QED  BY <1>3, <2>2, <2>3, LayoutAtBase DEF Ready, Promoted
<1>4. ASSUME NEW p \in Players, Refused(p) \/ TimeOut(p)
      PROVE  MisledAtBase'
    BY <1>1, <1>4 DEF Refused, TimeOut
<1>5. ASSUME NEW p \in Players, Recover(p)
      PROVE  MisledAtBase'
    BY <1>1, <1>5 DEF Recover, Relaid
<1>6. ASSUME NEW p \in Players, LosePlayer(p)
      PROVE  MisledAtBase'
    <2>1. /\ conn' = [conn EXCEPT ![p] = FALSE] /\ UNCHANGED endpoint
          /\ Relaid \/ port' = [port EXCEPT ![p] = "base"]
        BY <1>6 DEF LosePlayer
    <2> QED  BY <1>0, <1>1, <2>1 DEF Relaid, TypeOK
<1>7. ASSUME NEW v \in Viewers, LoseViewer(v)
      PROVE  MisledAtBase'
    <2>1. conn' = [conn EXCEPT ![v] = FALSE] /\ UNCHANGED <<port, endpoint>>
        BY <1>7 DEF LoseViewer
    <2>2. \A q \in Players : conn'[q] => conn[q]
        BY <1>0, <2>1 DEF TypeOK
    <2> QED  BY <1>1, <2>1, <2>2
<1>8. ASSUME NEW c \in Clients, Join(c)
      PROVE  MisledAtBase'
    <2>1. /\ ~conn[c] /\ conn' = [conn EXCEPT ![c] = TRUE] /\ UNCHANGED port
          /\ endpoint' = [endpoint EXCEPT ![c] = "base"] \/ (c \notin Players /\ UNCHANGED endpoint)
        BY <1>8 DEF Join
    <2>2. c \in Players => port'[c] = "base"
        BY <1>0, <2>1 DEF AwayAtBase
    <2>3. \A q \in Players \ {c} : conn'[q] = conn[q] /\ endpoint'[q] = endpoint[q]
        BY <1>0, <2>1 DEF TypeOK
    <2> QED  BY <1>1, <2>1, <2>2, <2>3
<1> QED  BY <1>2, <1>3, <1>4, <1>5, <1>6, <1>7, <1>8 DEF Next

\* A connected player that was told another port than its video goes to is sent its
\* video at its base port: a layout has moved it back there without telling it.  As
\* long as the video of a player goes to its staging port the player was told so.
\* EndpointLive fails in no other way.
THEOREM OnlyLayoutsMislead == Spec => []MisledAtBase
<1>1. Init => MisledAtBase
    BY DEF Init, MisledAtBase
<1>2. IInv /\ MisledAtBase /\ [Next]_vars => MisledAtBase'
    <2>1. UNCHANGED vars /\ MisledAtBase => MisledAtBase'
        BY DEF vars, MisledAtBase
    <2> QED  BY <2>1, StepMisled
<1> QED  BY <1>1, <1>2, StreamInvariant, PTL DEF Spec
=============================================================================
