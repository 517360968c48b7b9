--------------------------- MODULE HostLockProofs ---------------------------
(***************************************************************************)
(* The host implements the lock on save profiles, running sessions keep    *)
(* their seats, and no connection is forgotten, for every set of           *)
(* connections, users and hellos and every bound on the slots.             *)
(*                                                                         *)
(* An admission takes the lock of a profile for a session that never held  *)
(* one: that needs more than the registration of slots, namely that a      *)
(* connection still on its way to the main thread never named a slot.  A   *)
(* join must find its connection in no plan and in no other inbox; and     *)
(* for each stage of a connection there is one place that holds it.        *)
(***************************************************************************)
EXTENDS HostAdmissionProofs

\* Where a connection is before the main thread has handled it.
Fresh == {"new", "lobby", "queued"}

\* What the lobby thread holds is nowhere else, and it holds it once.
HandsOK ==
    /\ lobby.pc \in {"read", "route", "join", "admit", "capacity"} =>
         stage[lobby.conn] = "lobby"
    /\ lobby.pc = "gatherRead" =>
         /\ stage[lobby.target] = "lobby"
         /\ \A i \in DOMAIN lobby.gathered : lobby.gathered[i] # lobby.target
    /\ \A i \in DOMAIN lobby.gathered : stage[lobby.gathered[i]] = "lobby"
    /\ \A i, j \in DOMAIN lobby.gathered : i # j => lobby.gathered[i] # lobby.gathered[j]

\* Every connection of a queued or drained command is queued, in one command.
Apart(q) == \A i, j \in DOMAIN q : i # j => Carried(q[i]) \cap Carried(q[j]) = {}
Waiting(q) == \A i \in DOMAIN q : \A c \in Carried(q[i]) : stage[c] = "queued"
QueueOK ==
    /\ main.pc # "apply" => main.batch = <<>>
    /\ Waiting(queue) /\ Waiting(main.batch)
    /\ Apart(queue) /\ Apart(main.batch)
    /\ \A i \in DOMAIN queue, j \in DOMAIN main.batch :
          Carried(queue[i]) \cap Carried(main.batch[j]) = {}

\* What waits in the inbox of a slot has left the main thread.
InboxOK == \A s \in Conns : \A i \in DOMAIN inbox[s] : stage[inbox[s][i]] \notin Fresh

\* A connection the main thread has not handled names no slot.
FreshOK == \A c \in Conns : stage[c] \in Fresh => phase[c] = "none"

\* A slot that may write has the profile of a user.
ProfileOK == \A s \in Conns : Writing(s) => profile[s] \in Users

PathInv == HandsOK /\ QueueOK /\ InboxOK /\ FreshOK /\ ProfileOK
-----------------------------------------------------------------------------
(* What keeps each part. *)

\* The carried connections of a command are connections.
LEMMA CarriedType == ASSUME NEW cmd \in Commands PROVE Carried(cmd) \subseteq Conns
<1>1. CASE cmd.kind = "StartSession"
    <2>1. cmd.clients \in Seq(Conns)
        BY <1>1 DEF Commands
    <2> QED  BY <1>1, <2>1, ToSetType DEF Carried
<1>2. CASE cmd.kind # "StartSession"
    BY <1>2 DEF Commands, Carried
<1> QED  BY <1>1, <1>2

\* The lobby thread keeps its hold while nobody else gives its connections away.
LEMMA HandsKept ==
    ASSUME TypeOK, HandsOK, UNCHANGED lobby,
           \A c \in Conns : stage[c] = "lobby" => stage'[c] = "lobby"
    PROVE  HandsOK'
BY DEF HandsOK, TypeOK

\* With nothing in hand there is nothing to hold.
LEMMA HandsEmpty ==
    ASSUME lobby'.pc \in {"accept", "down"}, lobby'.gathered = <<>>
    PROVE  HandsOK'
BY DEF HandsOK

\* A list of commands keeps waiting while its connections do.
LEMMA WaitingKept ==
    ASSUME NEW q \in Seq(Commands), Waiting(q),
           \A c \in Conns : stage[c] = "queued" => stage'[c] = "queued"
    PROVE  \A i \in DOMAIN q : \A c \in Carried(q[i]) : stage'[c] = "queued"
<1>1. \A i \in DOMAIN q : Carried(q[i]) \subseteq Conns
    BY CarriedType
<1> QED  BY <1>1 DEF Waiting

\* The queues keep their order and their connections while neither moves.
LEMMA QueueKept ==
    ASSUME TypeOK, QueueOK, UNCHANGED <<queue, main>>,
           \A c \in Conns : stage[c] = "queued" => stage'[c] = "queued"
    PROVE  QueueOK'
<1>1. queue \in Seq(Commands) /\ main.batch \in Seq(Commands)
    BY DEF TypeOK
<1>2. Waiting(queue)' /\ Waiting(main.batch)'
    BY <1>1, WaitingKept DEF QueueOK, Waiting
<1> QED  BY <1>2 DEF QueueOK, Apart

\* What is past the main thread stays past it.
LEMMA InboxKept ==
    ASSUME TypeOK, InboxOK,
           \A s \in Conns : inbox'[s] = inbox[s] \/ inbox'[s] = <<>>,
           \A c \in Conns : stage[c] \notin Fresh => stage'[c] \notin Fresh
    PROVE  InboxOK'
<1>1. \A s \in Conns : \A i \in DOMAIN inbox[s] : inbox[s][i] \in Conns
    BY DEF TypeOK
<1> QED  BY <1>1 DEF InboxOK

\* A connection that names no slot on its way goes on naming none.
LEMMA FreshKept ==
    ASSUME FreshOK,
           \A c \in Conns : stage[c] \notin Fresh => stage'[c] \notin Fresh,
           \A c \in Conns : stage'[c] \in Fresh => phase'[c] = phase[c]
    PROVE  FreshOK'
BY DEF FreshOK

-----------------------------------------------------------------------------
(* The lobby thread. *)

\* Every step of the lobby thread moves connections it has just accepted or has
\* in hand, and nothing else of the path.
LEMMA LobbyMoves ==
    ASSUME TypeOK, HandsOK,
           \/ LobbyStep \/ ClientSpeaks
           \/ \E c \in Conns : Accept(c) \/ GatherAccept(c)
           \/ \E i \in 1..MaxSlots : GatherKick(i)
    PROVE  /\ UNCHANGED <<main, inbox, phase, profile>>
           /\ \A c \in Conns : stage'[c] = stage[c] \/ stage[c] \in {"new", "lobby"}
<1> DEFINE Moves == \A c \in Conns : stage'[c] = stage[c] \/ stage[c] \in {"new", "lobby"}
<1>1. UNCHANGED <<main, inbox, phase, profile>>
    BY DEF LobbyStep, ClientSpeaks, Accept, GatherAccept, GatherKick, Route,
       EnqueueJoin, AdmitMode, AdmitSingle, GatherEnd, EnqueueStart, LobbyExit,
       ReadOther, GatherReadOther, ReadHello, GatherReadHello
<1>2. ASSUME NEW S, NEW o, LobbyDrops(S, o), \A c \in S : stage[c] = "lobby" PROVE Moves
    BY <1>2 DEF LobbyDrops, Put, TypeOK
<1>3. ASSUME UNCHANGED stage PROVE Moves
    BY <1>3
<1>4. \A c \in ToSet(lobby.gathered) : stage[c] = "lobby"
    BY DEF HandsOK, ToSet
<1>5. ASSUME NEW c \in Conns, Accept(c) \/ GatherAccept(c) PROVE Moves
    BY <1>5 DEF Accept, GatherAccept, TypeOK
<1>6. ASSUME NEW i \in 1..MaxSlots, GatherKick(i) PROVE Moves
    BY <1>6 DEF GatherKick, HandsOK, TypeOK
<1>7. ASSUME ReadOther \/ EnqueueJoin PROVE Moves
    BY <1>2, <1>7 DEF ReadOther, EnqueueJoin, HandsOK
<1>8. ASSUME GatherReadOther PROVE Moves
    BY <1>8 DEF GatherReadOther, HandsOK, TypeOK
<1>9. ASSUME NEW h \in Hellos, ReadHello(h) PROVE Moves
    BY <1>3, <1>9 DEF ReadHello
<1>10. ASSUME NEW h \in Hellos, GatherReadHello(h), ~UNCHANGED stage PROVE Moves
    <2>1. LobbyDrops(ToSet(Append(lobby.gathered, lobby.target)), "error")
        BY <1>10 DEF GatherReadHello
    <2>2. lobby.gathered \in Seq(Conns) /\ stage[lobby.target] = "lobby"
        BY <1>10 DEF GatherReadHello, HandsOK, TypeOK
    <2>3. \A c \in ToSet(Append(lobby.gathered, lobby.target)) : stage[c] = "lobby"
        BY <2>2, <1>4 DEF ToSet
    <2> QED  BY <1>2, <2>1, <2>3
<1>11. ASSUME Route \/ AdmitMode \/ AdmitSingle, ~UNCHANGED stage PROVE Moves
    <2>1. lobby.pc \in {"route", "admit", "capacity"}
        BY <1>11 DEF Route, AdmitMode, AdmitSingle
    <2>2. PICK o \in Stages : LobbyDrops({lobby.conn}, o)
        BY <1>11 DEF Route, AdmitMode, AdmitSingle, Stages
    <2> QED  BY <1>2, <2>1, <2>2 DEF HandsOK
<1>12. ASSUME GatherEnd \/ EnqueueStart, ~UNCHANGED stage PROVE Moves
    <2>1. PICK o \in Stages : LobbyDrops(ToSet(lobby.gathered), o)
        BY <1>12 DEF GatherEnd, EnqueueStart, Stages
    <2> QED  BY <1>2, <1>4, <2>1
<1>13. ASSUME LobbyExit PROVE Moves
    BY <1>3, <1>13 DEF LobbyExit
<1> QED
    BY <1>1, <1>3, <1>5, <1>6, <1>7, <1>8, <1>9, <1>10, <1>11, <1>12, <1>13
    DEF LobbyStep, ClientSpeaks

\* Taking one element out of a list leaves the others, each once.
LEMMA RemoveAtOnce ==
    ASSUME NEW D, NEW q \in Seq(D), NEW i \in DOMAIN q,
           \A j, k \in DOMAIN q : j # k => q[j] # q[k]
    PROVE  /\ \A j \in DOMAIN RemoveAt(q, i) :
                 /\ RemoveAt(q, i)[j] # q[i]
                 /\ \E k \in DOMAIN q : RemoveAt(q, i)[j] = q[k]
           /\ \A j, k \in DOMAIN RemoveAt(q, i) :
                 j # k => RemoveAt(q, i)[j] # RemoveAt(q, i)[k]
           /\ \A k \in DOMAIN q \ {i} : \E j \in DOMAIN RemoveAt(q, i) : RemoveAt(q, i)[j] = q[k]
<1> DEFINE r == RemoveAt(q, i)
           at(j) == IF j < i THEN j ELSE j + 1
<1>1. r = SubSeq(q, 1, i - 1) \o SubSeq(q, i + 1, Len(q))
    BY DEF RemoveAt
<1>2. /\ Len(SubSeq(q, 1, i - 1)) = i - 1
      /\ Len(SubSeq(q, i + 1, Len(q))) = Len(q) - i
    OBVIOUS
<1>3. DOMAIN r = 1..(Len(q) - 1)
    BY <1>1, <1>2
<1>4. \A j \in DOMAIN r : r[j] = q[at(j)] /\ at(j) \in DOMAIN q /\ at(j) # i
    <2> DEFINE a == SubSeq(q, 1, i - 1)
               b == SubSeq(q, i + 1, Len(q))
    <2>1. /\ a \in Seq(D) /\ b \in Seq(D)
          /\ \A j \in 1 .. i - 1 : a[j] = q[j]
          /\ \A j \in 1 .. Len(q) - i : b[j] = q[i + j]
        OBVIOUS
    <2>2. /\ Len(q) \in Nat /\ i \in 1 .. Len(q) /\ DOMAIN q = 1 .. Len(q)
          /\ Len(a) = i - 1 /\ Len(b) = Len(q) - i /\ r = a \o b
        BY <1>1, <1>2
    <2> HIDE DEF a, b, r
    <2> TAKE j \in DOMAIN r
    <2>3. j \in 1 .. Len(q) - 1
        BY <1>3
    <2>4. r[j] = IF j <= Len(a) THEN a[j] ELSE b[j - Len(a)]
        BY <2>1, <2>2, <2>3
    <2>5. CASE j < i
        BY <2>1, <2>2, <2>3, <2>4, <2>5
    <2>6. CASE ~(j < i)
        <3>1. j - (i - 1) \in 1 .. Len(q) - i /\ i + (j - (i - 1)) = j + 1
            BY <2>2, <2>3, <2>6
        <3>2. r[j] = b[j - (i - 1)]
            BY <2>2, <2>3, <2>4, <2>6
        <3>3. b[j - (i - 1)] = q[i + (j - (i - 1))]
            BY <2>1, <3>1
        <3>4. r[j] = q[j + 1]
            BY <3>1, <3>2, <3>3
        <3>5. j + 1 \in 1 .. Len(q) /\ j + 1 # i
            BY <2>2, <2>3, <2>6
        <3> QED  BY <2>2, <2>6, <3>4, <3>5
    <2> QED  BY <2>5, <2>6
<1> HIDE DEF r
<1>5. \A j, k \in DOMAIN r : j # k => at(j) # at(k)
    BY <1>3
<1>6. ASSUME NEW k \in DOMAIN q \ {i}
      PROVE  \E j \in DOMAIN r : at(j) = k
    <2>1. k \in 1 .. Len(q) /\ i \in 1 .. Len(q)
        OBVIOUS
    <2> DEFINE j == IF k < i THEN k ELSE k - 1
    <2>2. j \in DOMAIN r /\ at(j) = k
        BY <1>3, <2>1
    <2> QED  BY <2>2
<1>7. \A k \in DOMAIN q \ {i} : \E j \in DOMAIN r : r[j] = q[k]
    BY <1>4, <1>6
<1> QED  BY <1>4, <1>5, <1>7 DEF r

\* The lobby thread never has a connection twice, nor one that has left it.
LEMMA LobbyHands ==
    ASSUME TypeOK, HandsOK,
           \/ LobbyStep \/ ClientSpeaks
           \/ \E c \in Conns : Accept(c) \/ GatherAccept(c)
           \/ \E i \in 1..MaxSlots : GatherKick(i)
    PROVE  HandsOK'
<1> USE HostAssumption DEF HostAssumption
<1>1. ASSUME lobby' = Idle PROVE HandsOK'
    BY <1>1, HandsEmpty DEF Idle
<1>2. ASSUME NEW c \in Conns, Accept(c) PROVE HandsOK'
    <2>1. lobby' = [pc |-> "read", conn |-> c, target |-> None, gathered |-> <<>>]
        BY <1>2 DEF Accept, Idle
    <2>2. stage'[c] = "lobby"
        BY <1>2 DEF Accept, TypeOK
    <2> QED  BY <2>1, <2>2 DEF HandsOK
<1>3. ASSUME NEW c \in Conns, GatherAccept(c) PROVE HandsOK'
    <2>1. /\ lobby'.pc = "gatherRead" /\ lobby'.target = c
          /\ lobby'.gathered = lobby.gathered
        BY <1>3 DEF GatherAccept, TypeOK
    <2>2. stage[c] = "new" /\ stage' = [stage EXCEPT ![c] = "lobby"]
        BY <1>3 DEF GatherAccept
    <2>3. lobby.gathered \in Seq(Conns)
        BY DEF TypeOK
    <2> QED  BY <2>1, <2>2, <2>3 DEF HandsOK, TypeOK
<1>4. ASSUME NEW i \in 1..MaxSlots, GatherKick(i) PROVE HandsOK'
    <2> DEFINE r == RemoveAt(lobby.gathered, i)
    <2>1. lobby.gathered \in Seq(Conns) /\ i \in DOMAIN lobby.gathered
        BY <1>4 DEF GatherKick, TypeOK
    <2>2. /\ \A j \in DOMAIN r : /\ r[j] # lobby.gathered[i]
                                 /\ \E k \in DOMAIN lobby.gathered : r[j] = lobby.gathered[k]
          /\ \A j, k \in DOMAIN r : j # k => r[j] # r[k]
        BY <2>1, RemoveAtOnce DEF HandsOK
    <2>3. lobby'.pc = "gather" /\ lobby'.gathered = r
        BY <1>4 DEF GatherKick, TypeOK
    <2>4. stage' = [stage EXCEPT ![lobby.gathered[i]] = "closed"]
        BY <1>4 DEF GatherKick
    <2> HIDE DEF r
    <2>5. \A j \in DOMAIN r : stage'[r[j]] = "lobby"
        BY <2>1, <2>2, <2>4 DEF HandsOK, TypeOK
    <2> QED  BY <2>2, <2>3, <2>5 DEF HandsOK
<1>5. ASSUME GatherReadOther PROVE HandsOK'
    <2>1. lobby'.pc = "gather" /\ lobby'.gathered = lobby.gathered
        BY <1>5 DEF GatherReadOther, TypeOK
    <2>2. lobby.pc = "gatherRead" /\ stage' = [stage EXCEPT ![lobby.target] = "closed"]
        BY <1>5 DEF GatherReadOther
    <2>3. lobby.gathered \in Seq(Conns) /\ lobby.target \in Conns
        BY <2>2 DEF TypeOK
    <2> QED  BY <2>1, <2>2, <2>3 DEF HandsOK, TypeOK
<1>6. ASSUME NEW h \in Hellos, ReadHello(h) PROVE HandsOK'
    BY <1>6 DEF ReadHello, HandsOK, TypeOK
<1>7. ASSUME NEW h \in Hellos, GatherReadHello(h), lobby' # Idle PROVE HandsOK'
    <2> DEFINE all == Append(lobby.gathered, lobby.target)
    <2>1. lobby' = [lobby EXCEPT !.pc = "gather", !.target = None, !.gathered = all]
          /\ UNCHANGED stage
        BY <1>7 DEF GatherReadHello, LobbyDrops
    <2>2. lobby'.pc = "gather" /\ lobby'.gathered = all
        BY <2>1 DEF TypeOK
    <2>3. lobby.gathered \in Seq(Conns) /\ lobby.target \in Conns /\ lobby.pc = "gatherRead"
        BY <1>7 DEF GatherReadHello, TypeOK
    <2>4. \A j \in DOMAIN all : \/ j \in DOMAIN lobby.gathered /\ all[j] = lobby.gathered[j]
                                \/ j = Len(lobby.gathered) + 1 /\ all[j] = lobby.target
        BY <2>3
    <2> HIDE DEF all
    <2>5. /\ \A j \in DOMAIN all : stage[all[j]] = "lobby"
          /\ \A j, k \in DOMAIN all : j # k => all[j] # all[k]
        BY <2>3, <2>4 DEF HandsOK
    <2> QED  BY <2>1, <2>2, <2>5 DEF HandsOK
<1>8. ASSUME Route, lobby' # Idle PROVE HandsOK'
    <2>1. UNCHANGED stage /\ lobby.pc = "route"
        BY <1>8 DEF Route, LobbyDrops
    <2>2. \/ \E s : lobby' = [lobby EXCEPT !.pc = "join", !.target = s]
          \/ lobby' = [lobby EXCEPT !.pc = "admit"]
        BY <1>8 DEF Route, LobbyDrops
    <2>3. /\ lobby'.pc \in {"join", "admit"} /\ lobby'.conn = lobby.conn
          /\ lobby'.gathered = lobby.gathered
        BY <2>2 DEF TypeOK
    <2> QED  BY <2>1, <2>3 DEF HandsOK
<1>9. ASSUME AdmitMode, lobby' # Idle PROVE HandsOK'
    <2>1. UNCHANGED stage /\ lobby.pc = "admit"
        BY <1>9 DEF AdmitMode, LobbyDrops
    <2>2. /\ lobby'.pc \in {"gather", "capacity"} /\ lobby'.conn = lobby.conn
          /\ lobby'.gathered = <<lobby.conn>>
        BY <1>9 DEF AdmitMode, LobbyDrops, TypeOK
    <2> QED  BY <2>1, <2>2 DEF HandsOK
<1>10. ASSUME AdmitSingle \/ GatherEnd, lobby' # Idle PROVE HandsOK'
    <2>1. UNCHANGED stage /\ lobby' = [lobby EXCEPT !.pc = "start"]
        BY <1>10 DEF AdmitSingle, GatherEnd, LobbyDrops
    <2>2. lobby'.pc = "start" /\ lobby'.gathered = lobby.gathered
        BY <2>1 DEF TypeOK
    <2> QED  BY <2>1, <2>2 DEF HandsOK
<1>11. ASSUME LobbyExit PROVE HandsOK'
    BY <1>11, HandsEmpty DEF LobbyExit, Idle
<1>12. ReadOther \/ EnqueueJoin \/ EnqueueStart => lobby' = Idle
    BY DEF ReadOther, EnqueueJoin, EnqueueStart, LobbyDrops
<1> QED
    BY <1>1, <1>2, <1>3, <1>4, <1>5, <1>6, <1>7, <1>8, <1>9, <1>10, <1>11, <1>12
    DEF LobbyStep, ClientSpeaks

\* A command put in the queue takes along what the lobby thread had in hand.
LEMMA QueueGrows ==
    ASSUME TypeOK, QueueOK, UNCHANGED main,
           NEW cmd \in Commands, queue' = Append(queue, cmd),
           \A c \in Carried(cmd) : stage[c] = "lobby" /\ stage'[c] = "queued",
           \A c \in Conns : stage[c] = "queued" => stage'[c] = "queued"
    PROVE  QueueOK'
<1>1. queue \in Seq(Commands) /\ main.batch \in Seq(Commands)
    BY DEF TypeOK
<1>2. /\ DOMAIN queue' = DOMAIN queue \cup {Len(queue) + 1}
      /\ Len(queue) + 1 \notin DOMAIN queue
      /\ queue'[Len(queue) + 1] = cmd
      /\ \A i \in DOMAIN queue : queue'[i] = queue[i]
    BY <1>1
<1>3. /\ \A i \in DOMAIN queue : Carried(queue[i]) \cap Carried(cmd) = {}
      /\ \A i \in DOMAIN main.batch : Carried(main.batch[i]) \cap Carried(cmd) = {}
    BY DEF QueueOK, Waiting
<1>4. /\ \A i \in DOMAIN queue : \A c \in Carried(queue[i]) : stage'[c] = "queued"
      /\ \A i \in DOMAIN main.batch : \A c \in Carried(main.batch[i]) : stage'[c] = "queued"
    BY <1>1, WaitingKept DEF QueueOK
<1>5. Waiting(queue)' /\ Waiting(main.batch)'
    BY <1>2, <1>4 DEF Waiting
<1>6. Apart(queue)' /\ Apart(main.batch)'
    <2>1. Apart(queue) /\ Apart(main.batch)
        BY DEF QueueOK
    <2>2. ASSUME NEW i \in DOMAIN queue', NEW j \in DOMAIN queue', i # j
          PROVE  Carried(queue'[i]) \cap Carried(queue'[j]) = {}
        <3>1. CASE i \in DOMAIN queue /\ j \in DOMAIN queue
            BY <1>2, <2>1, <2>2, <3>1 DEF Apart
        <3>2. CASE i \in DOMAIN queue /\ j = Len(queue) + 1
            BY <1>2, <1>3, <3>2
        <3>3. CASE i = Len(queue) + 1 /\ j \in DOMAIN queue
            BY <1>2, <1>3, <3>3
        <3> QED  BY <1>2, <2>2, <3>1, <3>2, <3>3
    <2> QED  BY <2>1, <2>2 DEF Apart
<1>7. \A i \in DOMAIN queue', j \in DOMAIN main.batch :
          Carried(queue'[i]) \cap Carried(main.batch[j]) = {}
    BY <1>2, <1>3 DEF QueueOK
<1> QED  BY <1>5, <1>6, <1>7 DEF QueueOK

\* Every step of the lobby thread keeps the path of the connections.
LEMMA LobbyPath ==
    ASSUME TypeOK, HelloKnown, PathInv,
           \/ LobbyStep \/ ClientSpeaks
           \/ \E c \in Conns : Accept(c) \/ GatherAccept(c)
           \/ \E i \in 1..MaxSlots : GatherKick(i)
    PROVE  PathInv'
<1> USE HostAssumption DEF HostAssumption
<1>1. /\ UNCHANGED <<main, inbox, phase, profile>>
      /\ \A c \in Conns : stage'[c] = stage[c] \/ stage[c] \in {"new", "lobby"}
    BY LobbyMoves DEF PathInv
<1>2. HandsOK'
    BY LobbyHands DEF PathInv
<1>3. \A c \in Conns : stage[c] \notin Fresh => stage'[c] \notin Fresh
    BY <1>1 DEF Fresh
<1>4. InboxOK' /\ FreshOK'
    BY <1>1, <1>3, InboxKept, FreshKept DEF PathInv
<1>5. ProfileOK'
    BY <1>1 DEF PathInv, ProfileOK, Writing
<1>6. \A c \in Conns : stage[c] = "queued" => stage'[c] = "queued"
    BY <1>1
<1>7. CASE UNCHANGED queue
    BY <1>1, <1>2, <1>4, <1>5, <1>6, <1>7, QueueKept DEF PathInv
<1>8. CASE EnqueueJoin
    <2> DEFINE cmd == [kind |-> "EnqueueJoin", conn |-> lobby.conn, slot |-> lobby.target]
    <2>1. cmd \in Commands
        BY <1>8 DEF EnqueueJoin, TypeOK, Commands
    <2>2. queue' = Append(queue, cmd)
        BY <1>8 DEF EnqueueJoin
    <2>3. Carried(cmd) = {lobby.conn}
        BY DEF Carried
    <2>4. stage[lobby.conn] = "lobby" /\ lobby.conn \in Conns
        BY <1>8 DEF EnqueueJoin, PathInv, HandsOK, TypeOK
    <2>5. stage'[lobby.conn] = "queued"
        BY <1>8, <2>4 DEF EnqueueJoin, LobbyDrops, Put, TypeOK
    <2> HIDE DEF cmd
    <2>6. QueueOK'
        BY <1>1, <1>6, <2>1, <2>2, <2>3, <2>4, <2>5, QueueGrows DEF PathInv
    <2> QED  BY <1>2, <1>4, <1>5, <2>6 DEF PathInv
<1>9. CASE EnqueueStart
    <2>1. PICK i \in DOMAIN lobby.gathered :
             /\ hello[lobby.gathered[i]].seats > 0
             /\ queue' = Append(queue, [kind |-> "StartSession", clients |-> lobby.gathered,
                                        user |-> SaveUser(lobby.gathered, i)])
        BY <1>9 DEF EnqueueStart
    <2> DEFINE cmd == [kind |-> "StartSession", clients |-> lobby.gathered,
                       user |-> SaveUser(lobby.gathered, i)]
    <2>2. lobby.gathered \in Seq(Conns) /\ lobby.gathered # <<>>
        BY <2>1 DEF TypeOK
    <2>3. SaveUser(lobby.gathered, i) \in Users
        BY <2>1 DEF SaveUser, HelloKnown
    <2>4. cmd \in Commands
        BY <2>2, <2>3 DEF Commands
    <2>5. Carried(cmd) = ToSet(lobby.gathered)
        BY DEF Carried
    <2>6. \A c \in ToSet(lobby.gathered) : c \in Conns /\ stage[c] = "lobby"
        BY <2>2 DEF PathInv, HandsOK, ToSet
    <2>7. \A c \in ToSet(lobby.gathered) : stage'[c] = "queued"
        BY <1>9, <2>6 DEF EnqueueStart, LobbyDrops, Put, TypeOK
    <2>8. queue' = Append(queue, cmd)
        BY <2>1
    <2> HIDE DEF cmd
    <2>9. QueueOK'
        BY <1>1, <1>6, <2>4, <2>5, <2>6, <2>7, <2>8, QueueGrows DEF PathInv
    <2> QED  BY <1>2, <1>4, <1>5, <2>9 DEF PathInv
<1>10. UNCHANGED queue \/ EnqueueJoin \/ EnqueueStart
    BY DEF LobbyStep, ClientSpeaks, Accept, GatherAccept, GatherKick, Route, AdmitMode,
       AdmitSingle, GatherEnd, LobbyExit, ReadOther, GatherReadOther, ReadHello,
       GatherReadHello
<1> QED  BY <1>7, <1>8, <1>9, <1>10
-----------------------------------------------------------------------------
(* The main thread. *)

\* What an inbox holds is past the main thread, so closing it does not matter to
\* the lobby thread and the queues.
LEMMA UnansweredPast ==
    ASSUME TypeOK, InboxOK, NEW dead \in SUBSET Conns
    PROVE  \A c \in Unanswered(dead) : c \in Conns /\ stage[c] \notin Fresh
<1> SUFFICES ASSUME NEW s \in dead, NEW c \in ToSet(inbox[s])
             PROVE  c \in Conns /\ stage[c] \notin Fresh
    BY DEF Unanswered
<1>1. PICK i \in DOMAIN inbox[s] : inbox[s][i] = c
    BY DEF ToSet
<1> QED  BY <1>1 DEF InboxOK, TypeOK

\* Applying a command takes its connections out of the batch.
LEMMA QueueShrinks ==
    ASSUME TypeOK, QueueOK, UNCHANGED queue, main.pc = "apply", main.batch # <<>>,
           main' = [main EXCEPT !.batch = Tail(@)],
           \A c \in Conns \ Carried(Head(main.batch)) :
              stage[c] = "queued" => stage'[c] = "queued"
    PROVE  QueueOK'
<1>1. queue \in Seq(Commands) /\ main.batch \in Seq(Commands)
    BY DEF TypeOK
<1>2. main'.pc = "apply" /\ main'.batch = Tail(main.batch)
    BY DEF TypeOK
<1> DEFINE rest == Tail(main.batch)
<1>3. /\ 1 \in DOMAIN main.batch /\ Head(main.batch) = main.batch[1]
      /\ \A i \in DOMAIN rest : i + 1 \in DOMAIN main.batch /\ rest[i] = main.batch[i + 1]
                                /\ i + 1 # 1
    BY <1>1
<1>4. \A i, j \in DOMAIN rest : i # j => i + 1 # j + 1
    BY <1>1
<1> HIDE DEF rest
<1>5. /\ \A i \in DOMAIN rest : Carried(rest[i]) \cap Carried(Head(main.batch)) = {}
      /\ \A i \in DOMAIN queue : Carried(queue[i]) \cap Carried(Head(main.batch)) = {}
    BY <1>3 DEF QueueOK, Apart
<1>6. /\ \A i \in DOMAIN rest : Carried(rest[i]) \subseteq Conns
      /\ \A i \in DOMAIN queue : Carried(queue[i]) \subseteq Conns
    BY <1>1, <1>3, CarriedType
<1>7. Waiting(queue)' /\ Waiting(main.batch)'
    <2>1. \A i \in DOMAIN queue : \A c \in Carried(queue[i]) : stage'[c] = "queued"
        BY <1>5, <1>6 DEF QueueOK, Waiting
    <2>2. \A i \in DOMAIN rest : \A c \in Carried(rest[i]) : stage'[c] = "queued"
        BY <1>3, <1>5, <1>6 DEF QueueOK, Waiting
    <2> QED  BY <1>2, <2>1, <2>2 DEF Waiting, rest
<1>8. Apart(queue)' /\ Apart(main.batch)'
    <2>1. \A i, j \in DOMAIN rest : i # j => Carried(rest[i]) \cap Carried(rest[j]) = {}
        <3>1. Apart(main.batch)
            BY DEF QueueOK
        <3> TAKE i, j \in DOMAIN rest
        <3> HAVE i # j
        <3>2. i + 1 \in DOMAIN main.batch /\ j + 1 \in DOMAIN main.batch /\ i + 1 # j + 1
            BY <1>3, <1>4
        <3>3. Carried(main.batch[i + 1]) \cap Carried(main.batch[j + 1]) = {}
            BY <3>1, <3>2 DEF Apart
        <3> QED  BY <1>3, <3>3
    <2>2. main'.batch = rest
        BY <1>2 DEF rest
    <2> QED  BY <2>1, <2>2 DEF Apart, QueueOK
<1>9. \A i \in DOMAIN queue, j \in DOMAIN rest : Carried(queue[i]) \cap Carried(rest[j]) = {}
    BY <1>3 DEF QueueOK
<1> QED  BY <1>2, <1>7, <1>8, <1>9 DEF QueueOK, rest

\* The command at the head of the batch.
LEMMA HeadCommand ==
    ASSUME TypeOK, QueueOK, main.batch # <<>>
    PROVE  /\ Head(main.batch) \in Commands
           /\ Carried(Head(main.batch)) \subseteq Conns
           /\ \A c \in Carried(Head(main.batch)) : stage[c] = "queued"
<1>1. main.batch \in Seq(Commands)
    BY DEF TypeOK
<1>2. Head(main.batch) \in Commands /\ 1 \in DOMAIN main.batch /\ Head(main.batch) = main.batch[1]
    BY <1>1
<1> QED  BY <1>2, CarriedType DEF QueueOK, Waiting

\* Destroying finished slots keeps the path of everything else.
LEMMA DestroyKeeps ==
    ASSUME TypeOK, PathInv, NEW dead \in SUBSET Conns, \A d \in dead : Finished(d),
           phase' = Put(phase, dead, "erased"), EmptyInboxes(dead), UNCHANGED profile,
           \A c \in Conns : stage[c] \notin Fresh => stage'[c] \notin Fresh
    PROVE  InboxOK' /\ FreshOK' /\ ProfileOK'
<1>1. \A s \in Conns : inbox'[s] = inbox[s] \/ inbox'[s] = <<>>
    BY DEF EmptyInboxes
<1>2. \A s \in Conns : phase'[s] = IF s \in dead THEN "erased" ELSE phase[s]
    BY DEF Put, TypeOK
<1>3. \A d \in dead : stage'[d] \notin Fresh
    BY DEF Finished, PathInv, FreshOK
<1>4. InboxOK' /\ FreshOK'
    BY <1>1, <1>2, <1>3, InboxKept, FreshKept DEF PathInv
<1>5. ProfileOK'
    BY <1>2 DEF PathInv, ProfileOK, Writing
<1> QED  BY <1>4, <1>5

\* Every step of the main thread takes connections out of its queues for good.
LEMMA MainPath ==
    ASSUME TypeOK, PathInv, MainStep
    PROVE  PathInv'
<1> USE HostAssumption DEF HostAssumption
<1> DEFINE cmd == Head(main.batch)
           dead == {d \in managed : Finished(d)}
<1>1. UNCHANGED lobby
    BY DEF MainStep, Drain, ApplyStart, ApplyJoin, Reap, StopTicking, JoinLobby, JoinSlots
<1>2. dead \in SUBSET Conns /\ \A d \in dead : Finished(d)
    BY DEF TypeOK
<1>3. \A c \in Unanswered(dead) : c \in Conns /\ stage[c] \notin Fresh
    BY <1>2, UnansweredPast DEF PathInv
<1>4. CASE Drain
    <2>1. main.pc = "tick" /\ main' = [pc |-> "apply", batch |-> queue] /\ queue' = <<>>
          /\ UNCHANGED <<stage, inbox, phase, profile>>
        BY <1>4 DEF Drain
    <2>2. QueueOK'
        BY <2>1 DEF PathInv, QueueOK, Waiting, Apart
    <2> QED
        BY <1>1, <2>1, <2>2 DEF PathInv, HandsOK, InboxOK, FreshOK, ProfileOK, Writing
<1>5. CASE ApplyStart
    <2> DEFINE s == Head(cmd.clients)
               cs == ToSet(cmd.clients)
               gone == Unanswered(dead)
    <2>1. /\ main.pc = "apply" /\ main.batch # <<>> /\ cmd.kind = "StartSession"
          /\ main' = [main EXCEPT !.batch = Tail(@)] /\ UNCHANGED queue
          /\ EmptyInboxes(dead)
        BY <1>5 DEF ApplyStart
    <2>2. /\ cmd \in Commands /\ Carried(cmd) = cs /\ cs \subseteq Conns
          /\ \A c \in cs : stage[c] = "queued"
        BY <2>1, HeadCommand DEF PathInv, Carried
    <2>3. s \in cs /\ cmd.user \in Users
        <3>1. cmd.clients \in Seq(Conns) \ {<<>>} /\ cmd.user \in Users
            BY <2>1, <2>2 DEF Commands
        <3>2. 1 \in DOMAIN cmd.clients /\ s = cmd.clients[1]
            BY <3>1
        <3> QED  BY <3>1, <3>2 DEF ToSet
    <2> HIDE DEF s, cs, gone, cmd
    <2>4. ASSUME NEW a \in Stages, a \notin Fresh,
                 \A c \in Conns : stage'[c] = IF c \in cs THEN a
                                              ELSE IF c \in gone THEN "closed" ELSE stage[c]
          PROVE  /\ \A c \in Conns : stage[c] \notin Fresh => stage'[c] \notin Fresh
                 /\ \A c \in cs : stage'[c] \notin Fresh
                 /\ HandsOK' /\ QueueOK'
        <3>1. \A c \in Conns : stage[c] \notin Fresh => stage'[c] \notin Fresh
            BY <2>4 DEF Fresh
        <3>2. \A c \in cs : stage'[c] \notin Fresh
            BY <2>2, <2>4
        <3>3. \A c \in Conns : stage[c] = "lobby" => stage'[c] = "lobby"
            BY <1>3, <2>2, <2>4 DEF Fresh, gone
        <3>4. \A c \in Conns \ cs : stage[c] = "queued" => stage'[c] = "queued"
            BY <1>3, <2>4 DEF Fresh, gone
        <3>5. HandsOK'
            BY <1>1, <3>3, HandsKept DEF PathInv
        <3>6. QueueOK'
            BY <2>1, <2>2, <3>4, QueueShrinks DEF PathInv, cmd
        <3> QED  BY <3>1, <3>2, <3>5, <3>6
    <2>5. CASE /\ phase' = Put(phase, dead, "erased")
               /\ stage' = Put(stage, gone \cup cs, "closed")
               /\ UNCHANGED profile
        <3>1. \A c \in Conns : stage'[c] = IF c \in cs THEN "closed"
                                           ELSE IF c \in gone THEN "closed" ELSE stage[c]
            BY <2>5 DEF Put, TypeOK
        <3>2. /\ \A c \in Conns : stage[c] \notin Fresh => stage'[c] \notin Fresh
              /\ HandsOK' /\ QueueOK'
            BY <2>4, <3>1 DEF Stages, Fresh
        <3>3. InboxOK' /\ FreshOK' /\ ProfileOK'
            BY <1>2, <2>1, <2>5, <3>2, DestroyKeeps
        <3> QED  BY <3>2, <3>3 DEF PathInv
    <2>6. CASE /\ phase' = [Put(phase, dead, "erased") EXCEPT ![s] = "boot"]
               /\ profile' = [profile EXCEPT ![s] = cmd.user]
               /\ stage' = Put(Put(stage, gone, "closed"), cs, "seated")
        <3>1. \A c \in Conns : stage'[c] = IF c \in cs THEN "seated"
                                           ELSE IF c \in gone THEN "closed" ELSE stage[c]
            BY <2>6 DEF Put, TypeOK
        <3>2. /\ \A c \in Conns : stage[c] \notin Fresh => stage'[c] \notin Fresh
              /\ \A c \in cs : stage'[c] \notin Fresh
              /\ HandsOK' /\ QueueOK'
            BY <2>4, <3>1 DEF Stages, Fresh
        <3>3. \A c \in Conns : phase'[c] = IF c = s THEN "boot"
                                           ELSE IF c \in dead THEN "erased" ELSE phase[c]
            BY <2>2, <2>3, <2>6 DEF Put, TypeOK
        <3>4. \A c \in dead : stage'[c] \notin Fresh
            BY <1>2, <3>2 DEF Finished, PathInv, FreshOK
        <3> HIDE DEF dead
        <3>5. FreshOK'
            BY <2>3, <3>2, <3>3, <3>4, FreshKept DEF PathInv
        <3>6. \A t \in Conns : inbox'[t] = inbox[t] \/ inbox'[t] = <<>>
            BY <2>1 DEF EmptyInboxes
        <3>7. InboxOK'
            BY <3>2, <3>6, InboxKept DEF PathInv
        <3>8. \A t \in Conns : profile'[t] = IF t = s THEN cmd.user ELSE profile[t]
            BY <2>6 DEF TypeOK
        <3>9. ProfileOK'
            BY <2>3, <3>3, <3>8 DEF PathInv, ProfileOK, Writing
        <3> QED  BY <3>2, <3>5, <3>7, <3>9 DEF PathInv
    <2> QED  BY <1>5, <2>5, <2>6 DEF ApplyStart, s, cs, gone, cmd
<1>6. CASE ApplyJoin
    <2>1. /\ main.pc = "apply" /\ main.batch # <<>> /\ cmd.kind = "EnqueueJoin"
          /\ main' = [main EXCEPT !.batch = Tail(@)] /\ UNCHANGED <<queue, phase, profile>>
        BY <1>6 DEF ApplyJoin
    <2> DEFINE c == cmd.conn
    <2>2. Carried(cmd) = {c} /\ c \in Conns /\ stage[c] = "queued"
        BY <2>1, HeadCommand DEF PathInv, Carried
    <2>3. PICK a \in {"pending", "closed"} : stage' = [stage EXCEPT ![c] = a]
        BY <1>6 DEF ApplyJoin
    <2>4. a = "pending" \/ UNCHANGED inbox
        BY <1>6, <2>2, <2>3 DEF ApplyJoin, TypeOK
    <2>5. \/ UNCHANGED inbox
          \/ \E s \in Conns : inbox' = [inbox EXCEPT ![s] = Append(@, c)]
        <3>1. \A h : SlotsForReconnect(h) \subseteq Conns /\ SlotsForLateViewer(h) \subseteq Conns
            BY DEF SlotsForReconnect, SlotsForLateViewer, HubLive, TypeOK
        <3>2. managed \subseteq Conns
            BY DEF TypeOK
        <3> QED  BY <1>6, <3>1, <3>2 DEF ApplyJoin
    <2> HIDE DEF c, cmd
    <2>6. \A d \in Conns : stage'[d] = IF d = c THEN a ELSE stage[d]
        BY <2>2, <2>3 DEF TypeOK
    <2>7. \A d \in Conns : stage[d] \notin Fresh => stage'[d] \notin Fresh
        BY <2>6 DEF Fresh
    <2>8. HandsOK'
        BY <1>1, <2>2, <2>6, HandsKept DEF PathInv
    <2>9. QueueOK'
        BY <2>1, <2>2, <2>6, QueueShrinks DEF PathInv, cmd
    <2>10. FreshOK' /\ ProfileOK'
        BY <2>1, <2>7, FreshKept DEF PathInv, ProfileOK, Writing
    <2>11. InboxOK'
        <3>1. CASE UNCHANGED inbox
            BY <2>7, <3>1, InboxKept DEF PathInv
        <3>2. ASSUME NEW s \in Conns, inbox' = [inbox EXCEPT ![s] = Append(@, c)]
              PROVE  InboxOK'
            <4>1. \A t \in Conns : inbox[t] \in Seq(Conns)
                BY DEF TypeOK
            <4>2. stage'[c] \notin Fresh
                BY <2>2, <2>3, <2>6 DEF Fresh
            <4>3. \A i \in DOMAIN Append(inbox[s], c) :
                     \/ i \in DOMAIN inbox[s] /\ Append(inbox[s], c)[i] = inbox[s][i]
                     \/ Append(inbox[s], c)[i] = c
                BY <4>1
            <4>4. \A t \in Conns : inbox'[t] = IF t = s THEN Append(inbox[s], c) ELSE inbox[t]
                BY <3>2 DEF TypeOK
            <4>5. \A i \in DOMAIN inbox[s] : stage'[inbox[s][i]] \notin Fresh
                BY <2>7, <4>1 DEF PathInv, InboxOK
            <4>6. \A i \in DOMAIN inbox'[s] : stage'[inbox'[s][i]] \notin Fresh
                BY <4>2, <4>3, <4>4, <4>5
            <4>7. \A t \in Conns : t # s =>
                     \A i \in DOMAIN inbox[t] : stage'[inbox[t][i]] \notin Fresh
                BY <2>7, <4>1 DEF PathInv, InboxOK
            <4> QED  BY <4>4, <4>6, <4>7 DEF InboxOK
        <3> QED  BY <2>5, <3>1, <3>2
    <2> QED  BY <2>8, <2>9, <2>10, <2>11 DEF PathInv
<1>7. CASE Reap
    <2>1. /\ main.pc = "apply" /\ main.batch = <<>> /\ main' = [main EXCEPT !.pc = "tick"]
          /\ UNCHANGED <<queue, profile>> /\ Destroy(dead)
          /\ stage' = Put(stage, Unanswered(dead), "closed")
        BY <1>7 DEF Reap
    <2>2. main'.batch = <<>>
        BY <2>1 DEF TypeOK
    <2> HIDE DEF dead, cmd
    <2>3. \A c \in Conns : stage'[c] = IF c \in Unanswered(dead) THEN "closed" ELSE stage[c]
        BY <2>1 DEF Put, TypeOK
    <2>4. \A c \in Conns : stage[c] \notin Fresh => stage'[c] \notin Fresh
        BY <2>3 DEF Fresh
    <2>5. \A c \in Conns : stage[c] \in Fresh => stage'[c] = stage[c]
        BY <1>3, <2>3
    <2>6. HandsOK'
        BY <1>1, <2>5, HandsKept DEF PathInv, Fresh
    <2>7. queue \in Seq(Commands)
        BY DEF TypeOK
    <2>8. Waiting(queue)'
        BY <2>1, <2>5, <2>7, WaitingKept DEF PathInv, QueueOK, Waiting, Fresh
    <2>9. QueueOK'
        BY <2>1, <2>2, <2>8 DEF PathInv, QueueOK, Waiting, Apart
    <2>10. InboxOK' /\ FreshOK' /\ ProfileOK'
        BY <1>2, <2>1, <2>4, DestroyKeeps DEF Destroy
    <2> QED  BY <2>6, <2>9, <2>10 DEF PathInv
<1>8. CASE StopTicking \/ JoinLobby
    <2>1. main.pc # "apply" /\ main'.batch = main.batch
          /\ UNCHANGED <<stage, queue, inbox, phase, profile>>
        BY <1>8 DEF StopTicking, JoinLobby, TypeOK
    <2>2. main.batch = <<>>
        BY <2>1 DEF PathInv, QueueOK
    <2>3. QueueOK'
        BY <2>1, <2>2 DEF PathInv, QueueOK, Waiting, Apart
    <2> QED  BY <1>1, <2>1, <2>3 DEF PathInv, HandsOK, InboxOK, FreshOK, ProfileOK, Writing
<1>9. CASE JoinSlots
    <2> DEFINE left == Unanswered(managed) \cup {c \in Conns : stage[c] = "queued"}
    <2>1. /\ main.pc = "joinSlots" /\ main' = [main EXCEPT !.pc = "down"] /\ queue' = <<>>
          /\ UNCHANGED profile /\ Destroy(managed) /\ stage' = Put(stage, left, "closed")
          /\ \A d \in managed : Finished(d)
        BY <1>9 DEF JoinSlots
    <2>2. main.batch = <<>> /\ main'.batch = <<>>
        BY <2>1 DEF PathInv, QueueOK, TypeOK
    <2>3. \A c \in Unanswered(managed) : stage[c] \notin Fresh
        BY UnansweredPast DEF PathInv, TypeOK
    <2>4. \A c \in left : stage[c] # "lobby"
        BY <2>3 DEF Fresh
    <2> HIDE DEF left, cmd, dead
    <2>5. \A c \in Conns : stage'[c] = IF c \in left THEN "closed" ELSE stage[c]
        BY <2>1 DEF Put, TypeOK
    <2>6. \A c \in Conns : stage[c] \notin Fresh => stage'[c] \notin Fresh
        BY <2>5 DEF Fresh
    <2>7. HandsOK'
        BY <1>1, <2>4, <2>5, HandsKept DEF PathInv
    <2>8. QueueOK'
        BY <2>1, <2>2 DEF QueueOK, Waiting, Apart
    <2>9. managed \in SUBSET Conns
        BY DEF TypeOK
    <2>10. InboxOK' /\ FreshOK' /\ ProfileOK'
        BY <2>1, <2>6, <2>9, DestroyKeeps DEF Destroy
    <2> QED  BY <2>7, <2>8, <2>10 DEF PathInv
<1> QED  BY <1>4, <1>5, <1>6, <1>7, <1>8, <1>9 DEF MainStep
-----------------------------------------------------------------------------
(* The threads of the slots, and the invariant. *)

\* The thread of a slot moves only connections the main thread has handled.
LEMMA SlotPath ==
    ASSUME TypeOK, PathInv, NEW s \in Conns, SlotStep(s)
    PROVE  PathInv'
<1>1. UNCHANGED <<lobby, queue, main, profile>>
    BY DEF SlotStep, Booted, Fail, DrainJoin, ClientLost, LeaveLoop, Cleanup, Unregister, Finish
<1>2. \A c \in Conns : \/ phase'[c] = phase[c]
                       \/ c = s /\ phase[c] # "none" /\ (Writing(s)' => Writing(s))
    BY DEF SlotStep, Booted, Fail, DrainJoin, ClientLost, LeaveLoop, Cleanup, Unregister,
       Finish, Writing, TypeOK
<1>3. \A c \in Conns : \/ stage'[c] = stage[c]
                       \/ stage[c] \notin Fresh /\ stage'[c] \notin Fresh
    <2>1. CASE Booted(s) \/ LeaveLoop(s) \/ Finish(s)
        BY <2>1 DEF Booted, LeaveLoop, Finish
    <2>2. CASE Fail(s) \/ Cleanup(s) \/ Unregister(s)
        BY <2>2 DEF Fail, Cleanup, Unregister, Put, SeatedIn, Fresh, TypeOK
    <2>3. CASE ClientLost(s)
        BY <2>3 DEF ClientLost, SeatedIn, ClientsOf, Fresh, TypeOK
    <2>4. CASE DrainJoin(s)
        <3>1. inbox[s] \in Seq(Conns) /\ inbox[s] # <<>>
            BY <2>4 DEF DrainJoin, TypeOK
        <3>2. /\ Head(inbox[s]) \in Conns /\ 1 \in DOMAIN inbox[s]
              /\ Head(inbox[s]) = inbox[s][1]
            BY <3>1
        <3>3. stage[Head(inbox[s])] \notin Fresh
            BY <3>2 DEF PathInv, InboxOK
        <3> QED  BY <2>4, <3>2, <3>3 DEF DrainJoin, LostSeats, Fresh, TypeOK
    <2> QED  BY <2>1, <2>2, <2>3, <2>4 DEF SlotStep
<1>4. HandsOK' /\ QueueOK'
    BY <1>1, <1>3, HandsKept, QueueKept DEF PathInv, Fresh
<1>5. FreshOK'
    <2>1. \A c \in Conns : stage'[c] \in Fresh => phase'[c] = phase[c]
        BY <1>2, <1>3 DEF PathInv, FreshOK
    <2> QED  BY <1>3, <2>1, FreshKept DEF PathInv
<1>6. ProfileOK'
    BY <1>1, <1>2 DEF PathInv, ProfileOK, Writing
<1>7. InboxOK'
    <2>1. CASE UNCHANGED inbox
        BY <1>3, <2>1, InboxKept DEF PathInv
    <2>2. CASE inbox[s] # <<>> /\ inbox' = [inbox EXCEPT ![s] = Tail(@)]
        <3>1. \A t \in Conns : inbox[t] \in Seq(Conns)
            BY DEF TypeOK
        <3>2. \A t \in Conns : inbox'[t] = IF t = s THEN Tail(inbox[s]) ELSE inbox[t]
            BY <2>2 DEF TypeOK
        <3>3. \A i \in DOMAIN Tail(inbox[s]) :
                 i + 1 \in DOMAIN inbox[s] /\ Tail(inbox[s])[i] = inbox[s][i + 1]
            BY <2>2, <3>1
        <3>4. \A t \in Conns : \A i \in DOMAIN inbox[t] : stage'[inbox[t][i]] \notin Fresh
            BY <1>3, <3>1 DEF PathInv, InboxOK
        <3>5. \A i \in DOMAIN inbox'[s] : stage'[inbox'[s][i]] \notin Fresh
            <4>1. inbox'[s] = Tail(inbox[s])
                BY <3>2
            <4> TAKE i \in DOMAIN inbox'[s]
            <4>2. i + 1 \in DOMAIN inbox[s] /\ inbox'[s][i] = inbox[s][i + 1]
                BY <3>3, <4>1
            <4> QED  BY <3>4, <4>2
        <3> QED  BY <3>2, <3>4, <3>5 DEF InboxOK
    <2> QED  BY <2>1, <2>2 DEF SlotStep, Booted, Fail, DrainJoin, ClientLost, LeaveLoop,
                Cleanup, Unregister, Finish
<1> QED  BY <1>4, <1>5, <1>6, <1>7 DEF PathInv

\* From the listener to its slot a connection is in one place at a time, and one
\* that still is on its way never named a slot.
THEOREM PathInvariant == Spec => [](TypeOK /\ SlotInv /\ PathInv)
<1> DEFINE All == TypeInv /\ PathInv
<1>1. Init => TypeInv
    <2>1. Init => HelloKnown
        BY DEF Init, HelloKnown
    <2> QED  BY <2>1, InitType DEF TypeInv
<1>2. Init => PathInv
    BY DEF Init, PathInv, HandsOK, QueueOK, Waiting, Apart, InboxOK, FreshOK, ProfileOK, Writing
<1>3. All /\ [Next]_vars => All'
    <2> SUFFICES ASSUME TypeInv, PathInv, [Next]_vars PROVE TypeInv' /\ PathInv'
        OBVIOUS
    <2>1. TypeOK /\ HelloKnown
        BY DEF TypeInv
    <2>2. CASE UNCHANGED vars
        BY <2>2 DEF TypeInv, TypeOK, HelloKnown, vars, PathInv, HandsOK, QueueOK, Waiting,
           Apart, InboxOK, FreshOK, ProfileOK, Writing
    <2>3. CASE \/ LobbyStep \/ ClientSpeaks
               \/ \E c \in Conns : Accept(c) \/ GatherAccept(c)
               \/ \E i \in 1..MaxSlots : GatherKick(i)
        BY <2>1, <2>3, LobbyType, LobbyHelloKnown, LobbyPath DEF TypeInv
    <2>4. CASE MainStep
        BY <2>1, <2>4, MainType, OtherHelloKnown, MainPath DEF TypeInv
    <2>5. CASE \E s \in Conns : SlotStep(s)
        BY <2>1, <2>5, SlotType, OtherHelloKnown, SlotPath DEF TypeInv
    <2>6. CASE RequestStop
        BY <2>6 DEF TypeInv, TypeOK, HelloKnown, RequestStop, PathInv, HandsOK, QueueOK,
           Waiting, Apart, InboxOK, FreshOK, ProfileOK, Writing
    <2>7. CASE Down
        BY <2>2, <2>7 DEF Down
    <2> QED  BY <2>2, <2>3, <2>4, <2>5, <2>6, <2>7 DEF Next
<1> QED  BY <1>1, <1>2, <1>3, SlotInvariant, PTL DEF Spec

-----------------------------------------------------------------------------
(* The refinement. *)

\* The holder of a profile is the slot that may write it, if there is one.
LEMMA HolderIs ==
    ASSUME SingleLiveWriter, NEW s \in Conns, Writing(s), profile[s] \in Users
    PROVE  Holder[profile[s]] = s
BY DEF Holder, SingleLiveWriter

\* A profile no slot may write has no holder.
LEMMA HolderNone ==
    ASSUME NEW u \in Users, \A s \in Conns : ~(Writing(s) /\ profile[s] = u)
    PROVE  Holder[u] = None
BY DEF Holder

\* A holder is a slot that may write the profile.
LEMMA HolderType ==
    /\ Holder = [u \in Users |-> Holder[u]]
    /\ \A u \in Users : Holder[u] # None =>
          Holder[u] \in Conns /\ Writing(Holder[u]) /\ profile[Holder[u]] = u
<1>1. \A u \in Users : Holder[u] # None =>
          Holder[u] \in Conns /\ Writing(Holder[u]) /\ profile[Holder[u]] = u
    BY DEF Holder
<1>2. Holder = [u \in Users |-> Holder[u]]
    BY DEF Holder
<1> QED  BY <1>1, <1>2
\* After a step too, the holder of a profile is the slot that may write it.
LEMMA NextHolderIs ==
    ASSUME SingleLiveWriter', NEW s \in Conns, Writing(s)', profile'[s] \in Users
    PROVE  Holder'[profile'[s]] = s
BY DEF Holder, SingleLiveWriter

\* After a step too, a profile no slot may write has no holder.
LEMMA NextHolderNone ==
    ASSUME NEW u \in Users, \A s \in Conns : ~(Writing(s)' /\ profile'[s] = u)
    PROVE  Holder'[u] = None
BY DEF Holder

\* After a step too, the holders are a function of the users.
LEMMA NextHolderType == Holder' = [u \in Users |-> Holder'[u]]
BY DEF Holder

\* The lock does not move while the same slots may write the same profiles and no
\* other slot has given its profile back.
LEMMA LockStutters ==
    ASSUME SingleLiveWriter, SingleLiveWriter', ProfileOK, ProfileOK',
           \A s \in Conns : Writing(s)' <=> Writing(s),
           \A s \in Conns : Writing(s) => profile'[s] = profile[s],
           \A s \in Conns : (phase[s] = "none") <=> (phase'[s] = "none")
    PROVE  Holder' = Holder /\ Spent' = Spent
<1>1. ASSUME NEW u \in Users PROVE Holder'[u] = Holder[u]
    <2>1. CASE \E s \in Conns : Writing(s) /\ profile[s] = u
        <3>1. PICK s \in Conns : Writing(s) /\ profile[s] = u
            BY <2>1
        <3>2. Holder[u] = s
            BY <3>1, HolderIs
        <3>3. Writing(s)' /\ profile'[s] = u
            BY <3>1
        <3>4. Holder'[u] = s
            BY <3>3, NextHolderIs
        <3> QED  BY <3>2, <3>4
    <2>2. CASE ~\E s \in Conns : Writing(s) /\ profile[s] = u
        <3>1. Holder[u] = None
            BY <2>2, HolderNone
        <3>2. \A s \in Conns : ~(Writing(s)' /\ profile'[s] = u)
            BY <2>2
        <3>3. Holder'[u] = None
            BY <3>2, NextHolderNone
        <3> QED  BY <3>1, <3>3
    <2> QED  BY <2>1, <2>2
<1>2. Holder' = Holder
    BY <1>1, HolderType, NextHolderType
<1>3. Spent' = Spent
    BY DEF Spent, Writing
<1> QED  BY <1>2, <1>3

\* SessionManager::start_session takes the lock of a profile nobody holds, for a
\* slot that never held one.
LEMMA StartAcquires ==
    ASSUME TypeOK, SlotInv, PathInv, SingleLiveWriter, SingleLiveWriter', ProfileOK', ApplyStart
    PROVE  Lock!LockNext \/ (Holder' = Holder /\ Spent' = Spent)
<1> DEFINE cmd == Head(main.batch)
           dead == {d \in managed : Finished(d)}
<1>1. dead \subseteq Conns /\ \A d \in dead : phase[d] \in {"finished", "erased"}
    BY DEF Finished, TypeOK
<1>2. CASE phase' = Put(phase, dead, "erased") /\ UNCHANGED profile
    <2>1. \A t \in Conns : phase'[t] = IF t \in dead THEN "erased" ELSE phase[t]
        BY <1>2 DEF Put, TypeOK
    <2> QED  BY <1>1, <1>2, <2>1, LockStutters DEF PathInv, Writing
<1>3. CASE /\ ~SaveProfileActive(cmd.user)
           /\ phase' = [Put(phase, dead, "erased") EXCEPT ![Head(cmd.clients)] = "boot"]
           /\ profile' = [profile EXCEPT ![Head(cmd.clients)] = cmd.user]
    <2>1. main.batch # <<>> /\ cmd.kind = "StartSession"
        BY DEF ApplyStart
    <2>2. cmd \in Commands /\ \A c \in ToSet(cmd.clients) : stage[c] = "queued"
        BY <2>1, HeadCommand DEF PathInv, Carried
    <2>3. cmd.clients \in Seq(Conns) \ {<<>>} /\ cmd.user \in Users
        BY <2>1, <2>2 DEF Commands
    <2>4. PICK s \in Conns : s = Head(cmd.clients) /\ s \in ToSet(cmd.clients)
        <3>1. /\ 1 \in DOMAIN cmd.clients /\ Head(cmd.clients) = cmd.clients[1]
              /\ Head(cmd.clients) \in Conns
            BY <2>3
        <3> QED  BY <2>3, <3>1 DEF ToSet
    <2>5. phase[s] = "none"
        BY <2>2, <2>4 DEF PathInv, FreshOK, Fresh
    <2>6. PICK u \in Users : u = cmd.user
        BY <2>3
    <2> HIDE DEF cmd, dead
    <2>7. \A t \in Conns : phase'[t] = IF t = s THEN "boot"
                                       ELSE IF t \in dead THEN "erased" ELSE phase[t]
        BY <1>3, <2>4 DEF Put, TypeOK
    <2>8. \A t \in Conns : profile'[t] = IF t = s THEN u ELSE profile[t]
        BY <1>3, <2>4, <2>6 DEF TypeOK
    <2>9. \A t \in hub : profile[t] # u
        BY <1>3, <2>6, HubAllLive DEF SaveProfileActive
    <2>10. \A t \in Conns : ~(Writing(t) /\ profile[t] = u)
        BY <2>9 DEF Writing, SlotInv
    <2>11. Holder[u] = None
        BY <2>10, <2>6, HolderNone
    <2>12. s \notin Spent
        BY <2>5 DEF Spent
    <2>13. \A q \in Users : Holder[q] # s
        BY <2>4, <2>5, HostAssumption, HolderType DEF Writing, HostAssumption
    <2>14. \A t \in Conns : t # s => (Writing(t)' <=> Writing(t)) /\ profile'[t] = profile[t]
        BY <1>1, <2>7, <2>8 DEF Writing
    <2>15. Writing(s)' /\ profile'[s] = u /\ ~Writing(s)
        BY <2>4, <2>5, <2>7, <2>8 DEF Writing
    <2>16. Holder'[u] = s
        BY <2>4, <2>6, <2>15, NextHolderIs
    <2>17. ASSUME NEW q \in Users, q # u PROVE Holder'[q] = Holder[q]
        <3>1. CASE \E t \in Conns : Writing(t) /\ profile[t] = q
            <4>1. PICK t \in Conns : Writing(t) /\ profile[t] = q
                BY <3>1
            <4>2. t # s
                BY <2>15, <4>1
            <4>3. Writing(t)' /\ profile'[t] = q
                BY <2>14, <4>1, <4>2
            <4>4. Holder[q] = t
                BY <4>1, HolderIs
            <4>5. Holder'[q] = t
                BY <4>3, NextHolderIs
            <4> QED  BY <4>4, <4>5
        <3>2. CASE ~\E t \in Conns : Writing(t) /\ profile[t] = q
            <4>1. Holder[q] = None
                BY <3>2, HolderNone
            <4>2. \A t \in Conns : ~(Writing(t)' /\ profile'[t] = q)
                BY <2>14, <2>15, <2>17, <3>2
            <4>3. Holder'[q] = None
                BY <4>2, NextHolderNone
            <4> QED  BY <4>1, <4>3
        <3> QED  BY <3>1, <3>2
    <2>18. Holder' = [Holder EXCEPT ![u] = s]
        <3>1. [Holder EXCEPT ![u] = s] = [q \in Users |-> IF q = u THEN s ELSE Holder[q]]
            BY HolderType
        <3> QED  BY <2>16, <2>17, <3>1, NextHolderType
    <2>19. Spent' = Spent
        BY <1>1, <2>5, <2>7 DEF Spent
    <2>20. Lock!Acquire(u, s)
        BY <2>11, <2>12, <2>13, <2>18, <2>19 DEF Lock!Acquire
    <2> QED  BY <2>4, <2>6, <2>20 DEF Lock!LockNext
<1> QED  BY <1>2, <1>3 DEF ApplyStart

\* The end of cleanup gives the profile of the slot back.
LEMMA CleanupReleases ==
    ASSUME TypeOK, PathInv, SingleLiveWriter, SingleLiveWriter', ProfileOK',
           NEW s \in Conns, Cleanup(s)
    PROVE  Lock!LockNext
<1> DEFINE u == profile[s]
<1>1. /\ phase[s] = "cleanup" /\ phase' = [phase EXCEPT ![s] = "ended"]
      /\ UNCHANGED profile
    BY DEF Cleanup
<1>2. Writing(s) /\ u \in Users
    BY <1>1 DEF Writing, PathInv, ProfileOK
<1>3. Holder[u] = s
    BY <1>2, HolderIs
<1>4. \A t \in Conns : phase'[t] = IF t = s THEN "ended" ELSE phase[t]
    BY <1>1 DEF TypeOK
<1>5. \A t \in Conns : t # s => (Writing(t)' <=> Writing(t))
    BY <1>4 DEF Writing
<1>6. ~Writing(s)'
    BY <1>4 DEF Writing
<1>7. \A t \in Conns : ~(Writing(t)' /\ profile'[t] = u)
    BY <1>1, <1>2, <1>5, <1>6 DEF SingleLiveWriter
<1>8. Holder'[u] = None
    BY <1>2, <1>7, NextHolderNone
<1>9. ASSUME NEW q \in Users, q # u PROVE Holder'[q] = Holder[q]
    <2>1. CASE \E t \in Conns : Writing(t) /\ profile[t] = q
        <3>1. PICK t \in Conns : Writing(t) /\ profile[t] = q
            BY <2>1
        <3>2. Writing(t)' /\ profile'[t] = q
            BY <1>1, <1>5, <1>9, <3>1
        <3>3. Holder[q] = t
            BY <3>1, HolderIs
        <3>4. Holder'[q] = t
            BY <3>2, NextHolderIs
        <3> QED  BY <3>3, <3>4
    <2>2. CASE ~\E t \in Conns : Writing(t) /\ profile[t] = q
        <3>1. Holder[q] = None
            BY <2>2, HolderNone
        <3>2. \A t \in Conns : ~(Writing(t)' /\ profile'[t] = q)
            BY <1>1, <1>5, <1>6, <2>2
        <3>3. Holder'[q] = None
            BY <3>2, NextHolderNone
        <3> QED  BY <3>1, <3>3
    <2> QED  BY <2>1, <2>2
<1> HIDE DEF u
<1>10. Holder' = [Holder EXCEPT ![u] = None]
    <2>1. [Holder EXCEPT ![u] = None] = [q \in Users |-> IF q = u THEN None ELSE Holder[q]]
        BY HolderType
    <2> QED  BY <1>8, <1>9, <2>1, NextHolderType
<1>11. Spent' = Spent \cup {Holder[u]}
    BY <1>1, <1>3, <1>4 DEF Spent
<1>12. Holder[u] # None
    BY <1>3, HostAssumption DEF HostAssumption
<1>13. Lock!Release(u)
    BY <1>10, <1>11, <1>12 DEF Lock!Release
<1> QED  BY <1>2, <1>13 DEF Lock!LockNext, u

\* What the host promises about save profiles, whatever its threads do: every
\* step is an admission that takes the lock of a free profile for a slot that
\* never had one, the end of a cleanup that gives it back, or neither.
THEOREM LockRefined == Spec => ImplementsProfileLock
<1> USE HostAssumption DEF HostAssumption
<1>1. Init => Lock!LockInit
    <2> SUFFICES ASSUME Init PROVE Lock!LockInit
        OBVIOUS
    <2>1. \A s \in Conns : phase[s] = "none" /\ ~Writing(s)
        BY DEF Init, Writing
    <2>2. \A u \in Users : Holder[u] = None
        BY <2>1, HolderNone
    <2>3. Holder = [u \in Users |-> None]
        BY <2>2, HolderType
    <2>4. Spent = {}
        BY <2>1 DEF Spent
    <2> QED  BY <2>3, <2>4 DEF Lock!LockInit
<1>2. TypeOK /\ SlotInv /\ PathInv /\ SingleLiveWriter /\ SingleLiveWriter' /\ PathInv'
        /\ [Next]_vars => [Lock!LockNext]_(Lock!lockVars)
    <2> SUFFICES ASSUME TypeOK, SlotInv, PathInv, SingleLiveWriter, SingleLiveWriter',
                        PathInv', [Next]_vars
                 PROVE  Lock!LockNext \/ (Holder' = Holder /\ Spent' = Spent)
        BY DEF Lock!lockVars
    <2>1. ProfileOK /\ ProfileOK'
        BY DEF PathInv
    <2>2. CASE UNCHANGED <<phase, profile>>
        BY <2>1, <2>2, LockStutters DEF Writing
    <2>3. CASE \/ LobbyStep \/ ClientSpeaks
               \/ \E c \in Conns : Accept(c) \/ GatherAccept(c)
               \/ \E i \in 1..MaxSlots : GatherKick(i)
        BY <2>2, <2>3, LobbyMoves DEF PathInv
    <2>4. ASSUME NEW dead \in SUBSET Conns, \A d \in dead : Finished(d),
                 phase' = Put(phase, dead, "erased"), UNCHANGED profile
          PROVE  Holder' = Holder /\ Spent' = Spent
        <3>1. \A s \in Conns : phase'[s] = IF s \in dead THEN "erased" ELSE phase[s]
            BY <2>4 DEF Put, TypeOK
        <3> QED  BY <2>1, <2>4, <3>1, LockStutters DEF Writing, Finished
    <2>5. CASE MainStep
        <3>1. CASE ApplyStart
            BY <2>1, <3>1, StartAcquires
        <3>2. CASE Reap
            <4> DEFINE dead == {d \in managed : Finished(d)}
            <4>1. phase' = Put(phase, dead, "erased") /\ UNCHANGED profile
                BY <3>2 DEF Reap, Destroy
            <4>2. dead \in SUBSET Conns /\ \A d \in dead : Finished(d)
                BY DEF TypeOK
            <4> QED  BY <2>4, <4>1, <4>2
        <3>3. CASE JoinSlots
            <4>1. phase' = Put(phase, managed, "erased") /\ UNCHANGED profile
                  /\ \A d \in managed : Finished(d)
                BY <3>3 DEF JoinSlots, Destroy
            <4>2. managed \in SUBSET Conns
                BY DEF TypeOK
            <4> QED  BY <2>4, <4>1, <4>2
        <3>4. CASE Drain \/ ApplyJoin \/ StopTicking \/ JoinLobby
            BY <2>2, <3>4 DEF Drain, ApplyJoin, StopTicking, JoinLobby
        <3> QED  BY <2>5, <3>1, <3>2, <3>3, <3>4 DEF MainStep
    <2>6. ASSUME NEW s \in Conns, SlotStep(s)
          PROVE  Lock!LockNext \/ (Holder' = Holder /\ Spent' = Spent)
        <3>1. CASE Cleanup(s)
            BY <2>1, <3>1, CleanupReleases
        <3>2. CASE DrainJoin(s) \/ ClientLost(s)
            BY <2>2, <3>2 DEF DrainJoin, ClientLost
        <3>3. CASE Booted(s) \/ Fail(s) \/ LeaveLoop(s) \/ Unregister(s) \/ Finish(s)
            <4>1. PICK a, b \in Phases : /\ phase[s] = a /\ phase' = [phase EXCEPT ![s] = b]
                                         /\ a # "none" /\ b # "none"
                                         /\ \/ {a, b} \subseteq {"boot", "run", "cleanup"}
                                            \/ {a, b} \cap {"boot", "run", "cleanup"} = {}
                BY <3>3 DEF Booted, Fail, LeaveLoop, Unregister, Finish, Phases
            <4>2. UNCHANGED profile
                BY <3>3 DEF Booted, Fail, LeaveLoop, Unregister, Finish
            <4>3. \A t \in Conns : phase'[t] = IF t = s THEN b ELSE phase[t]
                BY <4>1 DEF TypeOK
            <4> QED  BY <2>1, <4>1, <4>2, <4>3, LockStutters DEF Writing
        <3> QED  BY <2>6, <3>1, <3>2, <3>3 DEF SlotStep
    <2>7. CASE RequestStop \/ Down \/ UNCHANGED vars
        BY <2>2, <2>7 DEF RequestStop, Down, vars
    <2> QED  BY <2>3, <2>5, <2>6, <2>7 DEF Next
<1> QED  BY <1>1, <1>2, PathInvariant, SingleWriter, PTL DEF Spec, ImplementsProfileLock, Lock!LockSpec

-----------------------------------------------------------------------------
(* Reserved seats: what joins and losses leave of the plan of a session.     *)

\* Where a connection is before a slot has taken it in.
Early == {"new", "lobby", "queued", "pending"}

\* A plan holds only clients that have been taken in.
HomeOK == \A c \in Conns : home[c] # None => stage[c] \notin Early

\* What is in an inbox is pending, ...
InboxPending == \A s \in Conns : \A i \in DOMAIN inbox[s] : stage[inbox[s][i]] = "pending"

\* ... and in no other inbox, nor twice in one.
InboxApart ==
    \A s, t \in Conns : \A i \in DOMAIN inbox[s], j \in DOMAIN inbox[t] :
        inbox[s][i] = inbox[t][j] => s = t /\ i = j

JoinInv == HomeOK /\ InboxPending /\ InboxApart

\* A step that leaves plans and inboxes alone, and the pending connections too.
LEMMA JoinKept ==
    ASSUME TypeOK, JoinInv, UNCHANGED <<home, inbox>>,
           \A c \in Conns : \/ stage'[c] = stage[c]
                            \/ stage[c] # "pending" /\ (home[c] = None \/ stage'[c] \notin Early)
    PROVE  JoinInv'
<1>1. \A s \in Conns : \A i \in DOMAIN inbox[s] : inbox[s][i] \in Conns
    BY DEF TypeOK
<1>2. HomeOK'
    BY DEF JoinInv, HomeOK
<1>3. InboxPending'
    BY <1>1 DEF JoinInv, InboxPending
<1>4. InboxApart'
    BY DEF JoinInv, InboxApart
<1> QED  BY <1>2, <1>3, <1>4 DEF JoinInv

\* The connections left in destroyed inboxes are the pending ones they held.
LEMMA UnansweredIs ==
    ASSUME TypeOK, JoinInv, NEW dead \in SUBSET Conns
    PROVE  /\ Unanswered(dead) \subseteq Conns
           /\ \A c \in Unanswered(dead) : stage[c] = "pending" /\ home[c] = None
           /\ \A s \in Conns \ dead : \A i \in DOMAIN inbox[s] :
                 inbox[s][i] \notin Unanswered(dead)
<1>1. \A s \in Conns : \A i \in DOMAIN inbox[s] : inbox[s][i] \in Conns
    BY DEF TypeOK
<1>2. \A c \in Unanswered(dead) : \E s \in dead : \E i \in DOMAIN inbox[s] : c = inbox[s][i]
    BY DEF Unanswered, ToSet
<1>3. \A c \in Unanswered(dead) : c \in Conns /\ stage[c] = "pending"
    BY <1>1, <1>2 DEF JoinInv, InboxPending
<1>4. \A c \in Unanswered(dead) : home[c] = None
    BY <1>3 DEF JoinInv, HomeOK, Early
<1>5. ASSUME NEW s \in Conns \ dead, NEW i \in DOMAIN inbox[s], inbox[s][i] \in Unanswered(dead)
      PROVE  FALSE
    <2>1. PICK t \in dead : \E j \in DOMAIN inbox[t] : inbox[s][i] = inbox[t][j]
        BY <1>2, <1>5
    <2> QED  BY <2>1 DEF JoinInv, InboxApart
<1> QED  BY <1>3, <1>4, <1>5

\* Destroyed inboxes answer what they held, and a session that starts meanwhile
\* takes queued connections.
LEMMA JoinEmptied ==
    ASSUME TypeOK, JoinInv, NEW dead \in SUBSET Conns, EmptyInboxes(dead),
           NEW taken \in SUBSET Conns, \A c \in taken : stage[c] = "queued",
           \A c \in Conns : stage'[c] = IF c \in taken THEN stage'[c]
                                        ELSE IF c \in Unanswered(dead) THEN "closed" ELSE stage[c],
           \A c \in taken : stage'[c] \notin Early,
           \A c \in Conns \ taken : home'[c] = home[c]
    PROVE  JoinInv'
<1>1. /\ \A c \in Unanswered(dead) : stage[c] = "pending" /\ home[c] = None
      /\ \A s \in Conns \ dead : \A i \in DOMAIN inbox[s] : inbox[s][i] \notin Unanswered(dead)
    BY UnansweredIs
<1>2. \A s \in Conns : \A i \in DOMAIN inbox[s] : inbox[s][i] \in Conns
    BY DEF TypeOK
<1>3. /\ \A s \in dead : inbox'[s] = <<>>
      /\ \A s \in Conns \ dead : inbox'[s] = inbox[s]
    BY DEF EmptyInboxes
<1>4. HomeOK'
    BY <1>1 DEF JoinInv, HomeOK, Early
<1>5. InboxPending'
    <2>1. ASSUME NEW s \in Conns, NEW i \in DOMAIN inbox'[s]
          PROVE  stage'[inbox'[s][i]] = "pending"
        <3>1. s \notin dead /\ inbox'[s] = inbox[s]
            BY <1>3
        <3>2. inbox[s][i] \in Conns /\ stage[inbox[s][i]] = "pending"
            BY <1>2, <3>1 DEF JoinInv, InboxPending
        <3>3. inbox[s][i] \notin taken /\ inbox[s][i] \notin Unanswered(dead)
            BY <1>1, <3>1, <3>2
        <3> QED  BY <3>1, <3>2, <3>3
    <2> QED  BY <2>1 DEF InboxPending
<1>6. InboxApart'
    <2>1. \A s \in Conns : \A i \in DOMAIN inbox'[s] : i \in DOMAIN inbox[s] /\ inbox'[s] = inbox[s]
        BY <1>3
    <2> QED  BY <2>1 DEF JoinInv, InboxApart
<1> QED  BY <1>4, <1>5, <1>6 DEF JoinInv

\* A roster stays the same while no plan gains or loses a player of it.
LEMMA RosterKept ==
    ASSUME NEW s \in Conns,
           \A c \in Conns : \/ home'[c] = home[c] /\ hello'[c] = hello[c]
                            \/ home[c] # s /\ home'[c] # s
                            \/ hello'[c] = hello[c] /\ ~(hello[c].seats > 0)
    PROVE  Roster(s)' = Roster(s)
<1>1. PlayersOf(s)' = PlayersOf(s)
    BY DEF PlayersOf, ClientsOf
<1>2. \A c \in PlayersOf(s) : hello'[c] = hello[c]
    BY DEF PlayersOf, ClientsOf
<1>3. \A h : Holding(s, h)' = Holding(s, h)
    BY <1>1, <1>2 DEF Holding
<1> QED  BY <1>3 DEF Roster

\* The lobby thread touches no plan and no inbox.
LEMMA LobbyJoins ==
    ASSUME TypeOK, HandsOK, JoinInv,
           \/ LobbyStep \/ ClientSpeaks
           \/ \E c \in Conns : Accept(c) \/ GatherAccept(c)
           \/ \E i \in 1..MaxSlots : GatherKick(i)
    PROVE  /\ JoinInv'
           /\ UNCHANGED home
           /\ \A c \in Conns : home[c] # None => stage'[c] = stage[c] /\ hello'[c] = hello[c]
<1>1. /\ UNCHANGED inbox
      /\ \A c \in Conns : stage'[c] = stage[c] \/ stage[c] \in {"new", "lobby"}
    BY LobbyMoves
<1>2. UNCHANGED home /\ \A c \in Conns : hello'[c] = hello[c] \/ stage[c] = "lobby"
    <2>1. CASE LobbyStep
        <3>1. UNCHANGED <<home, hello>>
            BY <2>1 DEF LobbyStep, Route, EnqueueJoin, AdmitMode, AdmitSingle, GatherEnd,
               EnqueueStart, LobbyExit
        <3> QED  BY <3>1
    <2>2. CASE ClientSpeaks
        <3>1. CASE ReadOther \/ GatherReadOther
            BY <3>1 DEF ReadOther, GatherReadOther
        <3>2. ASSUME NEW h \in Hellos, ReadHello(h)
              PROVE  UNCHANGED home /\ \A c \in Conns : hello'[c] = hello[c] \/ stage[c] = "lobby"
            <4>1. /\ hello' = [hello EXCEPT ![lobby.conn] = h] /\ stage[lobby.conn] = "lobby"
                  /\ UNCHANGED home
                BY <3>2 DEF ReadHello, HandsOK
            <4> QED  BY <4>1 DEF TypeOK
        <3>3. ASSUME NEW h \in Hellos, GatherReadHello(h)
              PROVE  UNCHANGED home /\ \A c \in Conns : hello'[c] = hello[c] \/ stage[c] = "lobby"
            <4>1. /\ hello' = [hello EXCEPT ![lobby.target] = h] /\ stage[lobby.target] = "lobby"
                  /\ UNCHANGED home
                BY <3>3 DEF GatherReadHello, HandsOK
            <4> QED  BY <4>1 DEF TypeOK
        <3> QED  BY <2>2, <3>1, <3>2, <3>3 DEF ClientSpeaks
    <2>3. CASE \/ \E c \in Conns : Accept(c) \/ GatherAccept(c)
               \/ \E i \in 1..MaxSlots : GatherKick(i)
        <3>1. UNCHANGED <<home, hello>>
            BY <2>3 DEF Accept, GatherAccept, GatherKick
        <3> QED  BY <3>1
    <2> QED  BY <2>1, <2>2, <2>3
<1>3. \A c \in Conns : stage[c] \in {"new", "lobby"} => home[c] = None
    BY DEF JoinInv, HomeOK, Early
<1>4. JoinInv'
    BY <1>1, <1>2, <1>3, JoinKept
<1> QED  BY <1>1, <1>2, <1>3, <1>4

\* The main thread puts queued connections into a plan of their own, and pending
\* ones into one inbox; what it drops was in no plan.
LEMMA MainJoins ==
    ASSUME TypeOK, PathInv, JoinInv, MainStep
    PROVE  /\ JoinInv'
           /\ UNCHANGED hello
           /\ \A c \in Conns : home[c] # None => stage'[c] = stage[c] /\ home'[c] = home[c]
           /\ \A c, s \in Conns : home[c] = None /\ home'[c] = s => phase[s] = "none"
<1> USE HostAssumption DEF HostAssumption
<1> DEFINE cmd == Head(main.batch)
           dead == {d \in managed : Finished(d)}
           Plans == /\ \A c \in Conns : home[c] # None => stage'[c] = stage[c] /\ home'[c] = home[c]
                    /\ \A c, s \in Conns : home[c] = None /\ home'[c] = s => phase[s] = "none"
<1>1. UNCHANGED hello
    BY DEF MainStep, Drain, ApplyStart, ApplyJoin, Reap, StopTicking, JoinLobby, JoinSlots
<1>2. dead \in SUBSET Conns /\ managed \in SUBSET Conns
    BY DEF TypeOK
<1>3. \A c \in Conns : stage[c] \in Early => home[c] = None
    BY DEF JoinInv, HomeOK
<1>4. CASE Drain \/ StopTicking \/ JoinLobby
    <2>1. UNCHANGED <<stage, home, inbox>>
        BY <1>4 DEF Drain, StopTicking, JoinLobby
    <2> QED  BY <1>1, <2>1, JoinKept
<1>5. CASE ApplyStart
    <2> DEFINE s == Head(cmd.clients)
               cs == ToSet(cmd.clients)
               gone == Unanswered(dead)
    <2>1. main.batch # <<>> /\ cmd.kind = "StartSession" /\ EmptyInboxes(dead)
        BY <1>5 DEF ApplyStart
    <2>2. /\ cmd \in Commands /\ Carried(cmd) = cs /\ cs \subseteq Conns
          /\ \A c \in cs : stage[c] = "queued"
        BY <2>1, HeadCommand DEF PathInv, Carried
    <2>3. s \in cs /\ s \in Conns
        <3>1. cmd.clients \in Seq(Conns) /\ cmd.clients # <<>>
            BY <2>1, <2>2 DEF Commands
        <3>2. 1 \in DOMAIN cmd.clients /\ Head(cmd.clients) = cmd.clients[1]
            BY <3>1
        <3> QED  BY <2>2, <3>2 DEF ToSet
    <2>4. phase[s] = "none"
        BY <2>2, <2>3 DEF PathInv, FreshOK, Fresh
    <2>5. \A c \in gone : c \in Conns /\ stage[c] = "pending" /\ home[c] = None
        BY <1>2, UnansweredIs
    <2>6. \/ stage' = Put(stage, gone \cup cs, "closed") /\ UNCHANGED home
          \/ stage' = Put(Put(stage, gone, "closed"), cs, "seated") /\ home' = Put(home, cs, s)
        BY <1>5 DEF ApplyStart
    <2> HIDE DEF s, cs, cmd, dead, gone
    <2>7. PICK a \in {"closed", "seated"} :
             \A c \in Conns : stage'[c] = IF c \in cs THEN a
                                          ELSE IF c \in gone THEN "closed" ELSE stage[c]
        BY <2>6 DEF Put, TypeOK
    <2>8. \A c \in Conns : home'[c] = home[c] \/ (c \in cs /\ home'[c] = s)
        <3>1. CASE UNCHANGED home
            BY <3>1
        <3>2. CASE home' = Put(home, cs, s)
            BY <3>2 DEF Put, TypeOK
        <3> QED  BY <2>6, <3>1, <3>2
    <2>12. \A c \in cs : stage'[c] \notin Early
        BY <2>2, <2>7 DEF Early
    <2>9. JoinInv'
        BY <1>2, <2>1, <2>2, <2>7, <2>8, <2>12, JoinEmptied DEF gone
    <2>10. \A c \in cs : home[c] = None
        BY <1>3, <2>2 DEF Early
    <2>11. Plans
        BY <2>4, <2>5, <2>7, <2>8, <2>10
    <2> QED  BY <1>1, <2>9, <2>11
<1>6. CASE ApplyJoin
    <2> DEFINE c == cmd.conn
    <2>1. main.pc = "apply" /\ main.batch # <<>> /\ cmd.kind = "EnqueueJoin" /\ UNCHANGED home
        BY <1>6 DEF ApplyJoin
    <2>2. c \in Conns /\ stage[c] = "queued"
        BY <2>1, HeadCommand DEF PathInv, Carried
    <2>3. \/ stage' = [stage EXCEPT ![c] = "closed"] /\ UNCHANGED inbox
          \/ /\ stage' = [stage EXCEPT ![c] = "pending"]
             /\ \E s \in Conns : inbox' = [inbox EXCEPT ![s] = Append(@, c)]
        <3>1. \A h : SlotsForReconnect(h) \subseteq Conns /\ SlotsForLateViewer(h) \subseteq Conns
            BY DEF SlotsForReconnect, SlotsForLateViewer, HubLive, TypeOK
        <3> QED  BY <1>2, <1>6, <3>1 DEF ApplyJoin
    <2> HIDE DEF c, cmd
    <2>4. home[c] = None
        BY <1>3, <2>2 DEF Early
    <2>5. \A d \in Conns \ {c} : stage'[d] = stage[d]
        BY <2>3 DEF TypeOK
    <2>6. JoinInv'
        <3>1. CASE UNCHANGED inbox
            BY <2>1, <2>2, <2>4, <2>5, <3>1, JoinKept
        <3>2. ASSUME NEW s \in Conns, inbox' = [inbox EXCEPT ![s] = Append(@, c)],
                     stage'[c] = "pending"
              PROVE  JoinInv'
            <4>1. \A t \in Conns : inbox[t] \in Seq(Conns)
                BY DEF TypeOK
            <4>2. \A t \in Conns : \A i \in DOMAIN inbox[t] :
                     inbox[t][i] \in Conns \ {c} /\ stage[inbox[t][i]] = "pending"
                BY <2>2, <4>1 DEF JoinInv, InboxPending
            <4>3. \A t \in Conns : \A i \in DOMAIN inbox'[t] :
                     \/ i \in DOMAIN inbox[t] /\ inbox'[t][i] = inbox[t][i]
                     \/ t = s /\ i = Len(inbox[s]) + 1 /\ inbox'[t][i] = c
                <5>1. \A t \in Conns : inbox'[t] = IF t = s THEN Append(inbox[s], c) ELSE inbox[t]
                    BY <3>2 DEF TypeOK
                <5>2. \A i \in DOMAIN Append(inbox[s], c) :
                         \/ i \in DOMAIN inbox[s] /\ Append(inbox[s], c)[i] = inbox[s][i]
                         \/ i = Len(inbox[s]) + 1 /\ Append(inbox[s], c)[i] = c
                    BY <4>1
                <5> QED  BY <5>1, <5>2
            <4>4. HomeOK'
                BY <2>1, <2>4, <2>5 DEF JoinInv, HomeOK
            <4>5. InboxPending'
                BY <2>5, <3>2, <4>2, <4>3 DEF InboxPending
            <4>6. InboxApart'
                BY <4>2, <4>3 DEF JoinInv, InboxApart
            <4> QED  BY <4>4, <4>5, <4>6 DEF JoinInv
        <3>3. stage' = [stage EXCEPT ![c] = "pending"] => stage'[c] = "pending"
            BY <2>2 DEF TypeOK
        <3> QED  BY <2>3, <3>1, <3>2, <3>3
    <2> QED  BY <1>1, <2>1, <2>4, <2>5, <2>6
<1>7. CASE Reap \/ JoinSlots
    <2> DEFINE left == {c \in Conns : stage[c] = "queued"}
    <2>1. PICK gone \in {dead, managed} :
             /\ EmptyInboxes(gone) /\ UNCHANGED home
             /\ \/ stage' = Put(stage, Unanswered(gone), "closed")
                \/ stage' = Put(stage, Unanswered(gone) \cup left, "closed")
        BY <1>7 DEF Reap, JoinSlots, Destroy
    <2>2. gone \in SUBSET Conns
        BY <1>2, <2>1
    <2> HIDE DEF dead, left
    <2>3. PICK taken \in {{}, left} :
             \A c \in Conns : stage'[c] = IF c \in Unanswered(gone) \cup taken THEN "closed"
                                          ELSE stage[c]
        BY <2>1 DEF Put, TypeOK
    <2>4. taken \in SUBSET Conns /\ \A c \in taken : stage[c] = "queued"
        BY <2>3 DEF left
    <2>5. \A c \in taken : stage'[c] \notin Early
        BY <2>3, <2>4 DEF Early
    <2>6. JoinInv'
        BY <2>1, <2>2, <2>3, <2>4, <2>5, JoinEmptied
    <2>7. \A c \in Unanswered(gone) \cup taken : c \in Conns => home[c] = None
        BY <1>3, <2>2, <2>4, UnansweredIs DEF Early
    <2> QED  BY <1>1, <2>1, <2>3, <2>6, <2>7
<1> QED  BY <1>4, <1>5, <1>6, <1>7 DEF MainStep

\* The place of a player that comes back goes over to its new connection: each
\* user has as many players with so many seats as before.
LEMMA SeatSwapped ==
    ASSUME TypeOK, NEW s \in Conns, NEW c \in Conns, home[c] # s,
           NEW old \in LostSeats(s, hello[c]), UNCHANGED hello,
           home' = [home EXCEPT ![old] = None, ![c] = s], NEW h
    PROVE  Cardinality(Holding(s, h))' = Cardinality(Holding(s, h))
<1> USE HostAssumption DEF HostAssumption
<1>1. /\ old \in Conns /\ home[old] = s /\ old # c
      /\ hello[old].user = hello[c].user /\ hello[old].seats = hello[c].seats
    BY DEF LostSeats
<1>2. \A d \in Conns : home'[d] = IF d = c THEN s ELSE IF d = old THEN None ELSE home[d]
    BY <1>1 DEF TypeOK
<1>3. None # s
    OBVIOUS
<1> DEFINE H == Holding(s, h)
<1>4. /\ H \subseteq Conns /\ c \notin H
      /\ Holding(s, h)' = IF old \in H THEN (H \ {old}) \cup {c} ELSE H
    <2> DEFINE Alike == {d \in Conns : /\ hello[d].seats > 0
                                     /\ hello[d].user = h.user /\ hello[d].seats = h.seats}
               After == Holding(s, h)'
    <2>1. H = {d \in Alike : home[d] = s} /\ After = {d \in Alike : home'[d] = s}
        BY DEF Holding, PlayersOf, ClientsOf
    <2>2. old \in Alike <=> c \in Alike
        BY <1>1
    <2>3. Alike \subseteq Conns
        OBVIOUS
    <2> HIDE DEF Alike, H, After
    <2>4. H \subseteq Conns /\ c \notin H /\ (old \in H <=> c \in Alike)
        BY <1>1, <2>1, <2>2, <2>3
    <2>5. \A d : d \in After <=> d \in Alike /\ (d = c \/ (d # old /\ d \in H))
        BY <1>1, <1>2, <1>3, <2>1, <2>3
    <2>6. After = IF old \in H THEN (H \ {old}) \cup {c} ELSE H
        BY <2>1, <2>4, <2>5
    <2> QED  BY <2>4, <2>6 DEF After
<1>5. IsFiniteSet(H)
    BY <1>4, FS_Subset
<1> HIDE DEF H
<1>6. CASE old \in H
    <2>1. IsFiniteSet(H \ {old}) /\ Cardinality(H \ {old}) = Cardinality(H) - 1
        BY <1>5, <1>6, FS_RemoveElement
    <2>2. Cardinality((H \ {old}) \cup {c}) = Cardinality(H \ {old}) + 1
        BY <1>4, <2>1, FS_AddElement
    <2>3. Cardinality(H) \in Nat
        BY <1>5, FS_CardinalityType
    <2>4. Cardinality((H \ {old}) \cup {c}) = Cardinality(H)
        BY <2>1, <2>2, <2>3
    <2> QED  BY <1>4, <1>6, <2>4 DEF H
<1>7. CASE old \notin H
    BY <1>4, <1>7 DEF H
<1> QED  BY <1>6, <1>7

\* A slot takes one join after the other out of its inbox.
LEMMA InboxAdvances ==
    ASSUME TypeOK, JoinInv, NEW s \in Conns, inbox[s] # <<>>,
           inbox' = [inbox EXCEPT ![s] = Tail(@)],
           \A c \in Conns \ {Head(inbox[s])} : stage[c] = "pending" => stage'[c] = "pending"
    PROVE  InboxPending' /\ InboxApart'
<1>1. \A t \in Conns : inbox[t] \in Seq(Conns)
    BY DEF TypeOK
<1>2. \A t \in Conns : inbox'[t] = IF t = s THEN Tail(inbox[s]) ELSE inbox[t]
    BY DEF TypeOK
<1>3. /\ 1 \in DOMAIN inbox[s] /\ Head(inbox[s]) = inbox[s][1]
      /\ \A i \in DOMAIN Tail(inbox[s]) :
            i + 1 \in DOMAIN inbox[s] /\ i + 1 # 1 /\ Tail(inbox[s])[i] = inbox[s][i + 1]
    BY <1>1
<1>4. \A i, j \in DOMAIN Tail(inbox[s]) : i + 1 = j + 1 => i = j
    BY <1>1
<1>5. \A t \in Conns : \A i \in DOMAIN inbox[t] :
         inbox[t][i] = Head(inbox[s]) => t = s /\ i = 1
    BY <1>3 DEF JoinInv, InboxApart
<1>6. \A t \in Conns : \A i \in DOMAIN inbox'[t] : \E k \in DOMAIN inbox[t] :
         /\ inbox'[t][i] = inbox[t][k] /\ inbox[t][k] # Head(inbox[s])
         /\ k = IF t = s THEN i + 1 ELSE i
    <2>1. ASSUME NEW i \in DOMAIN inbox'[s]
          PROVE  \E k \in DOMAIN inbox[s] :
                    /\ inbox'[s][i] = inbox[s][k] /\ inbox[s][k] # Head(inbox[s])
                    /\ k = i + 1
        BY <1>2, <1>3, <1>5
    <2>2. ASSUME NEW t \in Conns \ {s}, NEW i \in DOMAIN inbox'[t]
          PROVE  i \in DOMAIN inbox[t] /\ inbox'[t][i] = inbox[t][i] /\ inbox[t][i] # Head(inbox[s])
        BY <1>2, <1>5
    <2> QED  BY <2>1, <2>2
<1>7. InboxPending'
    <2>1. \A t \in Conns : \A k \in DOMAIN inbox[t] : inbox[t][k] \in Conns
        BY <1>1
    <2> QED  BY <1>6, <2>1 DEF JoinInv, InboxPending
<1>8. InboxApart'
    <2>1. ASSUME NEW t \in Conns, NEW v \in Conns,
                 NEW i \in DOMAIN inbox'[t], NEW j \in DOMAIN inbox'[v],
                 inbox'[t][i] = inbox'[v][j]
          PROVE  t = v /\ i = j
        <3>1. PICK k \in DOMAIN inbox[t] :
                 inbox'[t][i] = inbox[t][k] /\ k = IF t = s THEN i + 1 ELSE i
            BY <1>6
        <3>2. PICK l \in DOMAIN inbox[v] :
                 inbox'[v][j] = inbox[v][l] /\ l = IF v = s THEN j + 1 ELSE j
            BY <1>6
        <3>3. t = v /\ k = l
            BY <2>1, <3>1, <3>2 DEF JoinInv, InboxApart
        <3>4. CASE t = s
            <4>1. i \in DOMAIN Tail(inbox[s]) /\ j \in DOMAIN Tail(inbox[s])
                BY <1>2, <3>3, <3>4
            <4> QED  BY <1>4, <3>1, <3>2, <3>3, <3>4, <4>1
        <3> QED  BY <3>1, <3>2, <3>3, <3>4
    <2> QED  BY <2>1 DEF InboxApart
<1> QED  BY <1>7, <1>8

\* A slot thread moves only its own clients and the joins sent to it.  While its
\* session runs, no seat gets lost and no connected player its place.
LEMMA SlotJoins ==
    ASSUME TypeOK, JoinInv, NEW s \in Conns, SlotStep(s)
    PROVE  /\ JoinInv'
           /\ \A t \in Conns : phase[t] = "run" /\ phase'[t] = "run" =>
                 /\ Roster(t)' = Roster(t)
                 /\ \A c \in PlayersOf(t) : stage[c] = "seated" => stage'[c] \in {"seated", "lost"}
<1> USE HostAssumption DEF HostAssumption
<1> DEFINE Kept(t) ==
        /\ Roster(t)' = Roster(t)
        /\ \A c \in PlayersOf(t) : stage[c] = "seated" => stage'[c] \in {"seated", "lost"}
<1>1. UNCHANGED hello
    BY DEF SlotStep, Booted, Fail, DrainJoin, ClientLost, LeaveLoop, Cleanup, Unregister, Finish
<1>2. None # s
    OBVIOUS
<1>3. CASE Booted(s) \/ LeaveLoop(s) \/ Finish(s)
    <2>1. UNCHANGED <<stage, home, inbox>>
        BY <1>3 DEF Booted, LeaveLoop, Finish
    <2>2. JoinInv'
        BY <2>1, JoinKept
    <2>3. \A t \in Conns : Kept(t)
        BY <1>1, <2>1, RosterKept
    <2> QED  BY <2>2, <2>3
<1>4. CASE Fail(s) \/ Cleanup(s) \/ Unregister(s)
    <2>1. /\ UNCHANGED <<home, inbox>> /\ phase'[s] # "run"
          /\ \A c \in Conns : \/ stage'[c] = stage[c]
                              \/ /\ home[c] = s /\ stage[c] \in {"seated", "lost"}
                                 /\ stage'[c] \in {"error", "ended"}
        BY <1>4 DEF Fail, Cleanup, Unregister, Put, SeatedIn, ClientsOf, TypeOK
    <2>2. JoinInv'
        BY <2>1, JoinKept DEF Early
    <2>3. \A t \in Conns : t # s => Kept(t)
        BY <1>1, <2>1, RosterKept DEF PlayersOf, ClientsOf
    <2> QED  BY <2>1, <2>2, <2>3
<1>5. CASE ClientLost(s)
    <2>1. PICK c \in SeatedIn(s) :
             IF hello[c].seats > 0
             THEN stage' = [stage EXCEPT ![c] = "lost"] /\ UNCHANGED home
             ELSE stage' = [stage EXCEPT ![c] = "ended"] /\ home' = [home EXCEPT ![c] = None]
        BY <1>5 DEF ClientLost
    <2>2. c \in Conns /\ home[c] = s /\ stage[c] = "seated"
        BY DEF SeatedIn, ClientsOf
    <2>3. UNCHANGED inbox
        BY <1>5 DEF ClientLost
    <2>4. CASE hello[c].seats > 0
        <3>1. /\ UNCHANGED home
              /\ \A d \in Conns : stage'[d] = IF d = c THEN "lost" ELSE stage[d]
            BY <2>1, <2>2, <2>4 DEF TypeOK
        <3>2. JoinInv'
            BY <2>2, <2>3, <3>1, JoinKept DEF Early
        <3>3. \A t \in Conns : Kept(t)
            BY <1>1, <3>1, RosterKept DEF PlayersOf, ClientsOf
        <3> QED  BY <3>2, <3>3
    <2>5. CASE ~(hello[c].seats > 0)
        <3>1. \A d \in Conns : /\ stage'[d] = IF d = c THEN "ended" ELSE stage[d]
                               /\ home'[d] = IF d = c THEN None ELSE home[d]
            BY <2>1, <2>2, <2>5 DEF TypeOK
        <3>2. \A t \in Conns : \A i \in DOMAIN inbox[t] : inbox[t][i] \in Conns
            BY DEF TypeOK
        <3>3. JoinInv'
            <4>1. HomeOK'
                BY <3>1 DEF JoinInv, HomeOK
            <4>2. InboxPending'
                BY <2>2, <2>3, <3>1, <3>2 DEF JoinInv, InboxPending
            <4>3. InboxApart'
                BY <2>3 DEF JoinInv, InboxApart
            <4> QED  BY <4>1, <4>2, <4>3 DEF JoinInv
        <3>4. \A t \in Conns : Roster(t)' = Roster(t)
            BY <1>1, <2>5, <3>1, RosterKept
        <3>5. \A t \in Conns : Kept(t)
            BY <2>5, <3>1, <3>4 DEF PlayersOf, ClientsOf
        <3> QED  BY <3>3, <3>5
    <2> QED  BY <2>4, <2>5
<1>6. CASE DrainJoin(s)
    <2> DEFINE c == Head(inbox[s])
    <2>1. inbox[s] # <<>> /\ inbox' = [inbox EXCEPT ![s] = Tail(@)]
        BY <1>6 DEF DrainJoin
    <2>2. c \in Conns /\ stage[c] = "pending" /\ home[c] = None
        <3>1. inbox[s] \in Seq(Conns)
            BY DEF TypeOK
        <3>2. c \in Conns /\ 1 \in DOMAIN inbox[s] /\ c = inbox[s][1]
            BY <2>1, <3>1
        <3> QED  BY <3>2 DEF JoinInv, InboxPending, HomeOK, Early
    <2>3. \/ \E old \in LostSeats(s, hello[c]) :
                /\ stage' = [stage EXCEPT ![old] = "ended", ![c] = "seated"]
                /\ home' = [home EXCEPT ![old] = None, ![c] = s]
          \/ /\ hello[c].seats = 0
             /\ stage' = [stage EXCEPT ![c] = "seated"]
             /\ home' = [home EXCEPT ![c] = s]
          \/ /\ stage' = [stage EXCEPT ![c] = "error"]
             /\ UNCHANGED home
        BY <1>6 DEF DrainJoin
    <2>4. (\A d \in Conns \ {c} : stage[d] = "pending" => stage'[d] = "pending")
              => InboxPending' /\ InboxApart'
        BY <2>1, InboxAdvances
    <2> HIDE DEF c
    <2>5. ASSUME NEW old \in LostSeats(s, hello[c]),
                 stage' = [stage EXCEPT ![old] = "ended", ![c] = "seated"],
                 home' = [home EXCEPT ![old] = None, ![c] = s]
          PROVE  JoinInv' /\ \A t \in Conns : Kept(t)
        <3>1. old \in Conns /\ home[old] = s /\ stage[old] = "lost" /\ old # c
            BY <2>2 DEF LostSeats
        <3>2. \A d \in Conns :
                 /\ stage'[d] = IF d = c THEN "seated" ELSE IF d = old THEN "ended" ELSE stage[d]
                 /\ home'[d] = IF d = c THEN s ELSE IF d = old THEN None ELSE home[d]
            BY <2>2, <2>5, <3>1 DEF TypeOK
        <3>3. JoinInv'
            <4>1. HomeOK'
                BY <3>2 DEF JoinInv, HomeOK, Early
            <4> QED  BY <2>4, <3>1, <3>2, <4>1 DEF JoinInv
        <3>4. \A t \in Conns \ {s} : Roster(t)' = Roster(t)
            BY <1>1, <2>2, <3>1, <3>2, RosterKept
        <3>5. Roster(s)' = Roster(s)
            <4>1. \A h : Cardinality(Holding(s, h))' = Cardinality(Holding(s, h))
                BY <1>1, <1>2, <2>2, <2>5, SeatSwapped
            <4> QED  BY <4>1 DEF Roster
        <3>6. \A t \in Conns : Kept(t)
            BY <2>2, <3>1, <3>2, <3>4, <3>5 DEF PlayersOf, ClientsOf
        <3> QED  BY <3>3, <3>6
    <2>6. ASSUME hello[c].seats = 0, stage' = [stage EXCEPT ![c] = "seated"],
                 home' = [home EXCEPT ![c] = s]
          PROVE  JoinInv' /\ \A t \in Conns : Kept(t)
        <3>1. \A d \in Conns : /\ stage'[d] = IF d = c THEN "seated" ELSE stage[d]
                               /\ home'[d] = IF d = c THEN s ELSE home[d]
            BY <2>2, <2>6 DEF TypeOK
        <3>2. HomeOK'
            BY <3>1 DEF JoinInv, HomeOK, Early
        <3>3. JoinInv'
            BY <2>4, <3>1, <3>2 DEF JoinInv
        <3>4. ~(hello[c].seats > 0)
            BY <2>6
        <3>5. \A t \in Conns : Roster(t)' = Roster(t)
            BY <1>1, <3>1, <3>4, RosterKept
        <3> QED  BY <2>2, <3>1, <3>3, <3>5 DEF PlayersOf, ClientsOf
    <2>7. ASSUME stage' = [stage EXCEPT ![c] = "error"], UNCHANGED home
          PROVE  JoinInv' /\ \A t \in Conns : Kept(t)
        <3>1. \A d \in Conns : stage'[d] = IF d = c THEN "error" ELSE stage[d]
            BY <2>2, <2>7 DEF TypeOK
        <3>2. HomeOK'
            BY <2>7, <3>1 DEF JoinInv, HomeOK, Early
        <3>3. JoinInv'
            BY <2>4, <3>1, <3>2 DEF JoinInv
        <3>4. \A t \in Conns : Roster(t)' = Roster(t)
            BY <1>1, <2>7, RosterKept
        <3> QED  BY <2>2, <3>1, <3>3, <3>4 DEF PlayersOf, ClientsOf
    <2> QED  BY <2>3, <2>5, <2>6, <2>7
<1> QED  BY <1>3, <1>4, <1>5, <1>6 DEF SlotStep

\* A step takes no seat from a running session and none from a connected player.
LEMMA StepSeats ==
    ASSUME TypeOK, PathInv, JoinInv, [Next]_vars
    PROVE  /\ JoinInv'
           /\ \A s \in Conns : phase[s] = "run" /\ phase'[s] = "run" =>
                 /\ Roster(s)' = Roster(s)
                 /\ \A c \in PlayersOf(s) : stage[c] = "seated" => stage'[c] \in {"seated", "lost"}
<1> USE HostAssumption DEF HostAssumption
<1>1. CASE UNCHANGED vars \/ RequestStop \/ Down
    <2>1. UNCHANGED <<hello, stage, home, inbox>>
        BY <1>1 DEF vars, RequestStop, Down
    <2>2. JoinInv'
        BY <2>1, JoinKept
    <2> QED  BY <2>1, <2>2, RosterKept
<1>2. CASE \/ LobbyStep \/ ClientSpeaks
           \/ \E c \in Conns : Accept(c) \/ GatherAccept(c)
           \/ \E i \in 1..MaxSlots : GatherKick(i)
    <2>1. /\ JoinInv' /\ UNCHANGED home
          /\ \A c \in Conns : home[c] # None => stage'[c] = stage[c] /\ hello'[c] = hello[c]
        BY <1>2, LobbyJoins DEF PathInv
    <2>2. \A s \in Conns : Roster(s)' = Roster(s)
        BY <2>1, RosterKept
    <2> QED  BY <2>1, <2>2 DEF PlayersOf, ClientsOf
<1>3. CASE MainStep
    <2>1. /\ JoinInv' /\ UNCHANGED hello
          /\ \A c \in Conns : home[c] # None => stage'[c] = stage[c] /\ home'[c] = home[c]
          /\ \A c, s \in Conns : home[c] = None /\ home'[c] = s => phase[s] = "none"
        BY <1>3, MainJoins
    <2>2. ASSUME NEW s \in Conns, phase[s] = "run"
          PROVE  /\ Roster(s)' = Roster(s)
                 /\ \A c \in PlayersOf(s) : stage'[c] = stage[c]
        <3>1. \A c \in Conns : home'[c] = home[c] \/ (home[c] # s /\ home'[c] # s)
            BY <2>1, <2>2
        <3>2. Roster(s)' = Roster(s)
            BY <2>1, <3>1, RosterKept
        <3> QED  BY <2>1, <3>2 DEF PlayersOf, ClientsOf
    <2> QED  BY <2>1, <2>2
<1>4. CASE \E s \in Conns : SlotStep(s)
    BY <1>4, SlotJoins
<1> QED  BY <1>1, <1>2, <1>3, <1>4 DEF Next

\* Seats are reserved: joins add viewers and bring players back, and no running
\* session gains or loses a player, however the threads interleave.
THEOREM SeatsAreReserved == Spec => SeatsReserved
<1>1. Init => JoinInv
    BY DEF Init, JoinInv, HomeOK, InboxPending, InboxApart
<1>2. TypeOK /\ PathInv /\ JoinInv /\ [Next]_vars => JoinInv'
    BY StepSeats
<1>3. TypeOK /\ PathInv /\ JoinInv /\ [Next]_vars =>
          [\A s \in Conns : phase[s] = "run" /\ phase'[s] = "run" =>
               /\ Roster(s)' = Roster(s)
               /\ \A c \in PlayersOf(s) : stage[c] = "seated" => stage'[c] \in {"seated", "lost"}]_vars
    BY StepSeats
<1> QED  BY <1>1, <1>2, <1>3, PathInvariant, PTL DEF Spec, SeatsReserved

-----------------------------------------------------------------------------
(* No connection is forgotten: the parts of NothingLost, by stage.           *)

LobbyHolds ==
    /\ \A c \in Conns : stage[c] = "lobby" => c \in Held
    /\ lobby.pc = "capacity" => lobby.gathered = <<lobby.conn>>
InQueue(c) == \/ \E i \in DOMAIN queue : c \in Carried(queue[i])
              \/ \E i \in DOMAIN main.batch : c \in Carried(main.batch[i])
QueueHolds == \A c \in Conns : stage[c] = "queued" => InQueue(c)
InInbox(c) == \E s \in managed : \E i \in DOMAIN inbox[s] : inbox[s][i] = c
InboxHolds == \A c \in Conns : stage[c] = "pending" => InInbox(c)
PlanHolds == \A c \in Conns : stage[c] = "seated" => home[c] \in Conns /\ Writing(home[c])
SeatHolds == \A c \in Conns : stage[c] = "lost" => home[c] \in hub

HoldInv == LobbyHolds /\ QueueHolds /\ InboxHolds /\ PlanHolds /\ SeatHolds

\* The parts say the whole.
LEMMA HoldIsNothingLost == ASSUME TypeOK, HoldInv PROVE NothingLost
<1> USE HostAssumption DEF HostAssumption
<1> SUFFICES ASSUME NEW c \in Conns PROVE Accounted(c)
    BY DEF NothingLost
<1>1. InQueue(c) => \E cmd \in ToSet(queue) \cup ToSet(main.batch) : c \in Carried(cmd)
    BY DEF InQueue, ToSet
<1>2. InInbox(c) => \E s \in managed : c \in ToSet(inbox[s])
    BY DEF InInbox, ToSet
<1>3. /\ stage[c] = "lobby" => c \in Held
      /\ stage[c] = "queued" => InQueue(c)
      /\ stage[c] = "pending" => InInbox(c)
      /\ stage[c] = "seated" => home[c] # None /\ Writing(home[c])
      /\ stage[c] = "lost" => home[c] \in hub
    BY DEF HoldInv, LobbyHolds, QueueHolds, InboxHolds, PlanHolds, SeatHolds
<1> QED  BY <1>1, <1>2, <1>3 DEF Accounted

\* What leaves the hands of the lobby thread is all it had.
LEMMA DropsAll ==
    ASSUME TypeOK, LobbyHolds, NEW S, NEW o \in Stages, o # "lobby", LobbyDrops(S, o), Held \subseteq S
    PROVE  LobbyHolds'
<1>1. \A c \in Conns : stage'[c] = IF c \in S THEN o ELSE stage[c]
    BY DEF LobbyDrops, Put, TypeOK
<1>2. \A c \in Conns : stage'[c] # "lobby"
    BY <1>1 DEF LobbyHolds
<1>3. lobby'.pc # "capacity"
    BY DEF LobbyDrops, Idle
<1> QED  BY <1>2, <1>3 DEF LobbyHolds

\* The lobby thread always knows what it has in hand.
LEMMA LobbyKeepsHold ==
    ASSUME TypeOK, HandsOK, LobbyHolds,
           \/ LobbyStep \/ ClientSpeaks
           \/ \E c \in Conns : Accept(c) \/ GatherAccept(c)
           \/ \E i \in 1..MaxSlots : GatherKick(i)
    PROVE  LobbyHolds'
<1> USE HostAssumption DEF HostAssumption
<1>1. \A S : \A o \in {"queued", "error", "closed"} :
          LobbyDrops(S, o) /\ Held \subseteq S => LobbyHolds'
    BY DropsAll DEF Stages
<1>2. lobby.gathered \in Seq(Conns)
    BY DEF TypeOK
<1>3. ASSUME UNCHANGED stage, Held \subseteq Held', lobby'.pc # "capacity"
      PROVE  LobbyHolds'
    BY <1>3 DEF LobbyHolds
<1>4. ASSUME NEW c \in Conns, Accept(c) PROVE LobbyHolds'
    <2>1. /\ lobby.pc = "accept" /\ stage' = [stage EXCEPT ![c] = "lobby"]
          /\ lobby' = [pc |-> "read", conn |-> c, target |-> None, gathered |-> <<>>]
        BY <1>4 DEF Accept, Idle
    <2>2. Held = {} /\ Held' = {c} /\ lobby'.pc # "capacity"
        BY <2>1 DEF Held
    <2> QED  BY <2>1, <2>2 DEF LobbyHolds, TypeOK
<1>5. ASSUME NEW c \in Conns, GatherAccept(c) PROVE LobbyHolds'
    <2>1. /\ lobby.pc = "gather" /\ stage' = [stage EXCEPT ![c] = "lobby"]
          /\ lobby'.pc = "gatherRead" /\ lobby'.target = c /\ lobby'.gathered = lobby.gathered
        BY <1>5 DEF GatherAccept, TypeOK
    <2>2. Held' = Held \cup {c} /\ lobby'.pc # "capacity"
        BY <2>1 DEF Held
    <2> QED  BY <2>1, <2>2 DEF LobbyHolds, TypeOK
<1>6. ASSUME NEW i \in 1..MaxSlots, GatherKick(i) PROVE LobbyHolds'
    <2> DEFINE r == RemoveAt(lobby.gathered, i)
    <2>1. /\ lobby.pc = "gather" /\ i \in DOMAIN lobby.gathered
          /\ stage' = [stage EXCEPT ![lobby.gathered[i]] = "closed"]
          /\ lobby'.pc = "gather" /\ lobby'.gathered = r
        BY <1>6 DEF GatherKick, TypeOK
    <2>2. \A k \in DOMAIN lobby.gathered \ {i} : \E j \in DOMAIN r : r[j] = lobby.gathered[k]
        BY <1>2, <1>6, <2>1, RemoveAtOnce DEF HandsOK
    <2> HIDE DEF r
    <2>3. Held = ToSet(lobby.gathered) /\ Held' = ToSet(r)
        BY <2>1 DEF Held
    <2>4. Held \subseteq Held' \cup {lobby.gathered[i]}
        BY <2>2, <2>3 DEF ToSet
    <2>5. \A c \in Conns : stage'[c] = IF c = lobby.gathered[i] THEN "closed" ELSE stage[c]
        BY <1>2, <2>1 DEF TypeOK
    <2> QED  BY <2>1, <2>4, <2>5 DEF LobbyHolds
<1>7. ASSUME GatherReadOther PROVE LobbyHolds'
    <2>1. /\ lobby.pc = "gatherRead" /\ stage' = [stage EXCEPT ![lobby.target] = "closed"]
          /\ lobby'.pc = "gather" /\ lobby'.gathered = lobby.gathered
        BY <1>7 DEF GatherReadOther, TypeOK
    <2>2. Held = Held' \cup {lobby.target}
        BY <2>1 DEF Held
    <2>3. \A c \in Conns : stage'[c] = IF c = lobby.target THEN "closed" ELSE stage[c]
        BY <2>1 DEF TypeOK
    <2> QED  BY <2>1, <2>2, <2>3 DEF LobbyHolds
<1>8. ASSUME NEW h \in Hellos, ReadHello(h) PROVE LobbyHolds'
    <2>1. /\ lobby.pc = "read" /\ UNCHANGED stage
          /\ lobby'.pc = "route" /\ lobby'.conn = lobby.conn
        BY <1>8 DEF ReadHello, TypeOK
    <2> QED  BY <1>3, <2>1 DEF Held
<1>9. ASSUME NEW h \in Hellos, GatherReadHello(h) PROVE LobbyHolds'
    <2> DEFINE all == Append(lobby.gathered, lobby.target)
    <2>1. /\ lobby.pc = "gatherRead"
          /\ \/ LobbyDrops(ToSet(all), "error")
             \/ /\ lobby' = [lobby EXCEPT !.pc = "gather", !.target = None, !.gathered = all]
                /\ UNCHANGED stage
        BY <1>9 DEF GatherReadHello
    <2>2. Held = ToSet(lobby.gathered) \cup {lobby.target}
        BY <2>1 DEF Held
    <2>3. Held \subseteq ToSet(all)
        <3>1. lobby.target \in Conns
            BY <2>1 DEF TypeOK
        <3>2. /\ \A j \in DOMAIN lobby.gathered : j \in DOMAIN all /\ all[j] = lobby.gathered[j]
              /\ Len(lobby.gathered) + 1 \in DOMAIN all
              /\ all[Len(lobby.gathered) + 1] = lobby.target
            BY <1>2, <3>1
        <3> HIDE DEF all
        <3>3. \A j \in DOMAIN all : all[j] \in ToSet(all)
            BY DEF ToSet
        <3>4. lobby.target \in ToSet(all)
            BY <3>2, <3>3
        <3>5. \A c \in ToSet(lobby.gathered) : c \in ToSet(all)
            BY <3>2, <3>3 DEF ToSet
        <3> QED  BY <2>2, <3>4, <3>5
    <2> HIDE DEF all
    <2>4. CASE LobbyDrops(ToSet(all), "error")
        BY <1>1, <2>3, <2>4
    <2>5. CASE /\ lobby' = [lobby EXCEPT !.pc = "gather", !.target = None, !.gathered = all]
               /\ UNCHANGED stage
        <3>1. lobby'.pc = "gather" /\ lobby'.gathered = all
            BY <2>5 DEF TypeOK
        <3> QED  BY <1>3, <2>3, <2>5, <3>1 DEF Held
    <2> QED  BY <2>1, <2>4, <2>5
<1>10. ASSUME Route PROVE LobbyHolds'
    <2>1. /\ lobby.pc = "route"
          /\ \/ LobbyDrops({lobby.conn}, "error")
             \/ /\ UNCHANGED stage
                /\ lobby'.pc \in {"join", "admit"} /\ lobby'.conn = lobby.conn
        BY <1>10 DEF Route, TypeOK
    <2>2. Held = {lobby.conn}
        BY <2>1 DEF Held
    <2>3. lobby'.pc \in {"join", "admit"} => Held' = {lobby'.conn}
        BY DEF Held
    <2> QED  BY <1>1, <1>3, <2>1, <2>2, <2>3
<1>11. ASSUME AdmitMode PROVE LobbyHolds'
    <2>1. /\ lobby.pc = "admit"
          /\ \/ LobbyDrops({lobby.conn}, "error")
             \/ /\ UNCHANGED stage
                /\ lobby'.pc \in {"gather", "capacity"} /\ lobby'.conn = lobby.conn
                /\ lobby'.gathered = <<lobby.conn>>
        BY <1>11 DEF AdmitMode, TypeOK
    <2>2. Held = {lobby.conn}
        BY <2>1 DEF Held
    <2>3. ToSet(<<lobby.conn>>) = {lobby.conn}
        BY DEF ToSet
    <2>4. CASE LobbyDrops({lobby.conn}, "error")
        BY <1>1, <2>2, <2>4
    <2>5. CASE /\ UNCHANGED stage
               /\ lobby'.pc \in {"gather", "capacity"} /\ lobby'.conn = lobby.conn
               /\ lobby'.gathered = <<lobby.conn>>
        <3>1. Held' = {lobby.conn}
            BY <2>3, <2>5 DEF Held
        <3> QED  BY <2>2, <2>5, <3>1 DEF LobbyHolds
    <2> QED  BY <2>1, <2>4, <2>5
<1>12. ASSUME AdmitSingle PROVE LobbyHolds'
    <2>1. /\ lobby.pc = "capacity"
          /\ \/ LobbyDrops({lobby.conn}, "error") \/ LobbyDrops({lobby.conn}, "closed")
             \/ UNCHANGED stage /\ lobby'.pc = "start" /\ lobby'.gathered = lobby.gathered
        BY <1>12 DEF AdmitSingle, TypeOK
    <2>2. Held = {lobby.conn}
        BY <2>1 DEF Held
    <2>3. ToSet(<<lobby.conn>>) = {lobby.conn}
        BY DEF ToSet
    <2>4. lobby'.pc = "start" => Held' = ToSet(lobby'.gathered)
        BY DEF Held
    <2>5. lobby.gathered = <<lobby.conn>>
        BY <2>1 DEF LobbyHolds
    <2> QED  BY <1>1, <1>3, <2>1, <2>2, <2>3, <2>4, <2>5
<1>13. ASSUME GatherEnd PROVE LobbyHolds'
    <2>1. /\ lobby.pc = "gather"
          /\ \/ LobbyDrops(ToSet(lobby.gathered), "error")
             \/ LobbyDrops(ToSet(lobby.gathered), "closed")
             \/ UNCHANGED stage /\ lobby'.pc = "start" /\ lobby'.gathered = lobby.gathered
        BY <1>13 DEF GatherEnd, TypeOK
    <2>2. Held = ToSet(lobby.gathered)
        BY <2>1 DEF Held
    <2>3. lobby'.pc = "start" => Held' = ToSet(lobby'.gathered)
        BY DEF Held
    <2> QED  BY <1>1, <1>3, <2>1, <2>2, <2>3
<1>14. ASSUME ReadOther \/ EnqueueJoin PROVE LobbyHolds'
    <2>1. /\ lobby.pc \in {"read", "join"}
          /\ LobbyDrops({lobby.conn}, "closed") \/ LobbyDrops({lobby.conn}, "queued")
        BY <1>14 DEF ReadOther, EnqueueJoin
    <2>2. Held = {lobby.conn}
        BY <2>1 DEF Held
    <2> QED  BY <1>1, <2>1, <2>2
<1>15. ASSUME EnqueueStart PROVE LobbyHolds'
    <2>1. lobby.pc = "start" /\ LobbyDrops(ToSet(lobby.gathered), "queued")
        BY <1>15 DEF EnqueueStart
    <2>2. Held = ToSet(lobby.gathered)
        BY <2>1 DEF Held
    <2> QED  BY <1>1, <2>1, <2>2
<1>16. ASSUME LobbyExit PROVE LobbyHolds'
    <2>1. UNCHANGED stage /\ lobby.pc = "accept" /\ lobby'.pc = "down"
        BY <1>16 DEF LobbyExit, Idle
    <2> QED  BY <1>3, <2>1 DEF Held
<1> QED
    BY <1>4, <1>5, <1>6, <1>7, <1>8, <1>9, <1>10, <1>11, <1>12, <1>13, <1>14, <1>15, <1>16
    DEF LobbyStep, ClientSpeaks

\* The lobby thread only puts connections into its hands, into the queue or aside.
LEMMA LobbyOutcomes ==
    ASSUME TypeOK,
           \/ LobbyStep \/ ClientSpeaks
           \/ \E c \in Conns : Accept(c) \/ GatherAccept(c)
           \/ \E i \in 1..MaxSlots : GatherKick(i)
    PROVE  /\ UNCHANGED <<managed, hub, home>>
           /\ \A c \in Conns : stage'[c] = stage[c] \/ stage'[c] \in {"lobby", "queued", "error", "closed"}
           /\ \/ UNCHANGED queue
              \/ \E cmd : queue' = Append(queue, cmd)
           /\ \A c \in Conns : stage'[c] = "queued" /\ stage[c] # "queued" =>
                 \E cmd : queue' = Append(queue, cmd) /\ c \in Carried(cmd)
<1> DEFINE Moves == \A c \in Conns : stage'[c] = stage[c] \/ stage'[c] \in {"lobby", "error", "closed"}
<1>1. UNCHANGED <<managed, hub, home>>
    BY DEF LobbyStep, ClientSpeaks, Accept, GatherAccept, GatherKick, Route,
       EnqueueJoin, AdmitMode, AdmitSingle, GatherEnd, EnqueueStart, LobbyExit,
       ReadOther, GatherReadOther, ReadHello, GatherReadHello
<1>2. \A S, o : LobbyDrops(S, o) =>
          \A c \in Conns : stage'[c] = stage[c] \/ (c \in S /\ stage'[c] = o)
    BY DEF LobbyDrops, Put, TypeOK
<1>3. \A S : \A o \in {"error", "closed"} : LobbyDrops(S, o) => Moves
    BY <1>2
<1>4. ASSUME NEW c \in Conns, Accept(c) \/ GatherAccept(c) PROVE UNCHANGED queue /\ Moves
    <2>1. UNCHANGED queue /\ stage' = [stage EXCEPT ![c] = "lobby"]
        BY <1>4 DEF Accept, GatherAccept
    <2> QED  BY <2>1 DEF TypeOK
<1>5. ASSUME NEW i \in 1..MaxSlots, GatherKick(i) PROVE UNCHANGED queue /\ Moves
    <2>1. UNCHANGED queue /\ stage' = [stage EXCEPT ![lobby.gathered[i]] = "closed"]
        BY <1>5 DEF GatherKick
    <2> QED  BY <2>1 DEF TypeOK
<1>6. ASSUME GatherReadOther PROVE UNCHANGED queue /\ Moves
    <2>1. UNCHANGED queue /\ stage' = [stage EXCEPT ![lobby.target] = "closed"]
        BY <1>6 DEF GatherReadOther
    <2> QED  BY <2>1 DEF TypeOK
<1>7. ASSUME \/ Route \/ AdmitMode \/ AdmitSingle \/ GatherEnd \/ LobbyExit \/ ReadOther
             \/ \E h \in Hellos : ReadHello(h) \/ GatherReadHello(h)
      PROVE  UNCHANGED queue /\ Moves
    <2>1. /\ UNCHANGED queue
          /\ UNCHANGED stage \/ \E S : \E o \in {"error", "closed"} : LobbyDrops(S, o)
        BY <1>7 DEF Route, AdmitMode, AdmitSingle, GatherEnd, LobbyExit, ReadOther, ReadHello,
           GatherReadHello
    <2> QED  BY <1>3, <2>1
<1>8. ASSUME EnqueueJoin \/ EnqueueStart
      PROVE  \E S, cmd : /\ queue' = Append(queue, cmd) /\ LobbyDrops(S, "queued")
                         /\ Carried(cmd) = S
    <2>1. CASE EnqueueJoin
        <3> DEFINE cmd == [kind |-> "EnqueueJoin", conn |-> lobby.conn, slot |-> lobby.target]
        <3>1. queue' = Append(queue, cmd) /\ LobbyDrops({lobby.conn}, "queued")
            BY <2>1 DEF EnqueueJoin
        <3>2. Carried(cmd) = {lobby.conn}
            BY DEF Carried
        <3> QED  BY <3>1, <3>2
    <2>2. CASE EnqueueStart
        <3>1. PICK i \in DOMAIN lobby.gathered :
                 queue' = Append(queue, [kind |-> "StartSession", clients |-> lobby.gathered,
                                         user |-> SaveUser(lobby.gathered, i)])
            BY <2>2 DEF EnqueueStart
        <3> DEFINE cmd == [kind |-> "StartSession", clients |-> lobby.gathered,
                           user |-> SaveUser(lobby.gathered, i)]
        <3>2. queue' = Append(queue, cmd) /\ LobbyDrops(ToSet(lobby.gathered), "queued")
            BY <2>2, <3>1 DEF EnqueueStart
        <3>3. Carried(cmd) = ToSet(lobby.gathered)
            BY DEF Carried
        <3> QED  BY <3>2, <3>3
    <2> QED  BY <1>8, <2>1, <2>2
<1>9. CASE EnqueueJoin \/ EnqueueStart
    <2>1. PICK S, cmd : /\ queue' = Append(queue, cmd) /\ LobbyDrops(S, "queued")
                        /\ Carried(cmd) = S
        BY <1>8, <1>9
    <2>2. \A c \in Conns : stage'[c] = stage[c] \/ (c \in S /\ stage'[c] = "queued")
        BY <1>2, <2>1
    <2> QED  BY <1>1, <2>1, <2>2
<1>10. UNCHANGED queue /\ Moves => \A c \in Conns : stage'[c] = "queued" => stage[c] = "queued"
    OBVIOUS
<1> QED
    BY <1>1, <1>4, <1>5, <1>6, <1>7, <1>9, <1>10 DEF LobbyStep, ClientSpeaks

\* A command added to the queue pushes nothing out.
LEMMA QueueKeepsHold ==
    ASSUME TypeOK, QueueHolds, UNCHANGED main,
           UNCHANGED queue \/ \E cmd : queue' = Append(queue, cmd),
           \A c \in Conns : stage'[c] = "queued" /\ stage[c] # "queued" =>
              \E cmd : queue' = Append(queue, cmd) /\ c \in Carried(cmd)
    PROVE  QueueHolds'
<1>1. queue \in Seq(Commands)
    BY DEF TypeOK
<1>2. \A i \in DOMAIN queue : i \in DOMAIN queue' /\ queue'[i] = queue[i]
    <2>1. \A cmd : \A i \in DOMAIN queue : i \in DOMAIN Append(queue, cmd) /\ Append(queue, cmd)[i] = queue[i]
        BY <1>1
    <2> QED  BY <2>1
<1>3. \A cmd : /\ Len(queue) + 1 \in DOMAIN Append(queue, cmd)
               /\ Append(queue, cmd)[Len(queue) + 1] = cmd
    BY <1>1
<1>4. \A c \in Conns : stage[c] = "queued" => InQueue(c)'
    BY <1>2 DEF QueueHolds, InQueue
<1>5. \A c \in Conns : stage'[c] = "queued" /\ stage[c] # "queued" => InQueue(c)'
    BY <1>3 DEF InQueue
<1> QED  BY <1>4, <1>5 DEF QueueHolds

\* What the lobby thread does leaves every connection held.
LEMMA LobbyHold ==
    ASSUME TypeOK, HandsOK, HoldInv,
           \/ LobbyStep \/ ClientSpeaks
           \/ \E c \in Conns : Accept(c) \/ GatherAccept(c)
           \/ \E i \in 1..MaxSlots : GatherKick(i)
    PROVE  HoldInv'
<1>1. UNCHANGED <<main, inbox, phase, managed, hub, home>>
    BY LobbyMoves, LobbyOutcomes
<1>2. \A c \in Conns : stage'[c] = stage[c] \/ stage'[c] \in {"lobby", "queued", "error", "closed"}
    BY LobbyOutcomes
<1>3. LobbyHolds'
    BY LobbyKeepsHold DEF HoldInv
<1>4. QueueHolds'
    BY <1>1, LobbyOutcomes, QueueKeepsHold DEF HoldInv
<1>5. InboxHolds' /\ PlanHolds' /\ SeatHolds'
    BY <1>1, <1>2 DEF HoldInv, InboxHolds, InInbox, PlanHolds, SeatHolds, Writing
<1> QED  BY <1>3, <1>4, <1>5 DEF HoldInv

\* A command that has been applied leaves the batch with the connections it brought.
LEMMA BatchKeepsHold ==
    ASSUME TypeOK, QueueHolds, UNCHANGED queue, main.batch # <<>>,
           main' = [main EXCEPT !.batch = Tail(@)],
           \A c \in Conns : stage'[c] = "queued" =>
              stage[c] = "queued" /\ c \notin Carried(Head(main.batch))
    PROVE  QueueHolds'
<1>1. main.batch \in Seq(Commands) /\ main'.batch = Tail(main.batch)
    BY DEF TypeOK
<1>2. \A i \in DOMAIN main.batch : \/ main.batch[i] = Head(main.batch)
                                   \/ /\ i - 1 \in DOMAIN main'.batch
                                      /\ main'.batch[i - 1] = main.batch[i]
    BY <1>1
<1> SUFFICES ASSUME NEW c \in Conns, stage'[c] = "queued" PROVE InQueue(c)'
    BY DEF QueueHolds
<1>3. stage[c] = "queued" /\ c \notin Carried(Head(main.batch))
    OBVIOUS
<1>4. \/ \E i \in DOMAIN queue : c \in Carried(queue[i])
      \/ \E i \in DOMAIN main.batch : c \in Carried(main.batch[i])
    BY <1>3 DEF QueueHolds, InQueue
<1> QED  BY <1>2, <1>3, <1>4 DEF InQueue

\* Destroyed inboxes forget no connection that still is pending.
LEMMA InboxKeepsHold ==
    ASSUME TypeOK, InboxHolds, NEW dead \in SUBSET Conns, EmptyInboxes(dead),
           managed \ dead \subseteq managed',
           \A c \in Conns : stage'[c] = "pending" =>
              stage[c] = "pending" /\ c \notin Unanswered(dead)
    PROVE  InboxHolds'
<1> SUFFICES ASSUME NEW c \in Conns, stage'[c] = "pending" PROVE InInbox(c)'
    BY DEF InboxHolds
<1>1. PICK s \in managed : \E i \in DOMAIN inbox[s] : inbox[s][i] = c
    BY DEF InboxHolds, InInbox
<1>2. s \in Conns
    BY DEF TypeOK
<1>3. s \notin dead
    BY <1>1 DEF Unanswered, ToSet
<1>4. inbox'[s] = inbox[s]
    BY <1>2, <1>3 DEF EmptyInboxes
<1> QED  BY <1>1, <1>3, <1>4 DEF InInbox

\* The main thread passes every connection on, or answers it.
LEMMA MainHold ==
    ASSUME TypeOK, SlotInv, PathInv, HoldInv, MainStep
    PROVE  HoldInv'
<1> USE HostAssumption DEF HostAssumption
<1> DEFINE cmd == Head(main.batch)
           dead == {d \in managed : Finished(d)}
<1>1. UNCHANGED lobby
    BY DEF MainStep, Drain, ApplyStart, ApplyJoin, Reap, StopTicking, JoinLobby, JoinSlots
<1>2. ASSUME \A c \in Conns : stage'[c] = "lobby" => stage[c] = "lobby"
      PROVE  LobbyHolds'
    BY <1>1, <1>2 DEF HoldInv, LobbyHolds, Held
<1>3. dead \in SUBSET Conns /\ managed \in SUBSET Conns /\ hub \subseteq managed
    BY DEF TypeOK, SlotInv
<1>4. CASE Drain \/ StopTicking \/ JoinLobby
    <2>1. UNCHANGED <<stage, inbox, phase, managed, hub, home>>
        BY <1>4 DEF Drain, StopTicking, JoinLobby
    <2>2. \/ main.batch = <<>> /\ main'.batch = queue
          \/ main'.batch = main.batch /\ queue' = queue
        <3>1. CASE Drain
            BY <3>1 DEF Drain, PathInv, QueueOK
        <3>2. CASE StopTicking \/ JoinLobby
            BY <3>2 DEF StopTicking, JoinLobby, TypeOK
        <3> QED  BY <1>4, <3>1, <3>2
    <2>3. QueueHolds'
        BY <2>1, <2>2 DEF HoldInv, QueueHolds, InQueue
    <2>4. InboxHolds' /\ PlanHolds' /\ SeatHolds'
        BY <2>1 DEF HoldInv, InboxHolds, InInbox, PlanHolds, SeatHolds, Writing
    <2> QED  BY <1>2, <2>1, <2>3, <2>4 DEF HoldInv
<1>5. CASE ApplyStart
    <2> DEFINE s == Head(cmd.clients)
               cs == ToSet(cmd.clients)
               gone == Unanswered(dead)
    <2>1. /\ main.batch # <<>> /\ cmd.kind = "StartSession" /\ EmptyInboxes(dead)
          /\ main' = [main EXCEPT !.batch = Tail(@)] /\ UNCHANGED queue
        BY <1>5 DEF ApplyStart
    <2>2. /\ cmd \in Commands /\ Carried(cmd) = cs /\ cs \subseteq Conns
          /\ \A c \in cs : stage[c] = "queued"
        BY <2>1, HeadCommand DEF PathInv, Carried
    <2>3. s \in cs /\ s \in Conns
        <3>1. cmd.clients \in Seq(Conns) /\ cmd.clients # <<>>
            BY <2>1, <2>2 DEF Commands
        <3>2. 1 \in DOMAIN cmd.clients /\ Head(cmd.clients) = cmd.clients[1]
            BY <3>1
        <3> QED  BY <2>2, <3>2 DEF ToSet
    <2>4. \/ /\ managed' = (managed \ dead) \cup {s} /\ hub' = hub \cup {s}
             /\ phase' = [Put(phase, dead, "erased") EXCEPT ![s] = "boot"]
             /\ home' = Put(home, cs, s)
             /\ stage' = Put(Put(stage, gone, "closed"), cs, "seated")
          \/ /\ managed' = managed \ dead /\ phase' = Put(phase, dead, "erased")
             /\ stage' = Put(stage, gone \cup cs, "closed")
             /\ UNCHANGED <<hub, home>>
        BY <1>5 DEF ApplyStart
    <2>5. \A t \in Conns : Writing(t) => t \notin dead
        BY DEF Writing, Finished
    <2> HIDE DEF s, cs, cmd, dead, gone
    <2>6. \A c \in Conns :
             \/ c \in cs /\ stage'[c] = "closed"
             \/ /\ c \in cs /\ stage'[c] = "seated" /\ home'[c] = s /\ phase'[s] = "boot"
             \/ c \notin cs /\ c \in gone /\ stage'[c] = "closed"
             \/ c \notin cs /\ c \notin gone /\ stage'[c] = stage[c] /\ home'[c] = home[c]
        <3>1. CASE /\ phase' = [Put(phase, dead, "erased") EXCEPT ![s] = "boot"]
                   /\ home' = Put(home, cs, s)
                   /\ stage' = Put(Put(stage, gone, "closed"), cs, "seated")
            BY <2>3, <3>1 DEF Put, TypeOK
        <3>2. CASE stage' = Put(stage, gone \cup cs, "closed") /\ UNCHANGED home
            BY <3>2 DEF Put, TypeOK
        <3> QED  BY <2>4, <3>1, <3>2
    <2>7. \A t \in Conns : Writing(t) => Writing(t)'
        <3>1. \A t \in Conns \ dead : phase'[t] \in {phase[t], "boot"}
            BY <2>3, <2>4 DEF Put, TypeOK
        <3> QED  BY <2>5, <3>1 DEF Writing
    <2>8. managed \ dead \subseteq managed' /\ hub \subseteq hub'
        BY <2>4
    <2>9. LobbyHolds'
        BY <1>2, <2>6
    <2>10. QueueHolds'
        BY <2>1, <2>2, <2>6, BatchKeepsHold DEF HoldInv, cmd
    <2>11. InboxHolds'
        BY <1>3, <2>1, <2>6, <2>8, InboxKeepsHold DEF HoldInv, gone
    <2>12. PlanHolds'
        BY <2>3, <2>6, <2>7 DEF HoldInv, PlanHolds, Writing
    <2>13. SeatHolds'
        BY <2>6, <2>8 DEF HoldInv, SeatHolds
    <2> QED  BY <2>9, <2>10, <2>11, <2>12, <2>13 DEF HoldInv
<1>6. CASE ApplyJoin
    <2> DEFINE c == cmd.conn
    <2>1. /\ main.batch # <<>> /\ cmd.kind = "EnqueueJoin"
          /\ main' = [main EXCEPT !.batch = Tail(@)]
          /\ UNCHANGED <<queue, phase, managed, hub, home>>
        BY <1>6 DEF ApplyJoin
    <2>2. c \in Conns /\ stage[c] = "queued" /\ Carried(cmd) = {c}
        BY <2>1, HeadCommand DEF PathInv, Carried
    <2>3. \/ stage' = [stage EXCEPT ![c] = "closed"] /\ UNCHANGED inbox
          \/ /\ stage' = [stage EXCEPT ![c] = "pending"]
             /\ \E s \in managed : inbox' = [inbox EXCEPT ![s] = Append(@, c)]
        <3>1. \A h : SlotsForReconnect(h) \subseteq managed /\ SlotsForLateViewer(h) \subseteq managed
            BY <1>3 DEF SlotsForReconnect, SlotsForLateViewer, HubLive
        <3> QED  BY <1>6, <3>1 DEF ApplyJoin
    <2> HIDE DEF c, cmd, dead
    <2>4. \A d \in Conns \ {c} : stage'[d] = stage[d]
        BY <2>3 DEF TypeOK
    <2>5. stage'[c] \in {"closed", "pending"}
        BY <2>2, <2>3 DEF TypeOK
    <2>6. LobbyHolds'
        BY <1>2, <2>4, <2>5
    <2>7. QueueHolds'
        BY <2>1, <2>2, <2>4, <2>5, BatchKeepsHold DEF HoldInv, cmd
    <2>8. InboxHolds'
        <3>1. CASE stage' = [stage EXCEPT ![c] = "closed"] /\ UNCHANGED inbox
            <4>1. stage'[c] = "closed"
                BY <2>2, <3>1 DEF TypeOK
            <4> QED  BY <2>1, <2>4, <3>1, <4>1 DEF HoldInv, InboxHolds, InInbox
        <3>2. ASSUME NEW s \in managed, inbox' = [inbox EXCEPT ![s] = Append(@, c)]
              PROVE  InboxHolds'
            <4>1. \A t \in Conns : inbox[t] \in Seq(Conns)
                BY DEF TypeOK
            <4>2. \A t \in Conns : inbox'[t] = IF t = s THEN Append(inbox[s], c) ELSE inbox[t]
                BY <3>2 DEF TypeOK
            <4>3. s \in Conns
                BY <1>3
            <4>4. /\ \A i \in DOMAIN inbox[s] : i \in DOMAIN inbox'[s] /\ inbox'[s][i] = inbox[s][i]
                  /\ \E i \in DOMAIN inbox'[s] : inbox'[s][i] = c
                <5>1. /\ \A i \in DOMAIN inbox[s] : /\ i \in DOMAIN Append(inbox[s], c)
                                                    /\ Append(inbox[s], c)[i] = inbox[s][i]
                      /\ Len(inbox[s]) + 1 \in DOMAIN Append(inbox[s], c)
                      /\ Append(inbox[s], c)[Len(inbox[s]) + 1] = c
                    BY <4>1, <4>3
                <5> QED  BY <4>2, <4>3, <5>1
            <4>5. \A d : InInbox(d) => InInbox(d)'
                BY <1>3, <2>1, <4>2, <4>4 DEF InInbox
            <4>6. \E t \in managed' : \E i \in DOMAIN inbox'[t] : inbox'[t][i] = c
                BY <2>1, <4>4
            <4>7. ASSUME NEW d \in Conns, stage'[d] = "pending"
                  PROVE  \E t \in managed' : \E i \in DOMAIN inbox'[t] : inbox'[t][i] = d
                <5>1. CASE d = c
                    BY <4>6, <5>1
                <5>2. CASE d # c
                    <6>1. InInbox(d)
                        BY <2>4, <4>7, <5>2 DEF HoldInv, InboxHolds
                    <6> QED  BY <4>5, <6>1 DEF InInbox
                <5> QED  BY <5>1, <5>2
            <4> QED  BY <4>7 DEF InboxHolds, InInbox
        <3> QED  BY <2>3, <3>1, <3>2
    <2>9. PlanHolds' /\ SeatHolds'
        BY <2>1, <2>4, <2>5 DEF HoldInv, PlanHolds, SeatHolds, Writing
    <2> QED  BY <2>6, <2>7, <2>8, <2>9 DEF HoldInv
<1>7. CASE Reap
    <2>1. /\ main.batch = <<>> /\ main' = [main EXCEPT !.pc = "tick"]
          /\ UNCHANGED <<queue, hub, home>>
          /\ managed' = managed \ dead /\ phase' = Put(phase, dead, "erased") /\ EmptyInboxes(dead)
          /\ stage' = Put(stage, Unanswered(dead), "closed")
        BY <1>7 DEF Reap, Destroy
    <2>2. \A t \in Conns : Writing(t) => t \notin dead
        BY DEF Writing, Finished
    <2>3. main'.batch = main.batch
        BY <2>1 DEF TypeOK
    <2> HIDE DEF dead, cmd
    <2>4. \A c \in Conns : stage'[c] = IF c \in Unanswered(dead) THEN "closed" ELSE stage[c]
        BY <2>1 DEF Put, TypeOK
    <2>5. \A t \in Conns : Writing(t) => Writing(t)'
        BY <2>1, <2>2 DEF Put, TypeOK, Writing
    <2>6. LobbyHolds'
        BY <1>2, <2>4
    <2>7. QueueHolds'
        BY <2>1, <2>3, <2>4 DEF HoldInv, QueueHolds, InQueue
    <2>8. InboxHolds'
        BY <1>3, <2>1, <2>4, InboxKeepsHold DEF HoldInv
    <2>9. PlanHolds' /\ SeatHolds'
        BY <2>1, <2>4, <2>5 DEF HoldInv, PlanHolds, SeatHolds
    <2> QED  BY <2>6, <2>7, <2>8, <2>9 DEF HoldInv
<1>8. CASE JoinSlots
    <2> DEFINE left == Unanswered(managed) \cup {c \in Conns : stage[c] = "queued"}
    <2>1. (\A d \in managed : Finished(d)) /\ stage' = Put(stage, left, "closed")
        BY <1>8 DEF JoinSlots
    <2>2. \A t \in Conns : ~Writing(t) /\ t \notin hub
        BY <2>1 DEF Writing, Finished, SlotInv
    <2>3. \A c \in Conns : InInbox(c) => c \in Unanswered(managed)
        BY DEF InInbox, Unanswered, ToSet
    <2>4. \A c \in Conns : stage[c] \in {"queued", "pending"} => c \in left
        BY <2>3 DEF HoldInv, InboxHolds
    <2> HIDE DEF left
    <2>5. \A c \in Conns : stage'[c] = IF c \in left THEN "closed" ELSE stage[c]
        BY <2>1 DEF Put, TypeOK
    <2>6. hub = {}
        BY <2>2 DEF TypeOK
    <2>7. \A c \in Conns : stage[c] \notin {"seated", "lost"}
        BY <2>2, <2>6 DEF HoldInv, PlanHolds, SeatHolds
    <2>8. \A c \in Conns : stage'[c] \notin {"queued", "pending", "seated", "lost"}
        BY <2>4, <2>5, <2>7
    <2>9. LobbyHolds'
        BY <1>2, <2>5
    <2> QED  BY <2>8, <2>9 DEF HoldInv, QueueHolds, InboxHolds, PlanHolds, SeatHolds
<1> QED  BY <1>4, <1>5, <1>6, <1>7, <1>8 DEF MainStep

\* A slot thread seats or answers the joins it takes, and answers its clients when
\* its session is over.
LEMMA SlotHold ==
    ASSUME TypeOK, SlotInv, HoldInv, NEW s \in Conns, SlotStep(s)
    PROVE  HoldInv'
<1> USE HostAssumption DEF HostAssumption
<1>1. UNCHANGED <<lobby, queue, main, managed>>
    BY DEF SlotStep, Booted, Fail, DrainJoin, ClientLost, LeaveLoop, Cleanup, Unregister, Finish
<1>2. ASSUME \A c \in Conns : stage'[c] \in {"lobby", "queued"} => stage'[c] = stage[c]
      PROVE  LobbyHolds' /\ QueueHolds'
    BY <1>1, <1>2 DEF HoldInv, LobbyHolds, Held, QueueHolds, InQueue
<1>3. ASSUME UNCHANGED inbox, \A c \in Conns : stage'[c] = "pending" => stage[c] = "pending"
      PROVE  InboxHolds'
    BY <1>1, <1>3 DEF HoldInv, InboxHolds, InInbox
<1>4. \A c \in Conns : /\ stage[c] = "seated" => home[c] \in Conns /\ Writing(home[c])
                       /\ stage[c] = "lost" => home[c] \in hub
    BY DEF HoldInv, PlanHolds, SeatHolds
<1>5. \A t \in Conns : Writing(t) => t \in hub
    BY DEF SlotInv, Writing
<1>6. CASE Booted(s) \/ LeaveLoop(s) \/ Finish(s)
    <2>1. /\ UNCHANGED <<stage, home, inbox, hub>>
          /\ \E ph \in Phases : phase' = [phase EXCEPT ![s] = ph]
          /\ \/ phase[s] = "unhubbed"
             \/ phase' = [phase EXCEPT ![s] = "run"] \/ phase' = [phase EXCEPT ![s] = "cleanup"]
        BY <1>6 DEF Booted, LeaveLoop, Finish, Phases
    <2>2. \A t \in Conns : Writing(t) => Writing(t)'
        BY <2>1 DEF Writing, TypeOK
    <2> QED  BY <1>2, <1>3, <1>4, <2>1, <2>2 DEF HoldInv, PlanHolds, SeatHolds
<1>7. CASE Fail(s) \/ Cleanup(s)
    <2>1. /\ UNCHANGED <<home, inbox, hub>>
          /\ \E ph \in Phases : phase' = [phase EXCEPT ![s] = ph]
          /\ \E o \in {"error", "ended"} : stage' = Put(stage, SeatedIn(s), o)
        BY <1>7 DEF Fail, Cleanup, Phases
    <2>2. PICK o \in {"error", "ended"} :
             \A c \in Conns : stage'[c] = IF home[c] = s /\ stage[c] = "seated" THEN o ELSE stage[c]
        BY <2>1 DEF Put, SeatedIn, ClientsOf, TypeOK
    <2>3. \A t \in Conns \ {s} : Writing(t) => Writing(t)'
        BY <2>1 DEF Writing, TypeOK
    <2> QED  BY <1>2, <1>3, <1>4, <2>1, <2>2, <2>3 DEF HoldInv, PlanHolds, SeatHolds
<1>8. CASE Unregister(s)
    <2>1. /\ UNCHANGED <<home, inbox>> /\ phase[s] = "ended" /\ hub' = hub \ {s}
          /\ phase' = [phase EXCEPT ![s] = "unhubbed"]
          /\ stage' = Put(stage, {c \in ClientsOf(s) : stage[c] = "lost"}, "ended")
        BY <1>8 DEF Unregister
    <2>2. \A c \in Conns : stage'[c] = IF home[c] = s /\ stage[c] = "lost" THEN "ended" ELSE stage[c]
        BY <2>1 DEF Put, ClientsOf, TypeOK
    <2>3. \A t \in Conns : Writing(t) => Writing(t)'
        BY <2>1 DEF Writing, TypeOK
    <2> QED  BY <1>2, <1>3, <1>4, <2>1, <2>2, <2>3 DEF HoldInv, PlanHolds, SeatHolds
<1>9. CASE ClientLost(s)
    <2>1. /\ UNCHANGED <<inbox, phase, hub>> /\ phase[s] = "run"
          /\ \E c \in SeatedIn(s) :
                \/ stage' = [stage EXCEPT ![c] = "lost"] /\ UNCHANGED home
                \/ stage' = [stage EXCEPT ![c] = "ended"] /\ home' = [home EXCEPT ![c] = None]
        BY <1>9 DEF ClientLost
    <2>2. PICK c \in Conns : /\ home[c] = s
             /\ \/ stage' = [stage EXCEPT ![c] = "lost"] /\ UNCHANGED home
                \/ stage' = [stage EXCEPT ![c] = "ended"] /\ home' = [home EXCEPT ![c] = None]
        BY <2>1 DEF SeatedIn, ClientsOf
    <2>3. \A d \in Conns : \/ d # c /\ stage'[d] = stage[d] /\ home'[d] = home[d]
                           \/ d = c /\ stage'[d] = "lost" /\ home'[d] = s
                           \/ d = c /\ stage'[d] = "ended"
        BY <2>2 DEF TypeOK
    <2>4. s \in hub
        BY <2>1 DEF SlotInv
    <2> QED  BY <1>2, <1>3, <1>4, <2>1, <2>3, <2>4 DEF HoldInv, PlanHolds, SeatHolds, Writing
<1>10. CASE DrainJoin(s)
    <2> DEFINE c == Head(inbox[s])
    <2>1. /\ inbox[s] # <<>> /\ inbox' = [inbox EXCEPT ![s] = Tail(@)]
          /\ phase[s] = "run" /\ UNCHANGED <<phase, hub>>
        BY <1>10 DEF DrainJoin
    <2>2. inbox[s] \in Seq(Conns) /\ c \in Conns
        BY <2>1 DEF TypeOK
    <2>3. \/ \E old \in LostSeats(s, hello[c]) :
                /\ stage' = [stage EXCEPT ![old] = "ended", ![c] = "seated"]
                /\ home' = [home EXCEPT ![old] = None, ![c] = s]
          \/ stage' = [stage EXCEPT ![c] = "seated"] /\ home' = [home EXCEPT ![c] = s]
          \/ stage' = [stage EXCEPT ![c] = "error"] /\ UNCHANGED home
        BY <1>10 DEF DrainJoin
    <2>4. \A i \in DOMAIN inbox[s] : \/ inbox[s][i] = c
                                     \/ /\ i - 1 \in DOMAIN Tail(inbox[s])
                                        /\ Tail(inbox[s])[i - 1] = inbox[s][i]
        BY <2>2
    <2>5. \A t \in Conns : inbox'[t] = IF t = s THEN Tail(inbox[s]) ELSE inbox[t]
        BY <2>1 DEF TypeOK
    <2> HIDE DEF c
    <2>6. \A d \in Conns : \/ stage'[d] = stage[d] /\ home'[d] = home[d] /\ d # c
                           \/ stage'[d] = "seated" /\ home'[d] = s
                           \/ stage'[d] \in {"ended", "error"}
        <3>1. ASSUME NEW old \in LostSeats(s, hello[c]),
                     stage' = [stage EXCEPT ![old] = "ended", ![c] = "seated"],
                     home' = [home EXCEPT ![old] = None, ![c] = s]
              PROVE  \A d \in Conns : \/ stage'[d] = stage[d] /\ home'[d] = home[d] /\ d # c
                                      \/ stage'[d] = "seated" /\ home'[d] = s
                                      \/ stage'[d] = "ended"
            BY <2>2, <3>1 DEF TypeOK
        <3>2. CASE stage' = [stage EXCEPT ![c] = "seated"] /\ home' = [home EXCEPT ![c] = s]
            BY <2>2, <3>2 DEF TypeOK
        <3>3. CASE stage' = [stage EXCEPT ![c] = "error"] /\ UNCHANGED home
            BY <2>2, <3>3 DEF TypeOK
        <3> QED  BY <2>3, <3>1, <3>2, <3>3
    <2>7. \A d \in Conns \ {c} : InInbox(d) => InInbox(d)'
        <3>1. managed \subseteq Conns
            BY DEF TypeOK
        <3>2. ASSUME NEW d \in Conns \ {c}, NEW t \in managed, NEW i \in DOMAIN inbox[t],
                     inbox[t][i] = d
              PROVE  \E j \in DOMAIN inbox'[t] : inbox'[t][j] = d
            <4>1. CASE t = s
                <5>1. i - 1 \in DOMAIN Tail(inbox[s]) /\ Tail(inbox[s])[i - 1] = d
                    BY <2>4, <3>2, <4>1
                <5> QED  BY <2>5, <4>1, <5>1
            <4>2. CASE t # s
                BY <2>5, <3>1, <3>2, <4>2
            <4> QED  BY <4>1, <4>2
        <3> QED  BY <1>1, <3>2 DEF InInbox
    <2>8. InboxHolds'
        BY <2>6, <2>7 DEF HoldInv, InboxHolds
    <2>9. PlanHolds' /\ SeatHolds'
        BY <1>4, <2>1, <2>6 DEF PlanHolds, SeatHolds, Writing
    <2> QED  BY <1>2, <2>6, <2>8, <2>9 DEF HoldInv
<1> QED  BY <1>6, <1>7, <1>8, <1>9, <1>10 DEF SlotStep

\* Every step leaves every connection held.
LEMMA StepHold ==
    ASSUME TypeOK, SlotInv, PathInv, HoldInv, [Next]_vars
    PROVE  HoldInv'
<1>1. CASE UNCHANGED vars \/ RequestStop \/ Down
    <2>1. UNCHANGED <<stage, lobby, queue, main, managed, hub, phase, home, inbox>>
        BY <1>1 DEF vars, RequestStop, Down
    <2>2. LobbyHolds' /\ QueueHolds'
        BY <2>1 DEF HoldInv, LobbyHolds, Held, QueueHolds, InQueue
    <2> QED  BY <2>1, <2>2 DEF HoldInv, InboxHolds, InInbox, PlanHolds, SeatHolds, Writing
<1>2. CASE \/ LobbyStep \/ ClientSpeaks
           \/ \E c \in Conns : Accept(c) \/ GatherAccept(c)
           \/ \E i \in 1..MaxSlots : GatherKick(i)
    BY <1>2, LobbyHold DEF PathInv
<1>3. CASE MainStep
    BY <1>3, MainHold
<1>4. CASE \E s \in Conns : SlotStep(s)
    BY <1>4, SlotHold
<1> QED  BY <1>1, <1>2, <1>3, <1>4 DEF Next

\* Nothing has been accepted when the host starts.
LEMMA InitHold == ASSUME Init PROVE HoldInv
<1>1. lobby.pc = "accept" /\ \A c \in Conns : stage[c] = "new"
    BY DEF Init
<1> QED  BY <1>1 DEF HoldInv, LobbyHolds, QueueHolds, InboxHolds, PlanHolds, SeatHolds

\* The holds of every connection are an invariant of the host.
LEMMA HoldInvariant == Spec => []HoldInv
<1>1. TypeOK /\ SlotInv /\ PathInv /\ HoldInv /\ [Next]_vars => HoldInv'
    BY StepHold
<1> QED  BY <1>1, InitHold, PathInvariant, PTL DEF Spec

\* No connection is forgotten: whatever the lobby thread, the main thread and the
\* slots do to one another, a client that was accepted is in some thread's hands,
\* or was answered or closed.
THEOREM ConnectionsAccounted == Spec => []NothingLost
<1>1. TypeOK /\ HoldInv => NothingLost
    BY HoldIsNothingLost
<1> QED  BY <1>1, HoldInvariant, PathInvariant, PTL

-----------------------------------------------------------------------------
(* What a stopped host leaves. *)

\* The main thread joins the lobby thread before the slots, and the slots before
\* it is down.
StopInv ==
    /\ main.pc \in {"joinSlots", "down"} => lobby.pc = "down"
    /\ main.pc = "down" => queue = <<>> /\ managed = {}

\* A lobby thread that has exited does nothing more.
LEMMA LobbyIsDown ==
    ASSUME lobby.pc = "down",
           \/ LobbyStep \/ ClientSpeaks
           \/ \E c \in Conns : Accept(c) \/ GatherAccept(c)
           \/ \E i \in 1..MaxSlots : GatherKick(i)
    PROVE  FALSE
BY DEF LobbyStep, ClientSpeaks, Accept, GatherAccept, GatherKick, Route, EnqueueJoin, AdmitMode,
       AdmitSingle, GatherEnd, EnqueueStart, LobbyExit, ReadOther, ReadHello, GatherReadOther,
       GatherReadHello

\* Every step keeps the order of the stop.
LEMMA StepStop == ASSUME TypeOK, PathInv, StopInv, [Next]_vars PROVE StopInv'
<1>1. CASE UNCHANGED vars \/ RequestStop \/ Down
    BY <1>1 DEF StopInv, vars, RequestStop, Down
<1>2. CASE \/ LobbyStep \/ ClientSpeaks
           \/ \E c \in Conns : Accept(c) \/ GatherAccept(c)
           \/ \E i \in 1..MaxSlots : GatherKick(i)
    <2>1. lobby.pc # "down"
        BY <1>2, LobbyIsDown
    <2>2. UNCHANGED main
        BY <1>2, LobbyMoves DEF PathInv
    <2> QED  BY <2>1, <2>2 DEF StopInv
<1>3. CASE Drain \/ ApplyStart \/ ApplyJoin \/ Reap \/ StopTicking
    <2>1. UNCHANGED lobby /\ main'.pc \in {"tick", "apply", "joinLobby"}
        <3>1. CASE Drain \/ Reap \/ StopTicking
            BY <3>1 DEF Drain, Reap, StopTicking, TypeOK
        <3>2. CASE ApplyStart \/ ApplyJoin
            BY <3>2 DEF ApplyStart, ApplyJoin, TypeOK
        <3> QED  BY <1>3, <3>1, <3>2
    <2> QED  BY <2>1 DEF StopInv
<1>4. CASE JoinLobby
    BY <1>4 DEF JoinLobby, StopInv, TypeOK
<1>5. CASE JoinSlots
    BY <1>5 DEF JoinSlots, Destroy, StopInv, TypeOK
<1>6. CASE \E s \in Conns : SlotStep(s)
    BY <1>6 DEF SlotStep, Booted, Fail, DrainJoin, ClientLost, LeaveLoop, Cleanup, Unregister,
       Finish, StopInv
<1> QED  BY <1>1, <1>2, <1>3, <1>4, <1>5, <1>6 DEF Next, MainStep

\* Stop Host loses nothing: a host that is down owns no slot, its hub is empty, and
\* every connection it ever accepted was answered or closed.  That it gets there is
\* StopCompletes, which needs fairness.
THEOREM StopLeavesNothing ==
    Spec => [](main.pc = "down" =>
                  /\ managed = {} /\ hub = {}
                  /\ \A c \in Conns : stage[c] \in {"new", "ended", "error", "closed"})
<1>1. Init => StopInv
    BY DEF Init, StopInv
<1>2. TypeOK /\ PathInv /\ StopInv /\ [Next]_vars => StopInv'
    BY StepStop
<1>3. TypeOK /\ SlotInv /\ PathInv /\ HoldInv /\ StopInv =>
          (main.pc = "down" =>
                  /\ managed = {} /\ hub = {}
                  /\ \A c \in Conns : stage[c] \in {"new", "ended", "error", "closed"})
    <2> SUFFICES ASSUME TypeOK, SlotInv, PathInv, HoldInv, StopInv, main.pc = "down"
                 PROVE  /\ managed = {} /\ hub = {}
                        /\ \A c \in Conns : stage[c] \in {"new", "ended", "error", "closed"}
        OBVIOUS
    <2>1. lobby.pc = "down" /\ queue = <<>> /\ main.batch = <<>> /\ managed = {}
        BY DEF StopInv, PathInv, QueueOK
    <2>2. hub = {} /\ \A t \in Conns : ~Writing(t)
        BY <2>1 DEF SlotInv, Writing, TypeOK
    <2>3. Held = {}
        BY <2>1 DEF Held
    <2>4. \A c \in Conns : stage[c] \notin {"lobby", "queued"}
        BY <2>1, <2>3 DEF HoldInv, LobbyHolds, QueueHolds, InQueue
    <2>5. \A c \in Conns : stage[c] \notin {"pending", "seated", "lost"}
        BY <2>1, <2>2 DEF HoldInv, InboxHolds, InInbox, PlanHolds, SeatHolds
    <2>6. \A c \in Conns : stage[c] \in Stages
        BY DEF TypeOK
    <2> QED  BY <2>1, <2>2, <2>4, <2>5, <2>6 DEF Stages
<1> QED  BY <1>1, <1>2, <1>3, HoldInvariant, PathInvariant, PTL DEF Spec
=============================================================================
