------------------------ MODULE HostAdmissionProofs ------------------------
(***************************************************************************)
(* Safety of the admission of sessions, for every set of connections,      *)
(* users and hellos and every bound on the slots.                          *)
(***************************************************************************)
EXTENDS HostAdmission, FiniteSetTheorems, SequenceTheorems, TLAPS

-----------------------------------------------------------------------------
(* Lemmas about the operators of the model. *)

\* Overwriting part of a function keeps its type.
LEMMA PutType ==
    ASSUME NEW D, NEW R, NEW f \in [D -> R], NEW S, NEW v \in R
    PROVE  Put(f, S, v) \in [D -> R]
BY DEF Put

\* Taking one element out of a list leaves a list.
LEMMA RemoveAtType ==
    ASSUME NEW D, NEW q \in Seq(D), NEW i \in DOMAIN q
    PROVE  RemoveAt(q, i) \in Seq(D)
<1>1. SubSeq(q, 1, i - 1) \in Seq(D)
    OBVIOUS
<1>2. SubSeq(q, i + 1, Len(q)) \in Seq(D)
    OBVIOUS
<1> QED  BY <1>1, <1>2 DEF RemoveAt

\* The members of a list are members of its base set.
LEMMA ToSetType ==
    ASSUME NEW D, NEW q \in Seq(D)
    PROVE  ToSet(q) \subseteq D
BY DEF ToSet

\* Emptying some inboxes keeps every inbox a list of connections.
LEMMA EmptyInboxesType ==
    ASSUME NEW dead, inbox \in [Conns -> Seq(Conns)], EmptyInboxes(dead)
    PROVE  inbox' \in [Conns -> Seq(Conns)]
BY DEF EmptyInboxes

-----------------------------------------------------------------------------
(* Type correctness. *)

\* The host starts with nothing accepted, queued or registered.
LEMMA InitType == Init => TypeOK
<1> SUFFICES ASSUME Init PROVE TypeOK
    OBVIOUS
<1>1. queue \in Seq(Commands) /\ main \in [pc : MainPcs, batch : Seq(Commands)]
    BY DEF Init, MainPcs
<1>2. lobby \in [pc : LobbyPcs, conn : Conns \cup {None},
                target : Conns \cup {None}, gathered : Seq(Conns)]
    BY DEF Init, LobbyPcs
<1> QED  BY <1>1, <1>2 DEF Init, TypeOK, Stages, Phases

\* A hello that the lobby thread still works with has been read; needed where the
\* save_username of a plan is taken from the hello of its first player.
HelloKnown ==
    /\ lobby.pc \notin {"accept", "read", "down"} => hello[lobby.conn] \in Hellos
    /\ \A i \in DOMAIN lobby.gathered : hello[lobby.gathered[i]] \in Hellos

TypeInv == TypeOK /\ HelloKnown

\* A connection that leaves handle_hello leaves the lobby thread idle.
LEMMA LobbyDropsType ==
    ASSUME TypeOK, NEW S, NEW o \in Stages, LobbyDrops(S, o)
    PROVE  /\ stage' \in [Conns -> Stages]
           /\ lobby' \in [pc : LobbyPcs, conn : Conns \cup {None},
                          target : Conns \cup {None}, gathered : Seq(Conns)]
           /\ lobby'.pc = "accept"
<1>1. stage' \in [Conns -> Stages]
    BY PutType DEF TypeOK, LobbyDrops
<1> QED  BY <1>1 DEF TypeOK, LobbyDrops, Idle, LobbyPcs

\* A hello in hand stays in hand: hello only ever gains entries.
LEMMA LobbyHelloKnown ==
    ASSUME TypeOK, HelloKnown,
           \/ LobbyStep \/ ClientSpeaks
           \/ \E c \in Conns : Accept(c) \/ GatherAccept(c)
           \/ \E i \in 1..MaxSlots : GatherKick(i)
    PROVE  HelloKnown'
<1> USE HostAssumption DEF HostAssumption
<1>1. CASE lobby' = Idle
    <2>1. lobby'.pc = "accept" /\ lobby'.gathered = <<>>
        BY <1>1 DEF Idle
    <2> QED  BY <2>1 DEF HelloKnown
<1>2. ASSUME NEW c \in Conns, Accept(c) PROVE HelloKnown'
    <2>1. lobby' = [pc |-> "read", conn |-> c, target |-> None, gathered |-> <<>>]
        BY <1>2 DEF Accept, Idle
    <2> QED  BY <2>1 DEF HelloKnown
<1>3. ASSUME NEW c \in Conns, GatherAccept(c) PROVE HelloKnown'
    BY <1>3 DEF GatherAccept, HelloKnown, TypeOK
<1>4. ASSUME NEW i \in 1..MaxSlots, GatherKick(i) PROVE HelloKnown'
    <2> DEFINE known == {c \in Conns : hello[c] \in Hellos}
    <2>1. lobby.gathered \in Seq(known) /\ i \in DOMAIN lobby.gathered
        BY <1>4 DEF GatherKick, HelloKnown, TypeOK
    <2>2. RemoveAt(lobby.gathered, i) \in Seq(known)
        BY <2>1, RemoveAtType
    <2>3. \A j \in DOMAIN RemoveAt(lobby.gathered, i) :
             hello[RemoveAt(lobby.gathered, i)[j]] \in Hellos
        BY <2>2
    <2> QED  BY <1>4, <2>3 DEF GatherKick, HelloKnown, TypeOK
<1>5. CASE GatherReadOther
    BY <1>5 DEF GatherReadOther, HelloKnown, TypeOK
<1>6. ASSUME NEW h \in Hellos, ReadHello(h) PROVE HelloKnown'
    BY <1>6 DEF ReadHello, HelloKnown, TypeOK
<1>7. ASSUME NEW h \in Hellos, GatherReadHello(h), lobby' # Idle PROVE HelloKnown'
    <2> DEFINE all == Append(lobby.gathered, lobby.target)
    <2>1. lobby' = [lobby EXCEPT !.pc = "gather", !.target = None, !.gathered = all]
        BY <1>7 DEF GatherReadHello, LobbyDrops
    <2>2. hello' = [hello EXCEPT ![lobby.target] = h] /\ lobby.target \in Conns
        BY <1>7 DEF GatherReadHello, TypeOK
    <2>3. \A j \in DOMAIN all : hello'[all[j]] \in Hellos
        BY <2>2 DEF HelloKnown, TypeOK
    <2>4. hello'[lobby.conn] \in Hellos
        BY <1>7, <2>2 DEF GatherReadHello, HelloKnown, TypeOK
    <2> QED  BY <2>1, <2>3, <2>4 DEF HelloKnown, TypeOK
<1>8. ASSUME NEW pc \in {"join", "admit", "start"}, UNCHANGED hello,
             lobby.pc \in {"route", "capacity", "gather"},
             \/ lobby' = [lobby EXCEPT !.pc = pc]
             \/ \E t \in Conns : lobby' = [lobby EXCEPT !.pc = pc, !.target = t]
      PROVE  HelloKnown'
    BY <1>8 DEF HelloKnown, TypeOK
<1>9. CASE Route /\ lobby' # Idle
    BY <1>8, <1>9 DEF Route, LobbyDrops, SlotsForReconnect, SlotsForLateViewer, HubLive, TypeOK
<1>10. CASE AdmitMode /\ lobby' # Idle
    <2>1. PICK next \in {"gather", "capacity"} :
             lobby' = [lobby EXCEPT !.pc = next, !.gathered = <<lobby.conn>>]
        BY <1>10 DEF AdmitMode, LobbyDrops
    <2> QED  BY <1>10, <2>1 DEF AdmitMode, HelloKnown, TypeOK
<1>11. CASE (AdmitSingle \/ GatherEnd) /\ lobby' # Idle
    BY <1>8, <1>11 DEF AdmitSingle, GatherEnd, LobbyDrops
<1>12. CASE LobbyExit
    <2>1. lobby'.pc = "down" /\ lobby'.gathered = <<>>
        BY <1>12 DEF LobbyExit, Idle
    <2> QED  BY <2>1 DEF HelloKnown
<1>13. ReadOther \/ EnqueueJoin \/ EnqueueStart => lobby' = Idle
    BY DEF ReadOther, EnqueueJoin, EnqueueStart, LobbyDrops
<1> QED
    BY <1>1, <1>2, <1>3, <1>4, <1>5, <1>6, <1>7, <1>9, <1>10, <1>11, <1>12, <1>13
    DEF LobbyStep, ClientSpeaks

\* Every step of the lobby thread keeps the types.
LEMMA LobbyType ==
    ASSUME TypeOK, HelloKnown,
           \/ LobbyStep \/ ClientSpeaks
           \/ \E c \in Conns : Accept(c) \/ GatherAccept(c)
           \/ \E i \in 1..MaxSlots : GatherKick(i)
    PROVE  TypeOK'
<1> USE HostAssumption DEF HostAssumption
<1>1. ASSUME NEW c \in Conns, Accept(c) PROVE TypeOK'
    <2>1. lobby' = [pc |-> "read", conn |-> c, target |-> None, gathered |-> <<>>]
        BY <1>1 DEF Accept, Idle
    <2>2. stage' \in [Conns -> Stages]
        BY <1>1 DEF Accept, TypeOK, Stages
    <2>3. lobby' \in [pc : LobbyPcs, conn : Conns \cup {None},
                     target : Conns \cup {None}, gathered : Seq(Conns)]
        BY <2>1 DEF LobbyPcs
    <2> QED  BY <1>1, <2>1, <2>2, <2>3 DEF Accept, TypeOK
<1>2. ASSUME NEW c \in Conns, GatherAccept(c) PROVE TypeOK'
    BY <1>2 DEF GatherAccept, TypeOK, LobbyPcs, Stages
<1>3. ASSUME NEW i \in 1..MaxSlots, GatherKick(i) PROVE TypeOK'
    <2>1. RemoveAt(lobby.gathered, i) \in Seq(Conns)
        BY <1>3, RemoveAtType DEF GatherKick, TypeOK
    <2> QED  BY <1>3, <2>1 DEF GatherKick, TypeOK, LobbyPcs, Stages
<1>4. CASE ReadOther
    BY <1>4, LobbyDropsType DEF ReadOther, TypeOK, Stages
<1>5. CASE GatherReadOther
    BY <1>5 DEF GatherReadOther, TypeOK, LobbyPcs, Stages
<1>6. ASSUME NEW h \in Hellos, ReadHello(h) PROVE TypeOK'
    BY <1>6 DEF ReadHello, TypeOK, LobbyPcs
<1>7. ASSUME NEW h \in Hellos, GatherReadHello(h) PROVE TypeOK'
    <2> DEFINE all == Append(lobby.gathered, lobby.target)
               hs == [hello EXCEPT ![lobby.target] = h]
    <2>1. hs \in [Conns -> Hellos \cup {None}]
        BY DEF TypeOK
    <2>2. CASE TooMany(all, hs)
        <3>1. LobbyDrops(ToSet(all), "error")
            BY <1>7, <2>2 DEF GatherReadHello
        <3> QED  BY <1>7, <2>1, <3>1, LobbyDropsType DEF GatherReadHello, TypeOK, Stages
    <2>3. CASE ~TooMany(all, hs)
        <3>1. lobby' = [lobby EXCEPT !.pc = "gather", !.target = None, !.gathered = all]
              /\ UNCHANGED stage
            BY <1>7, <2>3 DEF GatherReadHello
        <3>2. all \in Seq(Conns)
            BY <1>7 DEF GatherReadHello, TypeOK
        <3>3. lobby' \in [pc : LobbyPcs, conn : Conns \cup {None},
                         target : Conns \cup {None}, gathered : Seq(Conns)]
            BY <3>1, <3>2 DEF TypeOK, LobbyPcs
        <3>4. lobby'.pc = "gather" /\ lobby'.conn = lobby.conn
            BY <3>1 DEF TypeOK
        <3> QED  BY <1>7, <2>1, <3>1, <3>3, <3>4 DEF GatherReadHello, TypeOK
    <2> QED  BY <2>2, <2>3
<1>8. CASE Route
    <2>1. CASE LobbyDrops({lobby.conn}, "error")
        BY <1>8, <2>1, LobbyDropsType DEF Route, TypeOK, Stages
    <2>2. CASE ~LobbyDrops({lobby.conn}, "error")
        <3>1. \/ \E s \in hub : lobby' = [lobby EXCEPT !.pc = "join", !.target = s]
              \/ lobby' = [lobby EXCEPT !.pc = "admit"]
            BY <1>8, <2>2 DEF Route, SlotsForReconnect, SlotsForLateViewer, HubLive
        <3>2. UNCHANGED stage
            BY <1>8, <2>2 DEF Route
        <3>3. hub \subseteq Conns
            BY DEF TypeOK
        <3>4. CASE \E s \in hub : lobby' = [lobby EXCEPT !.pc = "join", !.target = s]
            <4>1. PICK s \in Conns : lobby' = [lobby EXCEPT !.pc = "join", !.target = s]
                BY <3>3, <3>4
            <4>2. /\ lobby' \in [pc : LobbyPcs, conn : Conns \cup {None},
                                 target : Conns \cup {None}, gathered : Seq(Conns)]
                  /\ lobby'.pc = "join" /\ lobby'.conn = lobby.conn /\ lobby'.target = s
                BY <4>1 DEF TypeOK, LobbyPcs
            <4>3. lobby.conn \in Conns
                BY <1>8 DEF Route, TypeOK
            <4> QED  BY <1>8, <3>2, <4>2, <4>3 DEF Route, TypeOK
        <3>5. CASE lobby' = [lobby EXCEPT !.pc = "admit"]
            BY <1>8, <3>2, <3>5 DEF Route, TypeOK, LobbyPcs
        <3> QED  BY <3>1, <3>4, <3>5
    <2> QED  BY <2>1, <2>2
<1>9. CASE EnqueueJoin
    <2>1. [kind |-> "EnqueueJoin", conn |-> lobby.conn, slot |-> lobby.target] \in Commands
        BY <1>9 DEF EnqueueJoin, TypeOK, Commands
    <2> QED  BY <1>9, <2>1, LobbyDropsType DEF EnqueueJoin, TypeOK, Stages
<1>10. CASE AdmitMode
    <2>1. CASE LobbyDrops({lobby.conn}, "error")
        BY <1>10, <2>1, LobbyDropsType DEF AdmitMode, TypeOK, Stages
    <2>2. ASSUME NEW next \in {"gather", "capacity"}, UNCHANGED stage,
                 lobby' = [lobby EXCEPT !.pc = next, !.gathered = <<lobby.conn>>]
          PROVE  TypeOK'
        <3>1. <<lobby.conn>> \in Seq(Conns)
            BY <1>10 DEF AdmitMode, TypeOK
        <3>2. lobby' \in [pc : LobbyPcs, conn : Conns \cup {None},
                         target : Conns \cup {None}, gathered : Seq(Conns)]
            BY <2>2, <3>1 DEF TypeOK, LobbyPcs
        <3>3. lobby'.pc = next /\ lobby'.conn = lobby.conn
            BY <2>2 DEF TypeOK
        <3> QED  BY <1>10, <2>2, <3>2, <3>3 DEF AdmitMode, TypeOK
    <2> QED  BY <1>10, <2>1, <2>2 DEF AdmitMode
<1>11. CASE AdmitSingle
    <2>1. ASSUME NEW o \in Stages, LobbyDrops({lobby.conn}, o) PROVE TypeOK'
        BY <1>11, <2>1, LobbyDropsType DEF AdmitSingle, TypeOK
    <2>2. CASE UNCHANGED stage /\ lobby' = [lobby EXCEPT !.pc = "start"]
        BY <1>11, <2>2 DEF AdmitSingle, TypeOK, LobbyPcs
    <2> QED  BY <1>11, <2>1, <2>2 DEF AdmitSingle, Stages
<1>12. CASE GatherEnd
    <2>1. ASSUME NEW o \in Stages, LobbyDrops(ToSet(lobby.gathered), o) PROVE TypeOK'
        BY <1>12, <2>1, LobbyDropsType DEF GatherEnd, TypeOK
    <2>2. CASE UNCHANGED stage /\ lobby' = [lobby EXCEPT !.pc = "start"]
        BY <1>12, <2>2 DEF GatherEnd, TypeOK, LobbyPcs
    <2> QED  BY <1>12, <2>1, <2>2 DEF GatherEnd, Stages
<1>13. CASE EnqueueStart
    <2>1. PICK i \in DOMAIN lobby.gathered :
             /\ hello[lobby.gathered[i]].seats > 0
             /\ queue' = Append(queue, [kind |-> "StartSession", clients |-> lobby.gathered,
                                        user |-> SaveUser(lobby.gathered, i)])
        BY <1>13 DEF EnqueueStart
    <2>2. lobby.gathered \in Seq(Conns) /\ lobby.gathered # <<>> /\ lobby.gathered[i] \in Conns
        BY <2>1 DEF TypeOK
    <2>3. hello[lobby.gathered[i]] \in Hellos
        BY <2>1 DEF HelloKnown
    <2>4. SaveUser(lobby.gathered, i) \in Users
        BY <2>3 DEF SaveUser
    <2>5. [kind |-> "StartSession", clients |-> lobby.gathered,
           user |-> SaveUser(lobby.gathered, i)] \in Commands
        BY <2>2, <2>4 DEF Commands
    <2>6. queue' \in Seq(Commands)
        BY <2>1, <2>5 DEF TypeOK
    <2> QED  BY <1>13, <2>6, LobbyDropsType DEF EnqueueStart, TypeOK, Stages
<1>14. CASE LobbyExit
    <2>1. lobby' = [pc |-> "down", conn |-> None, target |-> None, gathered |-> <<>>]
        BY <1>14 DEF LobbyExit, Idle
    <2>2. lobby' \in [pc : LobbyPcs, conn : Conns \cup {None},
                     target : Conns \cup {None}, gathered : Seq(Conns)]
        BY <2>1 DEF LobbyPcs
    <2> QED  BY <1>14, <2>1, <2>2 DEF LobbyExit, TypeOK
<1> QED
    BY <1>1, <1>2, <1>3, <1>4, <1>5, <1>6, <1>7, <1>8, <1>9, <1>10, <1>11, <1>12,
       <1>13, <1>14 DEF LobbyStep, ClientSpeaks

\* Every step of the main thread keeps the types.
LEMMA MainType ==
    ASSUME TypeOK, MainStep
    PROVE  TypeOK'
<1> USE HostAssumption DEF HostAssumption
<1> DEFINE cmd == Head(main.batch)
<1>1. CASE Drain
    <2>1. main' = [pc |-> "apply", batch |-> queue] /\ queue' = <<>>
        BY <1>1 DEF Drain
    <2>2. main' \in [pc : MainPcs, batch : Seq(Commands)] /\ queue' \in Seq(Commands)
        BY <2>1 DEF TypeOK, MainPcs
    <2> QED  BY <1>1, <2>2 DEF Drain, TypeOK
<1>2. ASSUME main.pc = "apply", main.batch # <<>>,
             main' = [main EXCEPT !.batch = Tail(@)]
      PROVE  /\ cmd \in Commands
             /\ main' \in [pc : MainPcs, batch : Seq(Commands)]
    <2>1. main.batch \in Seq(Commands)
        BY DEF TypeOK
    <2>2. cmd \in Commands /\ Tail(main.batch) \in Seq(Commands)
        BY <1>2, <2>1
    <2> QED  BY <1>2, <2>2 DEF TypeOK, MainPcs
<1>3. CASE ApplyStart
    <2> DEFINE s == Head(cmd.clients)
               cs == ToSet(cmd.clients)
               dead == {d \in managed : Finished(d)}
               gone == Unanswered(dead)
    <2>1. main' \in [pc : MainPcs, batch : Seq(Commands)] /\ cmd \in Commands
        BY <1>2, <1>3 DEF ApplyStart
    <2>2. cmd.kind = "StartSession"
        BY <1>3 DEF ApplyStart
    <2>3. s \in Conns /\ cmd.user \in Users
        <3>1. cmd.clients \in Seq(Conns) \ {<<>>} /\ cmd.user \in Users
            BY <2>1, <2>2 DEF Commands
        <3> QED  BY <3>1
    <2>4. inbox' \in [Conns -> Seq(Conns)]
        BY <1>3, EmptyInboxesType DEF ApplyStart, TypeOK
    <2>5. CASE /\ managed' = (managed \ dead) \cup {s}
               /\ hub' = hub \cup {s}
               /\ phase' = [Put(phase, dead, "erased") EXCEPT ![s] = "boot"]
               /\ profile' = [profile EXCEPT ![s] = cmd.user]
               /\ home' = Put(home, cs, s)
               /\ stage' = Put(Put(stage, gone, "closed"), cs, "seated")
        <3>1. Put(phase, dead, "erased") \in [Conns -> Phases]
            BY PutType DEF TypeOK, Phases
        <3>2. phase' \in [Conns -> Phases]
            BY <2>5, <3>1 DEF Phases
        <3>3. Put(stage, gone, "closed") \in [Conns -> Stages]
            BY PutType DEF TypeOK, Stages
        <3>4. stage' \in [Conns -> Stages]
            BY <2>5, <3>3, PutType DEF Stages
        <3>5. home' \in [Conns -> Conns \cup {None}]
            BY <2>3, <2>5, PutType DEF TypeOK
        <3>6. /\ profile' \in [Conns -> Users \cup {None}]
              /\ managed' \subseteq Conns /\ hub' \subseteq Conns
            BY <2>3, <2>5 DEF TypeOK
        <3> QED  BY <1>3, <2>1, <2>4, <3>2, <3>4, <3>5, <3>6 DEF ApplyStart, TypeOK
    <2>6. CASE /\ managed' = managed \ dead
               /\ phase' = Put(phase, dead, "erased")
               /\ stage' = Put(stage, gone \cup cs, "closed")
               /\ UNCHANGED <<hub, profile, home>>
        <3>1. phase' \in [Conns -> Phases]
            BY <2>6, PutType DEF TypeOK, Phases
        <3>2. stage' \in [Conns -> Stages]
            BY <2>6, PutType DEF TypeOK, Stages
        <3> QED  BY <1>3, <2>1, <2>4, <2>6, <3>1, <3>2 DEF ApplyStart, TypeOK
    <2> QED  BY <1>3, <2>5, <2>6 DEF ApplyStart
<1>4. CASE ApplyJoin
    <2>1. main' \in [pc : MainPcs, batch : Seq(Commands)] /\ cmd \in Commands
        BY <1>2, <1>4 DEF ApplyJoin
    <2>2. cmd.conn \in Conns /\ cmd.slot \in Conns
        BY <1>4, <2>1 DEF ApplyJoin, Commands
    <2>3. stage' \in [Conns -> Stages]
        BY <1>4, <2>2 DEF ApplyJoin, TypeOK, Stages
    <2>4. CASE UNCHANGED inbox
        BY <1>4, <2>1, <2>3, <2>4 DEF ApplyJoin, TypeOK
    <2>5. ASSUME NEW s \in Conns, inbox' = [inbox EXCEPT ![s] = Append(@, cmd.conn)]
          PROVE  inbox' \in [Conns -> Seq(Conns)]
        BY <2>2, <2>5 DEF TypeOK
    <2>6. \A h : SlotsForReconnect(h) \subseteq Conns /\ SlotsForLateViewer(h) \subseteq Conns
        BY DEF SlotsForReconnect, SlotsForLateViewer, HubLive, TypeOK
    <2>7. CASE ~UNCHANGED inbox
        <3>1. inbox' \in [Conns -> Seq(Conns)]
            BY <1>4, <2>2, <2>5, <2>6, <2>7 DEF ApplyJoin
        <3> QED  BY <1>4, <2>1, <2>3, <3>1 DEF ApplyJoin, TypeOK
    <2> QED  BY <2>4, <2>7
<1>5. ASSUME NEW dead, Destroy(dead)
      PROVE  /\ managed' \subseteq Conns
             /\ phase' \in [Conns -> Phases]
             /\ inbox' \in [Conns -> Seq(Conns)]
    BY <1>5, PutType, EmptyInboxesType DEF Destroy, TypeOK, Phases
<1>6. CASE Reap
    <2>1. stage' \in [Conns -> Stages]
        BY <1>6, PutType DEF Reap, TypeOK, Stages
    <2> QED  BY <1>5, <1>6, <2>1 DEF Reap, TypeOK, MainPcs
<1>7. CASE StopTicking
    BY <1>7 DEF StopTicking, TypeOK, MainPcs
<1>8. CASE JoinLobby
    BY <1>8 DEF JoinLobby, TypeOK, MainPcs
<1>9. CASE JoinSlots
    <2>1. stage' \in [Conns -> Stages]
        BY <1>9, PutType DEF JoinSlots, TypeOK, Stages
    <2>2. main' \in [pc : MainPcs, batch : Seq(Commands)] /\ queue' \in Seq(Commands)
        <3>1. main' = [main EXCEPT !.pc = "down"] /\ queue' = <<>>
            BY <1>9 DEF JoinSlots
        <3>2. main \in [pc : MainPcs, batch : Seq(Commands)]
            BY DEF TypeOK
        <3> HIDE DEF cmd
        <3>3. main' \in [pc : MainPcs, batch : Seq(Commands)]
            BY <3>1, <3>2 DEF MainPcs
        <3>4. queue' \in Seq(Commands)
            BY <3>1
        <3> QED  BY <3>3, <3>4
    <2>3. Destroy(managed)
        BY <1>9 DEF JoinSlots
    <2>4. /\ managed' \subseteq Conns
          /\ phase' \in [Conns -> Phases]
          /\ inbox' \in [Conns -> Seq(Conns)]
        BY <1>5, <2>3
    <2>5. UNCHANGED <<hello, lobby, hub, profile, home, stopping>>
        BY <1>9 DEF JoinSlots
    <2> QED  BY <2>1, <2>2, <2>4, <2>5 DEF TypeOK
<1> QED
    BY <1>1, <1>3, <1>4, <1>6, <1>7, <1>8, <1>9 DEF MainStep

\* Every step of the thread of a slot keeps the types.
LEMMA SlotType ==
    ASSUME TypeOK, NEW s \in Conns, SlotStep(s)
    PROVE  TypeOK'
<1>1. CASE Booted(s)
    BY <1>1 DEF Booted, TypeOK, Phases
<1>2. CASE Fail(s)
    <2>1. stage' \in [Conns -> Stages]
        BY <1>2, PutType DEF Fail, TypeOK, Stages
    <2> QED  BY <1>2, <2>1 DEF Fail, TypeOK, Phases
<1>3. CASE DrainJoin(s)
    <2>1. inbox[s] \in Seq(Conns) /\ Head(inbox[s]) \in Conns
        BY <1>3 DEF DrainJoin, TypeOK
    <2>2. inbox' \in [Conns -> Seq(Conns)]
        BY <1>3, <2>1 DEF DrainJoin, TypeOK
    <2>3. stage' \in [Conns -> Stages]
        <3>1. LostSeats(s, hello[Head(inbox[s])]) \subseteq Conns
            BY DEF LostSeats
        <3> QED  BY <1>3, <2>1, <3>1 DEF DrainJoin, TypeOK, Stages
    <2>4. home' \in [Conns -> Conns \cup {None}]
        <3> DEFINE c == Head(inbox[s])
        <3>1. \/ home' = home
              \/ home' = [home EXCEPT ![c] = s]
              \/ \E old \in LostSeats(s, hello[c]) : home' = [home EXCEPT ![old] = None, ![c] = s]
            BY <1>3 DEF DrainJoin
        <3>2. home \in [Conns -> Conns \cup {None}] /\ c \in Conns
            BY <2>1 DEF TypeOK
        <3> HIDE DEF c
        <3> QED  BY <3>1, <3>2
    <2>5. UNCHANGED <<hello, lobby, queue, main, managed, hub, phase, profile, stopping>>
        BY <1>3 DEF DrainJoin
    <2> QED  BY <2>2, <2>3, <2>4, <2>5 DEF TypeOK
<1>4. CASE ClientLost(s)
    BY <1>4 DEF ClientLost, TypeOK, Stages
<1>5. CASE LeaveLoop(s)
    BY <1>5 DEF LeaveLoop, TypeOK, Phases
<1>6. CASE Cleanup(s)
    <2>1. stage' \in [Conns -> Stages]
        BY <1>6, PutType DEF Cleanup, TypeOK, Stages
    <2> QED  BY <1>6, <2>1 DEF Cleanup, TypeOK, Phases
<1>7. CASE Unregister(s)
    <2>1. stage' \in [Conns -> Stages]
        BY <1>7, PutType DEF Unregister, TypeOK, Stages
    <2> QED  BY <1>7, <2>1 DEF Unregister, TypeOK, Phases
<1>8. CASE Finish(s)
    BY <1>8 DEF Finish, TypeOK, Phases
<1> QED
    BY <1>1, <1>2, <1>3, <1>4, <1>5, <1>6, <1>7, <1>8 DEF SlotStep

\* The main thread and the slots leave the hello in hand alone.
LEMMA OtherHelloKnown ==
    ASSUME HelloKnown, MainStep \/ \E s \in Conns : SlotStep(s)
    PROVE  HelloKnown'
<1>1. UNCHANGED <<hello, lobby>>
    BY DEF MainStep, SlotStep, Drain, ApplyStart, ApplyJoin, Reap, StopTicking, JoinLobby,
           JoinSlots, Booted, Fail, DrainJoin, ClientLost, LeaveLoop, Cleanup, Unregister, Finish
<1> QED  BY <1>1 DEF HelloKnown

\* Every variable of the host, its threads and its queues always holds a value of
\* its type; a command in a queue names connections and a user, never a blank.
THEOREM TypeCorrect == Spec => []TypeOK
<1>1. Init => TypeInv
    <2>1. Init => HelloKnown
        BY DEF Init, HelloKnown
    <2> QED  BY <2>1, InitType DEF TypeInv
<1>2. TypeInv /\ [Next]_vars => TypeInv'
    <2> SUFFICES ASSUME TypeInv, [Next]_vars PROVE TypeInv'
        OBVIOUS
    <2>1. CASE UNCHANGED vars
        BY <2>1 DEF TypeInv, TypeOK, HelloKnown, vars
    <2>2. CASE \/ LobbyStep \/ ClientSpeaks
               \/ \E c \in Conns : Accept(c) \/ GatherAccept(c)
               \/ \E i \in 1..MaxSlots : GatherKick(i)
        BY <2>2, LobbyType, LobbyHelloKnown DEF TypeInv
    <2>3. CASE MainStep
        BY <2>3, MainType, OtherHelloKnown DEF TypeInv
    <2>4. CASE \E s \in Conns : SlotStep(s)
        BY <2>4, SlotType, OtherHelloKnown DEF TypeInv
    <2>5. CASE RequestStop
        BY <2>5 DEF TypeInv, TypeOK, HelloKnown, RequestStop
    <2>6. CASE Down
        BY <2>1, <2>6 DEF Down
    <2> QED  BY <2>1, <2>2, <2>3, <2>4, <2>5, <2>6 DEF Next
<1> QED  BY <1>1, <1>2, PTL DEF Spec, TypeInv

-----------------------------------------------------------------------------
(* The registration of slots. *)

\* What the main thread and the slot threads keep true together: the hub holds
\* exactly the slots between their admission and unregister_slot, the manager
\* exactly those not destroyed, no two slots of the hub play on one profile, and
\* the hub is never above max_slots.
SlotInv ==
    /\ \A s \in Conns : s \in hub <=> phase[s] \in {"boot", "run", "cleanup", "ended"}
    /\ \A s \in Conns : s \in managed <=> phase[s] \notin {"none", "erased"}
    /\ \A s, t \in hub : s # t => profile[s] # profile[t]
    /\ Cardinality(hub) <= MaxSlots

\* No slot of the hub is finished: the lookups of the hub see all of it.
LEMMA HubAllLive == ASSUME TypeOK, SlotInv PROVE HubLive = hub
BY DEF HubLive, Finished, SlotInv, TypeOK

\* One registration more keeps the hub below a bound it had not reached.
LEMMA HubGrows ==
    ASSUME TypeOK, NEW s \in Conns, Cardinality(hub) < MaxSlots
    PROVE  Cardinality(hub \cup {s}) <= MaxSlots
<1> USE HostAssumption DEF HostAssumption
<1>1. IsFiniteSet(hub)
    BY FS_Subset DEF TypeOK
<1>2. Cardinality(hub \cup {s}) = IF s \in hub THEN Cardinality(hub) ELSE Cardinality(hub) + 1
    BY <1>1, FS_AddElement
<1>3. Cardinality(hub) \in Nat
    BY <1>1, FS_CardinalityType
<1> QED  BY <1>2, <1>3

\* HostSessionHub::unregister_slot never makes the hub larger.
LEMMA HubShrinks ==
    ASSUME TypeOK, NEW s \in Conns, Cardinality(hub) <= MaxSlots
    PROVE  Cardinality(hub \ {s}) <= MaxSlots
<1> USE HostAssumption DEF HostAssumption
<1>1. IsFiniteSet(hub)
    BY FS_Subset DEF TypeOK
<1>2. Cardinality(hub \ {s}) <= Cardinality(hub)
    BY <1>1, FS_Subset
<1>3. Cardinality(hub) \in Nat /\ Cardinality(hub \ {s}) \in Nat
    BY <1>1, FS_Subset, FS_CardinalityType
<1> QED  BY <1>2, <1>3

\* SessionManager keeps the registration: start_session admits a profile only if
\* no slot of the hub has it, and reaps only what has left the hub.
LEMMA MainSlotInv ==
    ASSUME TypeOK, TypeOK', SlotInv, MainStep
    PROVE  SlotInv'
<1> USE HostAssumption DEF HostAssumption
<1>1. CASE UNCHANGED <<hub, managed, phase, profile>>
    BY <1>1 DEF SlotInv
<1>2. ASSUME NEW dead \in SUBSET managed, \A d \in dead : Finished(d),
             managed' = managed \ dead, phase' = Put(phase, dead, "erased"),
             UNCHANGED <<hub, profile>>
      PROVE  SlotInv'
    <2>1. \A s \in Conns : phase'[s] = IF s \in dead THEN "erased" ELSE phase[s]
        BY <1>2 DEF Put, TypeOK
    <2>2. \A d \in dead : phase[d] \in {"finished", "erased"}
        BY <1>2 DEF Finished
    <2>3. \A s \in Conns : s \in hub' <=> phase'[s] \in {"boot", "run", "cleanup", "ended"}
        BY <1>2, <2>1, <2>2 DEF SlotInv
    <2>4. \A s \in Conns : s \in managed' <=> phase'[s] \notin {"none", "erased"}
        BY <1>2, <2>1 DEF SlotInv
    <2> QED  BY <1>2, <2>3, <2>4 DEF SlotInv
<1>3. CASE ApplyStart
    <2> DEFINE cmd == Head(main.batch)
               s == Head(cmd.clients)
               dead == {d \in managed : Finished(d)}
    <2>1. CASE managed' = managed \ dead /\ phase' = Put(phase, dead, "erased")
               /\ UNCHANGED <<hub, profile>>
        BY <1>2, <2>1
    <2>2. CASE /\ ~SaveProfileActive(cmd.user) /\ HasRoom
               /\ managed' = (managed \ dead) \cup {s}
               /\ hub' = hub \cup {s}
               /\ phase' = [Put(phase, dead, "erased") EXCEPT ![s] = "boot"]
               /\ profile' = [profile EXCEPT ![s] = cmd.user]
        <3>1. s \in Conns
            <4>1. main.batch \in Seq(Commands) /\ main.batch # <<>>
                BY <1>3 DEF ApplyStart, TypeOK
            <4>2. cmd \in Commands /\ cmd.kind = "StartSession"
                BY <1>3, <4>1 DEF ApplyStart
            <4>3. cmd.clients \in Seq(Conns) \ {<<>>}
                BY <4>2 DEF Commands
            <4> QED  BY <4>3
        <3> HIDE DEF s
        <3>2. \A t \in Conns : phase'[t] = IF t = s THEN "boot"
                                           ELSE IF t \in dead THEN "erased" ELSE phase[t]
            BY <2>2, <3>1 DEF Put, TypeOK
        <3>3. \A d \in dead : phase[d] \in {"finished", "erased"}
            BY DEF Finished
        <3>4. \A t \in Conns : t \in hub' <=> phase'[t] \in {"boot", "run", "cleanup", "ended"}
            BY <2>2, <3>2, <3>3 DEF SlotInv
        <3>5. \A t \in Conns : t \in managed' <=> phase'[t] \notin {"none", "erased"}
            BY <2>2, <3>2 DEF SlotInv
        <3>6. \A t \in hub : profile[t] # cmd.user
            BY <2>2, HubAllLive DEF SaveProfileActive
        <3>7. \A t \in Conns : profile'[t] = IF t = s THEN cmd.user ELSE profile[t]
            BY <2>2, <3>1 DEF TypeOK
        <3>8. \A t, r \in hub' : t # r => profile'[t] # profile'[r]
            BY <2>2, <3>1, <3>6, <3>7 DEF SlotInv, TypeOK
        <3>9. Cardinality(hub) < MaxSlots
            BY <2>2, HubAllLive DEF HasRoom
        <3>10. Cardinality(hub') <= MaxSlots
            BY <2>2, <3>1, <3>9, HubGrows
        <3> QED  BY <3>4, <3>5, <3>8, <3>10 DEF SlotInv
    <2> QED  BY <1>3, <2>1, <2>2 DEF ApplyStart
<1>4. CASE Reap
    BY <1>2, <1>4 DEF Reap, Destroy
<1>5. CASE JoinSlots
    BY <1>2, <1>5 DEF JoinSlots, Destroy
<1>6. CASE Drain \/ ApplyJoin \/ StopTicking \/ JoinLobby
    BY <1>1, <1>6 DEF Drain, ApplyJoin, StopTicking, JoinLobby
<1> QED  BY <1>3, <1>4, <1>5, <1>6 DEF MainStep

\* The thread of a slot leaves the hub exactly when its session has ended.
LEMMA SlotSlotInv ==
    ASSUME TypeOK, SlotInv, NEW s \in Conns, SlotStep(s)
    PROVE  SlotInv'
<1>1. ASSUME NEW a, NEW b, phase[s] = a, phase' = [phase EXCEPT ![s] = b],
             \/ a \in {"boot", "run"} /\ b \in {"run", "cleanup"}
             \/ a = "cleanup" /\ b = "ended"
             \/ a = "unhubbed" /\ b = "finished",
             UNCHANGED <<hub, managed, profile>>
      PROVE  SlotInv'
    BY <1>1 DEF SlotInv, TypeOK
<1>2. CASE Booted(s) \/ Fail(s) \/ LeaveLoop(s) \/ Cleanup(s) \/ Finish(s)
    BY <1>1, <1>2 DEF Booted, Fail, LeaveLoop, Cleanup, Finish
<1>3. CASE DrainJoin(s) \/ ClientLost(s)
    BY <1>3 DEF DrainJoin, ClientLost, SlotInv
<1>4. CASE Unregister(s)
    <2>1. /\ phase[s] = "ended" /\ phase' = [phase EXCEPT ![s] = "unhubbed"]
          /\ hub' = hub \ {s} /\ UNCHANGED <<managed, profile>>
        BY <1>4 DEF Unregister
    <2>2. Cardinality(hub') <= MaxSlots
        BY <2>1, HubShrinks DEF SlotInv
    <2> QED  BY <2>1, <2>2 DEF SlotInv, TypeOK
<1> QED  BY <1>2, <1>3, <1>4 DEF SlotStep

\* Between start_session and unregister_slot a slot is in the hub, owned by the
\* SessionManager and alone with its save profile; the hub never exceeds max_slots.
THEOREM SlotInvariant == Spec => [](TypeOK /\ SlotInv)
<1>1. Init => SlotInv
    BY HostAssumption, FS_EmptySet DEF Init, SlotInv, HostAssumption
<1>2. TypeOK /\ TypeOK' /\ SlotInv /\ [Next]_vars => SlotInv'
    <2> SUFFICES ASSUME TypeOK, TypeOK', SlotInv, [Next]_vars PROVE SlotInv'
        OBVIOUS
    <2>1. CASE UNCHANGED <<hub, managed, phase, profile>>
        BY <2>1 DEF SlotInv
    <2>2. CASE \/ LobbyStep \/ ClientSpeaks
               \/ \E c \in Conns : Accept(c) \/ GatherAccept(c)
               \/ \E i \in 1..MaxSlots : GatherKick(i)
        <3>1. UNCHANGED <<hub, managed, phase, profile>>
            BY <2>2 DEF LobbyStep, ClientSpeaks, Accept, GatherAccept, GatherKick, Route,
               EnqueueJoin, AdmitMode, AdmitSingle, GatherEnd, EnqueueStart, LobbyExit,
               ReadOther, GatherReadOther, ReadHello, GatherReadHello
        <3> QED  BY <2>1, <3>1
    <2>3. CASE MainStep
        BY <2>3, MainSlotInv
    <2>4. CASE \E s \in Conns : SlotStep(s)
        BY <2>4, SlotSlotInv
    <2>5. CASE RequestStop \/ Down \/ UNCHANGED vars
        BY <2>1, <2>5 DEF RequestStop, Down, vars
    <2> QED  BY <2>2, <2>3, <2>4, <2>5 DEF Next
<1> QED  BY <1>1, <1>2, TypeCorrect, PTL DEF Spec

\* Two sessions never play on one save profile: a slot that may write is in the
\* hub, where profiles are distinct.
THEOREM SingleWriter == Spec => []SingleLiveWriter
<1>1. TypeOK /\ SlotInv => SingleLiveWriter
    BY DEF SlotInv, SingleLiveWriter, Writing
<1> QED  BY <1>1, SlotInvariant, PTL

\* A lookup under the lock of the hub never meets a destroyed slot.
THEOREM HubSafe == Spec => []HubPointsToLiveSlots
<1>1. TypeOK /\ SlotInv => HubPointsToLiveSlots
    BY DEF SlotInv, HubPointsToLiveSlots, TypeOK
<1> QED  BY <1>1, SlotInvariant, PTL

\* The host never runs more than max_slots emulators.
THEOREM Capacity == Spec => []CapacityHeld
<1>1. TypeOK /\ SlotInv => CapacityHeld
    <2> SUFFICES ASSUME TypeOK, SlotInv PROVE CapacityHeld
        OBVIOUS
    <2> DEFINE writers == {s \in Conns : Writing(s)}
    <2> USE HostAssumption DEF HostAssumption
    <2>1. writers \subseteq hub
        BY DEF SlotInv, Writing
    <2>2. IsFiniteSet(hub)
        BY FS_Subset DEF TypeOK
    <2>3. Cardinality(writers) <= Cardinality(hub)
        BY <2>1, <2>2, FS_Subset
    <2>4. Cardinality(hub) \in Nat /\ Cardinality(writers) \in Nat
        BY <2>1, <2>2, FS_Subset, FS_CardinalityType
    <2> QED  BY <2>3, <2>4 DEF SlotInv, CapacityHeld
<1> QED  BY <1>1, SlotInvariant, PTL

\* A host with one slot keeps multiplayer to itself: the race of a singleplayer and
\* a multiplayer start, both admitted before either is in the hub, needs two.
THEOREM OneSlotIsExclusive ==
    ASSUME MaxSlots = 1
    PROVE  Spec => []MultiplayerExclusive
<1>1. TypeOK /\ SlotInv => MultiplayerExclusive
    <2> SUFFICES ASSUME TypeOK, SlotInv PROVE MultiplayerExclusive
        OBVIOUS
    <2> USE HostAssumption DEF HostAssumption
    <2>1. ASSUME NEW s \in HubLive, NEW t \in HubLive, s # t
          PROVE  FALSE
        <3>1. s \in hub /\ t \in hub /\ IsFiniteSet(hub)
            BY FS_Subset DEF TypeOK, HubLive
        <3>2. Cardinality({s} \cup {t}) = 2
            <4>1. IsFiniteSet({s}) /\ Cardinality({s}) = 1 /\ t \notin {s}
                BY <2>1, FS_Singleton
            <4>2. Cardinality({s} \cup {t}) = Cardinality({s}) + 1
                BY <4>1, FS_AddElement
            <4> QED  BY <4>1, <4>2
        <3>3. Cardinality({s} \cup {t}) <= Cardinality(hub) /\ Cardinality(hub) \in Nat
            BY <3>1, FS_Subset, FS_CardinalityType
        <3>4. Cardinality(hub) <= 1
            BY DEF SlotInv
        <3> HIDE DEF HostAssumption
        <3> QED  BY ONLY <3>2, <3>3, <3>4
    <2> QED  BY <2>1 DEF MultiplayerExclusive, HubLive
<1> QED  BY <1>1, SlotInvariant, PTL
=============================================================================
