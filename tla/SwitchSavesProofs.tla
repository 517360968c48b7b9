-------------------------- MODULE SwitchSavesProofs --------------------------
(***************************************************************************)
(* The Switch saves of a user with any number of games, whatever the host  *)
(* knows of their titles.                                                  *)
(***************************************************************************)
EXTENDS SwitchSaves, Integers, TLAPS

Sessions == [at : {"idle", "play"} \cup Launching \cup Exiting, stem : Some(Stems),
             title : Some(Titles), emu : Some(Emulators), had : Some(Versions)]

\* From here on the emulators hold what the session is about.
Linked == {"rescue", "slot0", "slot1", "boot"}
Filled == {"boot", "play"} \cup Exiting

\* The save in the old directory of t
Old(t) == [by |-> t, at |-> 0]
LegacyOK == \A t \in Titles : legacy[t] \in {None, Old(t)}

SessionOK ==
    /\ session \in Sessions
    /\ session.at = "idle" => session = Idle
    /\ session.at # "idle" /\ session.stem \in Named => session.title = TitleOf[session.stem]
    /\ session.at \in {"link", "rescue", "slot0", "slot1", "pull0", "pull1", "pull2"} =>
           session.title # None
    /\ session.at \in Launching \ {"claim"} => session.had = stem[session.stem]

\* The slots of the account are replaced one after the other.
SlotsOK ==
    session.title # None /\ session.at # "idle" =>
        LET b == bank[session.title] IN
        /\ session.at \in {"slot1", "boot"} /\ account[session.title] => b[0] = stem[session.stem]
        /\ session.at = "boot" /\ account[session.title] => b[1] = stem[session.stem]

\* Yuzu is linked to stems of the title, and to the one that is played.
LinksOK ==
    /\ \A t \in Titles : yuzu[t] \in Named => TitleOf[yuzu[t]] = t
    /\ session.title # None =>
         /\ session.at \in Linked /\ nand => yuzu[session.title] = session.stem
         /\ session.at \in Linked \cup {"play"} => yuzu[session.title] \in {None, session.stem}

\* Ryujinx saves into accounts only.
PlayOK ==
    session.at = "play" /\ session.emu = "ryujinx" => account[TitleOf[session.stem]]

\* When no title is found for a stem, the accounts hold what it saved itself.
NamelessOK ==
    session.at \in Launching \cup {"play"} /\ session.title = None =>
        \A t \in Titles, k \in Slots : bank[t][k] # None => bank[t][k].by = session.stem

\* The old save of a title is with one stem, or in a slot that is given back to it.
Bears(r, t) ==
    \/ stem[r] = Old(t)
    \/ /\ session.stem = r /\ session.at \in Filled /\ session.title # None
       /\ \E k \in Slots : bank[session.title][k] = Old(t)
HoldersOK ==
    \A t \in Titles, r \in Stems : Bears(r, t) =>
        /\ \A q \in Stems : Bears(q, t) => q = r
        /\ legacy[t] # None => claimed[t] = r

\* Of the games whose title ids are sure
OwnOK ==
    \A s \in Stems : Sure(s) =>
        /\ stem[s] # None => stem[s].by \in {s, TitleOf[s]}
        /\ session.stem = s /\ session.at \in Filled =>
              \A k \in Slots : bank[TitleOf[s]][k] # None =>
                  bank[TitleOf[s]][k].by \in {s, TitleOf[s]}

IInv ==
    /\ TypeOK /\ SessionOK /\ LegacyOK /\ SlotsOK /\ LinksOK /\ PlayOK
    /\ NamelessOK /\ HoldersOK /\ OwnOK /\ Restorable

-----------------------------------------------------------------------------
(* Helpers. *)

Places == {"idle", "play"} \cup Launching \cup Exiting

\* The newer of two saves is one of them.
LEMMA NewerIs ==
    ASSUME NEW u, NEW v
    PROVE  Newer(u, v) \in {u, v} /\ Newer(u, u) = u
<1> QED  BY DEF Newer

\* The newer of two saves is there if one of them is, and not older than either.
LEMMA NewerLate ==
    ASSUME NEW u \in Some(Versions), NEW v \in Some(Versions), NEW w \in {u, v}, w # None
    PROVE  Newer(u, v) # None /\ Newer(u, v).at >= w.at
<1>1. \A x \in Versions : x.at \in Int
    BY SavesAssumption DEF Versions
<1>2. u # None => u.at \in Int
    BY <1>1 DEF Some
<1>3. v # None => v.at \in Int
    BY <1>1 DEF Some
<1>4. \A m, n \in Int : ~(m > n) => n >= m
    OBVIOUS
<1>5. \A m, n \in Int : m > n => m >= n
    OBVIOUS
<1>6. \A n \in Int : n >= n
    OBVIOUS
<1>7. CASE u = None
    BY <1>3, <1>6, <1>7 DEF Newer
<1>8. CASE u # None /\ v = None
    BY <1>2, <1>6, <1>8 DEF Newer
<1>9. CASE u # None /\ v # None
    BY <1>2, <1>3, <1>4, <1>5, <1>6, <1>9 DEF Newer
<1> QED  BY <1>7, <1>8, <1>9

\* The save in the old directory of a title is a version of its own.
LEMMA OldIs ==
    ASSUME NEW t \in Titles
    PROVE  /\ Old(t) \in Versions /\ Old(t) # None /\ Old(t).by = t /\ t \notin Stems
           /\ \A v \in Versions : v.by = t => v = Old(t)
<1>1. t \notin Stems
    BY SavesAssumption
<1>2. \A v \in Versions : v.by = t => v = Old(t)
    BY <1>1 DEF Versions, Old
<1>3. Old(t) \in Versions
    BY DEF Versions, Old
<1>4. Old(t) # None
    BY <1>3, SavesAssumption
<1> QED  BY <1>1, <1>2, <1>3, <1>4 DEF Old

\* None is no title, no stem and no version.
LEMMA NoTitle ==
    /\ None \notin Titles /\ None \notin Stems /\ None \notin Versions
    /\ \A t \in Titles : t # None
    /\ \A s \in Stems : s # None
    /\ None \notin Named
<1> QED  BY SavesAssumption

\* An account has two slots.
LEMMA TwoSlots ==
    0 \in Slots /\ 1 \in Slots /\ \A k \in Slots : k = 0 \/ k = 1
<1> QED  BY DEF Slots

\* A step to another place of the session
LEMMA Moved ==
    ASSUME session \in Sessions, NEW place \in Places,
           session' = [session EXCEPT !.at = place]
    PROVE  /\ session' \in Sessions /\ session'.at = place
           /\ session'.stem = session.stem /\ session'.title = session.title
           /\ session'.emu = session.emu /\ session'.had = session.had
<1> QED  BY DEF Sessions, Places

\* Nobody comes to the old save of a title.
LEMMA HoldersKept ==
    ASSUME HoldersOK,
           \A t \in Titles, r \in Stems : Bears(r, t)' => Bears(r, t),
           \A t \in Titles : legacy'[t] # None => legacy[t] # None /\ claimed'[t] = claimed[t]
    PROVE  HoldersOK'
<1> QED  BY DEF HoldersOK

\* What is on the disk, apart from the session
DiskOK ==
    /\ stem \in [Stems -> Some(Versions)] /\ sidecar \in [Stems -> Some(Titles)]
    /\ legacy \in [Titles -> Some(Versions)] /\ claimed \in [Titles -> Some(Stems)]
    /\ account \in [Titles -> BOOLEAN] /\ nand \in BOOLEAN
    /\ bank \in [Titles -> [Slots -> Some(Versions)]]
    /\ yuzu \in [Titles -> Some(Stems)] /\ yuzuDir \in [Titles -> Some(Versions)]
    /\ kept \in [Stems -> Some(Versions)] /\ rescue \in [Stems -> Some(Versions)]
    /\ made \in Some(Versions) /\ clock \in 0 .. MaxTime

MirrorsOK ==
    \A t \in Titles :
        /\ ~account[t] => bank[t] = [k \in Slots |-> None]
        /\ yuzu[t] # None => nand /\ yuzuDir[t] = None

\* The types of the disk and of the mirrors
LEMMA TypesOf ==
    ASSUME TypeOK
    PROVE  DiskOK /\ MirrorsOK
<1> QED  BY DEF TypeOK, DiskOK, MirrorsOK

\* The types of the whole from those of its parts
LEMMA TypesNext ==
    ASSUME DiskOK', MirrorsOK', session' \in Sessions,
           session'.at # "idle" => session'.stem \in Stems /\ session'.emu \in Emulators
    PROVE  TypeOK'
<1>1. session'.at \in {"idle", "play"} \cup Launching \cup Exiting
      /\ session'.had \in Some(Versions) /\ session'.title \in Some(Titles)
    BY DEF Sessions
<1> QED  BY <1>1 DEF TypeOK, DiskOK, MirrorsOK
-----------------------------------------------------------------------------
(* Steps of the session alone. *)

\* A launch starts from rest.
LEMMA LaunchSafe ==
    ASSUME IInv, NEW s \in Stems, NEW emu \in Emulators, Launch(s, emu)
    PROVE  IInv'
<1>1. PICK t \in Resolve(s) : session' = Session("claim", s, t, emu, None)
    BY DEF Launch
<1>2. /\ UNCHANGED <<stem, sidecar, legacy, claimed, account, bank, nand, yuzu, yuzuDir>>
      /\ UNCHANGED <<kept, rescue, made, clock>>
    BY DEF Launch, stems, emulators, backups
<1>3. DiskOK /\ MirrorsOK
    BY TypesOf DEF IInv
<1>4. /\ t \in Some(Titles)
      /\ s \in Named => t = TitleOf[s]
      /\ t = None => \A u \in Titles : ~account[u]
    <2>1. TitleOf[s] \in Titles /\ sidecar[s] \in Some(Titles)
        BY <1>3, SavesAssumption DEF DiskOK
    <2> QED  BY <1>1, <2>1, NoTitle DEF Resolve, Some
<1>5. /\ session'.at = "claim" /\ session'.stem = s /\ session'.title = t
      /\ session'.emu = emu /\ session'.had = None
    BY <1>1 DEF Session
<1>6. session' \in Sessions
    BY <1>1, <1>4 DEF Session, Sessions, Launching, Some
<1>7. DiskOK' /\ MirrorsOK'
    BY <1>2, <1>3 DEF DiskOK, MirrorsOK
<1>8. TypeOK'
    BY <1>5, <1>6, <1>7, TypesNext
<1>9. SessionOK' /\ LegacyOK'
    BY <1>2, <1>4, <1>5, <1>6 DEF IInv, SessionOK, LegacyOK
<1>10. SlotsOK'
    BY <1>5 DEF SlotsOK
<1>11. LinksOK'
    BY <1>2, <1>5 DEF IInv, LinksOK, Linked
<1>12. NamelessOK'
    BY <1>2, <1>3, <1>4, <1>5 DEF NamelessOK, MirrorsOK
<1>13. HoldersOK'
    <2>1. \A u \in Titles, r \in Stems : Bears(r, u)' => Bears(r, u)
        BY <1>2, <1>5 DEF Bears, Filled, Exiting
    <2> QED  BY <1>2, <2>1, HoldersKept DEF IInv
<1>14. OwnOK'
    BY <1>2, <1>5 DEF IInv, OwnOK, Sure, Filled, Exiting
<1>15. Restorable' /\ PlayOK'
    BY <1>5 DEF Restorable, PlayOK
<1> QED  BY <1>8, <1>9, <1>10, <1>11, <1>12, <1>13, <1>14, <1>15 DEF IInv

\* What a session leaves behind when it dies is what later ones can meet.
LEMMA AbortSafe ==
    ASSUME IInv, Abort
    PROVE  IInv'
<1>1. session' = Idle /\ made' = None
    BY DEF Abort
<1>2. /\ UNCHANGED <<stem, sidecar, legacy, claimed, account, bank, nand, yuzu, yuzuDir>>
      /\ UNCHANGED <<kept, rescue, clock>>
    BY DEF Abort, stems, emulators, backups
<1>3. DiskOK' /\ MirrorsOK'
    <2>1. DiskOK /\ MirrorsOK
        BY TypesOf DEF IInv
    <2> QED  BY <1>1, <1>2, <2>1 DEF DiskOK, MirrorsOK, Some
<1>4. /\ session'.at = "idle" /\ session'.stem = None /\ session'.title = None
      /\ session' \in Sessions
    BY <1>1 DEF Idle, Session, Sessions, Some
<1>5. TypeOK'
    BY <1>3, <1>4, TypesNext
<1>6. SessionOK' /\ LegacyOK' /\ SlotsOK'
    BY <1>1, <1>2, <1>4 DEF IInv, SessionOK, LegacyOK, SlotsOK, Launching
<1>7. LinksOK' /\ NamelessOK'
    BY <1>2, <1>4 DEF IInv, LinksOK, NamelessOK, Launching
<1>8. HoldersOK'
    <2>1. \A u \in Titles, r \in Stems : Bears(r, u)' => Bears(r, u)
        BY <1>2, <1>4 DEF Bears
    <2> QED  BY <1>2, <2>1, HoldersKept DEF IInv
<1>9. OwnOK'
    BY <1>2, <1>4 DEF IInv, OwnOK, Sure, Filled, Exiting
<1>10. Restorable' /\ PlayOK'
    BY <1>4 DEF Restorable, Launching, PlayOK
<1> QED  BY <1>5, <1>6, <1>7, <1>8, <1>9, <1>10 DEF IInv

\* A title found after the exit is that of the game.
LEMMA ExitSafe ==
    ASSUME IInv, Exit
    PROVE  IInv'
<1>1. /\ session.at = "play"
      /\ UNCHANGED <<stem, sidecar, legacy, claimed, account, bank, nand, yuzu, yuzuDir>>
      /\ UNCHANGED <<kept, rescue, made, clock>>
    BY DEF Exit, stems, emulators, backups
<1>2. PICK t : /\ t \in IF session.title = None THEN Resolve(session.stem) ELSE {session.title}
               /\ session' = Session("reclaim", session.stem, t, session.emu, session.had)
    BY DEF Exit
<1>3. DiskOK /\ MirrorsOK
    BY TypesOf DEF IInv
<1>4. /\ session \in Sessions /\ session.stem \in Stems /\ session.emu \in Emulators
      /\ session.stem \in Named => session.title = TitleOf[session.stem]
    BY <1>1 DEF IInv, TypeOK, SessionOK
<1>5. /\ t \in Some(Titles)
      /\ session.title # None => t = session.title
      /\ session.stem \in Named => t = TitleOf[session.stem]
    <2>1. TitleOf[session.stem] \in Titles /\ sidecar[session.stem] \in Some(Titles)
          /\ session.title \in Some(Titles)
        BY <1>3, <1>4, SavesAssumption DEF DiskOK, Sessions
    <2> QED  BY <1>2, <1>4, <2>1, NoTitle DEF Resolve, Some
<1>6. /\ session'.at = "reclaim" /\ session'.stem = session.stem /\ session'.title = t
      /\ session'.emu = session.emu /\ session'.had = session.had
    BY <1>2 DEF Session
<1>7. session' \in Sessions
    <2>1. session.had \in Some(Versions)
        BY <1>4 DEF Sessions
    <2> QED  BY <1>2, <1>4, <1>5, <2>1 DEF Session, Sessions, Exiting, Some
<1>8. TypeOK'
    <2>1. DiskOK' /\ MirrorsOK'
        BY <1>1, <1>3 DEF DiskOK, MirrorsOK
    <2> QED  BY <1>4, <1>6, <1>7, <2>1, TypesNext
<1>9. SessionOK' /\ LegacyOK'
    BY <1>1, <1>5, <1>6, <1>7 DEF IInv, SessionOK, LegacyOK, Launching
<1>10. SlotsOK' /\ LinksOK' /\ NamelessOK'
    BY <1>1, <1>6 DEF IInv, SlotsOK, LinksOK, Linked, NamelessOK, Launching
<1>11. HoldersOK'
    <2>1. ASSUME NEW u \in Titles, NEW r \in Stems, Bears(r, u)' PROVE Bears(r, u)
        <3>1. CASE stem[r] = Old(u)
            BY <3>1 DEF Bears
        <3>2. CASE stem[r] # Old(u)
            <4>1. r = session.stem /\ t # None /\ \E k \in Slots : bank[t][k] = Old(u)
                BY <1>1, <1>6, <2>1, <3>2 DEF Bears
            <4>2. CASE session.title # None
                BY <1>1, <1>5, <4>1, <4>2 DEF Bears, Filled
            <4>3. CASE session.title = None
                <5>1. \A k \in Slots : bank[t][k] # None => bank[t][k].by = session.stem
                    BY <1>1, <1>5, <4>1, <4>3 DEF IInv, NamelessOK, Some
                <5> QED  BY <1>4, <4>1, <5>1, OldIs
            <4> QED  BY <4>2, <4>3
        <3> QED  BY <3>1, <3>2
    <2> QED  BY <1>1, <2>1, HoldersKept DEF IInv
<1>12. OwnOK'
    BY <1>1, <1>6 DEF IInv, OwnOK, Sure, Filled, Exiting
<1>13. Restorable' /\ PlayOK'
    BY <1>6 DEF Restorable, Launching, PlayOK
<1> QED  BY <1>8, <1>9, <1>10, <1>11, <1>12, <1>13 DEF IInv
-----------------------------------------------------------------------------
(* Claims of old directories. *)

\* A claim changes one stem, and only an empty one.
LEMMA ClaimStems ==
    ASSUME IInv, session.stem \in Stems, session.title \in Some(Titles),
           Claim(session.stem, session.title)
    PROVE  /\ legacy' = legacy /\ stem' \in [Stems -> Some(Versions)]
           /\ sidecar' \in [Stems -> Some(Titles)] /\ claimed' \in [Titles -> Some(Stems)]
           /\ \A r \in Stems \ {session.stem} : stem'[r] = stem[r]
           /\ \/ stem' = stem /\ claimed' = claimed
              \/ /\ session.title \in Titles /\ legacy[session.title] = Old(session.title)
                 /\ stem[session.stem] = None /\ stem'[session.stem] = Old(session.title)
                 /\ claimed[session.title] \in {None, session.stem}
                 /\ claimed'[session.title] = session.stem
                 /\ \A u \in Titles \ {session.title} : claimed'[u] = claimed[u]
<1> DEFINE s == session.stem
           t == session.title
<1>1. DiskOK /\ LegacyOK
    BY TypesOf DEF IInv
<1>2. CASE t = None
    BY <1>1, <1>2 DEF Claim, stems, DiskOK
<1>3. CASE t # None
    <2>1. t \in Titles
        BY <1>3 DEF Some
    <2>2. sidecar' = [sidecar EXCEPT ![s] = t] /\ legacy' = legacy
        BY <1>3 DEF Claim
    <2>3. sidecar' \in [Stems -> Some(Titles)]
        BY <1>1, <2>2 DEF DiskOK
    <2>4. CASE stem[s] = None /\ Unclaimed(s, t)
        <3>1. stem' = [stem EXCEPT ![s] = legacy[t]] /\ claimed' = [claimed EXCEPT ![t] = s]
            BY <1>3, <2>4 DEF Claim
        <3>2. legacy[t] = Old(t) /\ claimed[t] \in {None, s}
            BY <1>1, <2>1, <2>4 DEF Unclaimed, LegacyOK
        <3>3. legacy[t] \in Some(Versions) /\ s \in Some(Stems)
            BY <1>1, <2>1 DEF DiskOK, Some
        <3>4. /\ stem' \in [Stems -> Some(Versions)] /\ stem'[s] = Old(t)
              /\ \A r \in Stems \ {s} : stem'[r] = stem[r]
            BY <1>1, <3>1, <3>2, <3>3 DEF DiskOK
        <3>5. /\ claimed' \in [Titles -> Some(Stems)] /\ claimed'[t] = s
              /\ \A u \in Titles \ {t} : claimed'[u] = claimed[u]
            BY <1>1, <2>1, <3>1, <3>3 DEF DiskOK
        <3> QED  BY <2>1, <2>2, <2>3, <2>4, <3>2, <3>4, <3>5
    <2>5. CASE ~(stem[s] = None /\ Unclaimed(s, t))
        BY <1>1, <1>3, <2>2, <2>3, <2>5 DEF Claim, DiskOK
    <2> QED  BY <2>4, <2>5
<1> QED  BY <1>2, <1>3

\* The stem that takes the old save over is the only one to have it.
LEMMA ClaimHolders ==
    ASSUME IInv, session.stem \in Stems, session.title \in Some(Titles),
           Claim(session.stem, session.title),
           \A u \in Titles, r \in Stems : Bears(r, u)' => Bears(r, u) \/ stem'[r] = Old(u)
    PROVE  HoldersOK'
<1> DEFINE s == session.stem
           t == session.title
<1>1. /\ legacy' = legacy
      /\ \A r \in Stems \ {s} : stem'[r] = stem[r]
      /\ \/ stem' = stem /\ claimed' = claimed
         \/ /\ t \in Titles /\ stem[s] = None /\ stem'[s] = Old(t)
            /\ legacy[t] = Old(t) /\ claimed[t] \in {None, s} /\ claimed'[t] = s
            /\ \A u \in Titles \ {t} : claimed'[u] = claimed[u]
    BY ClaimStems
<1>2. CASE stem' = stem /\ claimed' = claimed
    <2>1. \A u \in Titles, r \in Stems : Bears(r, u)' => Bears(r, u)
        BY <1>2 DEF Bears
    <2> QED  BY <1>1, <1>2, <2>1, HoldersKept DEF IInv
<1>3. CASE /\ t \in Titles /\ stem[s] = None /\ stem'[s] = Old(t)
           /\ legacy[t] = Old(t) /\ claimed[t] \in {None, s} /\ claimed'[t] = s
           /\ \A u \in Titles \ {t} : claimed'[u] = claimed[u]
    <2>1. ASSUME NEW r \in Stems, Bears(r, t) PROVE r = s
        <3>1. claimed[t] = r
            BY <1>3, <2>1, OldIs DEF IInv, HoldersOK
        <3> QED  BY <1>3, <3>1, NoTitle
    <2>2. ASSUME NEW u \in Titles, NEW r \in Stems, Bears(r, u)'
          PROVE  Bears(r, u) \/ (u = t /\ r = s)
        <3>1. CASE stem'[r] = Old(u)
            <4>1. CASE r = s
                BY <1>3, <3>1, <4>1, OldIs
            <4>2. CASE r # s
                BY <1>1, <3>1, <4>2 DEF Bears
            <4> QED  BY <4>1, <4>2
        <3>2. CASE stem'[r] # Old(u)
            BY <2>2, <3>2
        <3> QED  BY <3>1, <3>2
    <2> SUFFICES ASSUME NEW u \in Titles, NEW r \in Stems, Bears(r, u)'
                 PROVE  /\ \A q \in Stems : Bears(q, u)' => q = r
                        /\ legacy'[u] # None => claimed'[u] = r
        BY DEF HoldersOK
    <2>3. CASE u = t
        BY <1>3, <2>1, <2>2, <2>3
    <2>4. CASE u # t
        <3>1. Bears(r, u) /\ \A q \in Stems : Bears(q, u)' => Bears(q, u)
            BY <2>2, <2>4
        <3> QED  BY <1>1, <1>3, <2>4, <3>1 DEF IInv, HoldersOK
    <2> QED  BY <2>3, <2>4
<1> QED  BY <1>1, <1>2, <1>3

\* The stem that takes over an old save is its only heir.
LEMMA LaunchClaimSafe ==
    ASSUME IInv, LaunchClaim
    PROVE  IInv'
<1> DEFINE s == session.stem
           t == session.title
<1>1. /\ session.at = "claim" /\ Claim(s, t)
      /\ session' = Session("backup", s, t, session.emu, stem'[s])
      /\ UNCHANGED <<account, bank, nand, yuzu, yuzuDir>>
      /\ UNCHANGED <<kept, rescue, made, clock>>
    BY DEF LaunchClaim, emulators, backups
<1>2. /\ session \in Sessions /\ s \in Stems /\ session.emu \in Emulators /\ t \in Some(Titles)
      /\ s \in Named => t = TitleOf[s]
    BY <1>1 DEF IInv, TypeOK, SessionOK
<1>3. DiskOK /\ MirrorsOK
    BY TypesOf DEF IInv
<1>4. /\ legacy' = legacy /\ stem' \in [Stems -> Some(Versions)]
      /\ sidecar' \in [Stems -> Some(Titles)] /\ claimed' \in [Titles -> Some(Stems)]
      /\ \A r \in Stems \ {s} : stem'[r] = stem[r]
      /\ stem'[s] = stem[s] \/ (stem'[s] = Old(t) /\ t \in Titles)
    <2>1. /\ stem' \in [Stems -> Some(Versions)]
          /\ stem' = stem \/ (t \in Titles /\ stem'[s] = Old(t))
        BY <1>1, <1>2, ClaimStems
    <2>2. /\ legacy' = legacy /\ sidecar' \in [Stems -> Some(Titles)]
          /\ claimed' \in [Titles -> Some(Stems)]
          /\ \A r \in Stems \ {s} : stem'[r] = stem[r]
        BY <1>1, <1>2, ClaimStems
    <2> HIDE DEF s, t
    <2> QED  BY <2>1, <2>2
<1> HIDE DEF s, t
<1>5. /\ session'.at = "backup" /\ session'.stem = s /\ session'.title = t
      /\ session'.emu = session.emu /\ session'.had = stem'[s]
    BY <1>1 DEF Session
<1>6. session' \in Sessions
    <2>1. stem'[s] \in Some(Versions)
        BY <1>2, <1>4
    <2> QED  BY <1>1, <1>2, <2>1 DEF Session, Sessions, Launching, Some
<1>7. TypeOK'
    <2>1. DiskOK' /\ MirrorsOK'
        BY <1>1, <1>3, <1>4 DEF DiskOK, MirrorsOK
    <2> QED  BY <1>2, <1>5, <1>6, <2>1, TypesNext
<1>8. SessionOK' /\ LegacyOK'
    BY <1>2, <1>4, <1>5, <1>6 DEF IInv, SessionOK, LegacyOK
<1>9. SlotsOK' /\ LinksOK' /\ NamelessOK'
    BY <1>1, <1>5 DEF IInv, SlotsOK, LinksOK, Linked, NamelessOK, Launching, s, t
<1>10. HoldersOK'
    <2>1. \A u \in Titles, r \in Stems : Bears(r, u)' => Bears(r, u) \/ stem'[r] = Old(u)
        BY <1>5 DEF Bears, Filled, Exiting
    <2> QED  BY <1>1, <1>2, <2>1, ClaimHolders DEF s, t
<1>11. OwnOK'
    <2> SUFFICES ASSUME NEW q \in Stems, Sure(q)
                 PROVE  stem'[q] # None => stem'[q].by \in {q, TitleOf[q]}
        BY <1>5 DEF OwnOK, Sure, Filled, Exiting
    <2>1. CASE stem'[q] = stem[q]
        BY <2>1 DEF IInv, OwnOK
    <2>2. CASE stem'[q] # stem[q]
        <3>1. q = s /\ stem'[q] = Old(t) /\ t \in Titles
            BY <1>4, <2>2
        <3>2. t = TitleOf[q]
            BY <1>2, <3>1 DEF Sure
        <3> QED  BY <3>1, <3>2, OldIs
    <2> QED  BY <2>1, <2>2
<1>12. Restorable' /\ PlayOK'
    BY <1>5 DEF Restorable, PlayOK
<1> QED  BY <1>7, <1>8, <1>9, <1>10, <1>11, <1>12 DEF IInv

\* A claim after the exit has one heir as well.
LEMMA ExitClaimSafe ==
    ASSUME IInv, ExitClaim
    PROVE  IInv'
<1> DEFINE s == session.stem
           t == session.title
           next == IF t = None THEN "settle" ELSE "pull0"
<1>1. /\ session.at = "reclaim" /\ Claim(s, t) /\ session' = [session EXCEPT !.at = next]
      /\ UNCHANGED <<account, bank, nand, yuzu, yuzuDir>>
      /\ UNCHANGED <<kept, rescue, made, clock>>
    BY DEF ExitClaim, At, emulators, backups
<1>2. /\ session \in Sessions /\ s \in Stems /\ session.emu \in Emulators /\ t \in Some(Titles)
      /\ s \in Named => t = TitleOf[s]
    BY <1>1 DEF IInv, TypeOK, SessionOK
<1>3. DiskOK /\ MirrorsOK
    BY TypesOf DEF IInv
<1>4. next \in Places /\ next \in {"settle", "pull0"} /\ (next = "pull0" => t # None)
    BY DEF Places, Exiting
<1> HIDE DEF next
<1>5. /\ session' \in Sessions /\ session'.at = next /\ session'.stem = s
      /\ session'.title = t /\ session'.emu = session.emu
    BY <1>1, <1>2, <1>4, Moved
<1>6. /\ legacy' = legacy /\ stem' \in [Stems -> Some(Versions)]
      /\ sidecar' \in [Stems -> Some(Titles)] /\ claimed' \in [Titles -> Some(Stems)]
      /\ \A r \in Stems \ {s} : stem'[r] = stem[r]
      /\ stem'[s] = stem[s] \/ (stem'[s] = Old(t) /\ t \in Titles)
    <2>1. /\ stem' \in [Stems -> Some(Versions)]
          /\ stem' = stem \/ (t \in Titles /\ stem'[s] = Old(t))
        BY <1>1, <1>2, ClaimStems
    <2>2. /\ legacy' = legacy /\ sidecar' \in [Stems -> Some(Titles)]
          /\ claimed' \in [Titles -> Some(Stems)]
          /\ \A r \in Stems \ {s} : stem'[r] = stem[r]
        BY <1>1, <1>2, ClaimStems
    <2> HIDE DEF s, t
    <2> QED  BY <2>1, <2>2
<1> HIDE DEF s, t
<1>7. TypeOK'
    <2>1. DiskOK' /\ MirrorsOK'
        BY <1>1, <1>3, <1>6 DEF DiskOK, MirrorsOK
    <2> QED  BY <1>2, <1>5, <2>1, TypesNext
<1>8. SessionOK' /\ LegacyOK'
    BY <1>2, <1>4, <1>5, <1>6 DEF IInv, SessionOK, LegacyOK, Launching
<1>9. SlotsOK' /\ LinksOK' /\ NamelessOK'
    BY <1>1, <1>4, <1>5 DEF IInv, SlotsOK, LinksOK, Linked, NamelessOK, Launching, s, t
<1>10. HoldersOK'
    <2>1. \A u \in Titles, r \in Stems : Bears(r, u)' => Bears(r, u) \/ stem'[r] = Old(u)
        BY <1>1, <1>5 DEF Bears, Filled, Exiting, s, t
    <2> QED  BY <1>1, <1>2, <2>1, ClaimHolders DEF s, t
<1>11. OwnOK'
    <2> SUFFICES ASSUME NEW q \in Stems, Sure(q)
                 PROVE  /\ stem'[q] # None => stem'[q].by \in {q, TitleOf[q]}
                        /\ session'.stem = q => \A k \in Slots :
                             bank'[TitleOf[q]][k] # None =>
                               bank'[TitleOf[q]][k].by \in {q, TitleOf[q]}
        BY DEF OwnOK, Sure
    <2>1. stem'[q] # None => stem'[q].by \in {q, TitleOf[q]}
        <3>1. CASE stem'[q] = stem[q]
            BY <3>1 DEF IInv, OwnOK
        <3>2. CASE stem'[q] # stem[q]
            <4>1. q = s /\ stem'[q] = Old(t) /\ t \in Titles
                BY <1>6, <3>2
            <4>2. t = TitleOf[q]
                BY <1>2, <4>1 DEF Sure
            <4> QED  BY <4>1, <4>2, OldIs
        <3> QED  BY <3>1, <3>2
    <2>2. session'.stem = q => \A k \in Slots : bank'[TitleOf[q]][k] # None =>
              bank'[TitleOf[q]][k].by \in {q, TitleOf[q]}
        BY <1>1, <1>5 DEF IInv, OwnOK, Filled, Exiting, s
    <2> QED  BY <2>1, <2>2
<1>12. Restorable' /\ PlayOK'
    BY <1>4, <1>5 DEF Restorable, Launching, PlayOK
<1> QED  BY <1>7, <1>8, <1>9, <1>10, <1>11, <1>12 DEF IInv
-----------------------------------------------------------------------------
(* The way to the emulator. *)

\* After the backup the stem can be restored.
LEMMA BackupSafe ==
    ASSUME IInv, Backup
    PROVE  IInv'
<1> DEFINE s == session.stem
           next == IF session.title = None THEN "boot" ELSE "link"
<1>1. /\ session.at = "backup" /\ session' = [session EXCEPT !.at = next]
      /\ UNCHANGED <<stem, sidecar, legacy, claimed, account, bank, nand, yuzu, yuzuDir>>
      /\ UNCHANGED <<made, clock>>
      /\ \/ stem[s] = None /\ kept' = kept /\ rescue' = rescue
         \/ /\ stem[s] # None /\ kept' = [kept EXCEPT ![s] = stem[s]]
            /\ rescue' = [rescue EXCEPT ![s] = None]
    BY DEF Backup, stems, emulators, backups
<1>2. /\ session \in Sessions /\ s \in Stems /\ session.emu \in Emulators
      /\ s \in Named => session.title = TitleOf[s]
      /\ session.had = stem[s] /\ session.title \in Some(Titles)
    BY <1>1 DEF IInv, TypeOK, SessionOK, Launching
<1>3. DiskOK /\ MirrorsOK
    BY TypesOf DEF IInv
<1>4. next \in Places /\ next \in {"boot", "link"} /\ (next = "link" <=> session.title # None)
    BY DEF Places, Launching
<1> HIDE DEF next
<1>5. /\ session' \in Sessions /\ session'.at = next /\ session'.stem = s
      /\ session'.title = session.title /\ session'.emu = session.emu
      /\ session'.had = session.had
    BY <1>1, <1>2, <1>4, Moved
<1> HIDE DEF s
<1>6. /\ kept' \in [Stems -> Some(Versions)] /\ rescue' \in [Stems -> Some(Versions)]
      /\ stem[s] # None => kept'[s] = stem[s]
    <2>1. stem[s] \in Some(Versions) /\ None \in Some(Versions)
        BY <1>2, <1>3 DEF DiskOK, Some
    <2> QED  BY <1>1, <1>2, <1>3, <2>1 DEF DiskOK
<1>7. TypeOK'
    <2>1. DiskOK' /\ MirrorsOK'
        BY <1>1, <1>3, <1>6 DEF DiskOK, MirrorsOK
    <2> QED  BY <1>2, <1>5, <2>1, TypesNext
<1>8. SessionOK' /\ LegacyOK'
    BY <1>1, <1>2, <1>4, <1>5 DEF IInv, SessionOK, LegacyOK
<1>9. SlotsOK' /\ LinksOK' /\ NamelessOK'
    BY <1>1, <1>4, <1>5 DEF IInv, SlotsOK, LinksOK, Linked, NamelessOK, Launching, s
<1>10. HoldersOK'
    <2>1. \A u \in Titles, r \in Stems : Bears(r, u)' => Bears(r, u)
        BY <1>1, <1>4, <1>5 DEF Bears, Filled, Exiting
    <2> QED  BY <1>1, <2>1, HoldersKept DEF IInv
<1>11. OwnOK'
    <2>1. ASSUME NEW q \in Stems, Sure(q), session'.stem = q, session'.at \in Filled
          PROVE  FALSE
        <3>1. q \in Named /\ q = s
            BY <1>5, <2>1 DEF Sure
        <3>2. session.title \in Titles
            BY <1>2, <3>1, SavesAssumption
        <3> QED  BY <1>4, <1>5, <2>1, <3>2, NoTitle DEF Filled, Exiting
    <2> QED  BY <1>1, <2>1 DEF IInv, OwnOK, Sure
<1>12. Restorable' /\ PlayOK'
    BY <1>2, <1>4, <1>5, <1>6 DEF Restorable, PlayOK
<1> QED  BY <1>7, <1>8, <1>9, <1>10, <1>11, <1>12 DEF IInv

\* What a link does to Yuzu, in a launch and after an exit
LEMMA Linking ==
    ASSUME IInv, session.stem \in Stems, session.title \in Some(Titles),
           session.stem \in Named => session.title = TitleOf[session.stem],
           Link(session.stem, session.title)
    PROVE  /\ UNCHANGED <<account, bank, nand>>
           /\ yuzu' \in [Titles -> Some(Stems)] /\ yuzuDir' \in [Titles -> Some(Versions)]
           /\ \A t \in Titles : yuzu'[t] # None => nand /\ yuzuDir'[t] = None
           /\ \A t \in Titles : yuzu'[t] \in Named => TitleOf[yuzu'[t]] = t
           /\ session.title # None =>
                /\ nand => yuzu'[session.title] = session.stem
                /\ ~nand => yuzu'[session.title] = None
<1> DEFINE s == session.stem
           t == session.title
<1>1. /\ UNCHANGED <<account, bank, nand>>
      /\ yuzu' = IF nand /\ t # None THEN [yuzu EXCEPT ![t] = s] ELSE yuzu
      /\ yuzuDir' = IF nand /\ t # None THEN [yuzuDir EXCEPT ![t] = None] ELSE yuzuDir
    BY DEF Link
<1>2. /\ yuzu \in [Titles -> Some(Stems)] /\ yuzuDir \in [Titles -> Some(Versions)]
      /\ \A u \in Titles : yuzu[u] # None => nand /\ yuzuDir[u] = None
      /\ \A u \in Titles : yuzu[u] \in Named => TitleOf[yuzu[u]] = u
      /\ s \in Some(Stems) /\ None \in Some(Versions)
      /\ t # None => t \in Titles
    BY TypesOf DEF IInv, DiskOK, MirrorsOK, LinksOK, Some
<1>3. s \in Named => t = TitleOf[s]
    OBVIOUS
<1> HIDE DEF s, t
<1>4. CASE nand /\ t # None
    <2>1. /\ yuzu' \in [Titles -> Some(Stems)] /\ yuzu'[t] = s
          /\ yuzuDir' \in [Titles -> Some(Versions)] /\ yuzuDir'[t] = None
          /\ \A u \in Titles \ {t} : yuzu'[u] = yuzu[u] /\ yuzuDir'[u] = yuzuDir[u]
        BY <1>1, <1>2, <1>4
    <2> QED  BY <1>1, <1>2, <1>3, <1>4, <2>1 DEF s, t
<1>5. CASE ~(nand /\ t # None)
    BY <1>1, <1>2, <1>5 DEF s, t
<1> QED  BY <1>4, <1>5

\* The link leads to the stem that is launched.
LEMMA LaunchLinkSafe ==
    ASSUME IInv, LaunchLink
    PROVE  IInv'
<1>1. /\ session.at = "link" /\ session' = [session EXCEPT !.at = "rescue"]
      /\ Link(session.stem, session.title)
      /\ UNCHANGED <<stem, sidecar, legacy, claimed, kept, rescue, made, clock>>
    BY DEF LaunchLink, At, stems, backups
<1>2. /\ session \in Sessions /\ session.stem \in Stems /\ session.emu \in Emulators
      /\ session.stem \in Named => session.title = TitleOf[session.stem]
      /\ session.had = stem[session.stem] /\ session.title \in Some(Titles)
      /\ session.title # None
    BY <1>1 DEF IInv, TypeOK, SessionOK, Launching
<1>3. /\ session' \in Sessions /\ session'.at = "rescue" /\ session'.stem = session.stem
      /\ session'.title = session.title /\ session'.emu = session.emu
      /\ session'.had = session.had
    BY <1>1, <1>2, Moved DEF Places, Launching
<1>4. /\ UNCHANGED <<account, bank, nand>>
      /\ yuzu' \in [Titles -> Some(Stems)] /\ yuzuDir' \in [Titles -> Some(Versions)]
      /\ \A t \in Titles : yuzu'[t] # None => nand /\ yuzuDir'[t] = None
      /\ \A t \in Titles : yuzu'[t] \in Named => TitleOf[yuzu'[t]] = t
      /\ nand => yuzu'[session.title] = session.stem
      /\ ~nand => yuzu'[session.title] = None
    BY <1>1, <1>2, Linking
<1>5. DiskOK /\ MirrorsOK
    BY TypesOf DEF IInv
<1>6. TypeOK'
    <2>1. DiskOK' /\ MirrorsOK'
        BY <1>1, <1>4, <1>5 DEF DiskOK, MirrorsOK
    <2> QED  BY <1>2, <1>3, <2>1, TypesNext
<1>7. SessionOK' /\ LegacyOK'
    BY <1>1, <1>2, <1>3 DEF IInv, SessionOK, LegacyOK
<1>8. LinksOK'
    BY <1>3, <1>4 DEF LinksOK
<1>9. SlotsOK' /\ NamelessOK'
    BY <1>2, <1>3 DEF SlotsOK, NamelessOK
<1>10. HoldersOK'
    <2>1. \A u \in Titles, r \in Stems : Bears(r, u)' => Bears(r, u)
        BY <1>1, <1>3 DEF Bears, Filled, Exiting
    <2> QED  BY <1>1, <2>1, HoldersKept DEF IInv
<1>11. OwnOK'
    BY <1>1, <1>3 DEF IInv, OwnOK, Sure, Filled, Exiting
<1>12. Restorable' /\ PlayOK'
    BY <1>1, <1>3 DEF IInv, Restorable, Launching, PlayOK
<1> QED  BY <1>6, <1>7, <1>8, <1>9, <1>10, <1>11, <1>12 DEF IInv

\* What the slots hold is kept before they are wiped.
LEMMA RescueSafe ==
    ASSUME IInv, Rescue
    PROVE  IInv'
<1> DEFINE s == session.stem
           t == session.title
           v == Newer(bank[t][0], bank[t][1])
<1>1. /\ session.at = "rescue" /\ session' = [session EXCEPT !.at = "slot0"]
      /\ rescue' = IF stem[s] # None THEN rescue ELSE [rescue EXCEPT ![s] = v]
      /\ UNCHANGED <<stem, sidecar, legacy, claimed, account, bank, nand, yuzu, yuzuDir>>
      /\ UNCHANGED <<kept, made, clock>>
    BY DEF Rescue, At, stems, emulators
<1>2. /\ session \in Sessions /\ s \in Stems /\ session.emu \in Emulators
      /\ s \in Named => t = TitleOf[s]
      /\ session.had = stem[s] /\ t \in Some(Titles) /\ t # None
    BY <1>1 DEF IInv, TypeOK, SessionOK, Launching
<1>3. /\ session' \in Sessions /\ session'.at = "slot0" /\ session'.stem = s
      /\ session'.title = t /\ session'.emu = session.emu /\ session'.had = session.had
    BY <1>1, <1>2, Moved DEF Places, Launching
<1>4. DiskOK /\ MirrorsOK
    BY TypesOf DEF IInv
<1>5. bank[t][0] \in Some(Versions) /\ bank[t][1] \in Some(Versions)
    BY <1>2, <1>4, TwoSlots DEF DiskOK, Some
<1>6. v \in Some(Versions)
    BY <1>5, NewerIs
<1>7. \A k \in Slots : bank[t][k] # None => v # None /\ v.at >= bank[t][k].at
    <2> TAKE k \in Slots
    <2>1. CASE k = 0
        BY <1>5, <2>1, NewerLate
    <2>2. CASE k = 1
        BY <1>5, <2>2, NewerLate
    <2> QED  BY <2>1, <2>2, TwoSlots
<1> HIDE DEF s, t, v
<1>8. /\ rescue' \in [Stems -> Some(Versions)]
      /\ stem[s] = None => rescue'[s] = v
    BY <1>1, <1>2, <1>4, <1>6 DEF DiskOK
<1>9. TypeOK'
    <2>1. DiskOK' /\ MirrorsOK'
        BY <1>1, <1>4, <1>8 DEF DiskOK, MirrorsOK
    <2> QED  BY <1>2, <1>3, <2>1, TypesNext
<1>10. SessionOK' /\ LegacyOK'
    BY <1>1, <1>2, <1>3 DEF IInv, SessionOK, LegacyOK
<1>11. SlotsOK' /\ NamelessOK'
    BY <1>2, <1>3 DEF SlotsOK, NamelessOK
<1>12. LinksOK'
    BY <1>1, <1>3 DEF IInv, LinksOK, Linked, s, t
<1>13. HoldersOK'
    <2>1. \A u \in Titles, r \in Stems : Bears(r, u)' => Bears(r, u)
        BY <1>1, <1>3 DEF Bears, Filled, Exiting
    <2> QED  BY <1>1, <2>1, HoldersKept DEF IInv
<1>14. OwnOK'
    BY <1>1, <1>3 DEF IInv, OwnOK, Sure, Filled, Exiting
<1>15. Restorable' /\ PlayOK'
    <2>1. session'.had # None => kept'[s] = session'.had
        BY <1>1, <1>3 DEF IInv, Restorable, Launching, s
    <2>2. session'.had = None => \A k \in Slots : bank'[t][k] # None =>
              rescue'[s] # None /\ rescue'[s].at >= bank'[t][k].at
        BY <1>1, <1>2, <1>3, <1>7, <1>8
    <2> QED  BY <1>3, <2>1, <2>2 DEF Restorable, PlayOK
<1> QED  BY <1>9, <1>10, <1>11, <1>12, <1>13, <1>14, <1>15 DEF IInv
\* A slot of an account is replaced, or there is no account.
LEMMA Replacing ==
    ASSUME bank \in [Titles -> [Slots -> Some(Versions)]], NEW t \in Titles, NEW k \in Slots,
           NEW v \in Some(Versions), bank' = Replaced(t, k, v)
    PROVE  /\ bank' \in [Titles -> [Slots -> Some(Versions)]]
           /\ account[t] => bank'[t][k] = v /\ \A j \in Slots \ {k} : bank'[t][j] = bank[t][j]
           /\ \A u \in Titles \ {t} : bank'[u] = bank[u]
           /\ ~account[t] => bank' = bank
<1>1. CASE account[t]
    <2>1. bank' = [bank EXCEPT ![t] = [bank[t] EXCEPT ![k] = v]]
        BY <1>1 DEF Replaced
    <2>2. bank[t] \in [Slots -> Some(Versions)]
        OBVIOUS
    <2>3. [bank[t] EXCEPT ![k] = v] \in [Slots -> Some(Versions)]
          /\ [bank[t] EXCEPT ![k] = v][k] = v
          /\ \A j \in Slots \ {k} : [bank[t] EXCEPT ![k] = v][j] = bank[t][j]
        BY <2>2
    <2> QED  BY <1>1, <2>1, <2>3
<1>2. CASE ~account[t]
    BY <1>2 DEF Replaced
<1> QED  BY <1>1, <1>2

\* The slots hold what the stem holds, one after the other.
LEMMA ReplaceSlotSafe ==
    ASSUME IInv, NEW k \in Slots, ReplaceSlot(k)
    PROVE  IInv'
<1> DEFINE s == session.stem
           t == session.title
           next == IF k = 0 THEN "slot1" ELSE "boot"
<1>1. /\ session.at = IF k = 0 THEN "slot0" ELSE "slot1"
      /\ session' = [session EXCEPT !.at = next]
      /\ bank' = Replaced(t, k, stem[s])
      /\ UNCHANGED <<stem, sidecar, legacy, claimed, account, nand, yuzu, yuzuDir>>
      /\ UNCHANGED <<kept, rescue, made, clock>>
    BY DEF ReplaceSlot, At, stems, backups
<1>2. /\ session \in Sessions /\ s \in Stems /\ session.emu \in Emulators
      /\ s \in Named => t = TitleOf[s]
      /\ session.had = stem[s] /\ t \in Some(Titles) /\ t # None
    BY <1>1 DEF IInv, TypeOK, SessionOK, Launching
<1>3. next \in Places /\ next \in {"slot1", "boot"}
    BY DEF Places, Launching
<1>4. /\ session' \in Sessions /\ session'.at = next /\ session'.stem = s
      /\ session'.title = t /\ session'.emu = session.emu /\ session'.had = session.had
    <2> HIDE DEF next
    <2> QED  BY <1>1, <1>2, <1>3, Moved
<1>5. DiskOK /\ MirrorsOK
    BY TypesOf DEF IInv
<1>6. t \in Titles /\ stem[s] \in Some(Versions)
    BY <1>2, <1>5 DEF DiskOK, Some
<1>7. /\ bank' \in [Titles -> [Slots -> Some(Versions)]]
      /\ account[t] => bank'[t][k] = stem[s] /\ \A j \in Slots \ {k} : bank'[t][j] = bank[t][j]
      /\ \A u \in Titles \ {t} : bank'[u] = bank[u]
      /\ ~account[t] => bank' = bank
    <2>1. bank \in [Titles -> [Slots -> Some(Versions)]]
        BY <1>5 DEF DiskOK
    <2> HIDE DEF s, t
    <2> QED  BY <1>1, <1>6, <2>1, Replacing
<1> HIDE DEF s, t
<1>8. TypeOK'
    <2>1. DiskOK'
        BY <1>1, <1>5, <1>7 DEF DiskOK
    <2>2. MirrorsOK'
        BY <1>1, <1>5, <1>7 DEF MirrorsOK
    <2> QED  BY <1>2, <1>3, <1>4, <2>1, <2>2, TypesNext
<1>9. SessionOK' /\ LegacyOK'
    BY <1>1, <1>2, <1>3, <1>4 DEF IInv, SessionOK, LegacyOK
<1>10. SlotsOK'
    <2>1. CASE k = 0
        BY <1>1, <1>4, <1>7, <2>1 DEF SlotsOK
    <2>2. CASE k = 1
        <3>1. account[t] => bank[t][0] = stem[s]
            BY <1>1, <1>2, <2>2 DEF IInv, SlotsOK, s, t
        <3> QED  BY <1>1, <1>4, <1>7, <2>2, <3>1, TwoSlots DEF SlotsOK
    <2> QED  BY <2>1, <2>2, TwoSlots
<1>11. LinksOK'
    BY <1>1, <1>3, <1>4 DEF IInv, LinksOK, Linked, s, t
<1>12. NamelessOK' /\ PlayOK'
    BY <1>2, <1>3, <1>4 DEF NamelessOK, PlayOK
<1>13. k # 0 => \A j \in Slots : bank'[t][j] \in {None, stem[s]}
    <2> SUFFICES ASSUME k = 1 PROVE \A j \in Slots : bank'[t][j] \in {None, stem[s]}
        BY TwoSlots
    <2>1. CASE account[t]
        <3>1. bank[t][0] = stem[s]
            BY <1>1, <1>2, <2>1 DEF IInv, SlotsOK, s, t
        <3> QED  BY <1>7, <2>1, <3>1, TwoSlots
    <2>2. CASE ~account[t]
        BY <1>5, <1>6, <1>7, <2>2 DEF MirrorsOK
    <2> QED  BY <2>1, <2>2
<1>14. HoldersOK'
    <2>1. ASSUME NEW u \in Titles, NEW r \in Stems, Bears(r, u)' PROVE Bears(r, u)
        <3>1. stem[r] = Old(u) \/ (r = s /\ k # 0 /\ \E j \in Slots : bank'[t][j] = Old(u))
            BY <1>1, <1>4, <2>1 DEF Bears, Filled, Exiting
        <3>2. stem[r] = Old(u)
            BY <1>13, <3>1, OldIs
        <3> QED  BY <3>2 DEF Bears
    <2> QED  BY <1>1, <2>1, HoldersKept DEF IInv
<1>15. OwnOK'
    <2> SUFFICES ASSUME NEW q \in Stems, Sure(q)
                 PROVE  /\ stem[q] # None => stem[q].by \in {q, TitleOf[q]}
                        /\ session'.stem = q /\ session'.at \in Filled =>
                             \A j \in Slots : bank'[TitleOf[q]][j] # None =>
                                 bank'[TitleOf[q]][j].by \in {q, TitleOf[q]}
        BY <1>1 DEF OwnOK, Sure
    <2>1. stem[q] # None => stem[q].by \in {q, TitleOf[q]}
        BY DEF IInv, OwnOK
    <2>2. ASSUME q = s, k # 0, NEW j \in Slots, bank'[TitleOf[q]][j] # None
          PROVE  bank'[TitleOf[q]][j].by \in {q, TitleOf[q]}
        <3>1. t = TitleOf[q]
            BY <1>2, <2>2 DEF Sure
        <3> QED  BY <1>13, <2>1, <2>2, <3>1
    <2> QED  BY <1>4, <2>1, <2>2 DEF Filled, Exiting
<1>16. Restorable'
    <2>1. session'.had # None => kept'[s] = session'.had
        BY <1>1, <1>4 DEF IInv, Restorable, Launching, s
    <2>2. ASSUME k = 0, stem[s] = None, NEW j \in Slots, bank'[t][j] # None
          PROVE  rescue'[s] # None /\ rescue'[s].at >= bank'[t][j].at
        <3>1. bank'[t][j] = bank[t][j]
            BY <1>7, <2>2
        <3> QED  BY <1>1, <1>2, <2>2, <3>1 DEF IInv, Restorable, s, t
    <2> QED  BY <1>2, <1>4, <2>1, <2>2 DEF Restorable
<1> QED  BY <1>8, <1>9, <1>10, <1>11, <1>12, <1>14, <1>15, <1>16 DEF IInv

\* The emulator creates empty accounts.
LEMMA BootSafe ==
    ASSUME IInv, Boot
    PROVE  IInv'
<1> DEFINE s == session.stem
<1>1. /\ session.at = "boot" /\ session' = [session EXCEPT !.at = "play"]
      /\ UNCHANGED <<stem, sidecar, legacy, claimed, bank, yuzu, yuzuDir>>
      /\ UNCHANGED <<kept, rescue, made, clock>>
      /\ \/ /\ session.emu = "ryujinx" /\ nand' = nand
            /\ account' = [account EXCEPT ![TitleOf[s]] = TRUE]
         \/ session.emu # "ryujinx" /\ nand' = TRUE /\ account' = account
    BY DEF Boot, At, stems, backups
<1>2. /\ session \in Sessions /\ s \in Stems /\ session.emu \in Emulators
      /\ s \in Named => session.title = TitleOf[s]
    BY <1>1 DEF IInv, TypeOK, SessionOK
<1>3. /\ session' \in Sessions /\ session'.at = "play" /\ session'.stem = s
      /\ session'.title = session.title /\ session'.emu = session.emu
      /\ session'.had = session.had
    BY <1>1, <1>2, Moved DEF Places
<1>4. DiskOK /\ MirrorsOK
    BY TypesOf DEF IInv
<1>5. TitleOf[s] \in Titles
    BY <1>2, SavesAssumption
<1> HIDE DEF s
<1>6. /\ account' \in [Titles -> BOOLEAN] /\ nand' \in BOOLEAN
      /\ \A t \in Titles : account[t] => account'[t]
      /\ session.emu = "ryujinx" => account'[TitleOf[s]]
    BY <1>1, <1>4, <1>5 DEF DiskOK
<1>7. nand => nand'
    BY <1>1
<1>8. TypeOK'
    <2>1. DiskOK' /\ MirrorsOK'
        BY <1>1, <1>4, <1>6, <1>7 DEF DiskOK, MirrorsOK
    <2> QED  BY <1>2, <1>3, <2>1, TypesNext
<1>9. SessionOK' /\ LegacyOK' /\ SlotsOK'
    BY <1>1, <1>2, <1>3 DEF IInv, SessionOK, LegacyOK, SlotsOK, Launching
<1>10. LinksOK'
    BY <1>1, <1>3 DEF IInv, LinksOK, Linked, s
<1>11. NamelessOK' /\ PlayOK'
    BY <1>1, <1>3, <1>6 DEF IInv, NamelessOK, Launching, PlayOK, s
<1>12. HoldersOK'
    <2>1. \A u \in Titles, r \in Stems : Bears(r, u)' => Bears(r, u)
        BY <1>1, <1>3 DEF Bears, Filled, Exiting, s
    <2> QED  BY <1>1, <2>1, HoldersKept DEF IInv
<1>13. OwnOK'
    BY <1>1, <1>3 DEF IInv, OwnOK, Sure, Filled, Exiting, s
<1>14. Restorable'
    BY <1>1, <1>3 DEF IInv, Restorable, Launching, s
<1> QED  BY <1>8, <1>9, <1>10, <1>11, <1>12, <1>13, <1>14 DEF IInv
-----------------------------------------------------------------------------
(* The game, and the way back from the emulator. *)

\* The game writes a version of its own where the emulator sends it.
LEMMA SaveSafe ==
    ASSUME IInv, Save
    PROVE  IInv'
<1> DEFINE s == session.stem
           t == TitleOf[s]
           v == [by |-> s, at |-> clock + 1]
<1>1. /\ session.at = "play" /\ clock < MaxTime /\ clock' = clock + 1 /\ made' = v
      /\ session' = session
      /\ UNCHANGED <<sidecar, legacy, claimed, account, nand, yuzu, kept, rescue>>
      /\ \/ /\ session.emu = "ryujinx" /\ stem' = stem /\ yuzuDir' = yuzuDir
            /\ \E k \in Slots : bank' = [bank EXCEPT ![t][k] = v]
         \/ /\ yuzu[t] # None /\ stem' = [stem EXCEPT ![yuzu[t]] = v]
            /\ bank' = bank /\ yuzuDir' = yuzuDir
         \/ /\ yuzu[t] = None /\ yuzuDir' = [yuzuDir EXCEPT ![t] = v]
            /\ bank' = bank /\ stem' = stem
    BY DEF Save, backups
<1>2. /\ session \in Sessions /\ s \in Stems /\ session.emu \in Emulators
      /\ s \in Named => session.title = t
    BY <1>1 DEF IInv, TypeOK, SessionOK
<1>3. DiskOK /\ MirrorsOK
    BY TypesOf DEF IInv
<1>4. t \in Titles
    BY <1>2, SavesAssumption
<1>5. clock + 1 \in 1 .. MaxTime
    BY <1>1, <1>3, SavesAssumption DEF DiskOK
<1>6. /\ v \in Versions /\ v \in Some(Versions) /\ v.by = s
      /\ \A u \in Titles : v # Old(u)
    <2>1. v \in Versions
        BY <1>2, <1>5 DEF Versions
    <2>2. \A u \in Titles : v # Old(u)
        BY <1>2, OldIs
    <2> QED  BY <2>1, <2>2 DEF Some
<1> HIDE DEF t, v
\* What the three cases have in common
<1>7. /\ stem' \in [Stems -> Some(Versions)] /\ yuzuDir' \in [Titles -> Some(Versions)]
      /\ bank' \in [Titles -> [Slots -> Some(Versions)]]
      /\ \A r \in Stems : stem'[r] = stem[r] \/ (stem'[r] = v /\ yuzu[t] = r)
      /\ \A u \in Titles, k \in Slots :
             bank'[u][k] = bank[u][k] \/ (bank'[u][k] = v /\ u = t)
      /\ \A u \in Titles : bank'[u] = bank[u] \/ (u = t /\ account[t])
      /\ \A u \in Titles : yuzuDir'[u] = yuzuDir[u] \/ (u = t /\ yuzu[t] = None)
    <2>1. /\ stem \in [Stems -> Some(Versions)] /\ yuzuDir \in [Titles -> Some(Versions)]
          /\ bank \in [Titles -> [Slots -> Some(Versions)]]
        BY <1>3 DEF DiskOK
    <2>2. CASE /\ session.emu = "ryujinx" /\ stem' = stem /\ yuzuDir' = yuzuDir
               /\ \E k \in Slots : bank' = [bank EXCEPT ![t][k] = v]
        <3>1. PICK k \in Slots : bank' = [bank EXCEPT ![t] = [bank[t] EXCEPT ![k] = v]]
            BY <2>2
        <3>2. [bank[t] EXCEPT ![k] = v] \in [Slots -> Some(Versions)]
              /\ \A j \in Slots : [bank[t] EXCEPT ![k] = v][j] = IF j = k THEN v ELSE bank[t][j]
            BY <1>4, <1>6, <2>1
        <3>3. /\ bank' \in [Titles -> [Slots -> Some(Versions)]]
              /\ \A u \in Titles \ {t} : bank'[u] = bank[u]
              /\ \A j \in Slots : bank'[t][j] = IF j = k THEN v ELSE bank[t][j]
            BY <1>4, <2>1, <3>1, <3>2
        <3>4. account[t]
            BY <1>1, <2>2 DEF IInv, PlayOK, t
        <3> QED  BY <2>1, <2>2, <3>3, <3>4
    <2>3. CASE /\ yuzu[t] # None /\ stem' = [stem EXCEPT ![yuzu[t]] = v]
               /\ bank' = bank /\ yuzuDir' = yuzuDir
        <3>1. yuzu[t] \in Stems
            BY <1>3, <1>4, <2>3 DEF DiskOK, Some
        <3> QED  BY <1>6, <2>1, <2>3, <3>1
    <2>4. CASE /\ yuzu[t] = None /\ yuzuDir' = [yuzuDir EXCEPT ![t] = v]
               /\ bank' = bank /\ stem' = stem
        BY <1>4, <1>6, <2>1, <2>4
    <2> QED  BY <1>1, <2>2, <2>3, <2>4
<1>8. TypeOK'
    <2>1. clock' \in 0 .. MaxTime /\ made' \in Some(Versions)
        BY <1>1, <1>5, <1>6
    <2>2. DiskOK'
        BY <1>1, <1>3, <1>7, <2>1 DEF DiskOK
    <2>3. MirrorsOK'
        BY <1>1, <1>3, <1>7 DEF MirrorsOK
    <2> QED  BY <1>1, <1>2, <2>2, <2>3, TypesNext
<1>9. SessionOK' /\ LegacyOK' /\ SlotsOK'
    BY <1>1 DEF IInv, SessionOK, LegacyOK, SlotsOK, Launching
<1>10. LinksOK' /\ PlayOK'
    BY <1>1 DEF IInv, LinksOK, PlayOK
<1>11. NamelessOK'
    BY <1>1, <1>6, <1>7 DEF IInv, NamelessOK, s
<1>12. HoldersOK'
    <2>1. ASSUME NEW u \in Titles, NEW r \in Stems, Bears(r, u)' PROVE Bears(r, u)
        <3>1. CASE stem'[r] = Old(u)
            BY <1>6, <1>7, <3>1 DEF Bears
        <3>2. CASE stem'[r] # Old(u)
            <4>1. /\ session.stem = r /\ session.title # None
                  /\ \E k \in Slots : bank'[session.title][k] = Old(u)
                BY <1>1, <2>1, <3>2 DEF Bears
            <4>2. session.title \in Titles
                BY <1>2, <4>1 DEF Sessions, Some
            <4> QED  BY <1>1, <1>6, <1>7, <4>1, <4>2 DEF Bears, Filled
        <3> QED  BY <3>1, <3>2
    <2> QED  BY <1>1, <2>1, HoldersKept DEF IInv
<1>13. OwnOK'
    <2> SUFFICES ASSUME NEW q \in Stems, Sure(q)
                 PROVE  /\ stem'[q] # None => stem'[q].by \in {q, TitleOf[q]}
                        /\ s = q => \A k \in Slots : bank'[TitleOf[q]][k] # None =>
                               bank'[TitleOf[q]][k].by \in {q, TitleOf[q]}
        BY <1>1 DEF OwnOK, Sure, s
    <2>1. stem'[q] # None => stem'[q].by \in {q, TitleOf[q]}
        <3>1. CASE stem'[q] = stem[q]
            BY <3>1 DEF IInv, OwnOK
        <3>2. CASE stem'[q] = v /\ yuzu[t] = q
            <4>1. q \in Named
                BY DEF Sure
            <4>2. TitleOf[q] = t
                BY <1>4, <3>2, <4>1 DEF IInv, LinksOK
            <4>3. s \in Named
                BY <1>2, <4>2 DEF Sure, t
            <4>4. session.title = t /\ t # None
                BY <1>2, <1>4, <4>3, NoTitle
            <4>5. q \in {None, s}
                BY <1>1, <3>2, <4>4 DEF IInv, LinksOK, s
            <4> QED  BY <1>6, <3>2, <4>5, NoTitle
        <3> QED  BY <1>7, <3>1, <3>2
    <2>2. ASSUME s = q, NEW k \in Slots, bank'[TitleOf[q]][k] # None
          PROVE  bank'[TitleOf[q]][k].by \in {q, TitleOf[q]}
        <3>1. TitleOf[q] = t
            BY <2>2 DEF t
        <3> QED  BY <1>1, <1>4, <1>6, <1>7, <2>2, <3>1 DEF IInv, OwnOK, Filled, s
    <2> QED  BY <2>1, <2>2
<1>14. Restorable'
    BY <1>1 DEF IInv, Restorable, Launching
<1> QED  BY <1>8, <1>9, <1>10, <1>11, <1>12, <1>13, <1>14 DEF IInv

\* Slots and stem are merged: whatever is there was in one of them before.
LEMMA PullSafe ==
    ASSUME IInv, NEW place \in {"pull0", "pull1", "pull2"},
           NEW next \in {"pull1", "pull2", "settle"},
           session.at = place, session' = [session EXCEPT !.at = next],
           bank' \in [Titles -> [Slots -> Some(Versions)]],
           \A u \in Titles : bank'[u] = bank[u] \/ (u = session.title /\ account[u]),
           \A k \in Slots : bank'[session.title][k] \in
               {bank[session.title][j] : j \in Slots} \cup {stem[session.stem]},
           stem' \in [Stems -> Some(Versions)],
           \A r \in Stems \ {session.stem} : stem'[r] = stem[r],
           stem'[session.stem] \in
               {bank[session.title][j] : j \in Slots} \cup {stem[session.stem]},
           UNCHANGED <<sidecar, legacy, claimed, account, nand, yuzu, yuzuDir>>,
           UNCHANGED <<kept, rescue, made, clock>>
    PROVE  IInv'
<1> DEFINE s == session.stem
           t == session.title
<1>1. /\ session \in Sessions /\ s \in Stems /\ session.emu \in Emulators
      /\ s \in Named => t = TitleOf[s]
      /\ t \in Some(Titles) /\ t # None
    BY DEF IInv, TypeOK, SessionOK
<1>2. next \in Places
    BY DEF Places, Exiting
<1>3. /\ session' \in Sessions /\ session'.at = next /\ session'.stem = s
      /\ session'.title = t /\ session'.emu = session.emu /\ session'.had = session.had
    BY <1>1, <1>2, Moved
<1>4. DiskOK /\ MirrorsOK
    BY TypesOf DEF IInv
<1>5. place \in Filled /\ session'.at \in Filled
    BY <1>3 DEF Filled, Exiting
<1>6. TypeOK'
    <2>1. DiskOK' /\ MirrorsOK'
        BY <1>4 DEF DiskOK, MirrorsOK
    <2> QED  BY <1>1, <1>3, <2>1, TypesNext
<1>7. SessionOK' /\ LegacyOK'
    BY <1>1, <1>3 DEF IInv, SessionOK, LegacyOK, Launching
<1>8. SlotsOK' /\ LinksOK' /\ PlayOK' /\ NamelessOK'
    BY <1>1, <1>3 DEF IInv, SlotsOK, LinksOK, Linked, PlayOK, NamelessOK
<1>9. HoldersOK'
    <2>1. ASSUME NEW u \in Titles, NEW r \in Stems, Bears(r, u)' PROVE Bears(r, u)
        <3>1. CASE r = s
            <4>1. \/ stem[s] = Old(u)
                  \/ \E j \in Slots : bank[t][j] = Old(u)
                BY <1>3, <2>1, <3>1 DEF Bears
            <4> QED  BY <1>1, <1>5, <3>1, <4>1 DEF Bears
        <3>2. CASE r # s
            BY <1>3, <2>1, <3>2 DEF Bears
        <3> QED  BY <3>1, <3>2
    <2> QED  BY <2>1, HoldersKept DEF IInv
<1>10. OwnOK'
    <2> SUFFICES ASSUME NEW q \in Stems, Sure(q)
                 PROVE  /\ stem'[q] # None => stem'[q].by \in {q, TitleOf[q]}
                        /\ s = q => \A k \in Slots : bank'[TitleOf[q]][k] # None =>
                               bank'[TitleOf[q]][k].by \in {q, TitleOf[q]}
        BY <1>3 DEF OwnOK, Sure
    <2>1. stem[q] # None => stem[q].by \in {q, TitleOf[q]}
        BY DEF IInv, OwnOK
    <2>2. CASE q = s
        <3>1. t = TitleOf[q]
            BY <1>1, <2>2 DEF Sure
        <3>2. \A j \in Slots : bank[t][j] # None => bank[t][j].by \in {q, TitleOf[q]}
            BY <1>5, <2>2, <3>1 DEF IInv, OwnOK
        <3> QED  BY <2>1, <2>2, <3>1, <3>2
    <2>3. CASE q # s
        BY <2>1, <2>3
    <2> QED  BY <2>2, <2>3
<1>11. Restorable'
    BY <1>3 DEF Restorable, Launching
<1> QED  BY <1>6, <1>7, <1>8, <1>9, <1>10, <1>11 DEF IInv

\* Between the slots only saves of the session move.
LEMMA PullSlotsSafe ==
    ASSUME IInv, NEW place \in {"pull0", "pull2"}, NEW next \in {"pull1", "settle"},
           PullSlots(place, next)
    PROVE  IInv'
<1> DEFINE t == session.title
           v == Newer(bank[t][0], bank[t][1])
<1>1. /\ session.at = place /\ session' = [session EXCEPT !.at = next]
      /\ bank' = IF account[t] THEN [bank EXCEPT ![t] = [k \in Slots |-> v]] ELSE bank
      /\ UNCHANGED <<stem, sidecar, legacy, claimed, account, nand, yuzu, yuzuDir>>
      /\ UNCHANGED <<kept, rescue, made, clock>>
    BY DEF PullSlots, At, stems, backups
<1>2. t \in Titles /\ session.stem \in Stems
    BY <1>1 DEF IInv, TypeOK, SessionOK, Some
<1>3. bank \in [Titles -> [Slots -> Some(Versions)]] /\ stem \in [Stems -> Some(Versions)]
    BY TypesOf DEF IInv, DiskOK
<1>4. v \in {bank[t][j] : j \in Slots}
    BY NewerIs, TwoSlots
<1>5. v \in Some(Versions)
    BY <1>2, <1>3, <1>4
<1> HIDE DEF t, v
<1>6. /\ bank' \in [Titles -> [Slots -> Some(Versions)]]
      /\ \A u \in Titles : bank'[u] = bank[u] \/ (u = t /\ account[u])
      /\ \A k \in Slots : bank'[t][k] \in {bank[t][j] : j \in Slots}
    <2>1. [k \in Slots |-> v] \in [Slots -> Some(Versions)]
        BY <1>5
    <2> QED  BY <1>1, <1>2, <1>3, <1>4, <2>1
<1> QED  BY <1>1, <1>3, <1>6, PullSafe DEF t

\* What comes back into the stem is of its own game.
LEMMA PullStemSafe ==
    ASSUME IInv, PullStem
    PROVE  IInv'
<1> DEFINE s == session.stem
           t == session.title
           v == Newer(bank[t][0], stem[s])
<1>1. /\ session.at = "pull1" /\ session' = [session EXCEPT !.at = "pull2"]
      /\ \/ /\ account[t] /\ bank' = [bank EXCEPT ![t][0] = v]
            /\ stem' = [stem EXCEPT ![s] = v]
         \/ bank' = bank /\ stem' = stem
      /\ UNCHANGED <<sidecar, legacy, claimed, account, nand, yuzu, yuzuDir>>
      /\ UNCHANGED <<kept, rescue, made, clock>>
    BY DEF PullStem, At, backups
<1>2. t \in Titles /\ s \in Stems
    BY <1>1 DEF IInv, TypeOK, SessionOK, Some
<1>3. bank \in [Titles -> [Slots -> Some(Versions)]] /\ stem \in [Stems -> Some(Versions)]
    BY TypesOf DEF IInv, DiskOK
<1>4. v \in {bank[t][j] : j \in Slots} \cup {stem[s]}
    BY NewerIs, TwoSlots
<1>5. v \in Some(Versions)
    BY <1>2, <1>3, <1>4
<1> HIDE DEF s, t, v
<1>6. /\ bank' \in [Titles -> [Slots -> Some(Versions)]]
      /\ \A u \in Titles : bank'[u] = bank[u] \/ (u = t /\ account[u])
      /\ \A k \in Slots : bank'[t][k] \in {bank[t][j] : j \in Slots} \cup {stem[s]}
    <2>1. CASE account[t] /\ bank' = [bank EXCEPT ![t][0] = v]
        <3>1. bank' = [bank EXCEPT ![t] = [bank[t] EXCEPT ![0] = v]]
            BY <2>1
        <3>2. [bank[t] EXCEPT ![0] = v] \in [Slots -> Some(Versions)]
              /\ \A k \in Slots : [bank[t] EXCEPT ![0] = v][k] \in
                     {bank[t][j] : j \in Slots} \cup {stem[s]}
            BY <1>2, <1>3, <1>4, <1>5
        <3> QED  BY <1>2, <1>3, <2>1, <3>1, <3>2
    <2>2. CASE bank' = bank
        BY <1>3, <2>2
    <2> QED  BY <1>1, <2>1, <2>2
<1>7. /\ stem' \in [Stems -> Some(Versions)]
      /\ \A r \in Stems \ {s} : stem'[r] = stem[r]
      /\ stem'[s] \in {bank[t][j] : j \in Slots} \cup {stem[s]}
    BY <1>1, <1>2, <1>3, <1>4, <1>5
<1> QED  BY <1>1, <1>6, <1>7, PullSafe DEF s, t

\* The session leaves links to stems of the title.
LEMMA SettleSafe ==
    ASSUME IInv, Settle
    PROVE  IInv'
<1>1. /\ session.at = "settle" /\ session' = Idle /\ made' = None
      /\ Link(session.stem, session.title)
      /\ UNCHANGED <<stem, sidecar, legacy, claimed, kept, rescue, clock>>
    BY DEF Settle, stems, backups
<1>2. /\ session.stem \in Stems /\ session.title \in Some(Titles)
      /\ session.stem \in Named => session.title = TitleOf[session.stem]
    BY <1>1 DEF IInv, TypeOK, SessionOK
<1>3. /\ UNCHANGED <<account, bank, nand>>
      /\ yuzu' \in [Titles -> Some(Stems)] /\ yuzuDir' \in [Titles -> Some(Versions)]
      /\ \A t \in Titles : yuzu'[t] # None => nand /\ yuzuDir'[t] = None
      /\ \A t \in Titles : yuzu'[t] \in Named => TitleOf[yuzu'[t]] = t
    BY <1>1, <1>2, Linking
<1>4. /\ session'.at = "idle" /\ session'.stem = None /\ session'.title = None
      /\ session' \in Sessions
    BY <1>1 DEF Idle, Session, Sessions, Some
<1>5. DiskOK /\ MirrorsOK
    BY TypesOf DEF IInv
<1>6. TypeOK'
    <2>1. made' \in Some(Versions)
        BY <1>1 DEF Some
    <2>2. DiskOK' /\ MirrorsOK'
        BY <1>1, <1>3, <1>5, <2>1 DEF DiskOK, MirrorsOK
    <2> QED  BY <1>4, <2>2, TypesNext
<1>7. SessionOK' /\ LegacyOK' /\ SlotsOK'
    BY <1>1, <1>4 DEF IInv, SessionOK, LegacyOK, SlotsOK, Launching
<1>8. LinksOK' /\ PlayOK' /\ NamelessOK'
    BY <1>3, <1>4 DEF LinksOK, PlayOK, NamelessOK, Launching
<1>9. HoldersOK'
    <2>1. \A u \in Titles, r \in Stems : Bears(r, u)' => Bears(r, u)
        BY <1>1, <1>4 DEF Bears
    <2> QED  BY <1>1, <2>1, HoldersKept DEF IInv
<1>10. OwnOK'
    BY <1>1, <1>4 DEF IInv, OwnOK, Sure, Filled, Exiting
<1>11. Restorable'
    BY <1>4 DEF Restorable, Launching
<1> QED  BY <1>6, <1>7, <1>8, <1>9, <1>10, <1>11 DEF IInv
-----------------------------------------------------------------------------
(* Deletions. *)

\* A deleted stem gives up what it had taken over.
LEMMA DeleteStemSafe ==
    ASSUME IInv, NEW s \in Stems, DeleteStem(s)
    PROVE  IInv'
<1>1. /\ session.stem # s
      /\ stem' = [stem EXCEPT ![s] = None] /\ sidecar' = [sidecar EXCEPT ![s] = None]
      /\ session' = session
      /\ UNCHANGED <<legacy, claimed, account, bank, nand, yuzu, yuzuDir>>
      /\ UNCHANGED <<kept, rescue, made, clock>>
    BY DEF DeleteStem, emulators, backups
<1>2. DiskOK /\ MirrorsOK
    BY TypesOf DEF IInv
<1>3. /\ stem' \in [Stems -> Some(Versions)] /\ sidecar' \in [Stems -> Some(Titles)]
      /\ stem'[s] = None /\ \A r \in Stems \ {s} : stem'[r] = stem[r]
    <2>1. None \in Some(Versions) /\ None \in Some(Titles)
        BY DEF Some
    <2> QED  BY <1>1, <1>2, <2>1 DEF DiskOK
<1>4. /\ session \in Sessions
      /\ session.at # "idle" => session.stem \in Stems /\ session.emu \in Emulators
    BY DEF IInv, TypeOK, SessionOK
<1>5. session.at # "idle" => stem'[session.stem] = stem[session.stem]
    BY <1>1, <1>3, <1>4
<1>6. TypeOK'
    <2>1. DiskOK' /\ MirrorsOK'
        BY <1>1, <1>2, <1>3 DEF DiskOK, MirrorsOK
    <2> QED  BY <1>1, <1>4, <2>1, TypesNext
<1>7. SessionOK' /\ LegacyOK'
    BY <1>1, <1>5 DEF IInv, SessionOK, LegacyOK, Launching
<1>8. SlotsOK'
    BY <1>1, <1>5 DEF IInv, SlotsOK
<1>9. LinksOK' /\ PlayOK' /\ NamelessOK'
    BY <1>1 DEF IInv, LinksOK, PlayOK, NamelessOK
<1>10. HoldersOK'
    <2>1. \A u \in Titles, r \in Stems : Bears(r, u)' => Bears(r, u)
        BY <1>1, <1>3, OldIs DEF Bears
    <2> QED  BY <1>1, <2>1, HoldersKept DEF IInv
<1>11. OwnOK'
    BY <1>1, <1>3 DEF IInv, OwnOK, Sure
<1>12. Restorable'
    BY <1>1 DEF IInv, Restorable
<1> QED  BY <1>6, <1>7, <1>8, <1>9, <1>10, <1>11, <1>12 DEF IInv

\* A deleted old directory has no heir to come.
LEMMA DeleteTitleSafe ==
    ASSUME IInv, NEW t \in Titles, DeleteTitle(t)
    PROVE  IInv'
<1>1. /\ session = Idle /\ session' = session
      /\ legacy' = [legacy EXCEPT ![t] = None] /\ claimed' = [claimed EXCEPT ![t] = None]
      /\ account' = [account EXCEPT ![t] = FALSE]
      /\ bank' = [bank EXCEPT ![t] = [k \in Slots |-> None]]
      /\ yuzu' = [yuzu EXCEPT ![t] = None] \/ yuzu' = yuzu
      /\ yuzuDir' = [yuzuDir EXCEPT ![t] = None]
      /\ UNCHANGED <<stem, sidecar, nand, kept, rescue, made, clock>>
    BY DEF DeleteTitle, backups
<1>2. session.at = "idle" /\ session.title = None /\ session.stem = None
    BY <1>1 DEF Idle, Session
<1>3. DiskOK /\ MirrorsOK
    BY TypesOf DEF IInv
<1>4. None \in Some(Versions) /\ None \in Some(Stems)
    BY DEF Some
<1>5. /\ legacy' \in [Titles -> Some(Versions)] /\ legacy'[t] = None
      /\ claimed' \in [Titles -> Some(Stems)]
      /\ \A u \in Titles \ {t} : legacy'[u] = legacy[u] /\ claimed'[u] = claimed[u]
    BY <1>1, <1>3, <1>4 DEF DiskOK
<1>6. /\ account' \in [Titles -> BOOLEAN] /\ bank' \in [Titles -> [Slots -> Some(Versions)]]
      /\ bank'[t] = [k \in Slots |-> None]
      /\ \A u \in Titles \ {t} : account'[u] = account[u] /\ bank'[u] = bank[u]
    <2>1. [k \in Slots |-> None] \in [Slots -> Some(Versions)]
        BY <1>4
    <2> QED  BY <1>1, <1>3, <2>1 DEF DiskOK
<1>7. /\ yuzu' \in [Titles -> Some(Stems)] /\ yuzuDir' \in [Titles -> Some(Versions)]
      /\ yuzuDir'[t] = None
      /\ \A u \in Titles \ {t} : yuzuDir'[u] = yuzuDir[u]
      /\ \A u \in Titles : yuzu'[u] \in {None, yuzu[u]}
    BY <1>1, <1>3, <1>4 DEF DiskOK
<1>8. TypeOK'
    <2>1. DiskOK'
        BY <1>1, <1>3, <1>5, <1>6, <1>7 DEF DiskOK
    <2>2. MirrorsOK'
        BY <1>1, <1>3, <1>6, <1>7 DEF MirrorsOK
    <2>3. session' \in Sessions /\ session'.at = "idle"
        BY <1>1, <1>2 DEF IInv, SessionOK
    <2> QED  BY <2>1, <2>2, <2>3, TypesNext
<1>9. SessionOK' /\ SlotsOK'
    BY <1>1, <1>2 DEF IInv, SessionOK, SlotsOK, Launching
<1>10. LegacyOK'
    BY <1>5 DEF IInv, LegacyOK
<1>11. LinksOK'
    BY <1>1, <1>2, <1>7, NoTitle DEF IInv, LinksOK
<1>12. PlayOK' /\ NamelessOK' /\ Restorable'
    BY <1>1, <1>2 DEF PlayOK, NamelessOK, Restorable, Launching
<1>13. HoldersOK'
    <2>1. \A u \in Titles, r \in Stems : Bears(r, u)' => Bears(r, u)
        BY <1>1, <1>2 DEF Bears
    <2> QED  BY <1>5, <2>1, HoldersKept DEF IInv
<1>14. OwnOK'
    BY <1>1, <1>2 DEF IInv, OwnOK, Sure, Filled, Exiting
<1> QED  BY <1>8, <1>9, <1>10, <1>11, <1>12, <1>13, <1>14 DEF IInv
-----------------------------------------------------------------------------
(* The theorems. *)

\* The invariant holds at first.
LEMMA InitSafe ==
    ASSUME Init
    PROVE  IInv
<1>1. /\ stem = [s \in Stems |-> None] /\ sidecar = [s \in Stems |-> None]
      /\ claimed = [t \in Titles |-> None] /\ account = [t \in Titles |-> FALSE]
      /\ bank = [t \in Titles |-> [k \in Slots |-> None]] /\ nand = FALSE
      /\ yuzu = [t \in Titles |-> None] /\ yuzuDir = [t \in Titles |-> None]
      /\ kept = [s \in Stems |-> None] /\ rescue = [s \in Stems |-> None]
      /\ session = Idle /\ made = None /\ clock = 0
    BY DEF Init
<1>2. PICK T \in SUBSET Titles :
          legacy = [t \in Titles |-> IF t \in T THEN [by |-> t, at |-> 0] ELSE None]
    BY DEF Init
<1>3. None \in Some(Versions) /\ None \in Some(Titles) /\ None \in Some(Stems)
    BY DEF Some
<1>4. /\ session.at = "idle" /\ session.stem = None /\ session.title = None
      /\ session \in Sessions
    BY <1>1 DEF Idle, Session, Sessions, Some
<1>5. LegacyOK
    BY <1>2 DEF LegacyOK, Old
<1>6. legacy \in [Titles -> Some(Versions)]
    BY <1>2, <1>3, <1>5, OldIs DEF LegacyOK, Some
<1>7. DiskOK /\ MirrorsOK
    <2>1. [k \in Slots |-> None] \in [Slots -> Some(Versions)]
        BY <1>3
    <2>2. clock \in 0 .. MaxTime
        BY <1>1, SavesAssumption
    <2> QED  BY <1>1, <1>3, <1>6, <2>1, <2>2 DEF DiskOK, MirrorsOK
<1>8. TypeOK
    BY <1>4, <1>7 DEF TypeOK, DiskOK, MirrorsOK, Sessions
<1>9. SessionOK /\ SlotsOK
    BY <1>1, <1>4 DEF SessionOK, SlotsOK, Launching
<1>10. LinksOK /\ PlayOK /\ NamelessOK
    BY <1>1, <1>4, NoTitle DEF LinksOK, PlayOK, NamelessOK, Launching
<1>11. HoldersOK
    BY <1>1, <1>4, OldIs DEF HoldersOK, Bears
<1>12. OwnOK
    BY <1>1, <1>4 DEF OwnOK, Filled, Exiting
<1>13. Restorable
    BY <1>4 DEF Restorable, Launching
<1> QED  BY <1>5, <1>8, <1>9, <1>10, <1>11, <1>12, <1>13 DEF IInv

\* Every step keeps the invariant.
LEMMA StepSafe ==
    ASSUME IInv, [Next]_vars
    PROVE  IInv'
<1>1. CASE UNCHANGED vars
    <2>1. /\ UNCHANGED <<stem, sidecar, legacy, claimed, account, bank, nand, yuzu, yuzuDir>>
          /\ UNCHANGED <<kept, rescue, session, made, clock>>
        BY <1>1 DEF vars
    <2>2. TypeOK' /\ SessionOK' /\ LegacyOK' /\ SlotsOK'
        BY <2>1 DEF IInv, TypeOK, SessionOK, LegacyOK, SlotsOK
    <2>3. LinksOK' /\ PlayOK' /\ NamelessOK' /\ Restorable'
        BY <2>1 DEF IInv, LinksOK, PlayOK, NamelessOK, Restorable
    <2>4. HoldersOK'
        <3>1. \A u \in Titles, r \in Stems : Bears(r, u)' => Bears(r, u)
            BY <2>1 DEF Bears
        <3> QED  BY <2>1, <3>1, HoldersKept DEF IInv
    <2>5. OwnOK'
        BY <2>1 DEF IInv, OwnOK, Sure
    <2> QED  BY <2>2, <2>3, <2>4, <2>5 DEF IInv
<1>2. CASE \E s \in Stems, emu \in Emulators : Launch(s, emu)
    BY <1>2, LaunchSafe
<1>3. CASE LaunchClaim \/ Backup \/ LaunchLink \/ Rescue
    BY <1>3, LaunchClaimSafe, BackupSafe, LaunchLinkSafe, RescueSafe
<1>4. CASE \E k \in Slots : ReplaceSlot(k)
    BY <1>4, ReplaceSlotSafe
<1>5. CASE Boot \/ Save \/ Exit \/ ExitClaim
    BY <1>5, BootSafe, SaveSafe, ExitSafe, ExitClaimSafe
<1>6. CASE PullSlots("pull0", "pull1") \/ PullStem \/ PullSlots("pull2", "settle")
    BY <1>6, PullSlotsSafe, PullStemSafe
<1>7. CASE Settle \/ Abort
    BY <1>7, SettleSafe, AbortSafe
<1>8. CASE \E s \in Stems : DeleteStem(s)
    BY <1>8, DeleteStemSafe
<1>9. CASE \E t \in Titles : DeleteTitle(t)
    BY <1>9, DeleteTitleSafe
<1> QED  BY <1>1, <1>2, <1>3, <1>4, <1>5, <1>6, <1>7, <1>8, <1>9 DEF Next

\* Between a launch and the return from the emulator, mirrors, links and backups
\* are in step with the session, and old saves have one heir.
THEOREM SavesInvariant == Spec => []IInv
<1>1. Init => IInv
    BY InitSafe
<1>2. IInv /\ [Next]_vars => IInv'
    BY StepSafe
<1> QED  BY <1>1, <1>2, PTL DEF Spec

\* Slots exist in accounts only, and Yuzu has a link or a directory, not both.
THEOREM TypeCorrect == Spec => []TypeOK
<1>1. IInv => TypeOK
    BY DEF IInv
<1> QED  BY <1>1, SavesInvariant, PTL

\* Whatever fails after the backup, there is a way back to what the stem held, or
\* to the newest that the wiped slots held.
THEOREM AlwaysRestorable == Spec => []Restorable
<1>1. IInv => Restorable
    BY DEF IInv
<1> QED  BY <1>1, SavesInvariant, PTL

\* However the stems of a title take turns, and whatever crashes leave behind,
\* none gets the progress of another.
THEOREM ProgressIsOwn == Spec => []OwnProgress
<1>1. IInv => OwnProgress
    <2> SUFFICES ASSUME IInv, NEW s \in Stems, Sure(s), stem[s] # None
                 PROVE  /\ stem[s].by \in {s, TitleOf[s]}
                        /\ \A r \in Stems \ {s} : stem[s].by = TitleOf[s] => stem[r] # stem[s]
        BY DEF OwnProgress
    <2>1. stem[s].by \in {s, TitleOf[s]}
        BY DEF IInv, OwnOK
    <2>2. ASSUME NEW r \in Stems \ {s}, stem[s].by = TitleOf[s], stem[r] = stem[s]
          PROVE  FALSE
        <3>1. TitleOf[s] \in Titles /\ stem[s] \in Versions
            BY SavesAssumption DEF IInv, TypeOK, Some
        <3>2. stem[s] = Old(TitleOf[s])
            BY <2>2, <3>1, OldIs
        <3>3. Bears(s, TitleOf[s]) /\ Bears(r, TitleOf[s])
            BY <2>2, <3>2 DEF Bears
        <3> QED  BY <3>1, <3>3 DEF IInv, HoldersOK
    <2> QED  BY <2>1, <2>2
<1> QED  BY <1>1, SavesInvariant, PTL

\* A title that was started before starts from the stem that was asked for.
THEOREM StartsRight == Spec => []StartsFromStem
<1>1. IInv => StartsFromStem
    <2> SUFFICES ASSUME IInv, session.at = "boot", Sure(session.stem),
                        IF session.emu = "ryujinx" THEN account[TitleOf[session.stem]] ELSE nand
                 PROVE  Loads(session.stem, session.emu) = stem[session.stem]
        BY DEF StartsFromStem
    <2>1. session.stem \in Stems /\ session.stem \in Named
        <3>1. session.stem \in Stems
            BY DEF IInv, TypeOK
        <3> QED  BY <3>1 DEF Sure
    <2>2. session.title = TitleOf[session.stem] /\ session.title # None
        BY <2>1, SavesAssumption, NoTitle DEF IInv, SessionOK
    <2>3. CASE session.emu = "ryujinx"
        <3>1. /\ bank[session.title][0] = stem[session.stem]
              /\ bank[session.title][1] = stem[session.stem]
            BY <2>2, <2>3 DEF IInv, SlotsOK
        <3> QED  BY <2>2, <2>3, <3>1, NewerIs DEF Loads
    <2>4. CASE session.emu # "ryujinx"
        <3>1. yuzu[session.title] = session.stem /\ session.stem # None
            BY <2>1, <2>2, <2>4, NoTitle DEF IInv, LinksOK, Linked
        <3> QED  BY <2>2, <2>4, <3>1 DEF Loads
    <2> QED  BY <2>3, <2>4
<1> QED  BY <1>1, SavesInvariant, PTL
-----------------------------------------------------------------------------
(* What a session leaves in the stem. *)

\* No save is from the future.
Timely(v) == v = None \/ v.at <= clock
TimesOK ==
    /\ \A s \in Stems : Timely(stem[s])
    /\ \A t \in Titles, k \in Slots : Timely(bank[t][k])
    /\ Timely(session.had) /\ Timely(made)

\* Only a game makes progress.
MadeOK == session.at \notin {"play"} \cup Exiting => made = None

\* What the launch could not take over, the exit does not take over either.
HeirOK ==
    LET s == session.stem IN
    session.at \in (Launching \ {"claim"}) \cup {"play", "reclaim"} /\ s \in Named
        => stem[s] # None \/ ~Unclaimed(s, TitleOf[s])

\* The save that has to arrive is in the stem or in a slot, and is the newest there.
Wanted == IF made = None THEN session.had ELSE made
Best(v, x) == x = None \/ x = v \/ (v # None /\ v.at > x.at)
Played ==
    /\ session.at \in {"play"} \cup Exiting /\ Sure(session.stem)
    /\ session.emu = "yuzu" => yuzu[TitleOf[session.stem]] = session.stem
ArrivalOK ==
    Played =>
        LET v == stem[session.stem]
            bk == bank[TitleOf[session.stem]]
        IN
        /\ Wanted \in {v, bk[0], bk[1]}
        /\ Best(Wanted, v) /\ Best(Wanted, bk[0]) /\ Best(Wanted, bk[1])
        /\ session.at = "pull1" => bk[0] = bk[1]
        /\ session.at \in {"pull2", "settle"} => v = Wanted

Arrival == TimesOK /\ MadeOK /\ HeirOK /\ ArrivalOK

\* Nothing is from the future while nothing new is written.
LEMMA TimesQuiet ==
    ASSUME TimesOK, UNCHANGED <<stem, bank, clock>>,
           made' \in {made, None}, session'.had \in {session.had, None}
    PROVE  TimesOK'
BY DEF TimesOK, Timely

\* The heir of the old save stays known while the session goes on.
LEMMA HeirKept ==
    ASSUME HeirOK, UNCHANGED <<legacy, claimed>>, session'.stem = session.stem,
           session'.at \in (Launching \ {"claim"}) \cup {"play", "reclaim"} =>
               session.at \in (Launching \ {"claim"}) \cup {"play", "reclaim"},
           stem[session.stem] # None => stem'[session.stem] # None
    PROVE  HeirOK'
BY DEF HeirOK, Unclaimed

\* Outside a session, and before the game plays, nothing has to arrive.
LEMMA NotPlayed ==
    ASSUME session'.at \notin {"play"} \cup Exiting
    PROVE  ArrivalOK'
BY DEF ArrivalOK, Played

\* A session that starts or ends
LEMMA EdgesArrive ==
    ASSUME IInv, Arrival,
           \/ \E s \in Stems, emu \in Emulators : Launch(s, emu)
           \/ Settle \/ Abort
    PROVE  Arrival'
<1>1. /\ UNCHANGED <<stem, bank, clock>> /\ made' \in {made, None}
      /\ session'.had = None /\ session'.at \in {"claim", "idle"}
    BY DEF Launch, Settle, Abort, Session, Idle, Link, emulators, stems
<1>2. TimesOK'
    BY <1>1, TimesQuiet DEF Arrival
<1>3. MadeOK'
    BY DEF Launch, Settle, Abort, Arrival, MadeOK, Idle, Session, Exiting
<1>4. HeirOK'
    BY <1>1 DEF HeirOK, Launching
<1>5. ArrivalOK'
    BY <1>1, NotPlayed DEF Exiting
<1> QED  BY <1>2, <1>3, <1>4, <1>5 DEF Arrival

\* sync_catalog_switch_save_for_launch after the claim
LEMMA LaunchArrives ==
    ASSUME IInv, Arrival,
           Backup \/ LaunchLink \/ Rescue \/ \E k \in Slots : ReplaceSlot(k)
    PROVE  Arrival'
<1>1. session \in Sessions
    BY DEF IInv, SessionOK
<1>2. PICK place \in {"link", "rescue", "slot0", "slot1", "boot"} :
         session' = [session EXCEPT !.at = place]
    BY DEF Backup, LaunchLink, Rescue, ReplaceSlot, At
<1>3. /\ session'.at = place /\ session'.stem = session.stem /\ session'.had = session.had
    BY <1>1, <1>2, Moved DEF Places, Launching
<1>4. session.at \in Launching \ {"claim"}
    BY DEF Backup, LaunchLink, Rescue, ReplaceSlot, At, Launching
<1>5. UNCHANGED <<stem, legacy, claimed, made, clock>>
    BY DEF Backup, LaunchLink, Rescue, ReplaceSlot, stems
<1>6. TimesOK'
    <2>1. CASE UNCHANGED bank
        BY <1>3, <1>5, <2>1, TimesQuiet DEF Arrival
    <2>2. ASSUME NEW k \in Slots, ReplaceSlot(k) PROVE TimesOK'
        <3>1. bank \in [Titles -> [Slots -> Some(Versions)]]
            BY DEF IInv, TypeOK
        <3>2. \A t \in Titles, j \in Slots : bank'[t][j] \in {bank[t][j], stem[session.stem]}
            BY <2>2, <3>1 DEF ReplaceSlot, Replaced
        <3>3. session.stem \in Stems
            BY <1>4 DEF IInv, TypeOK, Launching
        <3>4. Timely(stem[session.stem])
            BY <3>3 DEF Arrival, TimesOK
        <3> QED  BY <1>3, <1>5, <3>2, <3>4 DEF Arrival, TimesOK, Timely
    <2> QED  BY <2>1, <2>2 DEF Backup, LaunchLink, Rescue, Link, emulators
<1>7. MadeOK'
    BY <1>4, <1>5 DEF Arrival, MadeOK, Launching, Exiting
<1>8. HeirOK'
    BY <1>3, <1>4, <1>5, HeirKept DEF Arrival
<1>9. ArrivalOK'
    BY <1>3, NotPlayed DEF Exiting
<1> QED  BY <1>6, <1>7, <1>8, <1>9 DEF Arrival

\* claim_legacy_title_id_once: what is taken over is older than any play.
LEMMA ClaimTimely ==
    ASSUME IInv, TimesOK, NEW s \in Stems, NEW t \in Some(Titles), Claim(s, t), UNCHANGED clock
    PROVE  \A r \in Stems : Timely(stem[r])'
<1>1. CASE UNCHANGED stem
    BY <1>1 DEF TimesOK, Timely
<1>2. CASE t # None /\ stem' = [stem EXCEPT ![s] = legacy[t]]
    <2>1. legacy[t] \in {None, Old(t)}
        BY <1>2 DEF IInv, LegacyOK, Some
    <2>2. legacy[t] = None \/ legacy[t].at <= clock
        BY <2>1 DEF Old, IInv, TypeOK
    <2>3. stem \in [Stems -> Some(Versions)]
        BY DEF IInv, TypeOK
    <2> QED  BY <1>2, <2>2, <2>3 DEF TimesOK, Timely
<1> QED  BY <1>1, <1>2 DEF Claim, stems

\* What a launch finds in the old directory it takes over at once.
LEMMA ClaimArrives ==
    ASSUME IInv, IInv', Arrival, LaunchClaim
    PROVE  Arrival'
<1> DEFINE s == session.stem
           t == session.title
<1>1. /\ session.at = "claim" /\ Claim(s, t) /\ UNCHANGED <<bank, made, clock>>
      /\ session' = Session("backup", s, t, session.emu, stem'[s])
    BY DEF LaunchClaim, emulators
<1>2. /\ session'.at = "backup" /\ session'.stem = s /\ session'.had = stem'[s]
    BY <1>1 DEF Session
<1>3. s \in Stems /\ t \in Some(Titles)
    BY <1>1 DEF IInv, TypeOK
<1>4. TimesOK'
    <2>1. \A r \in Stems : Timely(stem[r])'
        BY <1>1, <1>3, ClaimTimely DEF Arrival
    <2> QED  BY <1>1, <1>2, <1>3, <2>1 DEF Arrival, TimesOK, Timely
<1>5. MadeOK'
    BY <1>1, <1>2 DEF Arrival, MadeOK, Exiting
<1>6. HeirOK'
    <2> SUFFICES ASSUME s \in Named, stem'[s] = None PROVE ~Unclaimed(s, TitleOf[s])'
        BY <1>2 DEF HeirOK
    <2>1. t = TitleOf[s] /\ t # None /\ t \in Titles
        BY <1>1, <1>3, SavesAssumption, NoTitle DEF IInv, SessionOK
    <2>2. stem[s] = None /\ UNCHANGED <<legacy, claimed>> /\ ~Unclaimed(s, t)
        <3>1. /\ UNCHANGED legacy
              /\ IF stem[s] = None /\ Unclaimed(s, t)
                 THEN stem' = [stem EXCEPT ![s] = legacy[t]]
                 ELSE UNCHANGED <<stem, claimed>>
            BY <1>1, <2>1 DEF Claim
        <3>2. stem \in [Stems -> Some(Versions)]
            BY DEF IInv, TypeOK
        <3>3. Unclaimed(s, t) => legacy[t] # None
            BY DEF Unclaimed
        <3>4. ~(stem[s] = None /\ Unclaimed(s, t))
            BY <1>3, <3>1, <3>2, <3>3
        <3> QED  BY <3>1, <3>4
    <2> QED  BY <1>2, <2>1, <2>2 DEF Unclaimed
<1>7. ArrivalOK'
    BY <1>2, NotPlayed DEF Exiting
<1> QED  BY <1>4, <1>5, <1>6, <1>7 DEF Arrival
\* Between the newest save and an older one Newer is the newest, in either order.
LEMMA NewerBest ==
    ASSUME NEW u \in Some(Versions), NEW v \in Some(Versions), NEW w \in Some(Versions),
           Best(w, u), Best(w, v)
    PROVE  /\ Best(w, Newer(u, v))
           /\ w \in {u, v} => Newer(u, v) = w
<1>1. \A x \in Versions : x.at \in Int
    BY SavesAssumption DEF Versions
<1>2. /\ u # None => u.at \in Int
      /\ v # None => v.at \in Int
      /\ w # None => w.at \in Int
    BY <1>1 DEF Some
<1>3. Best(w, Newer(u, v))
    BY DEF Newer
<1>4. ASSUME w = u PROVE Newer(u, v) = w
    <2>1. CASE v = None \/ v = w
        BY <1>4, <2>1 DEF Newer
    <2>2. CASE v # None /\ v # w
        <3>1. w # None /\ w.at > v.at
            BY <2>2 DEF Best
        <3>2. ~(v.at > u.at)
            BY <1>2, <1>4, <2>2, <3>1
        <3> QED  BY <1>4, <3>1, <3>2 DEF Newer
    <2> QED  BY <2>1, <2>2
<1>5. ASSUME w = v PROVE Newer(u, v) = w
    BY <1>5 DEF Newer, Best
<1> QED  BY <1>3, <1>4, <1>5

\* A game that starts has what the session has found, in the stem at least.
LEMMA BootArrives ==
    ASSUME IInv, IInv', Arrival, Boot
    PROVE  Arrival'
<1> DEFINE s == session.stem
           t == TitleOf[s]
<1>1. /\ session.at = "boot" /\ session' = [session EXCEPT !.at = "play"]
      /\ UNCHANGED <<stem, legacy, claimed, bank, yuzu, made, clock>>
    BY DEF Boot, At, stems
<1>2. session \in Sessions
    BY DEF IInv, SessionOK
<1>3. /\ session'.at = "play" /\ session'.stem = s /\ session'.had = session.had
      /\ session'.emu = session.emu
    BY <1>1, <1>2, Moved DEF Places
<1>4. TimesOK'
    BY <1>1, <1>3, TimesQuiet DEF Arrival
<1>5. MadeOK'
    BY <1>3 DEF MadeOK
<1>6. HeirOK'
    BY <1>1, <1>3, HeirKept DEF Arrival, Launching
<1>7. ArrivalOK'
    <2> SUFFICES ASSUME Sure(s) PROVE ArrivalOK'
        BY <1>3 DEF ArrivalOK, Played, Sure
    <2>1. s \in Stems /\ s \in Named /\ t \in Titles
        <3>1. s \in Stems
            BY <1>1 DEF IInv, TypeOK
        <3> QED  BY <3>1, SavesAssumption DEF Sure
    <2>2. session.title = t /\ session.title # None /\ session.had = stem[s]
        BY <1>1, <2>1, NoTitle DEF IInv, SessionOK, Launching
    <2>3. made = None
        BY <1>1 DEF Arrival, MadeOK, Exiting
    <2>4. bank[t][0] \in {None, stem[s]} /\ bank[t][1] \in {None, stem[s]}
        <3>1. CASE account[t]
            BY <1>1, <2>2, <3>1 DEF IInv, SlotsOK
        <3>2. CASE ~account[t]
            BY <2>1, <3>2, TwoSlots DEF IInv, TypeOK
        <3> QED  BY <3>1, <3>2
    <2>5. Wanted' = stem[s]
        BY <1>1, <1>3, <2>2, <2>3 DEF Wanted
    <2>6. stem'[session'.stem] = stem[s] /\ bank'[TitleOf[session'.stem]] = bank[t]
        BY <1>1, <1>3
    <2> QED  BY <1>3, <2>4, <2>5, <2>6 DEF ArrivalOK, Best, Exiting
<1> QED  BY <1>4, <1>5, <1>6, <1>7 DEF Arrival

\* What the game saves is newer than all there is.
LEMMA SaveArrives ==
    ASSUME IInv, IInv', Arrival, Save
    PROVE  Arrival'
<1> DEFINE s == session.stem
           t == TitleOf[s]
           new == [by |-> s, at |-> clock + 1]
<1>1. /\ session.at = "play" /\ clock < MaxTime /\ clock' = clock + 1 /\ made' = new
      /\ UNCHANGED <<legacy, claimed, yuzu, session>>
    BY DEF Save
<1>2. s \in Stems /\ t \in Titles /\ clock \in Int
    <2>1. s \in Stems
        BY <1>1 DEF IInv, TypeOK
    <2> QED  BY <2>1, SavesAssumption DEF IInv, TypeOK
<1>3. /\ stem \in [Stems -> Some(Versions)]
      /\ bank \in [Titles -> [Slots -> Some(Versions)]]
      /\ session.had \in Some(Versions)
      /\ new \in Versions /\ new # None /\ new.at = clock + 1
    <2>1. new \in Versions
        BY <1>1, <1>2, SavesAssumption DEF Versions, IInv, TypeOK
    <2> QED  BY <2>1, SavesAssumption DEF IInv, TypeOK
<1> HIDE DEF new
<1>4. \A x \in Some(Versions) : x # None => x.at \in Int
    BY SavesAssumption DEF Versions, Some
<1>5. \A x \in Some(Versions) : Timely(x) => Best(new, x) /\ (x = None \/ x.at <= clock + 1)
    BY <1>2, <1>3, <1>4 DEF Timely, Best
<1>6. /\ \A r \in Stems : Timely(stem[r])
      /\ \A u \in Titles, k \in Slots : Timely(bank[u][k])
      /\ Timely(session.had)
    BY DEF Arrival, TimesOK
<1>7. /\ \A r \in Stems : stem'[r] \in {stem[r], new}
      /\ \A u \in Titles, k \in Slots : bank'[u][k] \in {bank[u][k], new}
    <2>1. /\ stem' = stem \/ stem' = [stem EXCEPT ![yuzu[t]] = new]
          /\ bank' = bank \/ \E j \in Slots : bank' = [bank EXCEPT ![t][j] = new]
        BY DEF Save, new
    <2>2. \A r \in Stems : stem'[r] \in {stem[r], new}
        BY <1>3, <2>1
    <2>3. ASSUME NEW j \in Slots, bank' = [bank EXCEPT ![t][j] = new]
          PROVE  \A u \in Titles, k \in Slots : bank'[u][k] \in {bank[u][k], new}
        BY <1>3, <2>3
    <2> QED  BY <2>1, <2>2, <2>3
<1>8. TimesOK'
    <2>1. \A x \in Some(Versions) : Timely(x) => x = None \/ x.at <= clock'
        BY <1>1, <1>5
    <2>2. new = None \/ new.at <= clock'
        BY <1>1, <1>2, <1>3
    <2>3. \A r \in Stems : stem'[r] = None \/ stem'[r].at <= clock'
        BY <1>3, <1>6, <1>7, <2>1, <2>2
    <2>4. \A u \in Titles, k \in Slots : bank'[u][k] = None \/ bank'[u][k].at <= clock'
        BY <1>3, <1>6, <1>7, <2>1, <2>2
    <2>5. session'.had = None \/ session'.had.at <= clock'
        BY <1>1, <1>3, <1>6, <2>1
    <2> QED  BY <1>1, <2>2, <2>3, <2>4, <2>5 DEF TimesOK, Timely
<1>9. MadeOK'
    BY <1>1 DEF MadeOK
<1>10. HeirOK'
    BY <1>1, <1>2, <1>3, <1>7, HeirKept DEF Arrival
<1>11. ArrivalOK'
    <2> SUFFICES ASSUME session.emu = "yuzu" => yuzu[t] = s PROVE ArrivalOK'
        BY <1>1 DEF ArrivalOK, Played
    <2>1. new \in {stem'[s], bank'[t][0], bank'[t][1]}
        <3>1. CASE session.emu = "ryujinx"
            <4>1. PICK j \in Slots : bank' = [bank EXCEPT ![t][j] = new]
                BY <3>1 DEF Save, new
            <4>2. bank'[t][j] = new
                BY <1>2, <1>3, <4>1
            <4> QED  BY <4>2, TwoSlots
        <3>2. CASE session.emu # "ryujinx"
            <4>1. session.emu = "yuzu" /\ yuzu[t] = s /\ s # None
                BY <1>1, <1>2, <3>2, NoTitle DEF IInv, TypeOK, Emulators
            <4>2. stem' = [stem EXCEPT ![s] = new]
                BY <3>2, <4>1 DEF Save, new
            <4> QED  BY <1>2, <1>3, <4>2
        <3> QED  BY <3>1, <3>2
    <2>2. Best(new, stem'[s]) /\ Best(new, bank'[t][0]) /\ Best(new, bank'[t][1])
        <3>1. Best(new, new)
            BY DEF Best
        <3>2. Best(new, stem[s]) /\ Best(new, bank[t][0]) /\ Best(new, bank[t][1])
            BY <1>2, <1>3, <1>5, <1>6, TwoSlots
        <3>3. stem'[s] \in {stem[s], new}
            BY <1>2, <1>7
        <3>4. bank'[t][0] \in {bank[t][0], new} /\ bank'[t][1] \in {bank[t][1], new}
            BY <1>2, <1>7, TwoSlots
        <3> QED  BY <3>1, <3>2, <3>3, <3>4
    <2>3. Wanted' = new
        BY <1>1, <1>3 DEF Wanted
    <2>4. session'.stem = s /\ session'.at = "play"
        BY <1>1
    <2> QED  BY <2>1, <2>2, <2>3, <2>4 DEF ArrivalOK
<1> QED  BY <1>8, <1>9, <1>10, <1>11 DEF Arrival
\* The exit, a title id found late included
LEMMA ExitArrives ==
    ASSUME IInv, IInv', Arrival, Exit
    PROVE  Arrival'
<1> DEFINE s == session.stem
           t == TitleOf[s]
<1>1. /\ session.at = "play" /\ UNCHANGED <<stem, legacy, claimed, bank, yuzu, made, clock>>
      /\ session'.at = "reclaim" /\ session'.stem = s /\ session'.had = session.had
      /\ session'.emu = session.emu
    BY DEF Exit, Session, stems, emulators
<1>2. TimesOK'
    BY <1>1, TimesQuiet DEF Arrival
<1>3. MadeOK'
    BY <1>1 DEF MadeOK, Exiting
<1>4. HeirOK'
    BY <1>1, HeirKept DEF Arrival
<1>5. ArrivalOK'
    BY <1>1 DEF Arrival, ArrivalOK, Played, Wanted, Sure
<1> QED  BY <1>2, <1>3, <1>4, <1>5 DEF Arrival

\* ensure_catalog_switch_save after the exit leaves the stem alone.
LEMMA ExitClaimArrives ==
    ASSUME IInv, IInv', Arrival, ExitClaim
    PROVE  Arrival'
<1> DEFINE s == session.stem
           t == TitleOf[s]
<1>1. /\ session.at = "reclaim" /\ Claim(s, session.title)
      /\ UNCHANGED <<bank, yuzu, made, clock>>
    BY DEF ExitClaim, At, emulators
<1>2. PICK place \in {"settle", "pull0"} : session' = [session EXCEPT !.at = place]
    BY DEF ExitClaim, At
<1>3. session \in Sessions
    BY DEF IInv, SessionOK
<1>4. /\ session'.at = place /\ session'.stem = s /\ session'.had = session.had
      /\ session'.emu = session.emu /\ session'.title = session.title
    BY <1>2, <1>3, Moved DEF Places, Exiting
<1>5. s \in Stems /\ session.title \in Some(Titles)
    BY <1>1 DEF IInv, TypeOK
<1>6. TimesOK'
    <2>1. \A r \in Stems : Timely(stem[r])'
        BY <1>1, <1>5, ClaimTimely DEF Arrival
    <2> QED  BY <1>1, <1>4, <2>1 DEF Arrival, TimesOK, Timely
<1>7. MadeOK'
    BY <1>4 DEF MadeOK, Exiting
<1>8. HeirOK'
    BY <1>4 DEF HeirOK, Launching
<1>9. ArrivalOK'
    <2> SUFFICES ASSUME Played, place = "pull0" \/ session.title = None PROVE ArrivalOK'
        <3>1. Played' => Played
            BY <1>1, <1>4 DEF Played, Sure, Exiting
        <3>2. place = "settle" => session.title = None
            BY <1>2, <1>3 DEF ExitClaim, At, Sessions
        <3> QED  BY <3>1, <3>2 DEF ArrivalOK
    <2>1. s \in Named /\ t \in Titles
        BY <1>5, SavesAssumption DEF Played, Sure
    <2>2. session.title = t /\ t # None
        BY <1>1, <2>1, NoTitle DEF IInv, SessionOK
    <2>3. UNCHANGED stem
        <3>1. stem[s] # None \/ ~Unclaimed(s, t)
            BY <1>1, <2>1 DEF Arrival, HeirOK
        <3> QED  BY <1>1, <2>2, <3>1 DEF Claim
    <2>4. place = "pull0"
        BY <2>2
    <2> QED  BY <1>1, <1>4, <2>3, <2>4 DEF Arrival, ArrivalOK, Wanted
<1> QED  BY <1>6, <1>7, <1>8, <1>9 DEF Arrival

\* mirror_files_newer_wins between the slots loses nothing that has to arrive.
LEMMA PullSlotsArrives ==
    ASSUME IInv, IInv', Arrival,
           NEW place \in {"pull0", "pull2"}, NEW next \in {"pull1", "settle"},
           place = "pull0" <=> next = "pull1", PullSlots(place, next)
    PROVE  Arrival'
<1> DEFINE s == session.stem
           t == TitleOf[s]
           u == session.title
           both == Newer(bank[u][0], bank[u][1])
<1>1. /\ session.at = place /\ session' = [session EXCEPT !.at = next]
      /\ UNCHANGED <<stem, yuzu, made, clock>>
      /\ bank' = IF account[u] THEN [bank EXCEPT ![u] = [k \in Slots |-> both]] ELSE bank
    BY DEF PullSlots, At, stems
<1>2. session \in Sessions
    BY DEF IInv, SessionOK
<1>3. /\ session'.at = next /\ session'.stem = s /\ session'.had = session.had
      /\ session'.emu = session.emu /\ session'.title = u
    BY <1>1, <1>2, Moved DEF Places, Exiting
<1>4. s \in Stems /\ u \in Titles
    BY <1>1, <1>2 DEF IInv, TypeOK, SessionOK, Some
<1>5. bank \in [Titles -> [Slots -> Some(Versions)]] /\ stem \in [Stems -> Some(Versions)]
      /\ session.had \in Some(Versions) /\ made \in Some(Versions)
    BY DEF IInv, TypeOK
<1>6. both \in {bank[u][0], bank[u][1]}
    BY NewerIs
<1>7. \A v \in Titles, k \in Slots :
         bank'[v][k] = IF v = u /\ account[u] THEN both ELSE bank[v][k]
    BY <1>1, <1>4, <1>5
<1>8. TimesOK'
    BY <1>1, <1>3, <1>4, <1>6, <1>7, TwoSlots DEF Arrival, TimesOK, Timely
<1>9. MadeOK'
    BY <1>3 DEF MadeOK, Exiting
<1>10. HeirOK'
    BY <1>3 DEF HeirOK, Launching
<1>11. ArrivalOK'
    <2> SUFFICES ASSUME Played PROVE ArrivalOK'
        BY <1>1, <1>3 DEF ArrivalOK, Played, Sure, Exiting
    <2>1. s \in Named /\ t \in Titles
        BY <1>4, SavesAssumption DEF Played, Sure
    <2>2. u = t
        BY <1>1, <2>1 DEF IInv, SessionOK
    <2>3. Wanted \in Some(Versions) /\ Wanted' = Wanted
        BY <1>1, <1>3, <1>5 DEF Wanted
    <2>4. /\ Wanted \in {stem[s], bank[t][0], bank[t][1]}
          /\ Best(Wanted, stem[s]) /\ Best(Wanted, bank[t][0]) /\ Best(Wanted, bank[t][1])
          /\ place = "pull2" => stem[s] = Wanted
        BY <1>1 DEF Arrival, ArrivalOK
    <2>5. bank[t][0] \in Some(Versions) /\ bank[t][1] \in Some(Versions)
        BY <1>5, <2>1, TwoSlots
    <2>6. Best(Wanted, both) /\ (Wanted \in {bank[t][0], bank[t][1]} => both = Wanted)
        BY <2>2, <2>3, <2>4, <2>5, NewerBest
    <2>7. CASE account[u]
        <3>1. bank'[t][0] = both /\ bank'[t][1] = both
            BY <1>4, <1>7, <2>2, <2>7, TwoSlots
        <3> HIDE DEF both
        <3> QED  BY <1>1, <1>3, <2>3, <2>4, <2>6, <3>1 DEF ArrivalOK
    <2>8. CASE ~account[u]
        <3>1. bank[t][0] = None /\ bank[t][1] = None
            BY <2>1, <2>2, <2>8, TwoSlots DEF IInv, TypeOK
        <3>2. UNCHANGED bank
            BY <1>1, <2>8
        <3> QED  BY <1>1, <1>3, <2>3, <2>4, <3>1, <3>2 DEF ArrivalOK
    <2> QED  BY <2>7, <2>8
<1> QED  BY <1>8, <1>9, <1>10, <1>11 DEF Arrival

\* mirror_files_newer_wins between the account and the stem brings it home.
LEMMA PullStemArrives ==
    ASSUME IInv, IInv', Arrival, PullStem
    PROVE  Arrival'
<1> DEFINE s == session.stem
           t == TitleOf[s]
           u == session.title
           both == Newer(bank[u][0], stem[s])
<1>1. /\ session.at = "pull1" /\ session' = [session EXCEPT !.at = "pull2"]
      /\ UNCHANGED <<yuzu, made, clock>>
      /\ bank' = IF account[u] THEN [bank EXCEPT ![u][0] = both] ELSE bank
      /\ stem' = IF account[u] THEN [stem EXCEPT ![s] = both] ELSE stem
    BY DEF PullStem, At
<1>2. session \in Sessions
    BY DEF IInv, SessionOK
<1>3. /\ session'.at = "pull2" /\ session'.stem = s /\ session'.had = session.had
      /\ session'.emu = session.emu /\ session'.title = u
    BY <1>1, <1>2, Moved DEF Places, Exiting
<1>4. s \in Stems /\ u \in Titles
    BY <1>1, <1>2 DEF IInv, TypeOK, SessionOK, Some
<1>5. bank \in [Titles -> [Slots -> Some(Versions)]] /\ stem \in [Stems -> Some(Versions)]
      /\ session.had \in Some(Versions) /\ made \in Some(Versions)
    BY DEF IInv, TypeOK
<1>6. both \in {bank[u][0], stem[s]}
    BY NewerIs
<1>7. /\ \A v \in Titles, k \in Slots :
            bank'[v][k] = IF v = u /\ k = 0 /\ account[u] THEN both ELSE bank[v][k]
      /\ \A r \in Stems : stem'[r] = IF r = s /\ account[u] THEN both ELSE stem[r]
    BY <1>1, <1>4, <1>5, TwoSlots
<1>8. TimesOK'
    BY <1>1, <1>3, <1>4, <1>6, <1>7, TwoSlots DEF Arrival, TimesOK, Timely
<1>9. MadeOK'
    BY <1>3 DEF MadeOK, Exiting
<1>10. HeirOK'
    BY <1>3 DEF HeirOK, Launching
<1>11. ArrivalOK'
    <2> SUFFICES ASSUME Played PROVE ArrivalOK'
        BY <1>1, <1>3 DEF ArrivalOK, Played, Sure, Exiting
    <2>1. s \in Named /\ t \in Titles
        BY <1>4, SavesAssumption DEF Played, Sure
    <2>2. u = t
        BY <1>1, <2>1 DEF IInv, SessionOK
    <2>3. Wanted \in Some(Versions) /\ Wanted' = Wanted
        BY <1>1, <1>3, <1>5 DEF Wanted
    <2>4. /\ Wanted \in {stem[s], bank[t][0]} /\ bank[t][0] = bank[t][1]
          /\ Best(Wanted, stem[s]) /\ Best(Wanted, bank[t][0]) /\ Best(Wanted, bank[t][1])
        BY <1>1 DEF Arrival, ArrivalOK
    <2>5. bank[t][0] \in Some(Versions) /\ stem[s] \in Some(Versions)
        BY <1>4, <1>5, <2>1, TwoSlots
    <2>6. both = Wanted
        BY <2>2, <2>3, <2>4, <2>5, NewerBest
    <2>7. Best(Wanted, Wanted)
        BY DEF Best
    <2>8. CASE account[u]
        <3>1. bank'[t][0] = Wanted /\ bank'[t][1] = bank[t][1] /\ stem'[s] = Wanted
            BY <1>4, <1>7, <2>2, <2>6, <2>8, TwoSlots
        <3> QED  BY <1>3, <2>3, <2>4, <2>7, <3>1 DEF ArrivalOK
    <2>9. CASE ~account[u]
        <3>1. bank[t][0] = None /\ bank[t][1] = None
            BY <2>1, <2>2, <2>9, TwoSlots DEF IInv, TypeOK
        <3>2. UNCHANGED <<bank, stem>>
            BY <1>1, <2>9
        <3>3. stem[s] = Wanted
            BY <2>4, <3>1 DEF Best
        <3> QED  BY <1>3, <2>3, <2>4, <3>1, <3>2, <3>3 DEF ArrivalOK
    <2> QED  BY <2>8, <2>9
<1> QED  BY <1>8, <1>9, <1>10, <1>11 DEF Arrival
\* delete_save_game does not touch what is in play.
LEMMA DeleteArrives ==
    ASSUME IInv, Arrival,
           \/ \E r \in Stems : DeleteStem(r)
           \/ \E t \in Titles : DeleteTitle(t)
    PROVE  Arrival'
<1>1. /\ stem \in [Stems -> Some(Versions)]
      /\ bank \in [Titles -> [Slots -> Some(Versions)]]
      /\ UNCHANGED <<session, made, clock>>
    BY DEF DeleteStem, DeleteTitle, IInv, TypeOK
<1>2. MadeOK'
    BY <1>1 DEF Arrival, MadeOK
<1>3. ASSUME NEW r \in Stems, DeleteStem(r) PROVE Arrival'
    <2>1. /\ session.stem # r /\ stem' = [stem EXCEPT ![r] = None]
          /\ UNCHANGED <<legacy, claimed, bank, yuzu>>
        BY <1>3 DEF DeleteStem, emulators
    <2>2. TimesOK'
        BY <1>1, <2>1 DEF Arrival, TimesOK, Timely
    <2>3. stem'[session.stem] = stem[session.stem]
        BY <1>1, <2>1
    <2>4. HeirOK'
        BY <1>1, <2>1, <2>3, HeirKept DEF Arrival
    <2>5. ArrivalOK'
        BY <1>1, <2>1, <2>3 DEF Arrival, ArrivalOK, Played, Wanted, Sure
    <2> QED  BY <1>2, <2>2, <2>4, <2>5 DEF Arrival
<1>4. ASSUME NEW t \in Titles, DeleteTitle(t) PROVE Arrival'
    <2>1. /\ session' = Idle /\ UNCHANGED stem
          /\ bank' = [bank EXCEPT ![t] = [k \in Slots |-> None]]
        BY <1>1, <1>4 DEF DeleteTitle
    <2>2. session'.at = "idle"
        BY <2>1 DEF Idle, Session
    <2>3. TimesOK'
        BY <1>1, <2>1 DEF Arrival, TimesOK, Timely
    <2>4. HeirOK'
        BY <2>2 DEF HeirOK, Launching
    <2>5. ArrivalOK'
        BY <2>2, NotPlayed DEF Exiting
    <2> QED  BY <1>2, <2>3, <2>4, <2>5 DEF Arrival
<1> QED  BY <1>3, <1>4

\* A session that is not interrupted leaves in the stem what the game saved last,
\* however many older saves the emulators held.
THEOREM ProgressReaches == Spec => ProgressArrives
<1>1. Init => Arrival
    <2> SUFFICES ASSUME Init PROVE Arrival
        OBVIOUS
    <2>1. /\ stem = [s \in Stems |-> None] /\ bank = [t \in Titles |-> [k \in Slots |-> None]]
          /\ session.at = "idle" /\ session.had = None /\ made = None
        BY DEF Init, Idle, Session
    <2> QED  BY <2>1 DEF Arrival, TimesOK, Timely, MadeOK, HeirOK, ArrivalOK, Played,
                Launching, Exiting
<1>2. IInv /\ IInv' /\ Arrival /\ [Next]_vars => Arrival'
    <2> SUFFICES ASSUME IInv, IInv', Arrival, [Next]_vars PROVE Arrival'
        OBVIOUS
    <2>1. CASE UNCHANGED vars
        BY <2>1 DEF vars, Arrival, TimesOK, Timely, MadeOK, HeirOK, ArrivalOK, Played,
           Wanted, Unclaimed, Sure
    <2>2. CASE \/ \E s \in Stems, emu \in Emulators : Launch(s, emu)
               \/ Settle \/ Abort
        BY <2>2, EdgesArrive
    <2>3. CASE LaunchClaim
        BY <2>3, ClaimArrives
    <2>4. CASE Backup \/ LaunchLink \/ Rescue \/ \E k \in Slots : ReplaceSlot(k)
        BY <2>4, LaunchArrives
    <2>5. CASE Boot \/ Save \/ Exit \/ ExitClaim
        BY <2>5, BootArrives, SaveArrives, ExitArrives, ExitClaimArrives
    <2>6. CASE PullSlots("pull0", "pull1") \/ PullStem \/ PullSlots("pull2", "settle")
        BY <2>6, PullSlotsArrives, PullStemArrives
    <2>7. CASE \/ \E s \in Stems : DeleteStem(s)
               \/ \E t \in Titles : DeleteTitle(t)
        BY <2>7, DeleteArrives
    <2> QED  BY <2>1, <2>2, <2>3, <2>4, <2>5, <2>6, <2>7 DEF Next
<1>3. IInv /\ Arrival /\ [Next]_vars =>
        [LET s == session.stem IN
         session.at = "settle" /\ session'.at = "idle" /\ Sure(s)
           /\ (session.emu = "yuzu" => yuzu[TitleOf[s]] = s)
           => stem'[s] = IF made = None THEN session.had ELSE made]_vars
    <2> SUFFICES ASSUME IInv, Arrival, Next, session.at = "settle", session'.at = "idle",
                        Sure(session.stem),
                        session.emu = "yuzu" => yuzu[TitleOf[session.stem]] = session.stem
                 PROVE  stem'[session.stem] = IF made = None THEN session.had ELSE made
        BY DEF vars
    <2>1. stem[session.stem] = Wanted
        BY DEF Arrival, ArrivalOK, Played, Exiting
    <2>2. UNCHANGED stem
        <3>1. session # Idle
            BY DEF Idle, Session
        <3>2. Settle \/ Abort => UNCHANGED stem
            BY DEF Settle, Abort, stems
        <3>3. ~(Settle \/ Abort) => session' = session \/ session'.at # "idle"
            <4>1. session \in Sessions
                BY DEF IInv, SessionOK
            <4> QED
                BY <3>1, <4>1 DEF Next, Launch, LaunchClaim, Backup, LaunchLink, Rescue,
                   ReplaceSlot, Boot, Save, Exit, ExitClaim, PullSlots, PullStem,
                   DeleteStem, DeleteTitle, At, Session, Sessions
        <3> QED  BY <3>2, <3>3
    <2> QED  BY <2>1, <2>2 DEF Wanted
<1> QED  BY <1>1, <1>2, <1>3, SavesInvariant, PTL DEF Spec, ProgressArrives
=============================================================================
