----------------------------- MODULE SwitchSaves -----------------------------
(***************************************************************************)
(* The Switch saves of one user.                                           *)
(*                                                                         *)
(* The host keeps a save directory per catalog stem, the truth about that  *)
(* game.  Emulators know title ids only, which several stems (versions,    *)
(* hacks) may share: Ryujinx keeps an account with two slots per title,    *)
(* Yuzu a directory that the host replaces with a link to the stem.  A     *)
(* launch claims a directory of the old layout, takes a backup, links and  *)
(* replaces what the emulators hold; after the emulator has stopped the    *)
(* newer files go back into the stem.  A host that dies, and a session     *)
(* that ends with an error, skip the rest.  The profile lock of            *)
(* HostAdmission lets one session play at a time.                          *)
(*                                                                         *)
(* A directory holds one version of a save, or none: its files are written *)
(* and copied together, modification time included.                        *)
(***************************************************************************)
EXTENDS Naturals

CONSTANTS
    Stems, Titles,
    TitleOf,    \* TitleOf[s]: the title id the emulators know stem s by
    Named,      \* stems whose title id the metadata or an update file tells
    MaxTime,    \* bound: versions written
    None

Slots == 0 .. 1
Emulators == {"ryujinx", "yuzu"}

\* Who played it and when, or the title whose old directory it comes from.
Versions == [by : Stems, at : 1 .. MaxTime] \cup [by : Titles, at : {0}]

\* Places in a launch and after the exit of the emulator, in their order
Launching == {"claim", "backup", "link", "rescue", "slot0", "slot1", "boot"}
Exiting == {"reclaim", "pull0", "pull1", "pull2", "settle"}

ASSUME SavesAssumption ==
    /\ TitleOf \in [Stems -> Titles] /\ Named \subseteq Stems
    /\ MaxTime \in Nat
    /\ Stems \cap Titles = {}
    /\ None \notin Stems \cup Titles /\ None \notin Versions

VARIABLES
    stem,       \* switch/saves/<stem>
    sidecar,    \* .title_id in it
    legacy,     \* switch/saves/<title id>
    claimed,    \* .claimed_by_stem in it
    account,    \* Ryujinx has an account save of the title
    bank,       \* slots 0 and 1 of that account
    nand,       \* Yuzu has created its save directory
    yuzu,       \* the stem that the title directory of Yuzu links to
    yuzuDir,    \* its content where it is a directory
    kept,       \* switch/saves/.prelaunch/<stem>
    rescue,     \* .bis-rescue in it
    session,    \* the session: place, stem, title id, emulator, stem at launch
    made,       \* what the game saved last in this session
    clock       \* time of the last version

vars == <<stem, sidecar, legacy, claimed, account, bank, nand, yuzu, yuzuDir,
          kept, rescue, session, made, clock>>
stems == <<stem, sidecar, legacy, claimed>>
emulators == <<account, bank, nand, yuzu, yuzuDir>>
backups == <<kept, rescue>>

Some(S) == S \cup {None}
Session(place, s, t, e, v) == [at |-> place, stem |-> s, title |-> t, emu |-> e, had |-> v]
Idle == Session("idle", None, None, None, None)

TypeOK ==
    /\ stem \in [Stems -> Some(Versions)] /\ sidecar \in [Stems -> Some(Titles)]
    /\ legacy \in [Titles -> Some(Versions)] /\ claimed \in [Titles -> Some(Stems)]
    /\ account \in [Titles -> BOOLEAN] /\ nand \in BOOLEAN
    /\ bank \in [Titles -> [Slots -> Some(Versions)]]
    /\ yuzu \in [Titles -> Some(Stems)] /\ yuzuDir \in [Titles -> Some(Versions)]
    /\ kept \in [Stems -> Some(Versions)] /\ rescue \in [Stems -> Some(Versions)]
    /\ session.at \in {"idle", "play"} \cup Launching \cup Exiting
    /\ session.had \in Some(Versions)
    /\ session.at # "idle" =>
          session.stem \in Stems /\ session.title \in Some(Titles) /\ session.emu \in Emulators
    /\ made \in Some(Versions) /\ clock \in 0 .. MaxTime
    /\ \A t \in Titles :
          /\ ~account[t] => bank[t] = [k \in Slots |-> None]
          /\ yuzu[t] # None => nand /\ yuzuDir[t] = None

Init ==
    /\ stem = [s \in Stems |-> None] /\ sidecar = [s \in Stems |-> None]
    /\ legacy \in {[t \in Titles |-> IF t \in T THEN [by |-> t, at |-> 0] ELSE None] :
                      T \in SUBSET Titles}
    /\ claimed = [t \in Titles |-> None]
    /\ account = [t \in Titles |-> FALSE]
    /\ bank = [t \in Titles |-> [k \in Slots |-> None]]
    /\ nand = FALSE
    /\ yuzu = [t \in Titles |-> None] /\ yuzuDir = [t \in Titles |-> None]
    /\ kept = [s \in Stems |-> None] /\ rescue = [s \in Stems |-> None]
    /\ session = Idle /\ made = None /\ clock = 0

-----------------------------------------------------------------------------
(* Helpers of switch_save_share.cpp. *)

\* source_should_replace_dest, for both directions of mirror_files_newer_wins
\* Mutant: the first one wins whenever it has a save.
FirstWins(a, b) == IF a = None THEN b ELSE a
Newer(a, b) == IF a = None \/ (b # None /\ b.at > a.at) THEN b ELSE a

\* Old directories a stem may still take over
\* Mutant: whoever claimed it.
Claimable(s, t) == legacy[t] # None
Unclaimed(s, t) == legacy[t] # None /\ claimed[t] \in {None, s}

\* resolve_switch_title_id_for_catalog, after the metadata of the game
Resolve(s) ==
    LET old == {t \in Titles : Unclaimed(s, t) \/ claimed[t] = s}
        played == {t \in Titles : account[t]}
    IN IF s \in Named THEN {TitleOf[s]}
       ELSE IF sidecar[s] # None THEN {sidecar[s]}
       ELSE IF old # {} THEN old
       ELSE IF played # {} THEN played
       ELSE {None}

\* ensure_catalog_switch_save with claim_legacy_title_id_once
Claim(s, t) ==
    IF t = None THEN UNCHANGED stems
    ELSE /\ sidecar' = [sidecar EXCEPT ![s] = t]
         /\ UNCHANGED legacy
         /\ IF stem[s] = None /\ Unclaimed(s, t)
            THEN /\ stem' = [stem EXCEPT ![s] = legacy[t]]
                 /\ claimed' = [claimed EXCEPT ![t] = s]
            ELSE UNCHANGED <<stem, claimed>>

\* link_yuzu_to_canon without absorbing: nothing until Yuzu has been played.
\* Mutant: what was in the directory shows under the link.
LinkOver(s, t) ==
    /\ yuzu' = IF nand /\ t # None THEN [yuzu EXCEPT ![t] = s] ELSE yuzu
    /\ UNCHANGED <<account, bank, nand, yuzuDir>>
Link(s, t) ==
    /\ yuzu' = IF nand /\ t # None THEN [yuzu EXCEPT ![t] = s] ELSE yuzu
    /\ yuzuDir' = IF nand /\ t # None THEN [yuzuDir EXCEPT ![t] = None] ELSE yuzuDir
    /\ UNCHANGED <<account, bank, nand>>

At(place, next) == session.at = place /\ session' = [session EXCEPT !.at = next]

-----------------------------------------------------------------------------
(* sync_catalog_switch_save_for_launch, one directory at a time. *)

Launch(s, emu) ==
    /\ session = Idle
    /\ \E t \in Resolve(s) : session' = Session("claim", s, t, emu, None)
    /\ UNCHANGED <<stems, emulators, backups, made, clock>>

LaunchClaim ==
    /\ session.at = "claim"
    /\ Claim(session.stem, session.title)
    /\ session' = Session("backup", session.stem, session.title, session.emu,
                           stem'[session.stem])
    /\ UNCHANGED <<emulators, backups, made, clock>>

\* backup_catalog_switch_save_prelaunch: an empty stem leaves the old backup, a
\* new backup takes the place of everything, the rescued bytes too.  Without a
\* title id that is all.
\* Mutant: the stem is copied only where there is no backup yet.
BackupOnce ==
    /\ session.at = "backup"
    /\ session' = [session EXCEPT !.at = IF session.title = None THEN "boot" ELSE "link"]
    /\ kept' = [kept EXCEPT ![session.stem] = IF @ # None THEN @ ELSE stem[session.stem]]
    /\ UNCHANGED <<stems, emulators, rescue, made, clock>>
Backup ==
    /\ session.at = "backup"
    /\ session' = [session EXCEPT !.at = IF session.title = None THEN "boot" ELSE "link"]
    /\ IF stem[session.stem] = None THEN UNCHANGED backups
       ELSE /\ kept' = [kept EXCEPT ![session.stem] = stem[session.stem]]
            /\ rescue' = [rescue EXCEPT ![session.stem] = None]
    /\ UNCHANGED <<stems, emulators, made, clock>>

LaunchLink ==
    /\ At("link", "rescue")
    /\ Link(session.stem, session.title)
    /\ UNCHANGED <<stems, backups, made, clock>>

\* backup_ryujinx_bis_prelaunch_if_stem_empty
Rescue ==
    /\ At("rescue", "slot0")
    /\ rescue' = IF stem[session.stem] # None THEN rescue
                 ELSE [rescue EXCEPT ![session.stem] =
                          Newer(bank[session.title][0], bank[session.title][1])]
    /\ UNCHANGED <<stems, emulators, kept, made, clock>>

\* replace_directory_payload_with_stem for a slot of the account, if Ryujinx
\* has created one
\* Mutant: an empty stem leaves the slot alone.
OnlyFull(t, k, v) ==
    IF account[t] /\ v # None THEN [bank EXCEPT ![t][k] = v] ELSE bank
Replaced(t, k, v) ==
    IF account[t] THEN [bank EXCEPT ![t][k] = v] ELSE bank

ReplaceSlot(k) ==
    /\ IF k = 0 THEN At("slot0", "slot1") ELSE At("slot1", "boot")
    /\ bank' = Replaced(session.title, k, stem[session.stem])
    /\ UNCHANGED <<stems, account, nand, yuzu, yuzuDir, backups, made, clock>>

-----------------------------------------------------------------------------
(* The emulators. *)

\* The emulator starts and creates what it does not find.
Boot ==
    /\ At("boot", "play")
    /\ IF session.emu = "ryujinx"
       THEN /\ account' = [account EXCEPT ![TitleOf[session.stem]] = TRUE]
            /\ UNCHANGED nand
       ELSE nand' = TRUE /\ UNCHANGED account
    /\ UNCHANGED <<stems, bank, yuzu, yuzuDir, backups, made, clock>>

\* What a game started now would load
Loads(s, emu) ==
    LET t == TitleOf[s]
    IN IF emu = "ryujinx" THEN Newer(bank[t][0], bank[t][1])
       ELSE IF yuzu[t] # None THEN stem[yuzu[t]] ELSE yuzuDir[t]

\* The game saves: Ryujinx into one of its slots, Yuzu through the link if there
\* is one.
Save ==
    LET t == TitleOf[session.stem]
        v == [by |-> session.stem, at |-> clock + 1]
    IN
    /\ session.at = "play" /\ clock < MaxTime
    /\ clock' = clock + 1
    /\ made' = v
    /\ IF session.emu = "ryujinx"
       THEN /\ \E k \in Slots : bank' = [bank EXCEPT ![t][k] = v]
            /\ UNCHANGED <<stem, yuzuDir>>
       ELSE IF yuzu[t] # None
       THEN stem' = [stem EXCEPT ![yuzu[t]] = v] /\ UNCHANGED <<bank, yuzuDir>>
       ELSE yuzuDir' = [yuzuDir EXCEPT ![t] = v] /\ UNCHANGED <<bank, stem>>
    /\ UNCHANGED <<sidecar, legacy, claimed, account, nand, yuzu, backups, session>>

-----------------------------------------------------------------------------
(* sync_catalog_switch_save_after_exit. *)

\* cleanup has stopped the emulator; a title id the launch did not have is
\* looked for again.
Exit ==
    /\ session.at = "play"
    /\ \E t \in IF session.title = None THEN Resolve(session.stem) ELSE {session.title} :
        session' = Session("reclaim", session.stem, t, session.emu, session.had)
    /\ UNCHANGED <<stems, emulators, backups, made, clock>>

ExitClaim ==
    /\ At("reclaim", IF session.title = None THEN "settle" ELSE "pull0")
    /\ Claim(session.stem, session.title)
    /\ UNCHANGED <<emulators, backups, made, clock>>

\* mirror_ryujinx_to_canon_path: slot 0 with slot 1, with the stem, and with
\* slot 1 again
PullSlots(place, next) ==
    LET t == session.title
    IN
    /\ At(place, next)
    /\ bank' = IF account[t] THEN [bank EXCEPT ![t] = [k \in Slots |-> Newer(bank[t][0], bank[t][1])]]
               ELSE bank
    /\ UNCHANGED <<stems, account, nand, yuzu, yuzuDir, backups, made, clock>>

PullStem ==
    LET t == session.title
        v == Newer(bank[t][0], stem[session.stem])
    IN
    /\ At("pull1", "pull2")
    /\ IF account[t]
       THEN /\ bank' = [bank EXCEPT ![t][0] = v]
            /\ stem' = [stem EXCEPT ![session.stem] = v]
       ELSE UNCHANGED <<bank, stem>>
    /\ UNCHANGED <<sidecar, legacy, claimed, account, nand, yuzu, yuzuDir, backups, made, clock>>

\* The title id is written once more and Yuzu linked.
Settle ==
    /\ session.at = "settle"
    /\ session' = Idle /\ made' = None
    /\ Link(session.stem, session.title)
    /\ UNCHANGED <<stems, backups, clock>>

\* The host dies, or the session ends with an error: no more is done.
Abort ==
    /\ session # Idle
    /\ session' = Idle /\ made' = None
    /\ UNCHANGED <<stems, emulators, backups, clock>>

-----------------------------------------------------------------------------
(* delete_save_game of the GUI, for a save that is not in play. *)

\* A stem: the accounts of Ryujinx and the links of Yuzu stay.
DeleteStem(s) ==
    /\ session.stem # s /\ stem[s] # None
    /\ stem' = [stem EXCEPT ![s] = None]
    /\ sidecar' = [sidecar EXCEPT ![s] = None]
    /\ UNCHANGED <<legacy, claimed, emulators, backups, session, made, clock>>

\* A directory of the old layout, with the mirrors of its title; a link to a stem
\* that has been deleted is not found.
DeleteTitle(t) ==
    /\ session = Idle /\ legacy[t] # None
    /\ legacy' = [legacy EXCEPT ![t] = None]
    /\ claimed' = [claimed EXCEPT ![t] = None]
    /\ account' = [account EXCEPT ![t] = FALSE]
    /\ bank' = [bank EXCEPT ![t] = [k \in Slots |-> None]]
    /\ \/ yuzu' = [yuzu EXCEPT ![t] = None]
       \/ yuzu[t] # None /\ stem[yuzu[t]] = None /\ UNCHANGED yuzu
    /\ yuzuDir' = [yuzuDir EXCEPT ![t] = None]
    /\ UNCHANGED <<stem, sidecar, nand, backups, session, made, clock>>

Next ==
    \/ \E s \in Stems, emu \in Emulators : Launch(s, emu)
    \/ LaunchClaim \/ Backup \/ LaunchLink \/ Rescue
    \/ \E k \in Slots : ReplaceSlot(k)
    \/ Boot \/ Save
    \/ Exit \/ ExitClaim
    \/ PullSlots("pull0", "pull1") \/ PullStem \/ PullSlots("pull2", "settle")
    \/ Settle \/ Abort
    \/ \E s \in Stems : DeleteStem(s)
    \/ \E t \in Titles : DeleteTitle(t)

Spec == Init /\ [][Next]_vars

-----------------------------------------------------------------------------
(* Properties. *)

\* The title of s is known for every stem that has it.
Sure(s) == \A r \in Stems : TitleOf[r] = TitleOf[s] => r \in Named

\* A stem holds progress of its own game only, or what it took over from the old
\* directory of its title, and no two stems took over the same: whatever other
\* stems of the title left in the emulators, also after crashes.
\* (ensure_catalog_switch_save, replace_ryujinx_bis_with_canon)
OwnProgress ==
    \A s \in Stems : Sure(s) /\ stem[s] # None =>
        /\ stem[s].by \in {s, TitleOf[s]}
        /\ \A r \in Stems \ {s} : stem[s].by = TitleOf[s] => stem[r] # stem[s]

\* Until the emulator of a session has been left there is a way back: a copy of
\* the stem as it was before the launch, or, if the stem was empty, of the newest
\* that the slots held before they were wiped.
\* (backup_catalog_switch_save_prelaunch, backup_ryujinx_bis_prelaunch_if_stem_empty)
Restorable ==
    /\ session.at \in (Launching \cup {"play"}) \ {"claim", "backup"} /\ session.had # None =>
           kept[session.stem] = session.had
    /\ session.at \in {"slot0", "slot1"} /\ session.had = None =>
           \A k \in Slots : bank[session.title][k] # None =>
               /\ rescue[session.stem] # None
               /\ rescue[session.stem].at >= bank[session.title][k].at

\* A session that ends in good order leaves in the stem what the game saved
\* last, or what was there if it did not save.  Except for a game that Yuzu
\* played without a link.  (sync_catalog_switch_save_after_exit)
ProgressArrives ==
    [][LET s == session.stem IN
       session.at = "settle" /\ session'.at = "idle" /\ Sure(s)
         /\ (session.emu = "yuzu" => yuzu[TitleOf[s]] = s)
         => stem'[s] = IF made = None THEN session.had ELSE made]_vars

\* What the emulator is about to start from is the stem, if it has been used for
\* the title before: nothing that other stems or a crash left behind, and nothing
\* older.  (replace_ryujinx_bis_with_canon, link_yuzu_to_canon)
StartsFromStem ==
    LET s == session.stem IN
    session.at = "boot" /\ Sure(s)
      /\ (IF session.emu = "ryujinx" THEN account[TitleOf[s]] ELSE nand)
      => Loads(s, session.emu) = stem[s]
=============================================================================
