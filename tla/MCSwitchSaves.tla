---------------------------- MODULE MCSwitchSaves ----------------------------
(* Small instances of SwitchSaves. *)
EXTENDS SwitchSaves

CONSTANTS a, b, t1

\* Two versions of one game: the emulators cannot tell them apart.
OneTitle == [s \in Stems |-> t1]
=============================================================================
