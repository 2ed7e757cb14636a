------------------------------ MODULE SaveSlot ------------------------------
(***************************************************************************)
(* What the game and the player are promised of one save: what loading it  *)
(* answers, and the saves that imports have moved aside.  SaveData, the    *)
(* files, the order they are written and moved in and the failures between *)
(* two of them, implements it.                                             *)
(***************************************************************************)
CONSTANTS
    Written,    \* what the game saves: each call of write_save stores another
    Sources,    \* the saves a player imports
    Unchecked,  \* of these, the saves stored without a hash of their data
    NoData,     \* there is nothing to load
    Broken,     \* the files of a save that do not belong together
    Mixed,      \* such files, loaded all the same: the save was Unchecked
    NoVersion   \* no save under way

VARIABLES
    loads,      \* what load_save answers
    kept,       \* what the folders below .backup hold
    saving      \* what the game is saving

vars == <<loads, kept, saving>>

Init == loads = NoData /\ kept = {} /\ saving = NoVersion

(* The game starts to save. *)
Begin(v) ==
    /\ saving = NoVersion
    /\ saving' = v
    /\ UNCHANGED <<loads, kept>>

(* What loading answers when the data is no longer what was saved: broken, *)
(* unless the save in use has no hash to compare.  Where there is nothing  *)
(* to load a PARAM.SFO of either kind may have been left.                  *)
Spoilt(load) ==
    IF load \in Unchecked \union {Mixed} THEN {Mixed}
    ELSE {Broken} \union {Mixed : s \in IF load = NoData THEN Unchecked ELSE {}}

(* Some files are written and others are not: only the game's own save may *)
(* do this.                                                                *)
Break ==
    /\ saving # NoVersion
    /\ loads' \in Spoilt(loads)
    /\ UNCHANGED <<kept, saving>>

(* The last file is written. *)
Complete ==
    /\ saving # NoVersion
    /\ loads' \in {saving, Broken} \union Spoilt(saving)
    /\ saving' = NoVersion
    /\ UNCHANGED kept

(* The save stops half-way. *)
Stop ==
    /\ saving # NoVersion
    /\ saving' = NoVersion
    /\ UNCHANGED <<loads, kept>>

(* The game deletes its save. *)
Remove ==
    /\ saving = NoVersion
    /\ loads' = NoData
    /\ UNCHANGED <<kept, saving>>

(* An import moves the save in use out of the way, whole. *)
MoveAside ==
    /\ saving = NoVersion
    /\ kept' = kept \union ({loads} \ {NoData})
    /\ loads' = NoData
    /\ UNCHANGED saving

(* The imported save appears whole, where there was none. *)
Place(s) ==
    /\ saving = NoVersion /\ loads = NoData
    /\ loads' = s
    /\ UNCHANGED <<kept, saving>>

(* A save moved aside comes back; another copy of it may stay. *)
PutBack(s) ==
    /\ saving = NoVersion /\ loads = NoData
    /\ loads' = s
    /\ kept' \in {kept, kept \ {s}}
    /\ UNCHANGED saving

Next ==
    \/ \E v \in Written : Begin(v)
    \/ Break \/ Complete \/ Stop \/ Remove \/ MoveAside
    \/ \E s \in Sources : Place(s)
    \/ \E s \in kept : PutBack(s)

Spec == Init /\ [][Next]_vars
=============================================================================
