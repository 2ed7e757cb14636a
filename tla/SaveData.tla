------------------------------ MODULE SaveData ------------------------------
(***************************************************************************)
(* One save folder of the memory stick and everything that is done to it:  *)
(* the save-data utility writes and deletes it (savedata_store.cpp), the   *)
(* menu imports a save over it and backs it up (save_transfer.cpp,         *)
(* save_screen.cpp).  All of it runs on one thread, so what may come       *)
(* between two file operations is the end of the program, and what may go  *)
(* wrong is each file operation.                                           *)
(*                                                                         *)
(* A file holds a version: two files of one version were written by one    *)
(* call of write_save, and only then does the hash in PARAM.SFO agree with *)
(* the data file (every call encrypts with a random block).  A version     *)
(* written without a key has no such hash, nor has an imported save that   *)
(* was stored unencrypted.                                                 *)
(***************************************************************************)
EXTENDS Naturals, Sequences, FiniteSets

CONSTANTS
    Written,     \* the versions the game writes
    Sources,     \* the saves a player may import, checked and whole
    Unchecked,   \* the versions whose PARAM.SFO has flags 0: no hash is compared
    SmallFiles,  \* the files that fit the stream's buffer: see FileWritten
    MaxRun,      \* bound: saves imported in one run of the menu's import
    MaxKept,     \* bound: folders below .backup
    MaxFaults,   \* bound: operations that fail and ends of the program
    Torn,        \* what a file holds that was not written to its end
    Missing,     \* a file that is not in the folder
    NoFolder,    \* a folder that does not exist
    NoData, Broken, Mixed, NoVersion

Files == {"icon", "data", "sfo"}
Versions == Written \union Sources
Marks == Versions \union {Torn, Missing}
Folders == [Files -> Marks] \union {NoFolder}

ASSUME ConstantsAssumption ==
    /\ MaxRun \in Nat \ {0} /\ MaxKept \in Nat /\ MaxFaults \in Nat
    /\ Unchecked \subseteq Versions /\ SmallFiles \subseteq Files
    /\ Torn \notin Versions \union {Missing}
    /\ Missing \notin Versions
    /\ NoFolder \notin [Files -> Marks]
    /\ NoData \notin Versions \union {Broken}
    /\ Broken \notin Versions
    /\ Mixed \notin Versions \union {Broken, NoData}
    /\ NoVersion \notin Versions
    /\ Written \intersect Sources = {}

VARIABLES
    slot,      \* <gameName><saveName>, the save in use
    staging,   \* .import-<name>, beside it
    kept,      \* .backup/<time>/<name>, one for each time
    backup,    \* <name> in the folder the player backs up to
    partial,   \* .<name>.partial, beside it
    at,        \* the step the operation under way is at
    version,   \* what write_save is writing
    file,      \* the file it writes next
    queue,     \* the saves run_import has still to import, the first under way
    dir,       \* the folder of kept this run of imports uses, 0 before it is made
    moved,     \* result.backup is set: the save in use was moved aside
    copied,    \* the files copy_folder_files has copied
    used,      \* the versions written so far
    reported,  \* what write_save said it has saved, until the next operation
    faults     \* how often something has gone wrong

disk == <<slot, staging, kept, backup, partial>>
work == <<at, version, file, queue, dir, moved, copied>>
vars == <<disk, work, used, reported, faults>>

Steps == {"idle", "save", "import", "copy in", "place", "copy out", "swap"}

TypeOK ==
    /\ slot \in Folders /\ staging \in Folders
    /\ backup \in Folders /\ partial \in Folders
    /\ kept \in Seq(Folders)
    /\ at \in Steps
    /\ version \in Versions \union {NoVersion}
    /\ file \in Files
    /\ queue \in Seq(Sources)
    /\ dir \in 0 .. Len(kept)
    /\ moved \in BOOLEAN
    /\ copied \subseteq Files
    /\ used \subseteq Written
    /\ reported \in Versions \union {NoVersion}
    /\ faults \in 0 .. MaxFaults

Init ==
    /\ slot = NoFolder /\ staging = NoFolder /\ kept = <<>>
    /\ backup = NoFolder /\ partial = NoFolder
    /\ at = "idle" /\ version = NoVersion /\ file = "icon"
    /\ queue = <<>> /\ dir = 0 /\ moved = FALSE /\ copied = {}
    /\ used = {} /\ reported = NoVersion /\ faults = 0

-----------------------------------------------------------------------------
(* Folders. *)

Has(folder, f) == folder # NoFolder /\ folder[f] # Missing

(* create_directories: a folder that is there stays as it is. *)
Opened(folder) == IF folder = NoFolder THEN [f \in Files |-> Missing] ELSE folder

(* What remove_all can leave: nothing when it succeeds, any of the files   *)
(* when it fails or the program ends meanwhile.                            *)
Leftovers(folder) ==
    IF folder = NoFolder THEN {NoFolder}
    ELSE {NoFolder} \union
         {[f \in Files |-> IF f \in S THEN folder[f] ELSE Missing] : S \in SUBSET Files}

(* load_save: there is nothing to load without PARAM.SFO and the data file, *)
(* and a PARAM.SFO cut short cannot be read.  The hash it lists has to be   *)
(* that of the data file; where its flags are 0 none is compared and the    *)
(* data is loaded as it is, whatever PARAM.SFO was written with.            *)
Content(folder) ==
    IF ~ Has(folder, "sfo") \/ ~ Has(folder, "data") THEN NoData
    ELSE CASE folder["sfo"] = folder["data"] /\ folder["data"] # Torn -> folder["data"]
           [] folder["sfo"] \in Unchecked \ {folder["data"]} -> Mixed
           [] OTHER -> Broken

(* A file operation fails, or the program ends. *)
Fault == faults < MaxFaults /\ faults' = faults + 1

(* remove_all, whose answer is not looked at. *)
Removed(before, after) ==
    \/ after = NoFolder /\ UNCHANGED faults
    \/ after \in Leftovers(before) /\ Fault

(* The saves of which every file a load needs is there and agrees. *)
Intact(folder) == Content(folder) \in Versions

-----------------------------------------------------------------------------
(* The save-data utility writes a save.                                    *)

Idle == at = "idle"

(* The operation under way returns. *)
Returns ==
    /\ at' = "idle" /\ version' = NoVersion /\ file' = "icon"
    /\ queue' = <<>> /\ dir' = 0 /\ moved' = FALSE /\ copied' = {}

(* write_save creates the folder; a save may come without an icon. *)
BeginSave ==
    /\ Idle
    /\ \E v \in Written \ used : version' = v /\ used' = used \union {v}
    /\ file' \in {"icon", "data"}
    /\ slot' = Opened(slot)
    /\ at' = "save" /\ reported' = NoVersion
    /\ UNCHANGED <<staging, kept, backup, partial, queue, dir, moved, copied, faults>>

(* write_file writes beside the file and renames over it.  A write that    *)
(* fails is noticed, except that of a file small enough to stay in the     *)
(* buffer of the stream: it is written when the stream closes, after the   *)
(* last look at it, and the rename puts what there is in place.            *)
FileWritten(v) == slot' = [slot EXCEPT ![file] = v]

After(f) == IF f = "icon" THEN "data" ELSE "sfo"

(* PARAM.SFO comes last, and write_save answers true. *)
WriteFile ==
    /\ at = "save"
    /\ \/ FileWritten(version) /\ UNCHANGED faults
       \/ file \in SmallFiles /\ FileWritten(Torn) /\ Fault
    /\ \/ /\ file # "sfo"
          /\ file' = After(file)
          /\ UNCHANGED <<at, version, queue, dir, moved, copied, reported>>
       \/ file = "sfo" /\ Returns /\ reported' = version
    /\ UNCHANGED <<staging, kept, backup, partial, used>>

(* write_save answers false: what it has written stays. *)
WriteFails ==
    /\ at = "save"
    /\ Fault
    /\ Returns
    /\ UNCHANGED <<disk, used, reported>>

(* delete_save, whole or not. *)
DeleteSave ==
    /\ Idle
    /\ slot # NoFolder
    /\ Removed(slot, slot')
    /\ reported' = NoVersion
    /\ UNCHANGED <<staging, kept, backup, partial, work, used>>

-----------------------------------------------------------------------------
(* The menu imports saves (run_import, import_save).                       *)

(* The saves the player confirmed, all of them into this folder; they go   *)
(* aside into one folder named by the time, made when it is first needed.  *)
BeginImport ==
    /\ Idle
    /\ Len(kept) < MaxKept
    /\ \E n \in 1 .. MaxRun : queue' \in [1 .. n -> Sources]
    /\ at' = "import" /\ dir' = 0 /\ reported' = NoVersion
    /\ UNCHANGED <<disk, version, file, moved, copied, used, faults>>

(* The folders below .backup once this run's own has been created. *)
KeptWithDir == IF dir = 0 THEN Append(kept, NoFolder) ELSE kept
DirMade == IF dir = 0 THEN Len(kept) + 1 ELSE dir

(* X_Mutant, before the definition X, is X as a plausible mistake in the   *)
(* code would have it: the runs' properties must tell the two apart.       *)
(* import_save returns, and run_import goes on to the next. *)
NextImportIn(d) ==
    IF Tail(queue) = <<>> THEN Returns
    ELSE /\ at' = "import" /\ queue' = Tail(queue) /\ dir' = d
         /\ moved' = FALSE /\ copied' = {}
         /\ UNCHANGED <<version, file>>
NextImport_Mutant == NextImportIn(DirMade)
NextImport == NextImportIn(dir)

(* What an earlier import left is removed, or not: nobody looks. *)
BeginCopyIn ==
    /\ at = "import"
    /\ \E left \in Leftovers(staging) : Removed(staging, left) /\ staging' = Opened(left)
    /\ at' = "copy in"
    /\ UNCHANGED <<slot, kept, backup, partial, version, file, queue, dir, moved, copied, used, reported>>

(* The directory is read in any order. *)
CopyIn ==
    /\ at = "copy in"
    /\ \E f \in Files \ copied :
          /\ staging' = [staging EXCEPT ![f] = Head(queue)]
          /\ copied' = copied \union {f}
    /\ UNCHANGED <<slot, kept, backup, partial, at, version, file, queue, dir, moved, used, reported, faults>>

(* An error: the partial copy is removed. *)
CopyInFails ==
    /\ at = "copy in"
    /\ Fault
    /\ staging' \in Leftovers(staging)
    /\ NextImport
    /\ UNCHANGED <<slot, kept, backup, partial, used, reported>>

CopiedIn_Mutant == at = "copy in"
CopiedIn == at = "copy in" /\ copied = Files

(* With nothing in the way there is nothing to move. *)
NothingInTheWay ==
    /\ CopiedIn
    /\ slot = NoFolder
    /\ at' = "place"
    /\ UNCHANGED <<disk, version, file, queue, dir, moved, copied, used, reported, faults>>

(* Nothing may be there already: the save in use is moved, not copied. *)
AsideFree_Mutant == TRUE
AsideFree == KeptWithDir[DirMade] = NoFolder

MoveAside ==
    /\ CopiedIn
    /\ slot # NoFolder
    /\ AsideFree
    /\ kept' = [KeptWithDir EXCEPT ![DirMade] = slot]
    /\ dir' = DirMade
    /\ slot' = NoFolder /\ moved' = TRUE
    /\ at' = "place"
    /\ UNCHANGED <<staging, backup, partial, version, file, queue, copied, used, reported, faults>>

(* The folder cannot be created, holds an earlier one, or the rename fails. *)
AsideFails ==
    /\ CopiedIn
    /\ slot # NoFolder
    /\ \/ AsideFree /\ Fault /\ staging' \in Leftovers(staging)
       \/ ~ AsideFree /\ Removed(staging, staging')
    /\ \/ UNCHANGED kept /\ NextImport
       \/ dir = 0 /\ kept' = KeptWithDir /\ NextImportIn(DirMade)
    /\ UNCHANGED <<slot, backup, partial, used, reported>>

Place ==
    /\ at = "place"
    /\ slot' = staging /\ staging' = NoFolder
    /\ NextImport
    /\ UNCHANGED <<kept, backup, partial, used, reported, faults>>

(* The save that was moved aside is put back, if that succeeds. *)
RestoreAside ==
    \/ /\ moved
       /\ slot' = kept[dir]
       /\ kept' = [kept EXCEPT ![dir] = NoFolder]
    \/ UNCHANGED <<slot, kept>>

PlaceFails ==
    /\ at = "place"
    /\ Fault
    /\ RestoreAside
    /\ staging' \in Leftovers(staging)
    /\ NextImport
    /\ UNCHANGED <<backup, partial, used, reported>>

-----------------------------------------------------------------------------
(* The menu backs the save up (start_backup, back_up_saves).               *)

(* Only a folder with a PARAM.SFO is one of the saves; an earlier backup   *)
(* is replaced only when the player said so.                               *)
BeginBackUp(replace) ==
    /\ Idle
    /\ Has(slot, "sfo")
    /\ replace \/ backup = NoFolder
    /\ \E left \in Leftovers(partial) : Removed(partial, left) /\ partial' = Opened(left)
    /\ at' = "copy out" /\ reported' = NoVersion
    /\ UNCHANGED <<slot, staging, kept, backup, version, file, queue, dir, moved, copied, used>>

CopyOut ==
    /\ at = "copy out"
    /\ \E f \in Files \ copied :
          /\ Has(slot, f)
          /\ partial' = [partial EXCEPT ![f] = slot[f]]
          /\ copied' = copied \union {f}
    /\ UNCHANGED <<slot, staging, kept, backup, at, version, file, queue, dir, moved, used, reported, faults>>

CopyOutFails ==
    /\ at = "copy out"
    /\ Fault
    /\ partial' \in Leftovers(partial)
    /\ Returns
    /\ UNCHANGED <<slot, staging, kept, backup, used, reported>>

CopiedOut_Mutant == at = "copy out"
CopiedOut == at = "copy out" /\ \A f \in Files : Has(slot, f) => f \in copied

(* The earlier backup goes once the copy is complete; when some of it      *)
(* cannot be removed the copy stays beside it.                             *)
RemoveOld ==
    /\ CopiedOut
    /\ Removed(backup, backup')
    /\ IF backup' # NoFolder THEN Returns
       ELSE at' = "swap" /\ UNCHANGED <<version, file, queue, dir, moved, copied>>
    /\ UNCHANGED <<slot, staging, kept, partial, used, reported>>

SwapIn ==
    /\ at = "swap"
    /\ backup' = partial /\ partial' = NoFolder
    /\ Returns
    /\ UNCHANGED <<slot, staging, kept, used, reported, faults>>

SwapFails ==
    /\ at = "swap"
    /\ Fault
    /\ Returns
    /\ UNCHANGED <<disk, used, reported>>

-----------------------------------------------------------------------------
(* The program ends, whatever it was doing: a file that was being copied   *)
(* is not complete.  The next one looks at none of what is left.           *)
Crash ==
    /\ ~ Idle
    /\ Fault
    /\ Returns /\ reported' = NoVersion
    /\ \/ at = "copy in"
          /\ \E f \in Files \ copied : staging' = [staging EXCEPT ![f] = Torn]
          /\ UNCHANGED partial
       \/ at = "copy out"
          /\ \E f \in Files \ copied : partial' = [partial EXCEPT ![f] = Torn]
          /\ UNCHANGED staging
       \/ UNCHANGED <<staging, partial>>
    /\ UNCHANGED <<slot, kept, backup, used>>

Next ==
    \/ BeginSave \/ WriteFile \/ WriteFails \/ DeleteSave
    \/ BeginImport \/ BeginCopyIn \/ CopyIn \/ CopyInFails \/ NothingInTheWay
    \/ MoveAside \/ AsideFails \/ Place \/ PlaceFails
    \/ \E replace \in BOOLEAN : BeginBackUp(replace)
    \/ CopyOut \/ CopyOutFails \/ RemoveOld \/ SwapIn \/ SwapFails
    \/ Crash

Spec == Init /\ [][Next]_vars

-----------------------------------------------------------------------------
(* The properties.                                                         *)

(* The files implement the promise of SaveSlot: only the game's own save,  *)
(* interrupted, leaves a save that is broken, or mixed where the save it   *)
(* writes or writes over is one of Unchecked; a save that is imported      *)
(* appears whole, the one it replaces leaves whole, and a backup changes   *)
(* neither.                                                                *)
Slot == INSTANCE SaveSlot WITH
    loads <- Content(slot),
    kept <- {Content(kept[i]) : i \in DOMAIN kept} \ {NoData},
    saving <- version
SlotSpec == Slot!Spec

(* The versions of which there is a whole copy in use or moved aside. *)
Held == {Content(folder) : folder \in {slot} \union {kept[i] : i \in DOMAIN kept}}
            \intersect Versions

(* An import "never deletes a save" (save_transfer.hpp): whatever fails,   *)
(* and wherever the program ends, the save it replaces is in use or below  *)
(* .backup, whole.                                                         *)
Importing == at \in {"import", "copy in", "place"}
NothingLost == [][Importing => Held \subseteq Held']_vars

(* A backup "is replaced whole, and only once its new copy is complete"    *)
(* (save_transfer.hpp): a backup that loses a file has beside it a copy    *)
(* with every file of the save as it is.                                   *)
CopyOf(folder) == folder # NoFolder /\ \A f \in Files : Has(slot, f) => folder[f] = slot[f]
Loses(before, after) == \E f \in Files : Has(before, f) /\ ~ Has(after, f)
ReplacedWhole == [][Loses(backup, backup') => CopyOf(partial)]_vars

(* Between two runs of the program nothing of a save under way survives:   *)
(* what write_save reports done is what the next load answers.             *)
ReportedSaved == reported # NoVersion => Content(slot) = reported

(* "a save interrupted in between is reported as broken rather than loaded *)
(* with mismatched contents" (savedata_store.cpp): so it is while every    *)
(* version has a hash, and not where PARAM.SFO has flags 0.                *)
InterruptedIsBroken == Content(slot) # Mixed
=============================================================================
