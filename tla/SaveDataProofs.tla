--------------------------- MODULE SaveDataProofs ---------------------------
(***************************************************************************)
(* For any saves, bounds and failures: the files of a save folder          *)
(* implement the save slot of SaveSlot, an import loses no save, and a     *)
(* backup loses nothing of which its new copy is not complete.             *)
(***************************************************************************)
EXTENDS SaveData, SequenceTheorems, TLAPS

(* An import has a save under way, and a place for what it moved aside. *)
QueueThere == at \in {"import", "copy in", "place"} => queue # <<>>
MovedToDir == moved => at = "place" /\ dir # 0

(* What is to be renamed into place is complete, and nothing is there. *)
StagedWhole ==
    /\ at \in {"idle", "import"} => copied = {}
    /\ at = "copy in" => staging # NoFolder /\ \A f \in copied : staging[f] = Head(queue)
    /\ at = "place" => slot = NoFolder /\ staging = [f \in Files |-> Head(queue)]

(* A version is that of write_save; until it writes PARAM.SFO the hash     *)
(* there is of another version, as each is written only once.              *)
SavingVersion ==
    /\ at = "save" <=> version # NoVersion
    /\ at = "save" => slot # NoFolder /\ version \in Written \intersect used
    /\ at = "save" /\ file # "sfo" => slot["sfo"] # version
    /\ at = "save" /\ file = "sfo" => slot["data"] \in {version, Torn}
NotSeen(folder, v) == folder # NoFolder => folder["sfo"] # v
NotSeenYet == \A v \in Written \ used : NotSeen(slot, v) /\ \A i \in DOMAIN kept : NotSeen(kept[i], v)

(* A backup is made of files as they are. *)
CopiedFiles ==
    /\ at = "copy out" => partial # NoFolder /\ \A f \in copied : Has(slot, f) /\ partial[f] = slot[f]
    /\ at = "swap" => backup = NoFolder

Steady == TypeOK /\ QueueThere /\ MovedToDir
IInv == Steady /\ StagedWhole /\ SavingVersion /\ NotSeenYet /\ CopiedFiles
-----------------------------------------------------------------------------
LEMMA FolderTypes ==
    ASSUME NEW folder \in Folders
    PROVE  /\ Opened(folder) \in [Files -> Marks]
           /\ Opened(folder) # NoFolder
           /\ \A left \in Leftovers(folder) : left \in Folders
<1>1. Missing \in Marks /\ NoFolder \in Folders
  BY DEF Marks, Folders
<1>2. Opened(folder) \in [Files -> Marks]
  BY <1>1 DEF Opened, Folders
<1>3. ASSUME NEW left \in Leftovers(folder) PROVE left \in Folders
  BY <1>1, <1>3 DEF Leftovers, Folders
<1> QED BY <1>2, <1>3, ConstantsAssumption

LEMMA RemovedType ==
    ASSUME NEW before \in Folders, NEW after, faults \in 0 .. MaxFaults, Removed(before, after)
    PROVE  after \in Folders /\ faults' \in 0 .. MaxFaults
<1>1. CASE after = NoFolder /\ UNCHANGED faults
  BY <1>1 DEF Folders
<1>2. CASE after \in Leftovers(before) /\ Fault
  BY <1>2, FolderTypes, ConstantsAssumption DEF Fault
<1> QED BY <1>1, <1>2 DEF Removed

LEMMA KeptTypes ==
    ASSUME kept \in Seq(Folders), dir \in 0 .. Len(kept)
    PROVE  /\ KeptWithDir \in Seq(Folders)
           /\ DirMade \in 1 .. Len(KeptWithDir)
           /\ Len(kept) \in Nat /\ Len(KeptWithDir) >= Len(kept)
           /\ \A i \in 1 .. Len(kept) : KeptWithDir[i] = kept[i]
           /\ \A i \in 1 .. Len(KeptWithDir) : i \in 1 .. Len(kept) \/ KeptWithDir[i] = NoFolder
<1>1. NoFolder \in Folders /\ Len(kept) \in Nat
  BY LenProperties DEF Folders
<1>2. CASE dir = 0
  BY <1>1, <1>2, AppendProperties DEF KeptWithDir, DirMade
<1>3. CASE dir # 0
  BY <1>1, <1>3 DEF KeptWithDir, DirMade
<1> QED BY <1>2, <1>3

LEMMA NextImportTypes ==
    ASSUME NEW d \in Nat, Steady, queue # <<>>, NextImportIn(d)
    PROVE  /\ at' \in {"idle", "import"} /\ at' \in Steps
           /\ version' \in {version, NoVersion} /\ version' \in Versions \union {NoVersion}
           /\ file' \in Files /\ moved' = FALSE
           /\ queue' \in Seq(Sources) /\ (at' = "import" => queue' # <<>>)
           /\ dir' \in 0 .. d /\ copied' = {}
<1>1. Tail(queue) \in Seq(Sources) /\ <<>> \in Seq(Sources)
  BY HeadTailProperties, EmptySeq DEF Steady, TypeOK
<1>2. CASE Tail(queue) = <<>>
  BY <1>1, <1>2 DEF NextImportIn, Returns, Files, Steps
<1>3. CASE Tail(queue) # <<>>
  <2>1. version \in Versions \union {NoVersion} /\ file \in Files
    BY DEF Steady, TypeOK
  <2>2. /\ at' = "import" /\ queue' = Tail(queue) /\ dir' = d /\ moved' = FALSE /\ copied' = {}
        /\ version' = version /\ file' = file
    BY <1>3 DEF NextImportIn
  <2> QED BY <1>1, <1>3, <2>1, <2>2 DEF Steps
<1> QED BY <1>2, <1>3

LEMMA ReturnTypes ==
    ASSUME Returns, Len(kept) \in Nat
    PROVE  /\ at' = "idle" /\ version' = NoVersion /\ file' \in Files
           /\ queue' \in Seq(Sources) /\ dir' = 0 /\ dir' \in 0 .. Len(kept)
           /\ moved' = FALSE /\ copied' = {} /\ copied' \subseteq Files
BY EmptySeq DEF Returns, Files

(* Every step keeps the types, the queue of an import, and its folder.     *)
LEMMA SteadyStep ==
    ASSUME IInv, [Next]_vars
    PROVE  Steady'
<1>0. /\ Steady /\ NoFolder \in Folders /\ Len(kept) \in Nat /\ dir \in Nat /\ MaxFaults \in Nat
      /\ (Fault => faults' \in 0 .. MaxFaults)
      /\ \A i \in 0 .. dir : i \in 0 .. Len(kept)
  <2>1. Steady /\ kept \in Seq(Folders) /\ dir \in 0 .. Len(kept) /\ faults \in 0 .. MaxFaults
    BY DEF IInv, Steady, TypeOK
  <2>2. Len(kept) \in Nat /\ MaxFaults \in Nat /\ NoFolder \in Folders
    BY <2>1, LenProperties, ConstantsAssumption DEF Folders
  <2>3. dir \in Nat /\ (Fault => faults' \in 0 .. MaxFaults)
    BY <2>1, <2>2 DEF Fault
  <2>4. \A i \in 0 .. dir : i \in 0 .. Len(kept)
    BY <2>1, <2>2
  <2> QED BY <2>1, <2>2, <2>3, <2>4
<1>1. CASE BeginSave
  <2>1. slot' \in Folders /\ version' \in Versions /\ used' \subseteq Written /\ file' \in Files
    BY <1>0, <1>1, FolderTypes DEF BeginSave, Idle, Steady, TypeOK, Folders, Versions, Files
  <2> QED BY <1>0, <1>1, <2>1 DEF BeginSave, Idle, Steady, TypeOK, QueueThere, MovedToDir, Steps
<1>2. CASE WriteFile
  <2>1. slot' \in Folders /\ faults' \in 0 .. MaxFaults
    <3> slot \in [Files -> Marks] /\ version \in Marks /\ Torn \in Marks /\ faults \in 0 .. MaxFaults
      BY <1>2 DEF WriteFile, IInv, SavingVersion, Steady, TypeOK, Folders, Marks, Versions
    <3>1. CASE FileWritten(version) /\ UNCHANGED faults
      BY <3>1 DEF FileWritten, Folders
    <3>2. CASE FileWritten(Torn) /\ Fault
      <4>1. slot' \in Folders
        BY <3>2 DEF FileWritten, Folders
      <4>2. faults' \in 0 .. MaxFaults
        BY <1>0, <3>2
      <4> QED BY <4>1, <4>2
    <3> QED BY <1>0, <1>2, <3>1, <3>2 DEF WriteFile
  <2>2. CASE file # "sfo"
    <3>1. file' \in Files
      BY <1>2, <2>2 DEF WriteFile, After, Files
    <3>2. UNCHANGED <<at, version, queue, dir, moved, copied, reported>>
      BY <1>2, <2>2 DEF WriteFile
    <3>3. UNCHANGED <<staging, kept, backup, partial, used>>
      BY <1>2 DEF WriteFile
    <3> QED BY <1>0, <2>1, <3>1, <3>2, <3>3 DEF Steady, TypeOK, QueueThere, MovedToDir
  <2>3. CASE file = "sfo"
    <3>1. Returns /\ reported' = version
      BY <1>2, <2>3 DEF WriteFile
    <3>2. UNCHANGED <<staging, kept, backup, partial, used>>
      BY <1>2 DEF WriteFile
    <3> QED BY <1>0, <2>1, <3>1, <3>2, ReturnTypes
          DEF Steady, TypeOK, QueueThere, MovedToDir, Steps
  <2> QED BY <2>2, <2>3
<1>3. CASE WriteFails
  <2>1. faults' \in 0 .. MaxFaults
    BY <1>0, <1>3 DEF WriteFails
  <2> QED BY <1>0, <1>3, <2>1, ReturnTypes
        DEF WriteFails, disk, Steady, TypeOK, QueueThere, MovedToDir, Steps
<1>4. CASE DeleteSave
  <2>1. slot' \in Folders /\ faults' \in 0 .. MaxFaults
    BY <1>0, <1>4, RemovedType DEF DeleteSave, Steady, TypeOK
  <2> QED BY <1>0, <1>4, <2>1 DEF DeleteSave, work, Steady, TypeOK, QueueThere, MovedToDir
<1>5. CASE BeginImport
  <2>1. queue' \in Seq(Sources) /\ queue' # <<>>
    <3>1. PICK n \in 1 .. MaxRun : queue' \in [1 .. n -> Sources]
      BY <1>5 DEF BeginImport
    <3>2. queue' \in Seq(Sources)
      BY <3>1, SeqDef
    <3>3. DOMAIN queue' = 1 .. n /\ 1 \in 1 .. n
      BY <3>1
    <3>4. DOMAIN queue' = 1 .. Len(queue')
      BY <3>2, LenProperties
    <3>5. queue' # <<>>
      <4>1. SUFFICES ASSUME queue' = <<>> PROVE FALSE
        OBVIOUS
      <4>2. DOMAIN queue' = 1 .. 0
        BY <3>4, <4>1, EmptySeq
      <4> QED BY <3>3, <4>2
    <3> QED BY <3>2, <3>5
  <2> QED BY <1>0, <1>5, <2>1
        DEF BeginImport, Idle, disk, Steady, TypeOK, QueueThere, MovedToDir, Steps
<1>6. CASE BeginCopyIn
  <2>1. staging' \in Folders /\ faults' \in 0 .. MaxFaults
    <3>1. PICK left \in Leftovers(staging) : Removed(staging, left) /\ staging' = Opened(left)
      BY <1>6 DEF BeginCopyIn
    <3>2. staging \in Folders /\ faults \in 0 .. MaxFaults
      BY <1>0 DEF Steady, TypeOK
    <3>3. left \in Folders /\ faults' \in 0 .. MaxFaults
      BY <3>1, <3>2, RemovedType
    <3> QED BY <3>1, <3>3, FolderTypes DEF Folders
  <2> QED BY <1>0, <1>6, <2>1 DEF BeginCopyIn, Steady, TypeOK, QueueThere, MovedToDir, Steps
<1>7. CASE CopyIn
  <2>1. Head(queue) \in Sources
    BY <1>0, <1>7, HeadTailProperties DEF CopyIn, Steady, TypeOK, QueueThere
  <2>2. staging' \in Folders /\ copied' \subseteq Files
    <3>1. staging \in [Files -> Marks] /\ Head(queue) \in Marks
      BY <1>0, <1>7, <2>1
         DEF CopyIn, IInv, StagedWhole, Steady, TypeOK, Folders, Marks, Versions
    <3> QED BY <1>0, <1>7, <3>1 DEF CopyIn, Steady, TypeOK, Folders
  <2> QED BY <1>0, <1>7, <2>2 DEF CopyIn, Steady, TypeOK, QueueThere, MovedToDir
<1>8. CASE CopyInFails
  <2>1. staging' \in Folders /\ faults' \in 0 .. MaxFaults
    <3>1. staging \in Folders /\ staging' \in Leftovers(staging) /\ Fault
      BY <1>0, <1>8 DEF CopyInFails, Steady, TypeOK
    <3> QED BY <1>0, <3>1, FolderTypes
  <2>2. queue # <<>> /\ dir \in Nat /\ NextImportIn(dir)
    BY <1>0, <1>8 DEF CopyInFails, NextImport, Steady, QueueThere
  <2> QED BY <1>0, <1>8, <2>1, <2>2, NextImportTypes
        DEF CopyInFails, Steady, TypeOK, QueueThere, MovedToDir
<1>9. CASE NothingInTheWay
  BY <1>0, <1>9
     DEF NothingInTheWay, CopiedIn, disk, Steady, TypeOK, QueueThere, MovedToDir, Steps
<1>10. CASE MoveAside
  <2>1. kept' \in Seq(Folders) /\ Len(kept') = Len(KeptWithDir) /\ dir' \in 0 .. Len(kept') /\ dir' # 0
    BY <1>0, <1>10, KeptTypes, ExceptSeq DEF MoveAside, Steady, TypeOK
  <2> QED BY <1>0, <1>10, <2>1
        DEF MoveAside, CopiedIn, Steady, TypeOK, QueueThere, MovedToDir, Steps
<1>11. CASE AsideFails
  <2>1. staging' \in Folders /\ faults' \in 0 .. MaxFaults
    <3>1. CASE AsideFree /\ Fault /\ staging' \in Leftovers(staging)
      BY <1>0, <3>1, FolderTypes DEF Steady, TypeOK
    <3>2. CASE Removed(staging, staging')
      BY <1>0, <3>2, RemovedType DEF Steady, TypeOK
    <3> QED BY <1>11, <3>1, <3>2 DEF AsideFails
  <2>2. queue # <<>> /\ kept \in Seq(Folders) /\ dir \in 0 .. Len(kept)
    BY <1>0, <1>11 DEF AsideFails, CopiedIn, Steady, TypeOK, QueueThere
  <2>3. UNCHANGED <<slot, backup, partial, used, reported>>
    BY <1>11 DEF AsideFails
  <2>4. CASE UNCHANGED kept /\ NextImport
    BY <1>0, <2>1, <2>2, <2>3, <2>4, NextImportTypes
       DEF NextImport, Steady, TypeOK, QueueThere, MovedToDir
  <2>5. CASE kept' = KeptWithDir /\ NextImportIn(DirMade)
    <3>1. kept' \in Seq(Folders) /\ DirMade \in Nat /\ DirMade \in 0 .. Len(kept') /\ 0 \in 0 .. Len(kept')
      BY <2>2, <2>5, KeptTypes, LenProperties
    <3>2. Steady /\ queue # <<>> /\ DirMade \in Nat /\ NextImportIn(DirMade)
      BY <1>0, <2>2, <2>5, <3>1
    <3>3. dir' \in 0 .. Len(kept')
      <4>1. dir' \in 0 .. DirMade
        BY <3>2, NextImportTypes
      <4>2. Len(kept') \in Nat
        BY <3>1, LenProperties
      <4> QED BY <3>1, <4>1, <4>2
    <3> QED BY <1>0, <2>1, <2>3, <3>1, <3>2, <3>3, NextImportTypes
          DEF Steady, TypeOK, QueueThere, MovedToDir
  <2> QED BY <1>11, <2>4, <2>5 DEF AsideFails
<1>12. CASE Place
  <2>1. queue # <<>> /\ dir \in Nat /\ NextImportIn(dir)
    BY <1>0, <1>12 DEF Place, NextImport, Steady, TypeOK, QueueThere
  <2> QED BY <1>0, <1>12, <2>1, NextImportTypes
        DEF Place, Steady, TypeOK, QueueThere, MovedToDir
<1>13. CASE PlaceFails
  <2>1. staging' \in Folders /\ faults' \in 0 .. MaxFaults
    BY <1>0, <1>13, FolderTypes DEF PlaceFails, Steady, TypeOK
  <2>2. slot' \in Folders /\ kept' \in Seq(Folders) /\ Len(kept') = Len(kept)
    <3>1. CASE moved /\ slot' = kept[dir] /\ kept' = [kept EXCEPT ![dir] = NoFolder]
      <4>1. dir \in 1 .. Len(kept) /\ kept \in Seq(Folders)
        BY <1>0, <3>1 DEF Steady, TypeOK, MovedToDir
      <4> QED BY <1>0, <3>1, <4>1, ExceptSeq, ElementOfSeq
    <3>2. CASE UNCHANGED <<slot, kept>>
      BY <1>0, <3>2 DEF Steady, TypeOK
    <3> QED BY <1>13, <3>1, <3>2 DEF PlaceFails, RestoreAside
  <2>3. queue # <<>> /\ dir \in Nat /\ NextImportIn(dir)
    BY <1>0, <1>13 DEF PlaceFails, NextImport, Steady, TypeOK, QueueThere
  <2> QED BY <1>0, <1>13, <2>1, <2>2, <2>3, NextImportTypes
          DEF PlaceFails, Steady, TypeOK, QueueThere, MovedToDir
<1>14. ASSUME NEW replace \in BOOLEAN, BeginBackUp(replace) PROVE Steady'
  <2>1. partial' \in Folders /\ faults' \in 0 .. MaxFaults
    <3>1. PICK left \in Leftovers(partial) : Removed(partial, left) /\ partial' = Opened(left)
      BY <1>14 DEF BeginBackUp
    <3>2. partial \in Folders /\ faults \in 0 .. MaxFaults
      BY <1>0 DEF Steady, TypeOK
    <3>3. left \in Folders /\ faults' \in 0 .. MaxFaults
      BY <3>1, <3>2, RemovedType
    <3> QED BY <3>1, <3>3, FolderTypes DEF Folders
  <2> QED BY <1>0, <1>14, <2>1
        DEF BeginBackUp, Idle, Steady, TypeOK, QueueThere, MovedToDir, Steps
<1>15. CASE CopyOut
  <2>1. partial' \in Folders /\ copied' \subseteq Files
    <3>1. partial \in [Files -> Marks] /\ copied \subseteq Files
      BY <1>0, <1>15 DEF CopyOut, IInv, CopiedFiles, Steady, TypeOK, Folders
    <3>2. PICK f \in Files \ copied :
            Has(slot, f) /\ partial' = [partial EXCEPT ![f] = slot[f]] /\ copied' = copied \union {f}
      BY <1>15 DEF CopyOut
    <3>3. slot[f] \in Marks
      BY <1>0, <3>2 DEF Has, Steady, TypeOK, Folders
    <3> QED BY <3>1, <3>2, <3>3 DEF Folders
  <2> QED BY <1>0, <1>15, <2>1 DEF CopyOut, Steady, TypeOK, QueueThere, MovedToDir
<1>16. CASE CopyOutFails
  <2>1. partial' \in Folders /\ faults' \in 0 .. MaxFaults
    <3>1. partial \in Folders /\ partial' \in Leftovers(partial) /\ Fault
      BY <1>0, <1>16 DEF CopyOutFails, Steady, TypeOK
    <3> QED BY <1>0, <3>1, FolderTypes
  <2> QED BY <1>0, <1>16, <2>1, ReturnTypes
        DEF CopyOutFails, Steady, TypeOK, QueueThere, MovedToDir, Steps
<1>17. CASE RemoveOld
  <2>1. backup' \in Folders /\ faults' \in 0 .. MaxFaults
    BY <1>0, <1>17, RemovedType DEF RemoveOld, Steady, TypeOK
  <2>2. CASE backup' # NoFolder
    BY <1>0, <1>17, <2>1, <2>2, ReturnTypes
       DEF RemoveOld, CopiedOut, Steady, TypeOK, QueueThere, MovedToDir, Steps
  <2>3. CASE backup' = NoFolder
    BY <1>0, <1>17, <2>1, <2>3
       DEF RemoveOld, CopiedOut, Steady, TypeOK, QueueThere, MovedToDir, Steps
  <2> QED BY <2>2, <2>3
<1>18. CASE SwapIn
  BY <1>0, <1>18, ReturnTypes DEF SwapIn, Steady, TypeOK, QueueThere, MovedToDir, Steps
<1>19. CASE SwapFails
  <2>1. faults' \in 0 .. MaxFaults
    BY <1>0, <1>19 DEF SwapFails
  <2> QED BY <1>0, <1>19, <2>1, ReturnTypes
        DEF SwapFails, disk, Steady, TypeOK, QueueThere, MovedToDir, Steps
<1>20. CASE Crash
  <2>1. faults' \in 0 .. MaxFaults
    BY <1>0, <1>20 DEF Crash
  <2>2. staging' \in Folders /\ partial' \in Folders
    <3> staging \in Folders /\ partial \in Folders /\ Torn \in Marks
      BY <1>0 DEF Steady, TypeOK, Marks
    <3>1. CASE at = "copy in" /\ UNCHANGED partial /\ \E f \in Files \ copied : staging' = [staging EXCEPT ![f] = Torn]
      <4>1. staging \in [Files -> Marks]
        BY <3>1 DEF IInv, StagedWhole, Folders
      <4> QED BY <3>1, <4>1 DEF Folders
    <3>2. CASE at = "copy out" /\ UNCHANGED staging /\ \E f \in Files \ copied : partial' = [partial EXCEPT ![f] = Torn]
      <4>1. partial \in [Files -> Marks]
        BY <3>2 DEF IInv, CopiedFiles, Folders
      <4> QED BY <3>2, <4>1 DEF Folders
    <3>3. CASE UNCHANGED <<staging, partial>>
      BY <3>3
    <3> QED BY <1>20, <3>1, <3>2, <3>3 DEF Crash
  <2> QED BY <1>0, <1>20, <2>1, <2>2, ReturnTypes
        DEF Crash, Steady, TypeOK, QueueThere, MovedToDir, Steps
<1>21. CASE UNCHANGED vars
  BY <1>0, <1>21 DEF vars, disk, work, Steady, TypeOK, QueueThere, MovedToDir
<1> QED
  BY <1>1, <1>2, <1>3, <1>4, <1>5, <1>6, <1>7, <1>8, <1>9, <1>10, <1>11, <1>12, <1>13, <1>14,
     <1>15, <1>16, <1>17, <1>18, <1>19, <1>20, <1>21 DEF Next
-----------------------------------------------------------------------------
(* What folders hold. *)

LEMMA ContentFacts ==
    ASSUME NEW folder \in Folders
    PROVE  /\ Content(NoFolder) = NoData
           /\ Content(folder) \in Versions \union {NoData, Broken, Mixed}
           /\ Content(Opened(folder)) = Content(folder)
           /\ \A left \in Leftovers(folder) : Content(left) \in {NoData, Content(folder)}
<1> USE ConstantsAssumption DEF Content, Has
<1>1. Content(NoFolder) = NoData
  OBVIOUS
<1>2. CASE folder = NoFolder
  BY <1>1, <1>2 DEF Opened, Leftovers, Files
<1>3. CASE folder # NoFolder
  <2>1. folder \in [Files -> Marks] /\ Opened(folder) = folder
    BY <1>3 DEF Folders, Opened
  <2>2. folder["sfo"] \in Marks /\ folder["data"] \in Marks
    BY <2>1 DEF Files
  <2>3. Content(folder) \in Versions \union {NoData, Broken, Mixed}
    BY <1>3, <2>2 DEF Marks
  <2>4. ASSUME NEW left \in Leftovers(folder) PROVE Content(left) \in {NoData, Content(folder)}
    <3>1. CASE left = NoFolder
      BY <1>1, <3>1
    <3>2. CASE left # NoFolder
      <4>1. PICK S \in SUBSET Files : left = [f \in Files |-> IF f \in S THEN folder[f] ELSE Missing]
        BY <1>3, <2>4, <3>2 DEF Leftovers
      <4>2. /\ left["sfo"] \in {folder["sfo"], Missing}
            /\ left["data"] \in {folder["data"], Missing}
        BY <4>1 DEF Files
      <4> QED BY <1>3, <3>2, <4>2
    <3> QED BY <3>1, <3>2
  <2> QED BY <1>1, <2>1, <2>3, <2>4
<1> QED BY <1>2, <1>3

LEMMA WholeCopy ==
    ASSUME NEW s \in Sources
    PROVE  /\ s \in Versions /\ s \notin Written
           /\ s \notin {Torn, Missing, NoData, Broken, Mixed, NoVersion}
           /\ Content([f \in Files |-> s]) = s
           /\ [f \in Files |-> s] # NoFolder /\ [f \in Files |-> s]["sfo"] = s
<1>1. s \in Versions /\ s \notin Written /\ s \notin {Torn, Missing, NoData, Broken, Mixed, NoVersion}
  BY ConstantsAssumption DEF Versions
<1>2. [f \in Files |-> s] \in [Files -> Marks]
  BY <1>1 DEF Marks
<1>3. [f \in Files |-> s] # NoFolder
  BY <1>2, ConstantsAssumption
<1>4. [f \in Files |-> s]["sfo"] = s /\ [f \in Files |-> s]["data"] = s
  BY DEF Files
<1> QED BY <1>1, <1>3, <1>4 DEF Content, Has

(* No version is seen in what is left of a folder that was not there.      *)
LEMMA StillNotSeen ==
    ASSUME NEW folder \in Folders, NEW v \in Versions, NotSeen(folder, v)
    PROVE  /\ NotSeen(Opened(folder), v)
           /\ \A left \in Leftovers(folder) : NotSeen(left, v)
<1>1. v # Missing
  BY ConstantsAssumption
<1>2. NotSeen(Opened(folder), v)
  BY <1>1 DEF NotSeen, Opened, Files
<1>3. ASSUME NEW left \in Leftovers(folder) PROVE NotSeen(left, v)
  <2>1. CASE folder = NoFolder \/ left = NoFolder
    BY <1>3, <2>1 DEF NotSeen, Leftovers
  <2>2. CASE folder # NoFolder /\ left # NoFolder
    <3>1. PICK S \in SUBSET Files : left = [f \in Files |-> IF f \in S THEN folder[f] ELSE Missing]
      BY <1>3, <2>2 DEF Leftovers
    <3>2. left["sfo"] \in {folder["sfo"], Missing}
      BY <3>1 DEF Files
    <3> QED BY <1>1, <2>2, <3>2 DEF NotSeen
  <2> QED BY <2>1, <2>2
<1> QED BY <1>2, <1>3
-----------------------------------------------------------------------------
(* The rest of the invariant. *)

LEMMA StagedStep ==
    ASSUME IInv, [Next]_vars
    PROVE  StagedWhole'
<1>1. Steady /\ StagedWhole
  BY DEF IInv
<1>2. \A s : NextImportIn(s) => at' \in {"idle", "import"} /\ copied' = {}
  BY DEF NextImportIn, Returns
<1>3. Returns => at' = "idle" /\ copied' = {}
  BY DEF Returns
<1>4. CASE BeginSave \/ WriteFile \/ WriteFails \/ DeleteSave
  BY <1>1, <1>3, <1>4
     DEF BeginSave, WriteFile, WriteFails, DeleteSave, Idle, work, disk, StagedWhole
<1>5. CASE BeginImport
  BY <1>1, <1>5 DEF BeginImport, Idle, StagedWhole
<1>6. CASE BeginCopyIn
  <2>1. PICK left \in Leftovers(staging) : staging' = Opened(left)
    BY <1>6 DEF BeginCopyIn
  <2>2. staging' # NoFolder
    BY <1>1, <2>1, FolderTypes DEF Steady, TypeOK
  <2> QED BY <1>1, <1>6, <2>2 DEF BeginCopyIn, StagedWhole
<1>7. CASE CopyIn
  <2>1. staging \in [Files -> Marks] /\ copied \subseteq Files /\ Head(queue) \in Marks
    <3>1. Head(queue) \in Sources
      BY <1>1, <1>7, HeadTailProperties DEF CopyIn, Steady, TypeOK, QueueThere
    <3> QED BY <1>1, <1>7, <3>1
          DEF CopyIn, Steady, TypeOK, StagedWhole, Folders, Marks, Versions
  <2>2. PICK f \in Files \ copied :
          staging' = [staging EXCEPT ![f] = Head(queue)] /\ copied' = copied \union {f}
    BY <1>7 DEF CopyIn
  <2>3. staging' \in [Files -> Marks] /\ staging' # NoFolder
    BY <2>1, <2>2, ConstantsAssumption
  <2>4. \A g \in copied' : staging'[g] = Head(queue)
    BY <1>1, <1>7, <2>1, <2>2 DEF CopyIn, StagedWhole
  <2> QED BY <1>7, <2>3, <2>4 DEF CopyIn, StagedWhole
<1>8. CASE NothingInTheWay \/ MoveAside
  <2>1. staging = [f \in Files |-> Head(queue)]
    <3>1. staging \in [Files -> Marks] /\ \A f \in Files : staging[f] = Head(queue)
      BY <1>1, <1>8
         DEF NothingInTheWay, MoveAside, CopiedIn, Steady, TypeOK, StagedWhole, Folders
    <3> QED BY <3>1
  <2>2. slot' = NoFolder /\ staging' = staging /\ queue' = queue /\ at' = "place"
    BY <1>8 DEF NothingInTheWay, MoveAside, disk
  <2> QED BY <2>1, <2>2 DEF StagedWhole
<1>9. CASE CopyInFails \/ AsideFails \/ Place \/ PlaceFails
  <2>1. at' \in {"idle", "import"} /\ copied' = {}
    BY <1>2, <1>9 DEF CopyInFails, AsideFails, Place, PlaceFails, NextImport
  <2> QED BY <2>1 DEF StagedWhole
<1>10. ASSUME NEW replace \in BOOLEAN, BeginBackUp(replace) PROVE StagedWhole'
  BY <1>10 DEF BeginBackUp, StagedWhole
<1>11. CASE CopyOut \/ CopyOutFails \/ RemoveOld \/ SwapIn \/ SwapFails
  BY <1>3, <1>11 DEF CopyOut, CopyOutFails, RemoveOld, CopiedOut, SwapIn, SwapFails, StagedWhole
<1>12. CASE Crash
  BY <1>3, <1>12 DEF Crash, StagedWhole
<1>13. CASE UNCHANGED vars
  BY <1>1, <1>13 DEF vars, disk, work, StagedWhole
<1> QED
  BY <1>4, <1>5, <1>6, <1>7, <1>8, <1>9, <1>10, <1>11, <1>12, <1>13 DEF Next

LEMMA CopiedStep ==
    ASSUME IInv, [Next]_vars
    PROVE  CopiedFiles'
<1>1. Steady /\ StagedWhole /\ CopiedFiles
  BY DEF IInv
<1>2. \A d : NextImportIn(d) => at' \in {"idle", "import"}
  BY DEF NextImportIn, Returns
<1>3. Returns => at' = "idle"
  BY DEF Returns
<1>4. CASE BeginSave \/ WriteFile \/ WriteFails \/ DeleteSave
  BY <1>3, <1>4 DEF BeginSave, WriteFile, WriteFails, DeleteSave, Idle, work, CopiedFiles
<1>5. CASE BeginImport \/ BeginCopyIn \/ CopyIn \/ NothingInTheWay \/ MoveAside
  BY <1>5 DEF BeginImport, BeginCopyIn, CopyIn, NothingInTheWay, MoveAside, CopiedFiles
<1>6. CASE CopyInFails \/ AsideFails \/ Place \/ PlaceFails
  BY <1>2, <1>6 DEF CopyInFails, AsideFails, Place, PlaceFails, NextImport, CopiedFiles
<1>7. ASSUME NEW replace \in BOOLEAN, BeginBackUp(replace) PROVE CopiedFiles'
  <2>1. PICK left \in Leftovers(partial) : partial' = Opened(left)
    BY <1>7 DEF BeginBackUp
  <2>2. partial' # NoFolder
    BY <1>1, <2>1, FolderTypes DEF Steady, TypeOK
  <2>3. copied' = {} /\ at' = "copy out"
    BY <1>1, <1>7 DEF BeginBackUp, Idle, StagedWhole
  <2> QED BY <2>2, <2>3 DEF CopiedFiles
<1>8. CASE CopyOut
  <2>1. PICK f \in Files \ copied :
          Has(slot, f) /\ partial' = [partial EXCEPT ![f] = slot[f]] /\ copied' = copied \union {f}
    BY <1>8 DEF CopyOut
  <2>2. partial \in [Files -> Marks] /\ copied \subseteq Files /\ slot[f] \in Marks
    BY <1>1, <1>8, <2>1 DEF CopyOut, CopiedFiles, Has, Steady, TypeOK, Folders
  <2>3. partial' \in [Files -> Marks] /\ partial' # NoFolder
    BY <2>1, <2>2, ConstantsAssumption
  <2>4. UNCHANGED <<slot, at>> /\ at = "copy out"
    BY <1>8 DEF CopyOut
  <2>5. \A g \in copied' : Has(slot', g) /\ partial'[g] = slot'[g]
    BY <1>1, <2>1, <2>2, <2>4 DEF CopiedFiles, Has
  <2> QED BY <2>3, <2>4, <2>5 DEF CopiedFiles
<1>9. CASE RemoveOld
  BY <1>3, <1>9 DEF RemoveOld, CopiedFiles
<1>10. CASE CopyOutFails \/ SwapIn \/ SwapFails \/ Crash
  BY <1>3, <1>10 DEF CopyOutFails, SwapIn, SwapFails, Crash, CopiedFiles
<1>11. CASE UNCHANGED vars
  BY <1>1, <1>11 DEF vars, disk, work, CopiedFiles, Has
<1> QED
  BY <1>4, <1>5, <1>6, <1>7, <1>8, <1>9, <1>10, <1>11 DEF Next
-----------------------------------------------------------------------------
(* What the steps of an import do to the save and to those moved aside. *)

LEMMA MovedAside ==
    ASSUME Steady, MoveAside
    PROVE  /\ \A i \in DOMAIN kept' :
                kept'[i] \in {slot, NoFolder} \/ (i \in DOMAIN kept /\ kept'[i] = kept[i])
           /\ \A i \in DOMAIN kept : kept[i] = NoFolder \/ (i \in DOMAIN kept' /\ kept'[i] = kept[i])
           /\ \E i \in DOMAIN kept' : kept'[i] = slot
<1>1. kept \in Seq(Folders) /\ dir \in 0 .. Len(kept) /\ slot \in Folders
  BY DEF Steady, TypeOK
<1>2. /\ KeptWithDir \in Seq(Folders) /\ DirMade \in 1 .. Len(KeptWithDir)
      /\ Len(kept) \in Nat /\ Len(KeptWithDir) \in Nat /\ Len(KeptWithDir) >= Len(kept)
  BY <1>1, KeptTypes, LenProperties
<1>3. /\ KeptWithDir[DirMade] = NoFolder
      /\ kept' = [KeptWithDir EXCEPT ![DirMade] = slot]
  BY DEF MoveAside, AsideFree
<1>4. /\ kept' \in Seq(Folders) /\ Len(kept') = Len(KeptWithDir)
      /\ \A i \in 1 .. Len(KeptWithDir) : kept'[i] = IF i = DirMade THEN slot ELSE KeptWithDir[i]
  BY <1>1, <1>2, <1>3, ExceptSeq
<1>5. DOMAIN kept = 1 .. Len(kept) /\ DOMAIN kept' = 1 .. Len(KeptWithDir)
  BY <1>1, <1>4, LenProperties
<1>6. /\ \A i \in 1 .. Len(kept) : KeptWithDir[i] = kept[i]
      /\ \A i \in 1 .. Len(KeptWithDir) : i \in 1 .. Len(kept) \/ KeptWithDir[i] = NoFolder
  BY <1>1, KeptTypes
<1>7. \A i \in 1 .. Len(kept) : i \in 1 .. Len(KeptWithDir)
  BY <1>2
<1> QED BY <1>2, <1>3, <1>4, <1>5, <1>6, <1>7

LEMMA AsideFailed ==
    ASSUME Steady, AsideFails
    PROVE  /\ \A i \in DOMAIN kept' : kept'[i] = NoFolder \/ (i \in DOMAIN kept /\ kept'[i] = kept[i])
           /\ \A i \in DOMAIN kept : i \in DOMAIN kept' /\ kept'[i] = kept[i]
<1>1. kept \in Seq(Folders) /\ dir \in 0 .. Len(kept)
  BY DEF Steady, TypeOK
<1>2. CASE UNCHANGED kept
  BY <1>2
<1>3. CASE kept' = KeptWithDir
  <2>1. KeptWithDir \in Seq(Folders) /\ Len(kept) \in Nat /\ Len(KeptWithDir) \in Nat /\ Len(KeptWithDir) >= Len(kept)
    BY <1>1, KeptTypes, LenProperties
  <2>2. DOMAIN kept = 1 .. Len(kept) /\ DOMAIN kept' = 1 .. Len(KeptWithDir)
    BY <1>1, <1>3, <2>1, LenProperties
  <2>3. /\ \A i \in 1 .. Len(kept) : KeptWithDir[i] = kept[i]
        /\ \A i \in 1 .. Len(KeptWithDir) : i \in 1 .. Len(kept) \/ KeptWithDir[i] = NoFolder
    BY <1>1, KeptTypes
  <2>4. \A i \in 1 .. Len(kept) : i \in 1 .. Len(KeptWithDir)
    BY <2>1
  <2> QED BY <1>3, <2>2, <2>3, <2>4
<1> QED BY <1>2, <1>3 DEF AsideFails

LEMMA PutBack ==
    ASSUME IInv, PlaceFails
    PROVE  /\ slot = NoFolder
           /\ \/ UNCHANGED <<slot, kept>>
              \/ /\ dir \in DOMAIN kept /\ slot' = kept[dir]
                 /\ DOMAIN kept' = DOMAIN kept
                 /\ \A i \in DOMAIN kept : kept'[i] = IF i = dir THEN NoFolder ELSE kept[i]
<1>1. slot = NoFolder
  BY DEF IInv, StagedWhole, PlaceFails
<1>2. CASE moved /\ slot' = kept[dir] /\ kept' = [kept EXCEPT ![dir] = NoFolder]
  <2>1. kept \in Seq(Folders) /\ dir \in 0 .. Len(kept) /\ dir # 0
    BY <1>2 DEF IInv, Steady, TypeOK, MovedToDir
  <2>2. Len(kept) \in Nat /\ DOMAIN kept = 1 .. Len(kept)
    BY <2>1, LenProperties
  <2>3. dir \in DOMAIN kept
    BY <2>1, <2>2
  <2> QED BY <1>1, <1>2, <2>3
<1>3. CASE UNCHANGED <<slot, kept>>
  BY <1>1, <1>3
<1> QED BY <1>2, <1>3 DEF PlaceFails, RestoreAside

LEMMA SavingStep ==
    ASSUME IInv, [Next]_vars
    PROVE  SavingVersion' /\ NotSeenYet'
<1>1. Steady /\ StagedWhole /\ SavingVersion /\ NotSeenYet
  BY DEF IInv
<1>2. \A d : NextImportIn(d) => at' \in {"idle", "import"} /\ version' \in {version, NoVersion}
  BY DEF NextImportIn, Returns
<1>3. Returns => at' = "idle" /\ version' = NoVersion
  BY DEF Returns
<1>4. Written \subseteq Versions /\ NoVersion \notin Versions /\ Torn \notin Versions
  BY ConstantsAssumption DEF Versions
<1>5. CASE BeginSave
  <2>1. PICK v \in Written \ used : version' = v /\ used' = used \union {v}
    BY <1>5 DEF BeginSave
  <2>2. slot \in Folders /\ slot' = Opened(slot)
    BY <1>1, <1>5 DEF BeginSave, Steady, TypeOK
  <2>3. slot' # NoFolder /\ \A w \in Written \ used : NotSeen(slot', w)
    BY <1>1, <1>4, <2>2, FolderTypes, StillNotSeen DEF NotSeenYet
  <2>4. SavingVersion'
    BY <1>4, <1>5, <2>1, <2>3 DEF BeginSave, SavingVersion, NotSeen
  <2>5. NotSeenYet'
    BY <1>1, <1>5, <2>1, <2>3 DEF BeginSave, NotSeenYet
  <2> QED BY <2>4, <2>5
<1>6. CASE WriteFile
  <2>1. /\ slot \in [Files -> Marks] /\ file \in Files /\ at = "save" /\ version \in Written \intersect used
        /\ slot # NoFolder
    BY <1>1, <1>6 DEF WriteFile, Steady, TypeOK, SavingVersion, Folders
  <2>2. PICK mark \in {version, Torn} : slot' = [slot EXCEPT ![file] = mark]
    BY <1>6 DEF WriteFile, FileWritten
  <2>3. mark \in Marks
    BY <2>1 DEF Marks, Versions
  <2>4. slot' \in [Files -> Marks] /\ slot' # NoFolder
    BY <2>1, <2>2, <2>3, ConstantsAssumption
  <2>5. SavingVersion'
    <3>1. CASE file = "sfo"
      BY <1>3, <1>6, <3>1 DEF WriteFile, SavingVersion
    <3>2. CASE file = "icon"
      <4>1. slot'["sfo"] = slot["sfo"] /\ file' = "data" /\ UNCHANGED <<at, version, used>>
        BY <1>6, <2>1, <2>2, <3>2 DEF WriteFile, After, Files
      <4> QED BY <1>1, <2>1, <2>4, <3>2, <4>1 DEF SavingVersion
    <3>3. CASE file = "data"
      <4>1. slot'["data"] = mark /\ file' = "sfo" /\ UNCHANGED <<at, version, used>>
        BY <1>6, <2>1, <2>2, <3>3 DEF WriteFile, After, Files
      <4> QED BY <1>1, <2>1, <2>4, <3>3, <4>1 DEF SavingVersion
    <3> QED BY <2>1, <3>1, <3>2, <3>3 DEF Files
  <2>6. slot'["sfo"] \in {slot["sfo"], mark}
    BY <2>1, <2>2 DEF Files
  <2>7. UNCHANGED <<used, kept>>
    BY <1>6 DEF WriteFile
  <2>8. ASSUME NEW w \in Written \ used PROVE NotSeen(slot', w)
    BY <1>1, <1>4, <2>1, <2>6 DEF NotSeenYet, NotSeen
  <2> QED BY <1>1, <2>5, <2>7, <2>8 DEF NotSeenYet
<1>7. CASE WriteFails \/ CopyOutFails \/ RemoveOld \/ SwapIn \/ SwapFails \/ Crash
  BY <1>1, <1>3, <1>7
     DEF WriteFails, CopyOutFails, RemoveOld, CopiedOut, SwapIn, SwapFails, Crash,
                          disk, SavingVersion, NotSeenYet
<1>8. CASE DeleteSave
  <2>1. slot \in Folders /\ slot' \in {NoFolder} \union Leftovers(slot)
    BY <1>1, <1>8 DEF DeleteSave, Removed, Steady, TypeOK
  <2>2. \A w \in Written \ used : NotSeen(slot', w)
    BY <1>1, <1>4, <2>1, StillNotSeen DEF NotSeenYet, NotSeen
  <2> QED BY <1>1, <1>8, <2>2 DEF DeleteSave, Idle, work, SavingVersion, NotSeenYet
<1>9. CASE BeginImport \/ BeginCopyIn \/ CopyIn \/ NothingInTheWay \/ CopyOut
  BY <1>1, <1>9 DEF BeginImport, BeginCopyIn, CopyIn, NothingInTheWay, CopiedIn, CopyOut, Idle,
                    disk, SavingVersion, NotSeenYet
<1>10. CASE MoveAside
  <2>1. at = "copy in" /\ at' = "place" /\ slot' = NoFolder /\ UNCHANGED <<version, used, file>>
    BY <1>10 DEF MoveAside, CopiedIn
  <2>2. ASSUME NEW w \in Written \ used, NEW i \in DOMAIN kept' PROVE NotSeen(kept'[i], w)
    BY <1>1, <1>10, MovedAside DEF NotSeenYet, NotSeen
  <2> QED BY <1>1, <2>1, <2>2 DEF SavingVersion, NotSeenYet, NotSeen
<1>11. CASE AsideFails
  <2>1. /\ at = "copy in" /\ at' \in {"idle", "import"} /\ version' \in {version, NoVersion}
        /\ UNCHANGED <<slot, used>>
    BY <1>2, <1>11 DEF AsideFails, CopiedIn, NextImport
  <2>2. ASSUME NEW w \in Written \ used, NEW i \in DOMAIN kept' PROVE NotSeen(kept'[i], w)
    BY <1>1, <1>11, AsideFailed DEF NotSeenYet, NotSeen
  <2> QED BY <1>1, <2>1, <2>2 DEF SavingVersion, NotSeenYet
<1>12. CASE CopyInFails
  BY <1>1, <1>2, <1>12 DEF CopyInFails, NextImport, SavingVersion, NotSeenYet
<1>13. CASE Place
  <2>1. /\ at = "place" /\ at' \in {"idle", "import"} /\ version' \in {version, NoVersion}
        /\ slot' = staging /\ UNCHANGED <<kept, used>>
    BY <1>2, <1>13 DEF Place, NextImport
  <2>2. Head(queue) \in Sources /\ slot' = [f \in Files |-> Head(queue)]
    BY <1>1, <2>1, HeadTailProperties DEF Steady, TypeOK, QueueThere, StagedWhole
  <2>3. \A w \in Written \ used : NotSeen(slot', w)
    BY <2>2, WholeCopy DEF NotSeen
  <2> QED BY <1>1, <2>1, <2>3 DEF SavingVersion, NotSeenYet
<1>14. CASE PlaceFails
  <2>1. /\ at = "place" /\ at' \in {"idle", "import"} /\ version' \in {version, NoVersion}
        /\ UNCHANGED used
    BY <1>2, <1>14 DEF PlaceFails, NextImport
  <2>2. \A w \in Written \ used : NotSeen(slot', w) /\ \A i \in DOMAIN kept' : NotSeen(kept'[i], w)
    BY <1>1, <1>14, PutBack DEF NotSeenYet, NotSeen
  <2> QED BY <1>1, <2>1, <2>2 DEF SavingVersion, NotSeenYet
<1>15. ASSUME NEW replace \in BOOLEAN, BeginBackUp(replace) PROVE SavingVersion' /\ NotSeenYet'
  BY <1>1, <1>15 DEF BeginBackUp, Idle, SavingVersion, NotSeenYet
<1>16. CASE UNCHANGED vars
  BY <1>1, <1>16 DEF vars, disk, work, SavingVersion, NotSeenYet
<1> QED
  BY <1>5, <1>6, <1>7, <1>8, <1>9, <1>10, <1>11, <1>12, <1>13, <1>14, <1>15, <1>16 DEF Next
-----------------------------------------------------------------------------
LEMMA InvInit == Init => IInv
<1> SUFFICES ASSUME Init PROVE IInv
  OBVIOUS
<1>1. NoFolder \in Folders /\ <<>> \in Seq(Folders) /\ <<>> \in Seq(Sources) /\ Len(<<>>) = 0
  BY EmptySeq DEF Folders
<1>2. MaxFaults \in Nat
  BY ConstantsAssumption
<1>3. Steady
  <2>1. dir \in 0 .. Len(kept) /\ faults \in 0 .. MaxFaults
    BY <1>1, <1>2 DEF Init
  <2>2. at \in Steps /\ file \in Files /\ copied \subseteq Files /\ used \subseteq Written
    BY DEF Init, Steps, Files
  <2>3. kept \in Seq(Folders) /\ queue \in Seq(Sources)
    BY <1>1 DEF Init
  <2> QED BY <1>1, <2>1, <2>2, <2>3 DEF Init, Steady, TypeOK, QueueThere, MovedToDir
<1>4. NotSeenYet
  BY DEF Init, NotSeenYet, NotSeen
<1> QED BY <1>3, <1>4 DEF Init, IInv, StagedWhole, SavingVersion, CopiedFiles

LEMMA InvStep == IInv /\ [Next]_vars => IInv'
BY SteadyStep, StagedStep, CopiedStep, SavingStep DEF IInv

LEMMA Invariant == Spec => []IInv
BY InvInit, InvStep, PTL DEF Spec

(* Every variable of the folders and of the operation under way keeps to   *)
(* its values, whatever fails and wherever the program ends.               *)
THEOREM SaveDataTypeCorrect == Spec => []TypeOK
<1>1. IInv => TypeOK
  BY DEF IInv, Steady
<1> QED BY <1>1, Invariant, PTL

(* A backup that loses a file has a complete copy beside it: the program   *)
(* may end at any step of a backup, of any saves.                          *)
THEOREM BackupReplacedWhole == Spec => ReplacedWhole
<1>1. ASSUME IInv, [Next]_vars, Loses(backup, backup') PROVE CopyOf(partial)
  <2>1. backup' # backup
    BY <1>1 DEF Loses
  <2>2. RemoveOld \/ SwapIn
    BY <1>1, <2>1
       DEF Next, vars, disk, BeginSave, WriteFile, WriteFails, DeleteSave, BeginImport,
           BeginCopyIn,
          CopyIn, CopyInFails, NothingInTheWay, MoveAside, AsideFails, Place, PlaceFails, BeginBackUp,
          CopyOut, CopyOutFails, SwapFails, Crash
  <2>3. CASE RemoveOld
    BY <1>1, <2>3 DEF RemoveOld, CopiedOut, CopyOf, IInv, CopiedFiles
  <2>4. CASE SwapIn
    BY <1>1, <2>4 DEF SwapIn, Loses, Has, IInv, CopiedFiles
  <2> QED BY <2>2, <2>3, <2>4
<1>2. IInv /\ [Next]_vars => [Loses(backup, backup') => CopyOf(partial)]_vars
  BY <1>1
<1> QED BY <1>2, Invariant, PTL DEF Spec, ReplacedWhole

(* While an import runs a save leaves its place only for another, whatever *)
(* fails: each version of which there is a whole copy, in use or below     *)
(* .backup, stays so.                                                      *)
THEOREM ImportLosesNothing == Spec => NothingLost
<1>1. ASSUME IInv, [Next]_vars, Importing, NEW x \in Held PROVE x \in Held'
  <2>1. x \in Versions /\ (x = Content(slot) \/ \E i \in DOMAIN kept : x = Content(kept[i]))
    BY <1>1 DEF Held
  <2>2. Content(NoFolder) = NoData /\ NoData \notin Versions
    BY ContentFacts, ConstantsAssumption DEF Folders
  <2>3. SUFFICES x = Content(slot') \/ \E i \in DOMAIN kept' : x = Content(kept'[i])
    BY <2>1 DEF Held, Content, Has
  <2>4. CASE UNCHANGED <<slot, kept>>
    BY <2>1, <2>4
  <2>5. CASE MoveAside
    BY <1>1, <2>1, <2>2, <2>5, MovedAside DEF IInv
  <2>6. CASE AsideFails
    <3>1. slot' = slot
      BY <2>6 DEF AsideFails
    <3> QED BY <1>1, <2>1, <2>6, <3>1, AsideFailed DEF IInv
  <2>7. CASE Place
    BY <1>1, <2>1, <2>2, <2>7 DEF Place, IInv, StagedWhole
  <2>8. CASE PlaceFails
    BY <1>1, <2>1, <2>2, <2>8, PutBack
  <2> QED
    BY <1>1, <2>4, <2>5, <2>6, <2>7, <2>8
       DEF Next, vars, disk, Importing, Idle, BeginSave, WriteFile, WriteFails,
          DeleteSave, BeginImport, BeginCopyIn, CopyIn, CopyInFails, NothingInTheWay, BeginBackUp,
          CopyOut, CopyOutFails, RemoveOld, CopiedOut, SwapIn, SwapFails, Crash
<1>2. IInv /\ [Next]_vars => [Importing => Held \subseteq Held']_vars
  BY <1>1
<1> QED BY <1>2, Invariant, PTL DEF Spec, NothingLost

-----------------------------------------------------------------------------
(* The files implement the save slot. *)

LEMMA SlotInit == Init => Slot!Init
BY ContentFacts DEF Init, Slot!Init, Folders

(* Data that is not what PARAM.SFO was written with, over whatever was     *)
(* there: the save is as a spoilt one, or there is still none.             *)
LEMMA Overwritten ==
    ASSUME NEW before \in [Files -> Marks], NEW after \in [Files -> Marks],
           before # NoFolder, after # NoFolder,
           after["sfo"] = before["sfo"],
           after["data"] = Torn \/ (after["data"] \in Written /\ after["data"] # after["sfo"])
    PROVE  Content(after) \in Slot!Spoilt(Content(before)) \/ Content(after) = Content(before)
<1>1. /\ before["sfo"] \in Marks /\ before["data"] \in Marks
      /\ after["data"] # Missing /\ Torn # Missing
      /\ Unchecked \subseteq Versions
  BY ConstantsAssumption DEF Files, Versions
<1>2. /\ Torn \notin Versions /\ Missing \notin Versions /\ NoData \notin Versions
      /\ Broken \notin Versions /\ Mixed \notin Versions /\ Mixed # Broken /\ Mixed # NoData
      /\ NoData # Broken
  BY ConstantsAssumption
<1>3. CASE before["sfo"] = Missing
  BY <1>3 DEF Content, Has
<1>4. CASE before["sfo"] = Torn
  <2>1. Content(after) = Broken
    BY <1>1, <1>2, <1>4 DEF Content, Has
  <2>2. Content(before) \in {NoData, Broken}
    BY <1>1, <1>2, <1>4 DEF Content, Has
  <2>3. NoData \notin Unchecked \union {Mixed} /\ Broken \notin Unchecked \union {Mixed}
    BY <1>1, <1>2
  <2> QED BY <2>1, <2>2, <2>3 DEF Slot!Spoilt
<1>5. CASE before["sfo"] \in Unchecked
  <2>1. Content(after) = Mixed
    BY <1>1, <1>2, <1>5 DEF Content, Has
  <2>2. Content(before) \in Unchecked \union {NoData, Mixed}
    BY <1>1, <1>2, <1>5 DEF Content, Has
  <2>3. NoData \notin Unchecked \union {Mixed}
    BY <1>1, <1>2
  <2> QED BY <1>5, <2>1, <2>2, <2>3 DEF Slot!Spoilt
<1>6. CASE before["sfo"] \in Versions \ Unchecked
  <2>1. Content(after) = Broken
    BY <1>1, <1>2, <1>6 DEF Content, Has
  <2>2. Content(before) \in (Versions \ Unchecked) \union {NoData, Broken}
    BY <1>1, <1>2, <1>6 DEF Content, Has
  <2>3. Content(before) \notin Unchecked \union {Mixed}
    BY <1>1, <1>2, <2>2
  <2> QED BY <2>1, <2>3 DEF Slot!Spoilt
<1> QED BY <1>1, <1>3, <1>4, <1>5, <1>6 DEF Marks

LEMMA SlotStep ==
    ASSUME IInv, [Next]_vars
    PROVE  [Slot!Next]_(Slot!vars)
<1> DEFINE aside(k) == {Content(k[i]) : i \in DOMAIN k} \ {NoData}
<1>1. Steady /\ StagedWhole /\ SavingVersion /\ NotSeenYet
  BY DEF IInv
<1>2. \A d : NextImportIn(d) => version' \in {version, NoVersion}
  BY DEF NextImportIn, Returns
<1>3. Returns => version' = NoVersion
  BY DEF Returns
<1>4. at # "save" => version = NoVersion
  BY <1>1 DEF SavingVersion
<1>5. CASE UNCHANGED <<slot, kept, version>>
  BY <1>5 DEF Slot!vars, Content, Has
<1>6. CASE BeginSave
  <2>1. PICK v \in Written : version' = v
    BY <1>6 DEF BeginSave
  <2>2. Content(slot') = Content(slot)
    BY <1>1, <1>6, ContentFacts DEF BeginSave, Steady, TypeOK
  <2>3. version = NoVersion /\ kept' = kept
    BY <1>4, <1>6 DEF BeginSave, Idle
  <2> QED BY <2>1, <2>2, <2>3 DEF Slot!Next, Slot!Begin, Content, Has
<1>7. CASE WriteFile
  <2>1. /\ slot \in [Files -> Marks] /\ file \in Files /\ at = "save" /\ version \in Written
        /\ slot # NoFolder /\ version # NoVersion /\ kept' = kept
    BY <1>1, <1>7 DEF WriteFile, Steady, TypeOK, SavingVersion, Folders
  <2>2. PICK mark \in {version, Torn} : slot' = [slot EXCEPT ![file] = mark]
    BY <1>7 DEF WriteFile, FileWritten
  <2>3. /\ version \notin {Missing, Torn, NoData, Broken} /\ Torn # Missing
        /\ Torn \in Marks /\ version \in Marks
    BY <2>1, ConstantsAssumption DEF Versions, Marks
  <2>4. slot' \in [Files -> Marks] /\ slot' # NoFolder
    BY <2>1, <2>2, <2>3, ConstantsAssumption
  <2>5. CASE file = "icon"
    <3>1. slot'["sfo"] = slot["sfo"] /\ slot'["data"] = slot["data"] /\ version' = version
      BY <1>7, <2>1, <2>2, <2>5 DEF WriteFile, Files
    <3>2. Content(slot') = Content(slot)
      BY <2>1, <2>4, <3>1 DEF Content, Has
    <3> QED BY <2>1, <3>1, <3>2 DEF Slot!vars
  <2>6. CASE file = "data"
    <3>1. /\ slot'["sfo"] = slot["sfo"] /\ slot'["data"] = mark /\ version' = version
          /\ slot["sfo"] # version
      BY <1>1, <1>7, <2>1, <2>2, <2>6 DEF WriteFile, Files, SavingVersion
    <3>2. Content(slot') \in Slot!Spoilt(Content(slot)) \/ Content(slot') = Content(slot)
      BY <2>1, <2>2, <2>3, <2>4, <3>1, Overwritten
    <3> QED BY <2>1, <3>1, <3>2 DEF Slot!vars, Slot!Next, Slot!Break
  <2>7. CASE file = "sfo"
    <3>1. /\ slot'["sfo"] = mark /\ slot'["data"] = slot["data"] /\ version' = NoVersion
          /\ slot["data"] \in {version, Torn}
      BY <1>1, <1>3, <1>7, <2>1, <2>2, <2>7 DEF WriteFile, Files, SavingVersion
    <3>2. Content(slot') \in {version, Broken} \union Slot!Spoilt(version)
      BY <2>1, <2>2, <2>3, <2>4, <3>1, ConstantsAssumption DEF Content, Has, Slot!Spoilt
    <3> QED BY <2>1, <3>1, <3>2 DEF Slot!Next, Slot!Complete
  <2> QED BY <2>1, <2>5, <2>6, <2>7 DEF Files
<1>8. CASE (WriteFails \/ Crash) /\ version # NoVersion
  <2>1. UNCHANGED <<slot, kept>> /\ version' = NoVersion
    BY <1>3, <1>8 DEF WriteFails, Crash, disk
  <2> QED BY <1>8, <2>1 DEF Slot!Next, Slot!Stop
<1>9. CASE DeleteSave
  <2>1. slot \in Folders /\ slot' \in {NoFolder} \union Leftovers(slot)
    BY <1>1, <1>9 DEF DeleteSave, Removed, Steady, TypeOK
  <2>2. Content(slot') \in {NoData, Content(slot)}
    BY <2>1, ContentFacts
  <2>3. version = NoVersion /\ UNCHANGED <<kept, version>>
    BY <1>4, <1>9 DEF DeleteSave, Idle, work
  <2> QED BY <2>2, <2>3 DEF Slot!vars, Slot!Next, Slot!Remove
<1>10. CASE MoveAside
  <2>1. version = NoVersion /\ version' = version /\ slot' = NoFolder
    BY <1>4, <1>10 DEF MoveAside, CopiedIn
  <2>2. Content(NoFolder) = NoData
    BY ContentFacts DEF Folders
  <2>3. aside(kept') = aside(kept) \union ({Content(slot)} \ {NoData})
    BY <1>1, <1>10, <2>2, MovedAside
  <2> QED BY <2>1, <2>2, <2>3 DEF Slot!Next, Slot!MoveAside
<1>11. CASE AsideFails
  <2>1. version' = version /\ slot' = slot
    BY <1>2, <1>4, <1>11 DEF AsideFails, CopiedIn, NextImport
  <2>2. Content(NoFolder) = NoData
    BY ContentFacts DEF Folders
  <2>3. aside(kept') = aside(kept)
    BY <1>1, <1>11, <2>2, AsideFailed
  <2> QED BY <2>1, <2>3 DEF Slot!vars
<1>12. CASE Place
  <2>1. /\ at = "place" /\ version = NoVersion /\ version' = version
        /\ slot = NoFolder /\ slot' = staging /\ kept' = kept
    BY <1>1, <1>2, <1>4, <1>12 DEF Place, NextImport, StagedWhole
  <2>2. Head(queue) \in Sources /\ slot' = [f \in Files |-> Head(queue)]
    BY <1>1, <2>1, HeadTailProperties DEF Steady, TypeOK, QueueThere, StagedWhole
  <2>3. Content(slot) = NoData /\ Content(slot') = Head(queue)
    BY <2>1, <2>2, WholeCopy, ContentFacts DEF Folders
  <2> QED BY <2>1, <2>2, <2>3 DEF Slot!Next, Slot!Place
<1>13. CASE PlaceFails
  <2>1. at = "place" /\ version = NoVersion /\ version' = version
    BY <1>2, <1>4, <1>13 DEF PlaceFails, NextImport
  <2>2. Content(NoFolder) = NoData
    BY ContentFacts DEF Folders
  <2>3. CASE UNCHANGED <<slot, kept>>
    BY <1>5, <2>1, <2>3
  <2>4. CASE /\ dir \in DOMAIN kept /\ slot' = kept[dir] /\ DOMAIN kept' = DOMAIN kept
             /\ \A i \in DOMAIN kept : kept'[i] = IF i = dir THEN NoFolder ELSE kept[i]
    <3>1. slot = NoFolder
      BY <1>13, PutBack
    <3>2. CASE Content(kept[dir]) = NoData
      <4>1. aside(kept') = aside(kept)
        BY <2>2, <2>4, <3>2
      <4> QED BY <2>1, <2>2, <2>4, <3>1, <3>2, <4>1 DEF Slot!vars
    <3>3. CASE Content(kept[dir]) # NoData
      <4>1. Content(kept[dir]) \in aside(kept)
        BY <2>4, <3>3
      <4>2. aside(kept') \in {aside(kept), aside(kept) \ {Content(kept[dir])}}
        BY <2>2, <2>4
      <4> QED BY <2>1, <2>2, <2>4, <3>1, <4>1, <4>2 DEF Slot!Next, Slot!PutBack
    <3> QED BY <3>2, <3>3
  <2> QED BY <1>13, <2>3, <2>4, PutBack
<1>14. CASE CopyInFails
  <2>1. at = "copy in" /\ UNCHANGED <<slot, kept>> /\ version' \in {version, NoVersion}
    BY <1>2, <1>14 DEF CopyInFails, NextImport
  <2> QED BY <1>4, <1>5, <2>1
<1>15. CASE CopyOutFails \/ RemoveOld \/ SwapIn \/ SwapFails
  <2>1. at \in {"copy out", "swap"} /\ UNCHANGED <<slot, kept>> /\ version' \in {version, NoVersion}
    BY <1>3, <1>15 DEF CopyOutFails, RemoveOld, CopiedOut, SwapIn, SwapFails, disk
  <2> QED BY <1>4, <1>5, <2>1
<1>16. CASE (WriteFails \/ Crash) /\ version = NoVersion
  <2>1. UNCHANGED <<slot, kept>> /\ version' = NoVersion
    BY <1>3, <1>16 DEF WriteFails, Crash, disk
  <2> QED BY <1>5, <1>16, <2>1
<1>17. CASE BeginImport \/ BeginCopyIn \/ CopyIn \/ NothingInTheWay \/ CopyOut
  BY <1>5, <1>17 DEF BeginImport, BeginCopyIn, CopyIn, NothingInTheWay, CopyOut, disk
<1>18. ASSUME NEW replace \in BOOLEAN, BeginBackUp(replace) PROVE [Slot!Next]_(Slot!vars)
  BY <1>5, <1>18 DEF BeginBackUp
<1>19. CASE UNCHANGED vars
  BY <1>5, <1>19 DEF vars, disk, work
<1> QED
  BY <1>6, <1>7, <1>8, <1>9, <1>10, <1>11, <1>12, <1>13, <1>14, <1>15, <1>16, <1>17, <1>18,
     <1>19
     DEF Next

(* The files, written, moved and removed one at a time with failures and   *)
(* ends of the program in between, implement the slot of SaveSlot: the     *)
(* initial states are those of an empty slot, and every step is a step of  *)
(* the slot or changes nothing of it.                                      *)
THEOREM FilesImplementSlot == Spec => SlotSpec
BY SlotInit, SlotStep, Invariant, PTL DEF Spec, SlotSpec, Slot!Spec
=============================================================================
