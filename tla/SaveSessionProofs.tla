-------------------------- MODULE SaveSessionProofs --------------------------
(***************************************************************************)
(* For any number of requests of the game: no dialog and no input is left  *)
(* held without somebody to let go of it, and what lies in the slot is a   *)
(* whole state of a game the host holds nothing for.                       *)
(***************************************************************************)
EXTENDS SaveSession, TLAPS

(* A game that polls has a dialog to poll, and one that was told QUIT has  *)
(* a dialog to shut down: a state put back is of a game that does neither. *)
Polled == /\ game.at = "polls" => dialogs[game.kind].status \in {"init", "visible", "quit"}
          /\ game.at = "closes" => dialogs[game.kind].status = "quit"

(* What is being written is of such a game, and closed when all written. *)
ShotIsQuiet == writing.shot.game.at \in {"plays", "leaves"} /\ ~writing.shot.busy
WholeIsClosed == writing.step = "closed" => writing.whole

(* A keyboard that is open or answered belongs to a dialog not yet over. *)
KeyboardAwaited == keyboard # "none" => dialogs["osk"].status \in {"init", "visible"}
HeldInv == HeldIsPending /\ KeyboardAwaited

QuietInv == Polled /\ ShotIsQuiet /\ SavedIsQuiet
-----------------------------------------------------------------------------
LEMMA DialogTypes ==
    /\ Start \in DialogStates /\ Hold \in DialogStates /\ Gone \in DialogStates
    /\ \A d \in DialogStates :
          Advanced(d) \in DialogStates /\ Release(d) \in DialogStates /\ Shut(d) \in DialogStates
<1>1. Start \in DialogStates /\ Hold \in DialogStates /\ Gone \in DialogStates
  BY DEF Start, Hold, Gone, DialogStates
<1>2. ASSUME NEW d \in DialogStates PROVE Advanced(d) \in DialogStates
  BY DEF Advanced, DialogStates
<1>3. ASSUME NEW d \in DialogStates PROVE Release(d) \in DialogStates /\ Shut(d) \in DialogStates
  BY DEF Release, Shut, Active, DialogStates
<1> QED BY <1>1, <1>2, <1>3

LEMMA RecordTypes ==
    /\ Playing \in Games /\ Empty \in States /\ NotWriting \in Writes /\ NoPending \in Requests
    /\ NoDialogs \in [Kinds -> DialogStates] /\ NotRestored \in [Sections -> 0 .. MaxSaves]
<1>1. Playing \in Games /\ NoPending \in Requests
  BY SessionAssumption DEF Playing, Games, Kinds, NoPending, Requests
<1>2. Empty \in States
  BY <1>1, SessionAssumption DEF Empty, States
<1>3. NotWriting \in Writes
  BY <1>2 DEF NotWriting, Writes
<1>4. NoDialogs \in [Kinds -> DialogStates]
  BY DialogTypes DEF NoDialogs
<1>5. NotRestored \in [Sections -> 0 .. MaxSaves]
  BY SessionAssumption DEF NotRestored
<1> QED BY <1>1, <1>2, <1>3, <1>4, <1>5

LEMMA TypeStep ==
    ASSUME TypeOK, [Next]_vars
    PROVE  TypeOK'
<1> USE SessionAssumption, DialogTypes, RecordTypes
<1>1. CASE SavedataListStart
  <2>1. game' \in Games
    BY <1>1 DEF SavedataListStart, Asks, Games, Kinds
  <2>2. latest' \in 1 .. MaxRequests
    BY <1>1 DEF SavedataListStart, TypeOK
  <2>3. pending' \in Requests /\ pending'.request # 0 /\ pending'.is # "none"
    BY <1>1, <2>2 DEF SavedataListStart, Requests
  <2>4. dialogs' \in [Kinds -> DialogStates]
    BY <1>1 DEF SavedataListStart, TypeOK
  <2>5. latest' \in 0 .. MaxRequests /\ worked' \in 0 .. MaxRequests
    BY <1>1, <2>2 DEF SavedataListStart, TypeOK
  <2>6. pending'.request = 0 <=> pending'.is = "none"
    BY <2>3
  <2>7. /\ busy' \in BOOLEAN /\ list' \in {"closed", "open", "drawn"} /\ input' \in BOOLEAN
        /\ keyboard' \in {"none", "open", "answered"}
    BY <1>1 DEF SavedataListStart, TypeOK
  <2>8. /\ key' \in {"none", "save", "load"} /\ writing' \in Writes
        /\ slot' \in States /\ parts' \in [Sections -> 0 .. MaxSaves]
    BY <1>1 DEF SavedataListStart, TypeOK, stateVars
  <2> QED BY <2>1, <2>3, <2>4, <2>5, <2>6, <2>7, <2>8 DEF TypeOK
<1>2. CASE SavedataInitStart
  BY <1>2
     DEF SavedataInitStart, Asks, Games, Kinds, TypeOK, guestVars, hostVars, requestVars,
         stateVars
<1>3. CASE MsgDialogInitStart
  BY <1>3
     DEF MsgDialogInitStart, Asks, Games, Kinds, TypeOK, guestVars, hostVars, requestVars,
         stateVars
<1>4. CASE OskInitStart
  BY <1>4
     DEF OskInitStart, Asks, Games, Kinds, TypeOK, guestVars, hostVars, requestVars, stateVars
<1>5. CASE SavedataShutdownStart
  BY <1>5
     DEF SavedataShutdownStart, Cancel, Games, Kinds, Requests, NoPending, TypeOK, guestVars,
         hostVars, requestVars, stateVars
<1>6. CASE MsgDialogShutdownStart
  BY <1>6
     DEF MsgDialogShutdownStart, Games, Kinds, TypeOK, guestVars, hostVars, requestVars,
         stateVars
<1>7. CASE OskShutdownStart
  BY <1>7
     DEF OskShutdownStart, Games, Kinds, TypeOK, guestVars, hostVars, requestVars, stateVars
<1>8. CASE Occupies
  BY <1>8 DEF Occupies, TypeOK, guestVars, hostVars, requestVars, stateVars
<1>9. CASE PollSettles
  BY <1>9
     DEF PollSettles, Cancel, Reads, Games, Kinds, Requests, NoPending, TypeOK, guestVars,
         hostVars, requestVars, stateVars
<1>10. CASE PollSavedata
  BY <1>10
     DEF PollSavedata, Reads, Games, Kinds, TypeOK, guestVars, hostVars, requestVars, stateVars
<1>11. CASE PollMsg
  BY <1>11 DEF PollMsg, Reads, Games, Kinds, TypeOK, guestVars, hostVars, requestVars, stateVars
<1>12. CASE PollOsk
  BY <1>12 DEF PollOsk, Reads, Games, Kinds, TypeOK, guestVars, hostVars, requestVars, stateVars
<1>13. CASE PlayerPicks
  BY <1>13
     DEF PlayerPicks, Cancel, Requests, Unanswered, TypeOK, guestVars, hostVars, requestVars,
         stateVars
<1>14. CASE PlayerTypes
  BY <1>14 DEF PlayerTypes, TypeOK, guestVars, hostVars, requestVars, stateVars
<1>15. CASE PlayerPresses
  BY <1>15 DEF PlayerPresses, TypeOK, guestVars, hostVars, requestVars, stateVars
<1>16. CASE GraceEnds
  BY <1>16 DEF GraceEnds, Requests, TypeOK, guestVars, hostVars, requestVars, stateVars
<1>17. CASE NothingDrawn
  BY <1>17 DEF NothingDrawn, TypeOK, guestVars, hostVars, requestVars, stateVars
<1>18. CASE Frame
  BY <1>18 DEF Frame, Drawn, TypeOK, guestVars, hostVars, requestVars, stateVars
<1>19. CASE FrameSaves
  BY <1>19
     DEF FrameSaves, Drawn, Stamp, Writes, States, TypeOK, guestVars, hostVars, requestVars,
         stateVars
<1>20. CASE FrameRefuses
  BY <1>20 DEF FrameRefuses, Drawn, TypeOK, guestVars, hostVars, requestVars, stateVars
<1>21. CASE FrameLoads
  BY <1>21 DEF FrameLoads, Drawn, States, TypeOK, guestVars, hostVars, requestVars, stateVars
<1>22. CASE ClosePart
  BY <1>22 DEF ClosePart, Writes, TypeOK, guestVars, hostVars, requestVars, stateVars
<1>23. CASE WriteFails
  BY <1>23 DEF WriteFails, TypeOK, guestVars, hostVars, requestVars, stateVars
<1>24. CASE PutInPlace
  BY <1>24 DEF PutInPlace, Writes, States, TypeOK, guestVars, hostVars, requestVars, stateVars
<1>25. CASE Damaged
  BY <1>25 DEF Damaged, States, Sections, TypeOK, guestVars, hostVars, requestVars, stateVars
<1>26. CASE Killed
  <2>1. game' \in Games /\ busy' \in BOOLEAN /\ dialogs' \in [Kinds -> DialogStates]
    BY <1>26 DEF Killed
  <2>2. pending' \in Requests /\ (pending'.request = 0 <=> pending'.is = "none")
    BY <1>26 DEF Killed, NoPending
  <2>3. writing' \in Writes /\ slot' \in States /\ parts' \in [Sections -> 0 .. MaxSaves]
    BY <1>26 DEF Killed, TypeOK
  <2>4. latest' \in 0 .. MaxRequests /\ worked' \in 0 .. MaxRequests
    BY <1>26 DEF Killed
  <2> QED BY <1>26, <2>1, <2>2, <2>3, <2>4 DEF Killed, TypeOK
<1>27. CASE UNCHANGED vars
  BY <1>27 DEF vars, TypeOK, guestVars, hostVars, requestVars, stateVars
<1> QED BY <1>1, <1>2, <1>3, <1>4, <1>5, <1>6, <1>7, <1>8, <1>9, <1>10, <1>11, <1>12, <1>13,
      <1>14, <1>15, <1>16, <1>17, <1>18, <1>19, <1>20, <1>21, <1>22, <1>23, <1>24, <1>25, <1>26,
      <1>27
      DEF Next, Game, Poll, Player, Display, WriteFile

(* Every variable of a session keeps to its values, for any bounds. *)
THEOREM SessionTypeCorrect == Spec => []TypeOK
<1>1. Init => TypeOK
  <2> SUFFICES ASSUME Init PROVE TypeOK
    OBVIOUS
  <2>1. game \in Games /\ busy \in BOOLEAN /\ dialogs \in [Kinds -> DialogStates]
    BY RecordTypes DEF Init
  <2>2. pending \in Requests /\ (pending.request = 0 <=> pending.is = "none")
    BY RecordTypes DEF Init, NoPending
  <2>3. writing \in Writes /\ slot \in States /\ parts \in [Sections -> 0 .. MaxSaves]
    BY RecordTypes DEF Init
  <2>4. latest \in 0 .. MaxRequests /\ worked \in 0 .. MaxRequests
    BY SessionAssumption DEF Init
  <2> QED BY <2>1, <2>2, <2>3, <2>4 DEF Init, TypeOK
<1> QED BY <1>1, TypeStep, PTL DEF Spec
-----------------------------------------------------------------------------
LEMMA HeldStep ==
    ASSUME TypeOK, HeldInv, [Next]_vars
    PROVE  HeldInv'
<1>1. CASE SavedataListStart
  BY <1>1
     DEF SavedataListStart, Asks, Hold, Start, HeldInv, KeyboardAwaited, HeldIsPending,
         Unanswered, TypeOK, Kinds, NoPending, guestVars, hostVars, requestVars, stateVars
<1>2. CASE SavedataInitStart
  BY <1>2
     DEF SavedataInitStart, Asks, Start, HeldInv, KeyboardAwaited, HeldIsPending, Unanswered,
         TypeOK, Kinds, NoPending, guestVars, hostVars, requestVars, stateVars
<1>3. CASE MsgDialogInitStart
  BY <1>3
     DEF MsgDialogInitStart, Asks, Start, HeldInv, KeyboardAwaited, HeldIsPending, Unanswered,
         TypeOK, Kinds, NoPending, guestVars, hostVars, requestVars, stateVars
<1>4. CASE OskInitStart
  <2>1. /\ dialogs'["savedata"] = dialogs["savedata"]
        /\ dialogs'["osk"].status = "init"
        /\ UNCHANGED <<pending, list>>
    BY <1>4 DEF OskInitStart, TypeOK, Kinds, Start
  <2>2. keyboard = "none"
    BY <1>4 DEF OskInitStart, HeldInv, KeyboardAwaited, Active
  <2>3. ~input' => ~input \/ keyboard' = "open"
    BY <1>4 DEF OskInitStart
  <2> QED BY <2>1, <2>2, <2>3 DEF HeldInv, KeyboardAwaited, HeldIsPending, Unanswered
<1>5. CASE SavedataShutdownStart
  BY <1>5
     DEF SavedataShutdownStart, Cancel, Shut, HeldInv, KeyboardAwaited, HeldIsPending,
         Unanswered, TypeOK, Kinds, NoPending, guestVars, hostVars, requestVars, stateVars
<1>6. CASE MsgDialogShutdownStart
  BY <1>6
     DEF MsgDialogShutdownStart, Shut, HeldInv, KeyboardAwaited, HeldIsPending, Unanswered,
         TypeOK, Kinds, NoPending, guestVars, hostVars, requestVars, stateVars
<1>7. CASE OskShutdownStart
  BY <1>7
     DEF OskShutdownStart, Shut, HeldInv, KeyboardAwaited, HeldIsPending, Unanswered, TypeOK,
         Kinds, NoPending, guestVars, hostVars, requestVars, stateVars
<1>8. CASE Occupies
  BY <1>8
     DEF Occupies, HeldInv, KeyboardAwaited, HeldIsPending, Unanswered, TypeOK, Kinds,
         NoPending, guestVars, hostVars, requestVars, stateVars
<1>9. CASE PollSettles
  <2>1. list' = "closed" /\ UNCHANGED keyboard /\ (~input' => ~input /\ list = "closed")
    BY <1>9 DEF PollSettles, Cancel
  <2>2. ~dialogs'["savedata"].held /\ dialogs'["osk"] = dialogs["osk"]
    BY <1>9 DEF PollSettles, Advanced, Release, TypeOK, Kinds, DialogStates
  <2> QED BY <2>1, <2>2 DEF HeldInv, KeyboardAwaited, HeldIsPending, Unanswered
<1>10. CASE PollSavedata
  BY <1>10
     DEF PollSavedata, Polls, Reads, Advanced, HeldInv, KeyboardAwaited, HeldIsPending,
         Unanswered, TypeOK, Kinds, NoPending, guestVars, hostVars, requestVars, stateVars
<1>11. CASE PollMsg
  BY <1>11
     DEF PollMsg, Polls, Reads, Advanced, HeldInv, KeyboardAwaited, HeldIsPending, Unanswered,
         TypeOK, Kinds, NoPending, guestVars, hostVars, requestVars, stateVars
<1>12. CASE PollOsk
  BY <1>12
     DEF PollOsk, Polls, Reads, Advanced, HeldInv, KeyboardAwaited, HeldIsPending, Unanswered,
         TypeOK, Kinds, NoPending, guestVars, hostVars, requestVars, stateVars
<1>13. CASE PlayerPicks
  <2>1. list' = "closed" /\ input' /\ UNCHANGED <<dialogs, keyboard>>
    BY <1>13 DEF PlayerPicks, Cancel
  <2>2. pending # NoPending => pending' # NoPending
    BY <1>13 DEF PlayerPicks, TypeOK, Requests, NoPending
  <2> QED BY <2>1, <2>2 DEF HeldInv, KeyboardAwaited, HeldIsPending, Unanswered
<1>14. CASE PlayerTypes
  BY <1>14
     DEF PlayerTypes, HeldInv, KeyboardAwaited, HeldIsPending, Unanswered, TypeOK, Kinds,
         NoPending, guestVars, hostVars, requestVars, stateVars
<1>15. CASE PlayerPresses
  BY <1>15
     DEF PlayerPresses, HeldInv, KeyboardAwaited, HeldIsPending, Unanswered, TypeOK, Kinds,
         NoPending, guestVars, hostVars, requestVars, stateVars
<1>16. CASE GraceEnds
  BY <1>16
     DEF GraceEnds, HeldInv, KeyboardAwaited, HeldIsPending, Unanswered, TypeOK, Kinds,
         NoPending, guestVars, hostVars, requestVars, stateVars
<1>17. CASE NothingDrawn
  BY <1>17
     DEF NothingDrawn, HeldInv, KeyboardAwaited, HeldIsPending, Unanswered, TypeOK, Kinds,
         NoPending, guestVars, hostVars, requestVars, stateVars
<1>18. CASE Frame
  BY <1>18
     DEF Frame, Drawn, HeldInv, KeyboardAwaited, HeldIsPending, Unanswered, TypeOK, Kinds,
         NoPending, guestVars, hostVars, requestVars, stateVars
<1>19. CASE FrameSaves
  BY <1>19
     DEF FrameSaves, Drawn, Stamp, HeldInv, KeyboardAwaited, HeldIsPending, Unanswered, TypeOK,
         Kinds, NoPending, guestVars, hostVars, requestVars, stateVars
<1>20. CASE FrameRefuses
  BY <1>20
     DEF FrameRefuses, Drawn, HeldInv, KeyboardAwaited, HeldIsPending, Unanswered, TypeOK,
         Kinds, NoPending, guestVars, hostVars, requestVars, stateVars
<1>21. CASE FrameLoads
  BY <1>21
     DEF FrameLoads, Drawn, Readable, HeldInv, KeyboardAwaited, HeldIsPending, Unanswered,
         TypeOK, Kinds, NoPending, guestVars, hostVars, requestVars, stateVars
<1>22. CASE ClosePart
  BY <1>22
     DEF ClosePart, HeldInv, KeyboardAwaited, HeldIsPending, Unanswered, TypeOK, Kinds,
         NoPending, guestVars, hostVars, requestVars, stateVars
<1>23. CASE WriteFails
  BY <1>23
     DEF WriteFails, HeldInv, KeyboardAwaited, HeldIsPending, Unanswered, TypeOK, Kinds,
         NoPending, guestVars, hostVars, requestVars, stateVars
<1>24. CASE PutInPlace
  BY <1>24
     DEF PutInPlace, HeldInv, KeyboardAwaited, HeldIsPending, Unanswered, TypeOK, Kinds,
         NoPending, guestVars, hostVars, requestVars, stateVars
<1>25. CASE Damaged
  BY <1>25
     DEF Damaged, HeldInv, KeyboardAwaited, HeldIsPending, Unanswered, TypeOK, Kinds, NoPending,
         guestVars, hostVars, requestVars, stateVars
<1>26. CASE Killed
  BY <1>26
     DEF Killed, NoDialogs, Gone, NotRestored, Playing, HeldInv, KeyboardAwaited, HeldIsPending,
         Unanswered, TypeOK, Kinds, NoPending, guestVars, hostVars, requestVars, stateVars
<1>27. CASE UNCHANGED vars
  BY <1>27
     DEF vars, HeldInv, KeyboardAwaited, HeldIsPending, Unanswered, TypeOK, Kinds, NoPending,
         guestVars, hostVars, requestVars, stateVars
<1> QED BY <1>1, <1>2, <1>3, <1>4, <1>5, <1>6, <1>7, <1>8, <1>9, <1>10, <1>11, <1>12, <1>13,
      <1>14, <1>15, <1>16, <1>17, <1>18, <1>19, <1>20, <1>21, <1>22, <1>23, <1>24, <1>25, <1>26,
      <1>27
      DEF Next, Game, Poll, Player, Display, WriteFile

(* A held dialog has a request whose answer releases it and input kept     *)
(* from the game has something on screen that waits for the player,        *)
(* through every shutdown, fallback, load and restart.                     *)
THEOREM SessionLetsGo == Spec => []HeldIsPending
<1>1. Init => HeldInv
  BY DEF Init, HeldInv, KeyboardAwaited, HeldIsPending, NoDialogs, Gone, Kinds
<1>2. HeldInv => HeldIsPending
  BY DEF HeldInv
<1> QED BY <1>1, <1>2, HeldStep, SessionTypeCorrect, PTL DEF Spec
-----------------------------------------------------------------------------
LEMMA QuietStep ==
    ASSUME TypeOK, QuietInv, [Next]_vars
    PROVE  QuietInv'
<1>1. CASE SavedataListStart
  BY <1>1
     DEF SavedataListStart, Asks, Hold, Start, QuietInv, Polled, ShotIsQuiet, SavedIsQuiet,
         TypeOK, Games, States, Kinds, NotWriting, Empty, Playing, guestVars, hostVars,
         requestVars, stateVars
<1>2. CASE SavedataInitStart
  BY <1>2
     DEF SavedataInitStart, Asks, Start, QuietInv, Polled, ShotIsQuiet, SavedIsQuiet, TypeOK,
         Games, States, Kinds, NotWriting, Empty, Playing, guestVars, hostVars, requestVars,
         stateVars
<1>3. CASE MsgDialogInitStart
  BY <1>3
     DEF MsgDialogInitStart, Asks, Start, QuietInv, Polled, ShotIsQuiet, SavedIsQuiet, TypeOK,
         Games, States, Kinds, NotWriting, Empty, Playing, guestVars, hostVars, requestVars,
         stateVars
<1>4. CASE OskInitStart
  BY <1>4
     DEF OskInitStart, Asks, Start, QuietInv, Polled, ShotIsQuiet, SavedIsQuiet, TypeOK, Games,
         States, Kinds, NotWriting, Empty, Playing, guestVars, hostVars, requestVars, stateVars
<1>5. CASE SavedataShutdownStart
  BY <1>5
     DEF SavedataShutdownStart, Cancel, Shut, QuietInv, Polled, ShotIsQuiet, SavedIsQuiet,
         TypeOK, Games, States, Kinds, NotWriting, Empty, Playing, guestVars, hostVars,
         requestVars, stateVars
<1>6. CASE MsgDialogShutdownStart
  BY <1>6
     DEF MsgDialogShutdownStart, Shut, QuietInv, Polled, ShotIsQuiet, SavedIsQuiet, TypeOK,
         Games, States, Kinds, NotWriting, Empty, Playing, guestVars, hostVars, requestVars,
         stateVars
<1>7. CASE OskShutdownStart
  BY <1>7
     DEF OskShutdownStart, Shut, QuietInv, Polled, ShotIsQuiet, SavedIsQuiet, TypeOK, Games,
         States, Kinds, NotWriting, Empty, Playing, guestVars, hostVars, requestVars, stateVars
<1>8. CASE Occupies
  BY <1>8
     DEF Occupies, QuietInv, Polled, ShotIsQuiet, SavedIsQuiet, TypeOK, Games, States, Kinds,
         NotWriting, Empty, Playing, guestVars, hostVars, requestVars, stateVars
<1>9. CASE PollSettles
  BY <1>9
     DEF PollSettles, Polls, Cancel, Reads, Release, Advanced, Settles, QuietInv, Polled,
         ShotIsQuiet, SavedIsQuiet, TypeOK, Games, States, Kinds, NotWriting, Empty, Playing,
         guestVars, hostVars, requestVars, stateVars
<1>10. CASE PollSavedata
  BY <1>10
     DEF PollSavedata, Polls, Reads, Advanced, QuietInv, Polled, ShotIsQuiet, SavedIsQuiet,
         TypeOK, Games, States, Kinds, NotWriting, Empty, Playing, guestVars, hostVars,
         requestVars, stateVars
<1>11. CASE PollMsg
  BY <1>11
     DEF PollMsg, Polls, Reads, Advanced, QuietInv, Polled, ShotIsQuiet, SavedIsQuiet, TypeOK,
         Games, States, Kinds, NotWriting, Empty, Playing, guestVars, hostVars, requestVars,
         stateVars
<1>12. CASE PollOsk
  BY <1>12
     DEF PollOsk, Polls, Reads, Advanced, QuietInv, Polled, ShotIsQuiet, SavedIsQuiet, TypeOK,
         Games, States, Kinds, NotWriting, Empty, Playing, guestVars, hostVars, requestVars,
         stateVars
<1>13. CASE PlayerPicks
  BY <1>13
     DEF PlayerPicks, Cancel, Unanswered, QuietInv, Polled, ShotIsQuiet, SavedIsQuiet, TypeOK,
         Games, States, Kinds, NotWriting, Empty, Playing, guestVars, hostVars, requestVars,
         stateVars
<1>14. CASE PlayerTypes
  BY <1>14
     DEF PlayerTypes, QuietInv, Polled, ShotIsQuiet, SavedIsQuiet, TypeOK, Games, States, Kinds,
         NotWriting, Empty, Playing, guestVars, hostVars, requestVars, stateVars
<1>15. CASE PlayerPresses
  BY <1>15
     DEF PlayerPresses, QuietInv, Polled, ShotIsQuiet, SavedIsQuiet, TypeOK, Games, States,
         Kinds, NotWriting, Empty, Playing, guestVars, hostVars, requestVars, stateVars
<1>16. CASE GraceEnds
  BY <1>16
     DEF GraceEnds, QuietInv, Polled, ShotIsQuiet, SavedIsQuiet, TypeOK, Games, States, Kinds,
         NotWriting, Empty, Playing, guestVars, hostVars, requestVars, stateVars
<1>17. CASE NothingDrawn
  BY <1>17
     DEF NothingDrawn, QuietInv, Polled, ShotIsQuiet, SavedIsQuiet, TypeOK, Games, States,
         Kinds, NotWriting, Empty, Playing, guestVars, hostVars, requestVars, stateVars
<1>18. CASE Frame
  BY <1>18
     DEF Frame, Drawn, QuietInv, Polled, ShotIsQuiet, SavedIsQuiet, TypeOK, Games, States,
         Kinds, NotWriting, Empty, Playing, guestVars, hostVars, requestVars, stateVars
<1>19. CASE FrameSaves
  BY <1>19
     DEF FrameSaves, Drawn, Stamp, QuietInv, Polled, ShotIsQuiet, SavedIsQuiet, TypeOK, Games,
         States, Kinds, NotWriting, Empty, Playing, guestVars, hostVars, requestVars, stateVars,
         WhyNotNow, Quiet, Active, NoPending
<1>20. CASE FrameRefuses
  BY <1>20
     DEF FrameRefuses, Drawn, QuietInv, Polled, ShotIsQuiet, SavedIsQuiet, TypeOK, Games,
         States, Kinds, NotWriting, Empty, Playing, guestVars, hostVars, requestVars, stateVars
<1>21. CASE FrameLoads
  BY <1>21
     DEF FrameLoads, Drawn, Readable, QuietInv, Polled, ShotIsQuiet, SavedIsQuiet, TypeOK,
         Games, States, Kinds, NotWriting, Empty, Playing, guestVars, hostVars, requestVars,
         stateVars
<1>22. CASE ClosePart
  BY <1>22
     DEF ClosePart, QuietInv, Polled, ShotIsQuiet, SavedIsQuiet, TypeOK, Games, States, Kinds,
         NotWriting, Empty, Playing, guestVars, hostVars, requestVars, stateVars
<1>23. CASE WriteFails
  BY <1>23
     DEF WriteFails, QuietInv, Polled, ShotIsQuiet, SavedIsQuiet, TypeOK, Games, States, Kinds,
         NotWriting, Empty, Playing, guestVars, hostVars, requestVars, stateVars
<1>24. CASE PutInPlace
  BY <1>24
     DEF PutInPlace, QuietInv, Polled, ShotIsQuiet, SavedIsQuiet, TypeOK, Games, States, Kinds,
         NotWriting, Empty, Playing, guestVars, hostVars, requestVars, stateVars
<1>25. CASE Damaged
  BY <1>25
     DEF Damaged, QuietInv, Polled, ShotIsQuiet, SavedIsQuiet, TypeOK, Games, States, Kinds,
         NotWriting, Empty, Playing, guestVars, hostVars, requestVars, stateVars
<1>26. CASE Killed
  BY <1>26
     DEF Killed, NoDialogs, Gone, NotRestored, Playing, QuietInv, Polled, ShotIsQuiet,
         SavedIsQuiet, TypeOK, Games, States, Kinds, NotWriting, Empty, Playing, guestVars,
         hostVars, requestVars, stateVars
<1>27. CASE UNCHANGED vars
  BY <1>27
     DEF vars, QuietInv, Polled, ShotIsQuiet, SavedIsQuiet, TypeOK, Games, States, Kinds,
         NotWriting, Empty, Playing, guestVars, hostVars, requestVars, stateVars
<1> QED BY <1>1, <1>2, <1>3, <1>4, <1>5, <1>6, <1>7, <1>8, <1>9, <1>10, <1>11, <1>12, <1>13,
      <1>14, <1>15, <1>16, <1>17, <1>18, <1>19, <1>20, <1>21, <1>22, <1>23, <1>24, <1>25, <1>26,
      <1>27
      DEF Next, Game, Poll, Player, Display, WriteFile

(* A state in the slot is never of a game that is inside a dialog or busy  *)
(* with what a state cannot carry.                                         *)
THEOREM SessionSavesQuiet == Spec => []SavedIsQuiet
<1>1. Init => QuietInv
  BY DEF Init, QuietInv, Polled, ShotIsQuiet, SavedIsQuiet, NotWriting, Empty, Playing
<1>2. QuietInv => SavedIsQuiet
  BY DEF QuietInv
<1> QED BY <1>1, <1>2, QuietStep, SessionTypeCorrect, PTL DEF Spec
-----------------------------------------------------------------------------
LEMMA WholeStep ==
    ASSUME TypeOK, WholeIsClosed, SlotIsWhole, [Next]_vars
    PROVE  (WholeIsClosed /\ SlotIsWhole)'
<1>1. CASE SavedataListStart
  BY <1>1
     DEF SavedataListStart, Asks, Hold, Start, WholeIsClosed, SlotIsWhole, TypeOK, States,
         Sections, NotWriting, guestVars, hostVars, requestVars, stateVars
<1>2. CASE SavedataInitStart
  BY <1>2
     DEF SavedataInitStart, Asks, Start, WholeIsClosed, SlotIsWhole, TypeOK, States, Sections,
         NotWriting, guestVars, hostVars, requestVars, stateVars
<1>3. CASE MsgDialogInitStart
  BY <1>3
     DEF MsgDialogInitStart, Asks, Start, WholeIsClosed, SlotIsWhole, TypeOK, States, Sections,
         NotWriting, guestVars, hostVars, requestVars, stateVars
<1>4. CASE OskInitStart
  BY <1>4
     DEF OskInitStart, Asks, Start, WholeIsClosed, SlotIsWhole, TypeOK, States, Sections,
         NotWriting, guestVars, hostVars, requestVars, stateVars
<1>5. CASE SavedataShutdownStart
  BY <1>5
     DEF SavedataShutdownStart, Cancel, Shut, WholeIsClosed, SlotIsWhole, TypeOK, States,
         Sections, NotWriting, guestVars, hostVars, requestVars, stateVars
<1>6. CASE MsgDialogShutdownStart
  BY <1>6
     DEF MsgDialogShutdownStart, Shut, WholeIsClosed, SlotIsWhole, TypeOK, States, Sections,
         NotWriting, guestVars, hostVars, requestVars, stateVars
<1>7. CASE OskShutdownStart
  BY <1>7
     DEF OskShutdownStart, Shut, WholeIsClosed, SlotIsWhole, TypeOK, States, Sections,
         NotWriting, guestVars, hostVars, requestVars, stateVars
<1>8. CASE Occupies
  BY <1>8
     DEF Occupies, WholeIsClosed, SlotIsWhole, TypeOK, States, Sections, NotWriting, guestVars,
         hostVars, requestVars, stateVars
<1>9. CASE PollSettles
  BY <1>9
     DEF PollSettles, Polls, Cancel, Reads, Release, Advanced, Settles, WholeIsClosed,
         SlotIsWhole, TypeOK, States, Sections, NotWriting, guestVars, hostVars, requestVars,
         stateVars
<1>10. CASE PollSavedata
  BY <1>10
     DEF PollSavedata, Polls, Reads, Advanced, WholeIsClosed, SlotIsWhole, TypeOK, States,
         Sections, NotWriting, guestVars, hostVars, requestVars, stateVars
<1>11. CASE PollMsg
  BY <1>11
     DEF PollMsg, Polls, Reads, Advanced, WholeIsClosed, SlotIsWhole, TypeOK, States, Sections,
         NotWriting, guestVars, hostVars, requestVars, stateVars
<1>12. CASE PollOsk
  BY <1>12
     DEF PollOsk, Polls, Reads, Advanced, WholeIsClosed, SlotIsWhole, TypeOK, States, Sections,
         NotWriting, guestVars, hostVars, requestVars, stateVars
<1>13. CASE PlayerPicks
  BY <1>13
     DEF PlayerPicks, Cancel, Unanswered, WholeIsClosed, SlotIsWhole, TypeOK, States, Sections,
         NotWriting, guestVars, hostVars, requestVars, stateVars
<1>14. CASE PlayerTypes
  BY <1>14
     DEF PlayerTypes, WholeIsClosed, SlotIsWhole, TypeOK, States, Sections, NotWriting,
         guestVars, hostVars, requestVars, stateVars
<1>15. CASE PlayerPresses
  BY <1>15
     DEF PlayerPresses, WholeIsClosed, SlotIsWhole, TypeOK, States, Sections, NotWriting,
         guestVars, hostVars, requestVars, stateVars
<1>16. CASE GraceEnds
  BY <1>16
     DEF GraceEnds, WholeIsClosed, SlotIsWhole, TypeOK, States, Sections, NotWriting, guestVars,
         hostVars, requestVars, stateVars
<1>17. CASE NothingDrawn
  BY <1>17
     DEF NothingDrawn, WholeIsClosed, SlotIsWhole, TypeOK, States, Sections, NotWriting,
         guestVars, hostVars, requestVars, stateVars
<1>18. CASE Frame
  BY <1>18
     DEF Frame, Drawn, WholeIsClosed, SlotIsWhole, TypeOK, States, Sections, NotWriting,
         guestVars, hostVars, requestVars, stateVars
<1>19. CASE FrameSaves
  BY <1>19
     DEF FrameSaves, Drawn, Stamp, WholeIsClosed, SlotIsWhole, TypeOK, States, Sections,
         NotWriting, guestVars, hostVars, requestVars, stateVars
<1>20. CASE FrameRefuses
  BY <1>20
     DEF FrameRefuses, Drawn, WholeIsClosed, SlotIsWhole, TypeOK, States, Sections, NotWriting,
         guestVars, hostVars, requestVars, stateVars
<1>21. CASE FrameLoads
  BY <1>21
     DEF FrameLoads, Drawn, Readable, WholeIsClosed, SlotIsWhole, TypeOK, States, Sections,
         NotWriting, guestVars, hostVars, requestVars, stateVars
<1>22. CASE ClosePart
  BY <1>22
     DEF ClosePart, WholeIsClosed, SlotIsWhole, TypeOK, States, Sections, NotWriting, guestVars,
         hostVars, requestVars, stateVars
<1>23. CASE WriteFails
  BY <1>23
     DEF WriteFails, WholeIsClosed, SlotIsWhole, TypeOK, States, Sections, NotWriting,
         guestVars, hostVars, requestVars, stateVars
<1>24. CASE PutInPlace
  BY <1>24
     DEF PutInPlace, WholeIsClosed, SlotIsWhole, TypeOK, States, Sections, NotWriting,
         guestVars, hostVars, requestVars, stateVars
<1>25. CASE Damaged
  BY <1>25
     DEF Damaged, WholeIsClosed, SlotIsWhole, TypeOK, States, Sections, NotWriting, guestVars,
         hostVars, requestVars, stateVars
<1>26. CASE Killed
  BY <1>26
     DEF Killed, NoDialogs, Gone, NotRestored, Playing, WholeIsClosed, SlotIsWhole, TypeOK,
         States, Sections, NotWriting, guestVars, hostVars, requestVars, stateVars
<1>27. CASE UNCHANGED vars
  BY <1>27
     DEF vars, WholeIsClosed, SlotIsWhole, TypeOK, States, Sections, NotWriting, guestVars,
         hostVars, requestVars, stateVars
<1> QED BY <1>1, <1>2, <1>3, <1>4, <1>5, <1>6, <1>7, <1>8, <1>9, <1>10, <1>11, <1>12, <1>13,
      <1>14, <1>15, <1>16, <1>17, <1>18, <1>19, <1>20, <1>21, <1>22, <1>23, <1>24, <1>25, <1>26,
      <1>27
      DEF Next, Game, Poll, Player, Display, WriteFile

(* The slot holds a whole state or none, wherever a write fails or the     *)
(* process is killed.                                                      *)
THEOREM SessionSlotWhole == Spec => []SlotIsWhole
<1>1. Init => WholeIsClosed /\ SlotIsWhole
  BY DEF Init, WholeIsClosed, SlotIsWhole, NotWriting, Empty
<1> QED BY <1>1, WholeStep, SessionTypeCorrect, PTL DEF Spec
=============================================================================
