---------------------------- MODULE SaveSession ----------------------------
(***************************************************************************)
(* The dialogs the game asks the host for and the save states the player   *)
(* takes over them: hle_savedata.cpp, hle_utility.cpp, utility_dialog.hpp, *)
(* ui/savedata_dialog.cpp, ui/text_input.cpp and state/save_state.cpp.     *)
(*                                                                         *)
(* A dialog is a life cycle the game polls.  A list of saves waits at      *)
(* "visible" until the player picks one; the host keeps the request in     *)
(* `pending' and does its work at the poll after the answer.  A state is   *)
(* taken or put back inside a display call, which the game also makes      *)
(* while it polls: what the host holds for the game and what a state       *)
(* restores must fit each other.                                           *)
(***************************************************************************)
EXTENDS Naturals

CONSTANTS
    MaxRequests,    \* bound: save data requests of the game
    MaxSaves        \* bound: states that are told apart

ASSUME SessionAssumption == MaxRequests \in Nat /\ MaxSaves \in Nat

Kinds == {"savedata", "msg", "osk"}
Sections == 1 .. 3      \* the machine, the threads, and the host's: the file's order
Playing == [at |-> "plays", kind |-> "savedata"]
Empty == [stamp |-> 0, game |-> Playing, busy |-> FALSE, bad |-> 0]

VARIABLES
    game,       \* what the game does: [at, kind]
    busy,       \* a video, an ad hoc link, a stalled list or a host wait
    dialogs,    \* per kind: [status, held]
    pending,    \* the list request: [request, is]
    list,       \* the list on screen: "closed", "open" or "drawn" recently
    keyboard,   \* "none", "open" or "answered"
    input,      \* the pad and the function keys go to the game
    key,        \* the function key pressed since the last frame
    latest,     \* the number of the game's last save data request
    worked,     \* the request whose saving, loading or deleting was done last
    writing,    \* a state on its way to the slot: [step, whole, shot], where
                \* whole says whether all of it is in the file beside the slot
    slot,       \* the slot's file: [stamp, game, busy, bad]
    parts       \* per section: the state it was last restored from

guestVars == <<game, busy>>
hostVars == <<dialogs, pending, list, keyboard, input>>
requestVars == <<latest, worked>>
stateVars == <<key, writing, slot, parts>>
vars == <<guestVars, hostVars, requestVars, stateVars>>

Unanswered == pending.is \in {"asked", "aged"}
NoPending == [request |-> 0, is |-> "none"]
NotWriting == [step |-> "none", whole |-> FALSE, shot |-> Empty]

Start == [status |-> "init", held |-> FALSE]
Hold == [Start EXCEPT !.held = TRUE]
Release(d) == [d EXCEPT !.held = FALSE]
Gone == [status |-> "none", held |-> FALSE]
Active(d) == d.status # "none"

(* One poll moves a dialog a step on, unless it is held. *)
Advanced(d) ==
    [d EXCEPT !.status =
        CASE @ = "init" -> "visible"
          [] @ = "visible" /\ ~d.held -> "quit"
          [] @ = "finished" -> "none"
          [] OTHER -> @]

Shut(d) == [status |-> IF Active(d) THEN "finished" ELSE "none", held |-> FALSE]

NoDialogs == [k \in Kinds |-> Gone]
NotRestored == [s \in Sections |-> 0]

Init ==
    /\ game = Playing /\ busy = FALSE
    /\ dialogs = NoDialogs /\ pending = NoPending /\ list = "closed"
    /\ keyboard = "none" /\ input = TRUE
    /\ latest = 0 /\ worked = 0
    /\ key = "none" /\ writing = NotWriting
    /\ slot = Empty /\ parts = NotRestored

(* Everything but the write of a state waits while the display call that   *)
(* performs it runs.                                                       *)
Running == writing = NotWriting

----------------------------------------------------------------------------
(* What the game asks for. *)

Asks(kind) == game.at = "plays" /\ game' = [at |-> "polls", kind |-> kind]

(* A list the player answers.  An earlier list still on screen is          *)
(* cancelled first; the new request takes its place.                       *)
SavedataListStart ==
    /\ Running /\ latest < MaxRequests
    /\ Asks("savedata")
    /\ latest' = latest + 1
    /\ pending' = [request |-> latest', is |-> "asked"]
    /\ list' = "open"
    /\ input' = FALSE
    /\ dialogs' = [dialogs EXCEPT !["savedata"] = Hold]
    /\ UNCHANGED <<busy, keyboard, worked, stateVars>>

(* Any other mode, and a list nobody can be shown: the work is done here.  *)
(* A list request from before stays where it is.                           *)
SavedataInitStart ==
    /\ Running /\ latest < MaxRequests
    /\ Asks("savedata")
    /\ latest' = latest + 1
    /\ worked' = latest'
    /\ dialogs' = [dialogs EXCEPT !["savedata"] = Start]
    /\ UNCHANGED <<busy, pending, list, keyboard, input, stateVars>>

MsgDialogInitStart ==
    /\ Running
    /\ Asks("msg")
    /\ dialogs' = [dialogs EXCEPT !["msg"] = Start]
    /\ UNCHANGED <<busy, pending, list, keyboard, input, requestVars, stateVars>>

(* The keyboard, or the name of the settings at once.  Refused, and nothing *)
(* changed, while a keyboard is still in use.                              *)
OskInitStart ==
    /\ Running /\ ~Active(dialogs["osk"])
    /\ Asks("osk")
    /\ dialogs' = [dialogs EXCEPT !["osk"] = Start]
    /\ \/ keyboard' = "open" /\ input' = FALSE
       \/ keyboard' = "answered" /\ UNCHANGED input
    /\ UNCHANGED <<busy, pending, list, requestVars, stateVars>>

(* The game reads what a poll reports: QUIT has it shut the dialog down,   *)
(* NONE after that has it play on.                                         *)
Reads(status) ==
    game' = CASE game.at = "polls" /\ status = "quit" -> [game EXCEPT !.at = "closes"]
              [] game.at = "leaves" /\ status = "none" -> Playing
              [] OTHER -> game

Polls(kind) == Running /\ game.kind = kind /\ game.at \in {"polls", "leaves"}

(* The list leaves the screen, and the pad goes back to the game.  A list  *)
(* that is not on the screen stays so.                                     *)
Cancel == list' = "closed" /\ input' = (input \/ list # "closed")

(* A variant of Waits: the list waits for the player however long nothing  *)
(* draws it.                                                               *)
Waits_Mutant == Unanswered

(* settle_list decides nothing while the player can still answer. *)
Waits == pending.is = "asked" \/ (pending.is = "aged" /\ list = "drawn")
Settles == pending # NoPending /\ ~Waits

(* A variant of PollSettles that does not take the request out of pending  *)
(* but only marks it as done.                                              *)
PollSettles_Mutant ==
    /\ Polls("savedata") /\ Settles
    /\ pending' = [pending EXCEPT !.is = "none"]
    /\ worked' = IF pending.is = "cancelled" THEN worked ELSE pending.request
    /\ Cancel
    /\ Reads(dialogs["savedata"].status)
    /\ dialogs' = [dialogs EXCEPT !["savedata"] = Advanced(Release(@))]
    /\ UNCHANGED <<busy, keyboard, latest, stateVars>>

(* settle_list: an answered request is worked on or cancelled; one nobody  *)
(* can answer is taken off the screen and settled by the host.             *)
PollSettles ==
    /\ Polls("savedata") /\ Settles
    /\ pending' = NoPending
    /\ worked' = IF pending.is = "cancelled" THEN worked ELSE pending.request
    /\ Cancel
    /\ Reads(dialogs["savedata"].status)
    /\ dialogs' = [dialogs EXCEPT !["savedata"] = Advanced(Release(@))]
    /\ UNCHANGED <<busy, keyboard, latest, stateVars>>

PollSavedata ==
    /\ Polls("savedata") /\ ~Settles
    /\ Reads(dialogs["savedata"].status)
    /\ dialogs' = [dialogs EXCEPT !["savedata"] = Advanced(@)]
    /\ UNCHANGED <<busy, pending, list, keyboard, input, requestVars, stateVars>>

PollMsg ==
    /\ Polls("msg")
    /\ Reads(dialogs["msg"].status)
    /\ dialogs' = [dialogs EXCEPT !["msg"] = Advanced(@)]
    /\ UNCHANGED <<busy, pending, list, keyboard, input, requestVars, stateVars>>

(* A visible keyboard quits with the answer it hands over. *)
PollOsk ==
    /\ Polls("osk")
    /\ Reads(dialogs["osk"].status)
    /\ dialogs' = [dialogs EXCEPT !["osk"] =
                    IF @.status = "visible" /\ keyboard # "answered" THEN @ ELSE Advanced(@)]
    /\ keyboard' = IF dialogs["osk"].status = "visible" /\ keyboard = "answered"
                   THEN "none" ELSE keyboard
    /\ UNCHANGED <<busy, pending, list, input, requestVars, stateVars>>

(* A variant of SavedataShutdownStart that leaves the list on the screen.  *)
SavedataShutdownStart_Mutant ==
    /\ Running /\ game.kind = "savedata" /\ game.at \in {"polls", "closes"}
    /\ game' = [game EXCEPT !.at = "leaves"]
    /\ pending' = NoPending
    /\ dialogs' = [dialogs EXCEPT !["savedata"] = Shut(@)]
    /\ UNCHANGED <<busy, list, input, keyboard, requestVars, stateVars>>

(* ShutdownStart, after QUIT or from a game that gives up.  A pending list *)
(* goes with its request.                                                  *)
SavedataShutdownStart ==
    /\ Running /\ game.kind = "savedata" /\ game.at \in {"polls", "closes"}
    /\ game' = [game EXCEPT !.at = "leaves"]
    /\ pending' = NoPending
    /\ Cancel
    /\ dialogs' = [dialogs EXCEPT !["savedata"] = Shut(@)]
    /\ UNCHANGED <<busy, keyboard, requestVars, stateVars>>

MsgDialogShutdownStart ==
    /\ Running /\ game.kind = "msg" /\ game.at \in {"polls", "closes"}
    /\ game' = [game EXCEPT !.at = "leaves"]
    /\ dialogs' = [dialogs EXCEPT !["msg"] = Shut(@)]
    /\ UNCHANGED <<busy, pending, list, keyboard, input, requestVars, stateVars>>

(* Refused before QUIT, and the game polls on. *)
OskShutdownStart ==
    /\ Running /\ game.kind = "osk" /\ game.at = "closes"
    /\ dialogs["osk"].status = "quit"
    /\ game' = [game EXCEPT !.at = "leaves"]
    /\ dialogs' = [dialogs EXCEPT !["osk"] = Shut(@)]
    /\ UNCHANGED <<busy, pending, list, keyboard, input, requestVars, stateVars>>

(* The game starts or ends what no state can carry. *)
Occupies ==
    /\ Running /\ game.at = "plays"
    /\ busy' = ~busy
    /\ UNCHANGED <<game, hostVars, requestVars, stateVars>>

----------------------------------------------------------------------------
(* The player, and the time. *)

(* The list is closed with a choice or with none; its callback reaches the *)
(* request that is pending then.  Under a keyboard it is not run.          *)
PlayerPicks ==
    /\ Running /\ list = "drawn" /\ keyboard # "open"
    /\ Cancel
    /\ \E answer \in {"chosen", "cancelled"} :
        pending' = IF Unanswered THEN [pending EXCEPT !.is = answer] ELSE pending
    /\ UNCHANGED <<guestVars, dialogs, keyboard, requestVars, stateVars>>

PlayerTypes ==
    /\ Running /\ keyboard = "open"
    /\ keyboard' = "answered"
    /\ input' = TRUE
    /\ UNCHANGED <<guestVars, dialogs, pending, list, requestVars, stateVars>>

(* F1 saves and Shift+F1 loads, unless the interface has the input.  The   *)
(* key is acted upon at the next frame.                                    *)
PlayerPresses ==
    /\ Running /\ input /\ key = "none"
    /\ key' \in {"save", "load"}
    /\ UNCHANGED <<guestVars, hostVars, requestVars, writing, slot, parts>>

(* Three seconds since the list opened. *)
GraceEnds ==
    /\ Running /\ pending.is = "asked"
    /\ pending' = [pending EXCEPT !.is = "aged"]
    /\ UNCHANGED <<guestVars, dialogs, list, keyboard, input, requestVars, stateVars>>

(* Two seconds in which the game presented nothing. *)
NothingDrawn ==
    /\ Running /\ list = "drawn"
    /\ list' = "open"
    /\ UNCHANGED <<guestVars, dialogs, pending, keyboard, input, requestVars, stateVars>>

----------------------------------------------------------------------------
(* sceDisplaySetFrameBuf: the interface is drawn over the frame, then the  *)
(* state asked for is taken or put back.                                   *)

Drawn == IF list = "open" /\ keyboard # "open" THEN "drawn" ELSE list

(* state_hotkey: a key waits while something is being typed.               *)
Pressed == IF keyboard = "open" THEN "none" ELSE key

Frame ==
    /\ Running /\ Pressed = "none"
    /\ list' = Drawn
    /\ UNCHANGED <<guestVars, dialogs, pending, keyboard, input, requestVars, stateVars>>

(* A variant of Quiet that does not ask the keyboard and the messages.     *)
Quiet_Mutant == ~busy /\ pending = NoPending /\ ~Active(dialogs["savedata"])

(* Nothing of the game is in the hands of the host. *)
Quiet == ~busy /\ pending = NoPending /\ \A k \in Kinds : ~Active(dialogs[k])
WhyNotNow == ~Quiet

(* States are told apart up to MaxSaves. *)
Stamp == IF slot.stamp < MaxSaves THEN slot.stamp + 1 ELSE MaxSaves

FrameSaves ==
    /\ Running /\ Pressed = "save" /\ ~WhyNotNow
    /\ key' = "none" /\ list' = Drawn
    /\ writing' = [step |-> "open", whole |-> FALSE,
                   shot |-> [stamp |-> Stamp, game |-> game, busy |-> busy, bad |-> 0]]
    /\ UNCHANGED <<guestVars, dialogs, pending, keyboard, input, requestVars, slot, parts>>

FrameRefuses ==
    /\ Running
    /\ \/ Pressed = "save" /\ WhyNotNow
       \/ Pressed = "load" /\ (slot = Empty \/ slot.bad = 1)
    /\ key' = "none" /\ list' = Drawn
    /\ UNCHANGED <<guestVars, dialogs, pending, keyboard, input, requestVars, writing, slot, parts>>

(* The sections that are read before the first bad one.  The machine is    *)
(* read aside, and applied once all of it is there.                        *)
Readable == {s \in Sections : slot.bad = 0 \/ s < slot.bad}

(* Whatever section fails, those before it have been put in place; what    *)
(* the game does next is in the threads.  The dialogs stay as they are.    *)
FrameLoads ==
    /\ Running /\ Pressed = "load" /\ slot # Empty /\ slot.bad # 1
    /\ key' = "none" /\ list' = Drawn
    /\ parts' = [s \in Sections |-> IF s \in Readable THEN slot.stamp ELSE parts[s]]
    /\ game' = IF 2 \in Readable THEN slot.game ELSE game
    /\ busy' = IF 2 \in Readable THEN slot.busy ELSE busy
    /\ UNCHANGED <<dialogs, pending, keyboard, input, requestVars, writing, slot>>

(* A variant of ClosePart that does not look whether the close succeeded.  *)
ClosePart_Mutant ==
    /\ writing.step = "open"
    /\ \E whole \in BOOLEAN :
        writing' = [writing EXCEPT !.step = "closed", !.whole = whole]
    /\ UNCHANGED <<guestVars, hostVars, requestVars, key, slot, parts>>

(* write_file: the bytes go to a file beside the slot, which is closed and *)
(* renamed onto it; a write that fails takes that file away.  One that is  *)
(* left by a killed process is truncated by the next.                      *)
ClosePart ==
    /\ writing.step = "open"
    /\ writing' = [writing EXCEPT !.step = "closed", !.whole = TRUE]
    /\ UNCHANGED <<guestVars, hostVars, requestVars, key, slot, parts>>

WriteFails ==
    /\ writing.step # "none"
    /\ writing' = NotWriting
    /\ UNCHANGED <<guestVars, hostVars, requestVars, key, slot, parts>>

PutInPlace ==
    /\ writing.step = "closed"
    /\ slot' = [writing.shot EXCEPT !.bad = IF writing.whole THEN 0 ELSE 1]
    /\ writing' = NotWriting
    /\ UNCHANGED <<guestVars, hostVars, requestVars, key, parts>>

----------------------------------------------------------------------------
(* From outside: the slot's file is damaged past the machine, or the       *)
(* process is killed and the game started again.                           *)

Damaged ==
    /\ Running /\ slot # Empty /\ slot.bad = 0
    /\ \E s \in Sections \ {1} : slot' = [slot EXCEPT !.bad = s]
    /\ UNCHANGED <<guestVars, hostVars, requestVars, key, writing, parts>>

Killed ==
    /\ game' = Playing /\ busy' = FALSE
    /\ dialogs' = NoDialogs /\ pending' = NoPending /\ list' = "closed"
    /\ keyboard' = "none" /\ input' = TRUE
    /\ latest' = 0 /\ worked' = 0
    /\ key' = "none" /\ writing' = NotWriting
    /\ parts' = NotRestored
    /\ UNCHANGED slot

Game ==
    \/ SavedataListStart \/ SavedataInitStart \/ MsgDialogInitStart \/ OskInitStart
    \/ SavedataShutdownStart \/ MsgDialogShutdownStart \/ OskShutdownStart
    \/ Occupies

Poll == PollSettles \/ PollSavedata \/ PollMsg \/ PollOsk

Player == PlayerPicks \/ PlayerTypes \/ PlayerPresses

Display == Frame \/ FrameSaves \/ FrameRefuses \/ FrameLoads

WriteFile == ClosePart \/ WriteFails \/ PutInPlace

Next ==
    \/ Game \/ Poll \/ Player \/ GraceEnds \/ NothingDrawn
    \/ Display \/ WriteFile \/ Damaged \/ Killed

Spec == Init /\ [][Next]_vars

(* The game polls a dialog it asked for and shuts it down when told QUIT;  *)
(* the write of a state ends; the grace of a list passes; the player       *)
(* answers what is shown to them again and again, where it has the input.  *)
Fairness ==
    /\ WF_vars(Poll) /\ WF_vars(WriteFile) /\ WF_vars(GraceEnds)
    /\ WF_vars(game.at = "closes" /\ (SavedataShutdownStart \/ MsgDialogShutdownStart \/ OskShutdownStart))
    /\ SF_vars(~input /\ PlayerPicks) /\ SF_vars(~input /\ PlayerTypes)

FairSpec == Spec /\ Fairness

----------------------------------------------------------------------------
Games == [at : {"plays", "polls", "closes", "leaves"}, kind : Kinds]
States == [stamp : 0 .. MaxSaves, game : Games, busy : BOOLEAN, bad : 0 .. 3]

Writes == [step : {"none", "open", "closed"}, whole : BOOLEAN, shot : States]
DialogStates == [status : {"none", "init", "visible", "quit", "finished"}, held : BOOLEAN]
Requests == [request : 0 .. MaxRequests, is : {"none", "asked", "aged", "chosen", "cancelled"}]

TypeOK ==
    /\ game \in Games /\ busy \in BOOLEAN
    /\ dialogs \in [Kinds -> DialogStates]
    /\ pending \in Requests
    /\ pending.request = 0 <=> pending.is = "none"
    /\ list \in {"closed", "open", "drawn"} /\ input \in BOOLEAN
    /\ keyboard \in {"none", "open", "answered"}
    /\ latest \in 0 .. MaxRequests /\ worked \in 0 .. MaxRequests
    /\ key \in {"none", "save", "load"}
    /\ writing \in Writes
    /\ slot \in States
    /\ parts \in [Sections -> 0 .. MaxSaves]

(* A dialog is held only while a request is there whose answer releases    *)
(* it, and input is kept from the game only while something on screen      *)
(* waits for the player: neither is left behind by a shutdown, a fallback  *)
(* or a state put back underneath.                                         *)
HeldIsPending ==
    /\ dialogs["savedata"].held => pending # NoPending
    /\ list # "closed" => Unanswered
    /\ ~input => list # "closed" \/ keyboard = "open"

(* A state in the slot is of a game that has nothing in the host's hands,  *)
(* whatever happened between the key and the display call that took it.    *)
SavedIsQuiet == slot.game.at \in {"plays", "leaves"} /\ ~slot.busy

(* A slot holds a whole state, or the one from before, whatever write      *)
(* failed and wherever the process was killed.                             *)
SlotIsWhole == slot.bad # 1

(* "Every path, errors included, reaches QUIT": a game that polls a dialog *)
(* is told so, or has been replaced by a state.  (That NONE follows is not *)
(* so: a game restored while it waits for NONE may meet the dialog of the  *)
(* session it replaces.)                                                   *)
DialogEnds == game.at = "polls" ~> game.at # "polls"

(* "A failed load leaves the running game untouched." *)
FailedLoadChangesNothing == [][slot.bad # 0 => parts' \in {parts, NotRestored}]_vars

(* "A new request while one is still active replaces it": no work is done  *)
(* for a request once the game has made another.                           *)
ReplacedIsDone == [][worked' # worked => worked' = latest']_vars
=============================================================================
