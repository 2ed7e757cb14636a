------------------------------ MODULE EventFlags ------------------------------
(***************************************************************************)
(* Event flags (hle/hle_threadman.cpp, Kernel::event_flags).  A pattern of *)
(* bits; a waiter names the bits it wants, whether one or all of them, and *)
(* what its match clears.                                                  *)
(***************************************************************************)
EXTENDS Scheduler

CONSTANTS
    Flags,  \* the objects that are event flags
    Wanted  \* the wait conditions in use: [bits, mode] records

ASSUME EventFlagAssumption ==
    /\ Flags \subseteq Objects
    /\ Wanted \subseteq [bits : (SUBSET Bits) \ {{}}, mode : Modes]

VARIABLES flags \* uid -> life, the kEventFlagWaitMulti attribute, pattern

NoFlag == [life |-> "unused", multi |-> FALSE, pattern |-> {}]
FlagLive(f) == flags[f].life = "live"

\* event_flag_matches
Matches(pattern, bits, mode) ==
    IF mode.any THEN pattern \cap bits # {} ELSE bits \subseteq pattern
AfterMatch(pattern, bits, mode) ==
    CASE mode.clear = "all" -> {}
      [] mode.clear = "bits" -> pattern \ bits
      [] OTHER -> pattern

CreateEventFlag(f, multi, pattern) ==
    /\ InThread
    /\ flags[f].life = "unused"
    /\ flags' = [flags EXCEPT ![f] = [life |-> "live", multi |-> multi, pattern |-> pattern]]
    /\ phase' = "finish"
    /\ UNCHANGED <<loopVars, threadVars, waiters, maskVars, intrVars, clockVars, eventVars>>

DeleteEventFlag(f) ==
    /\ InThread
    /\ FlagLive(f)
    /\ flags' = [flags EXCEPT ![f] = [NoFlag EXCEPT !.life = "deleted"]]
    /\ target' = f
    /\ phase' = "cancel"
    /\ UNCHANGED <<cursor, threadVars, waiters, maskVars, intrVars, clockVars, eventVars>>

SetEventFlag(f, bits) ==
    /\ InGuest
    /\ FlagLive(f)
    /\ flags' = [flags EXCEPT ![f].pattern = @ \cup bits]
    /\ target' = f
    /\ cursor' = 1
    /\ phase' = "release"
    /\ UNCHANGED <<threadVars, waiters, maskVars, intrVars, clockVars, eventVars>>

\* The argument of sceKernelClearEventFlag is the mask of the bits to keep.
ClearEventFlag(f, kept) ==
    /\ InGuest
    /\ FlagLive(f)
    /\ flags' = [flags EXCEPT ![f].pattern = @ \cap kept]
    /\ phase' = "finish"
    /\ UNCHANGED <<loopVars, threadVars, waiters, maskVars, intrVars, clockVars, eventVars>>

\* The outcomes of one turn of release_event_flag_waiters's loop over the whole
\* list: a match clears bits before the next waiter is looked at.
ReleaseFlag(f) == phase = "release" /\ target = f /\ cursor <= Len(waiters[f])
Scanned(f) == waiters[f][cursor]
ScannedMatches(f) ==
    Matches(flags[f].pattern, wait[Scanned(f)].bits, wait[Scanned(f)].mode)
DropScanned(f) ==
    waiters' = [waiters EXCEPT ![f] = SubSeq(@, 1, cursor - 1) \o SubSeq(@, cursor + 1, Len(@))]

FlagDropsStale(f) ==
    /\ ReleaseFlag(f)
    /\ ~IsWaiting(Scanned(f))
    /\ DropScanned(f)
    /\ UNCHANGED <<phase, loopVars, threadVars, maskVars, intrVars, clockVars, eventVars, flags>>

FlagSkips(f) ==
    /\ ReleaseFlag(f)
    /\ IsWaiting(Scanned(f)) /\ ~ScannedMatches(f)
    /\ cursor' = cursor + 1
    /\ UNCHANGED <<phase, target, threadVars, waiters, maskVars, intrVars, clockVars, eventVars,
                   flags>>

FlagWakes(f) ==
    /\ ReleaseFlag(f)
    /\ IsWaiting(Scanned(f)) /\ ScannedMatches(f)
    /\ LET w == wait[Scanned(f)]
       IN  flags' = [flags EXCEPT ![f].pattern = AfterMatch(@, w.bits, w.mode)]
    /\ DropScanned(f)
    /\ MakeReady(<<Scanned(f)>>)
    /\ UNCHANGED <<phase, loopVars, made, prio, initPrio, wakeups, current, maskVars, intrVars,
                   clockVars, eventVars>>

FlagReleased_Mutant(f) ==
    /\ phase = "release" /\ target = f /\ cursor >= Len(waiters[f])
    /\ phase' = "finish"
    /\ UNCHANGED <<loopVars, threadVars, waiters, maskVars, intrVars, clockVars, eventVars, flags>>
FlagReleased(f) ==
    /\ phase = "release" /\ target = f /\ cursor > Len(waiters[f])
    /\ phase' = "finish"
    /\ UNCHANGED <<loopVars, threadVars, waiters, maskVars, intrVars, clockVars, eventVars, flags>>

\* try_match: a poll, or a wait that need not wait, which may overtake waiters.
TakeFlag(f, w) ==
    /\ FlagLive(f)
    /\ Matches(flags[f].pattern, w.bits, w.mode)
    /\ flags' = [flags EXCEPT ![f].pattern = AfterMatch(@, w.bits, w.mode)]
    /\ phase' = "finish"
    /\ UNCHANGED <<loopVars, threadVars, waiters, maskVars, intrVars, clockVars, eventVars>>
PollEventFlag(f, w) == InGuest /\ TakeFlag(f, w)
WaitEventFlagTakes(f, w) == MayWait /\ TakeFlag(f, w)

WaitEventFlagBlocks(f, w, d, cb) ==
    /\ MayWait
    /\ FlagLive(f)
    /\ ~Matches(flags[f].pattern, w.bits, w.mode)
    /\ ~flags[f].multi => waiters[f] = <<>>
    /\ DeliverIf(cb)
    /\ JoinWaiters(f)
    /\ Block([WaitFor("EventFlag", f) EXCEPT !.bits = w.bits, !.mode = w.mode], d)
    /\ UNCHANGED <<loopVars, made, prio, initPrio, wakeups, ready, maskVars, handler, idleIntr,
                   clockVars, vblankHandler, vtimers, flags>>

EventFlagsInit == flags = [f \in Flags |-> NoFlag]

EventFlagsNext ==
    \E f \in Flags :
        \/ \E multi \in BOOLEAN, pattern \in SUBSET Bits : CreateEventFlag(f, multi, pattern)
        \/ DeleteEventFlag(f)
        \/ \E bits \in SUBSET Bits : SetEventFlag(f, bits) \/ ClearEventFlag(f, bits)
        \/ FlagDropsStale(f) \/ FlagSkips(f) \/ FlagWakes(f) \/ FlagReleased(f)
        \/ \E w \in Wanted : PollEventFlag(f, w) \/ WaitEventFlagTakes(f, w)
        \/ \E w \in Wanted, d \in Timeouts \cup {Never}, cb \in BOOLEAN :
              WaitEventFlagBlocks(f, w, d, cb)
=============================================================================
