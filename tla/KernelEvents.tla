----------------------------- MODULE KernelEvents -----------------------------
(***************************************************************************)
(* The guest's calls on what runs as an interrupt: the vblank handler      *)
(* (hle/hle_system.cpp), callbacks and virtual timers                      *)
(* (hle/hle_threadman.cpp).  Queueing and running them is Scheduler's.     *)
(***************************************************************************)
EXTENDS Scheduler

CONSTANT VBlankHandlers  \* whether the program registers a vblank handler

ASSUME KernelEventsAssumption == VBlankHandlers \in BOOLEAN

EventCall ==
    /\ InThread
    /\ phase' = "finish"
    /\ UNCHANGED <<loopVars, threadVars, waiters, maskVars, intrVars, clockVars>>

\* A handler registered again keeps whether it was enabled.
RegisterVBlankHandler ==
    /\ VBlankHandlers
    /\ EventCall
    /\ vblankHandler' = IF vblankHandler = "enabled" THEN "enabled" ELSE "registered"
    /\ UNCHANGED <<callbacks, vtimers>>
EnableVBlankHandler ==
    /\ EventCall
    /\ vblankHandler # "none" /\ vblankHandler' = "enabled"
    /\ UNCHANGED <<callbacks, vtimers>>
ReleaseVBlankHandler ==
    /\ EventCall
    /\ vblankHandler # "none" /\ vblankHandler' = "none"
    /\ UNCHANGED <<callbacks, vtimers>>

\* Uids are never used again, so a deleted callback stays "made".
CreateCallback(c) ==
    /\ EventCall
    /\ ~callbacks[c].made
    /\ callbacks' = [callbacks EXCEPT ![c] = [made |-> TRUE, owner |-> current, notified |-> FALSE]]
    /\ UNCHANGED <<vblankHandler, vtimers>>
DeleteCallback(c) ==
    /\ EventCall
    /\ callbacks[c].owner # Nobody
    /\ callbacks' = [callbacks EXCEPT ![c] = [made |-> TRUE, owner |-> Nobody, notified |-> FALSE]]
    /\ UNCHANGED <<vblankHandler, vtimers>>

\* notify_callback, which registering a power or memory stick callback calls.
NotifyCallback(c) ==
    /\ EventCall
    /\ callbacks[c].owner # Nobody
    /\ callbacks' = [callbacks EXCEPT ![c].notified = TRUE]
    /\ UNCHANGED <<vblankHandler, vtimers>>

CreateVTimer(v) ==
    /\ EventCall
    /\ ~vtimers[v].made
    /\ vtimers' = [vtimers EXCEPT ![v].made = TRUE]
    /\ UNCHANGED <<vblankHandler, callbacks>>

\* A timer is never stopped; starting one that runs is OtherCall.
StartVTimer(v) ==
    /\ EventCall
    /\ vtimers[v].made /\ ~vtimers[v].active
    /\ vtimers' = [vtimers EXCEPT ![v].active = TRUE]
    /\ UNCHANGED <<vblankHandler, callbacks>>

\* Nothing keeps the guest from setting a handler while a call to it is queued;
\* a program that does is one of its own ("early rearm").
CallQueued(v) == \E k \in DOMAIN pending : pending[k].kind = "vtimer" /\ pending[k].id = v
SetVTimerHandler(v, left, armed) ==
    /\ EventCall
    /\ vtimers[v].made
    /\ CallQueued(v) => "early rearm" \in Uses
    /\ vtimers' = [vtimers EXCEPT ![v].left = left, ![v].armed = armed]
    /\ UNCHANGED <<vblankHandler, callbacks>>

KernelEventsNext ==
    \/ RegisterVBlankHandler \/ EnableVBlankHandler \/ ReleaseVBlankHandler
    \/ \E c \in Callbacks : CreateCallback(c) \/ DeleteCallback(c) \/ NotifyCallback(c)
    \/ \E v \in VTimers : CreateVTimer(v) \/ StartVTimer(v)
    \/ \E v \in VTimers, left \in Delays \cup {0}, armed \in BOOLEAN :
          SetVTimerHandler(v, left, armed)
=============================================================================
