------------------------------ MODULE Semaphores ------------------------------
(***************************************************************************)
(* Counting semaphores (hle/hle_threadman.cpp, Kernel::semaphores).  A     *)
(* waiter wants a number of units and the list is served first come first  *)
(* served.                                                                 *)
(***************************************************************************)
EXTENDS Scheduler

CONSTANTS
    Semas,     \* the objects that are semaphores
    MaxCount,  \* bound: the largest max_count
    MaxSignal  \* bound: the most units one signal adds

ASSUME SemaphoreAssumption ==
    /\ Semas \subseteq Objects
    /\ MaxCount \in Nat \ {0}
    /\ MaxSignal \in Nat \ {0}

VARIABLES semas \* uid -> life, count and max_count of Semaphore

NoSema == [life |-> "unused", count |-> 0, max |-> 1]
SemaLive(s) == semas[s].life = "live"

CreateSema(s, initial, max) ==
    /\ InThread
    /\ semas[s].life = "unused"
    /\ initial <= max
    /\ semas' = [semas EXCEPT ![s] = [life |-> "live", count |-> initial, max |-> max]]
    /\ phase' = "finish"
    /\ UNCHANGED <<loopVars, threadVars, waiters, maskVars, intrVars, clockVars, eventVars>>

DeleteSema(s) ==
    /\ InThread
    /\ SemaLive(s)
    /\ semas' = [semas EXCEPT ![s] = [NoSema EXCEPT !.life = "deleted"]]
    /\ target' = s
    /\ phase' = "cancel"
    /\ UNCHANGED <<cursor, threadVars, waiters, maskVars, intrVars, clockVars, eventVars>>

\* Refused when the count would pass max_count even after every waiter took one.
SignalFits_Mutant(s, signal) == semas[s].count - Len(waiters[s]) <= semas[s].max
SignalFits(s, signal) == semas[s].count + signal - Len(waiters[s]) <= semas[s].max
SignalSema(s, signal) ==
    /\ InGuest
    /\ SemaLive(s)
    /\ SignalFits(s, signal)
    /\ semas' = [semas EXCEPT ![s].count = @ + signal]
    /\ target' = s
    /\ phase' = "release"
    /\ UNCHANGED <<cursor, threadVars, waiters, maskVars, intrVars, clockVars, eventVars>>

\* The three outcomes of one turn of release_semaphore_waiters's loop.
ReleaseSema(s) == phase = "release" /\ target = s
SemaGrantable_Mutant(s) == wait[Head(waiters[s])].count <= semas[s].count + 1
SemaGrantable(s) == wait[Head(waiters[s])].count <= semas[s].count

\* The entry names no thread, or a thread that does not wait for anything.
SemaStale_Mutant(s) == TRUE
SemaStale(s) == ~IsWaiting(Head(waiters[s]))

SemaDropsStale(s) ==
    /\ ReleaseSema(s) /\ waiters[s] # <<>>
    /\ SemaStale(s)
    /\ waiters' = [waiters EXCEPT ![s] = Tail(@)]
    /\ UNCHANGED <<phase, loopVars, threadVars, maskVars, intrVars, clockVars, eventVars, semas>>

SemaGrants(s) ==
    /\ ReleaseSema(s) /\ waiters[s] # <<>>
    /\ ~SemaStale(s) /\ SemaGrantable(s)
    /\ semas' = [semas EXCEPT ![s].count = @ - wait[Head(waiters[s])].count]
    /\ waiters' = [waiters EXCEPT ![s] = Tail(@)]
    /\ MakeReady(<<Head(waiters[s])>>)
    /\ UNCHANGED <<phase, loopVars, made, prio, initPrio, wakeups, current, maskVars, intrVars,
                   clockVars, eventVars>>

SemaReleased(s) ==
    /\ ReleaseSema(s)
    /\ waiters[s] # <<>> => ~SemaStale(s) /\ ~SemaGrantable(s)
    /\ phase' = "finish"
    /\ UNCHANGED <<loopVars, threadVars, waiters, maskVars, intrVars, clockVars, eventVars, semas>>

\* A newcomer does not overtake: it takes units only when nobody waits.
SemaFree_Mutant(s, wanted) == wanted <= semas[s].count
SemaFree(s, wanted) == waiters[s] = <<>> /\ wanted <= semas[s].count
TakeSema(s, wanted) ==
    /\ SemaLive(s)
    /\ SemaFree(s, wanted)
    /\ semas' = [semas EXCEPT ![s].count = @ - wanted]
    /\ phase' = "finish"
    /\ UNCHANGED <<loopVars, threadVars, waiters, maskVars, intrVars, clockVars, eventVars>>

WaitSemaTakes(s, wanted) == MayWait /\ wanted <= semas[s].max /\ TakeSema(s, wanted)
PollSema(s, wanted) == InGuest /\ TakeSema(s, wanted)

WaitSemaBlocks(s, wanted, d, cb) ==
    /\ MayWait
    /\ SemaLive(s)
    /\ wanted <= semas[s].max
    /\ ~SemaFree(s, wanted)
    /\ DeliverIf(cb)
    /\ JoinWaiters(s)
    /\ Block([WaitFor("Semaphore", s) EXCEPT !.count = wanted], d)
    /\ UNCHANGED <<loopVars, made, prio, initPrio, wakeups, ready, maskVars, handler, idleIntr,
                   clockVars, vblankHandler, vtimers, semas>>

SemaphoresInit == semas = [s \in Semas |-> NoSema]

SemaphoresNext ==
    \E s \in Semas :
        \/ \E max \in 1..MaxCount : \E initial \in 0..max : CreateSema(s, initial, max)
        \/ DeleteSema(s)
        \/ \E signal \in 1..MaxSignal : SignalSema(s, signal)
        \/ SemaDropsStale(s) \/ SemaGrants(s) \/ SemaReleased(s)
        \/ \E wanted \in 1..MaxCount : WaitSemaTakes(s, wanted) \/ PollSema(s, wanted)
        \/ \E wanted \in 1..MaxCount, d \in Timeouts \cup {Never}, cb \in BOOLEAN :
              WaitSemaBlocks(s, wanted, d, cb)
=============================================================================
