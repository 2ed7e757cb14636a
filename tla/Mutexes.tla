------------------------------- MODULE Mutexes -------------------------------
(***************************************************************************)
(* Mutexes (hle/hle_threadman.cpp, Kernel::mutexes).  A lock is taken a    *)
(* number of times at once, again by its owner if the mutex is recursive,  *)
(* and handed to the first waiter when the owner has undone them all.      *)
(***************************************************************************)
EXTENDS Scheduler

CONSTANTS
    Locks,    \* the objects that are mutexes
    MaxLocks  \* bound: the largest lock_count

ASSUME MutexAssumption ==
    /\ Locks \subseteq Objects
    /\ MaxLocks \in Nat \ {0}

VARIABLES mutexes \* uid -> life, kMutexAttrRecursive, owner and lock_count

NoMutex == [life |-> "unused", recursive |-> FALSE, owner |-> Nobody, locks |-> 0]
MutexLive(m) == mutexes[m].life = "live"

CreateMutex(m, recursive, locks) ==
    /\ InThread
    /\ mutexes[m].life = "unused"
    /\ mutexes' = [mutexes EXCEPT ![m] =
           [life |-> "live", recursive |-> recursive, locks |-> locks,
            owner |-> IF locks > 0 THEN current ELSE Nobody]]
    /\ phase' = "finish"
    /\ UNCHANGED <<loopVars, threadVars, waiters, maskVars, intrVars, clockVars, eventVars>>

DeleteMutex(m) ==
    /\ InThread
    /\ MutexLive(m)
    /\ mutexes' = [mutexes EXCEPT ![m] = [NoMutex EXCEPT !.life = "deleted"]]
    /\ target' = m
    /\ phase' = "cancel"
    /\ UNCHANGED <<cursor, threadVars, waiters, maskVars, intrVars, clockVars, eventVars>>

\* Mutex::owner is compared with current_uid_.
Holds_Mutant(m) == mutexes[m].locks # 0
Holds(m) == mutexes[m].locks # 0 /\ mutexes[m].owner = current

LockMutexTakes(m, count) ==
    /\ MayWait
    /\ MutexLive(m)
    /\ mutexes[m].locks = 0
    /\ mutexes' = [mutexes EXCEPT ![m].owner = current, ![m].locks = count]
    /\ phase' = "finish"
    /\ UNCHANGED <<loopVars, threadVars, waiters, maskVars, intrVars, clockVars, eventVars>>

\* A mutex that is not recursive refuses its owner: that call is OtherCall.
LockMutexAgain(m, count) ==
    /\ MayWait
    /\ MutexLive(m)
    /\ Holds(m)
    /\ mutexes[m].recursive
    /\ mutexes[m].locks + count <= MaxLocks
    /\ mutexes' = [mutexes EXCEPT ![m].locks = @ + count]
    /\ phase' = "finish"
    /\ UNCHANGED <<loopVars, threadVars, waiters, maskVars, intrVars, clockVars, eventVars>>

LockMutexBlocks(m, count, d) ==
    /\ MayWait
    /\ MutexLive(m)
    /\ mutexes[m].locks # 0 /\ mutexes[m].owner # current
    /\ JoinWaiters(m)
    /\ Block([WaitFor("Mutex", m) EXCEPT !.count = count], d)
    /\ UNCHANGED <<loopVars, made, prio, initPrio, wakeups, ready, maskVars, intrVars, clockVars,
                   eventVars, mutexes>>

StaysLocked_Mutant(m, count) == count <= mutexes[m].locks
StaysLocked(m, count) == count < mutexes[m].locks

UnlockMutex(m, count) ==
    /\ MayWait
    /\ MutexLive(m)
    /\ Holds(m)
    /\ count <= mutexes[m].locks
    /\ IF StaysLocked(m, count)
       THEN /\ mutexes' = [mutexes EXCEPT ![m].locks = @ - count]
            /\ phase' = "finish"
            /\ UNCHANGED target
       ELSE /\ mutexes' = [mutexes EXCEPT ![m].locks = 0, ![m].owner = Nobody]
            /\ target' = m
            /\ phase' = "release"
    /\ UNCHANGED <<cursor, threadVars, waiters, maskVars, intrVars, clockVars, eventVars>>

\* The outcomes of one turn of release_mutex_waiters's loop.
ReleaseMutex(m) == phase = "release" /\ target = m /\ mutexes[m].locks = 0 /\ waiters[m] # <<>>

MutexDropsStale(m) ==
    /\ ReleaseMutex(m)
    /\ ~IsWaiting(Head(waiters[m]))
    /\ waiters' = [waiters EXCEPT ![m] = Tail(@)]
    /\ UNCHANGED <<phase, loopVars, threadVars, maskVars, intrVars, clockVars, eventVars, mutexes>>

MutexHandsOver(m) ==
    /\ ReleaseMutex(m)
    /\ LET t == Head(waiters[m])
       IN  /\ IsWaiting(t)
           /\ mutexes' = [mutexes EXCEPT ![m].owner = t, ![m].locks = wait[t].count]
           /\ MakeReady(<<t>>)
    /\ waiters' = [waiters EXCEPT ![m] = Tail(@)]
    /\ UNCHANGED <<phase, loopVars, made, prio, initPrio, wakeups, current, maskVars, intrVars,
                   clockVars, eventVars>>

MutexReleased(m) ==
    /\ phase = "release" /\ target = m
    /\ mutexes[m].locks = 0 => waiters[m] = <<>>
    /\ phase' = "finish"
    /\ UNCHANGED <<loopVars, threadVars, waiters, maskVars, intrVars, clockVars, eventVars, mutexes>>

MutexesInit == mutexes = [m \in Locks |-> NoMutex]

MutexesNext ==
    \E m \in Locks :
        \/ \E recursive \in BOOLEAN, locks \in 0..MaxLocks : CreateMutex(m, recursive, locks)
        \/ DeleteMutex(m)
        \/ \E count \in 1..MaxLocks :
              LockMutexTakes(m, count) \/ LockMutexAgain(m, count) \/ UnlockMutex(m, count)
        \/ \E count \in 1..MaxLocks, d \in Timeouts \cup {Never} : LockMutexBlocks(m, count, d)
        \/ MutexDropsStale(m) \/ MutexHandsOver(m) \/ MutexReleased(m)
=============================================================================
