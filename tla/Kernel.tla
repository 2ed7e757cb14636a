-------------------------------- MODULE Kernel --------------------------------
(***************************************************************************)
(* The guest kernel: its scheduler, the calls of its threads on threads,   *)
(* semaphores, event flags, mutexes, callbacks, virtual timers and the     *)
(* vblank handler, and what all of that has to keep true.                  *)
(***************************************************************************)
EXTENDS Threads, Semaphores, EventFlags, Mutexes, KernelEvents

CONSTANT MaxObjects  \* bound: the objects created of those in Objects

ASSUME KernelAssumption ==
    /\ MaxObjects \in Nat
    /\ Objects = Semas \cup Flags \cup Locks
    /\ Semas \cap Flags = {} /\ Semas \cap Locks = {} /\ Flags \cap Locks = {}

objectVars == <<semas, flags, mutexes>>
vars == <<schedulerVars, objectVars>>

Init == SchedulerInit /\ SemaphoresInit /\ EventFlagsInit /\ MutexesInit

\* What the kernel does between two pieces of guest code.
Internal ==
    \/ FinishInterrupt \/ FinishPreempt \/ FinishReturn
    \/ ProcessTimers
    \/ PickInterrupt \/ PickThread \/ PickDeadlock \/ PickIdle
    \/ BoundaryInterrupt \/ BoundaryPreempt \/ BoundaryReturn
    \/ CancelWaiter \/ CancelDone

ObjectStep ==
    \/ SemaphoresNext /\ UNCHANGED <<flags, mutexes>>
    \/ EventFlagsNext /\ UNCHANGED <<semas, mutexes>>
    \/ MutexesNext /\ UNCHANGED <<semas, flags>>

Created ==
    {s \in Semas : semas[s].life # "unused"} \cup {f \in Flags : flags[f].life # "unused"}
        \cup {m \in Locks : mutexes[m].life # "unused"}

Next ==
    \/ (SchedulerNext \/ ThreadsNext \/ KernelEventsNext \/ Stopped) /\ UNCHANGED objectVars
    \/ ObjectStep /\ Cardinality(Created') <= MaxObjects

Spec == Init /\ [][Next]_vars

\* The kernel is sequential code that runs to its end, and handlers return.
HandlerEnds == ReturnToHandler \/ ReturnToSchedule \/ ReturnAndPreempt \/ ReturnToThread
KernelRuns ==
    /\ WF_vars((Internal \/ HandlerEnds) /\ UNCHANGED objectVars)
    /\ WF_vars(phase = "release" /\ ObjectStep)
\* run_starvation_boundary interrupts whatever thread runs every so many
\* dispatches, however many kernel calls it makes in between, and the work
\* between two boundaries is charged: true of a thread that computes for a
\* microsecond or longer after its last kernel call.
WorkIsCharged == SF_vars((\E c \in 1..Quantum : Starvation(c)) /\ UNCHANGED objectVars)

ChargedSpec == Spec /\ KernelRuns /\ WorkIsCharged
-----------------------------------------------------------------------------
(* The type invariant *)

ThreadsTypeOK ==
    /\ made \in 1..MaxThreads
    /\ status \in [Uids -> Statuses]
    /\ prio \in [Uids -> Priorities]
    /\ initPrio \in [Uids -> Priorities]
    /\ wait \in [Uids -> Waits]
    /\ deadline \in [Uids -> Nat \cup {Never}]
    /\ wakeups \in [Uids -> 0..MaxWakeups]
    /\ ready \in Seq(Uids)
    /\ current \in Uids \cup {Nobody}

EventsTypeOK ==
    /\ handler \in Calls \cup {NoCall}
    /\ idleIntr \in BOOLEAN
    /\ pending \in Seq(Calls)
    /\ vblankHandler \in {"none", "registered", "enabled"}
    /\ callbacks \in [Callbacks -> [made : BOOLEAN, owner : Uids \cup {Nobody}, notified : BOOLEAN]]
    /\ vtimers \in [VTimers -> [made : BOOLEAN, active : BOOLEAN, armed : BOOLEAN,
                                left : Int \cup {Never}]]

Lives == {"unused", "live", "deleted"}
ObjectsTypeOK ==
    /\ semas \in [Semas -> [life : Lives, count : Nat, max : 1..MaxCount]]
    /\ flags \in [Flags -> [life : Lives, multi : BOOLEAN, pattern : SUBSET Bits]]
    /\ mutexes \in [Locks -> [life : Lives, recursive : BOOLEAN,
                              owner : Uids \cup {Nobody}, locks : Nat]]

TypeOK ==
    /\ phase \in Phases
    /\ target \in Objects \cup {Nobody}
    /\ cursor \in Nat
    /\ ThreadsTypeOK
    /\ waiters \in [Objects -> Seq(Uids \cup {Nobody})]
    /\ dispatchOn \in BOOLEAN /\ intrOn \in BOOLEAN
    /\ vblankIn \in Int /\ idleVblanks \in Nat
    /\ EventsTypeOK
    /\ ObjectsTypeOK
-----------------------------------------------------------------------------
(* Scheduling *)

\* One thread is running, the one current_uid_ names, and no thread runs while
\* the kernel has none: exits, preemptions, waits and the switch to a thread
\* after an interrupt that came while all were waiting keep the two in step.
OneRunning == \A t \in Uids : status[t] = "Running" <=> current = t

\* The preemption rule of finish, on_starvation and interrupt_return_stub taken
\* together: while guest thread code runs and neither interrupts nor dispatch
\* are held off, no ready thread is more urgent than the running one.
UrgentRuns ==
    InThread /\ current # Nobody /\ dispatchOn /\ intrOn =>
        \A t \in Uids : status[t] = "Ready" => prio[current] <= prio[t]

\* Kernel::finish, schedule, on_starvation and interrupt_return_stub each begin
\* a pending interrupt call before they go back to a thread: no thread runs on
\* while one is queued and interrupts are enabled.
InterruptsTaken == InThread /\ intrOn => pending = <<>>

\* kernel.cpp:390-395, "Interrupts suspended means no preemption": a thread that
\* has suspended interrupts or dispatch goes on running until it waits or ends.
NoPreemption ==
    [][current # Nobody /\ ~(intrOn /\ dispatchOn) => status'[current] # "Ready"]_vars

\* sceKernelWakeupThread stores a wakeup or ends a sleep, never both and never
\* neither: a thread is not asleep on a wakeup it was given before.
NoLostWakeup ==
    \A t \in Uids : IsWaiting(t) /\ wait[t].type = "Sleep" => wakeups[t] = 0

\* A thread waits for the end of one that has not ended: exit_current_thread
\* wakes every waiter, whoever deletes the ended thread and whenever.
JoinedIsAlive ==
    \A t \in Uids : IsWaiting(t) /\ wait[t].type = "ThreadEnd" =>
        status[wait[t].object] \notin {"Gone", "Dormant"}

\* "Disarm until the handler returns, so it cannot fire again meanwhile"
\* (kernel.cpp:649): a virtual timer has one call queued or running at most.
OneCallPerTimer ==
    \A v \in VTimers :
        LET queued == {k \in DOMAIN pending : pending[k].kind = "vtimer" /\ pending[k].id = v}
            running == IF handler.kind = "vtimer" /\ handler.id = v THEN 1 ELSE 0
        IN  Cardinality(queued) + running <= 1

\* The report "PSP scheduler deadlock: no runnable thread" is true: no thread
\* has a time at which its wait ends.  It is so as long as every delay is shorter
\* than IdleLimit vblank periods, five minutes of the emulated machine.
DeadlockIsReal == phase = "stopped" => \A t \in Uids : IsWaiting(t) => deadline[t] = Never

\* "Virtual time jumps to the next event whenever every thread waits"
\* (kernel.cpp:540): schedule never goes round its loop at the same moment, so it
\* ends with a thread, a handler or the deadlock report.
IdleAdvances == [][phase = "pick" /\ phase' = "timers" => vblankIn' < vblankIn]_vars

\* Kernel::why_no_state: a save state is refused for one of these reasons.
WhyNoState_Mutant == handler # NoCall \/ pending # <<>>
WhyNoState ==
    \/ handler # NoCall
    \/ pending # <<>>
    \/ \E t \in Uids : IsWaiting(t) /\ wait[t].type = "Host"

\* "A host wait cannot be restored, and a state holding one should never have
\* been written" (kernel_state.cpp:381-383): what read_state refuses is never in
\* a kernel that why_no_state lets be saved.
SavedStateLoads ==
    InThread /\ ~WhyNoState => \A t \in Uids : status[t] # "Gone" => wait[t].type # "Host"
-----------------------------------------------------------------------------
(* Waiting on objects *)

WaitsOn(t, o) == IsWaiting(t) /\ wait[t].type \in ObjectWaits /\ wait[t].object = o

\* No wakeup is lost for want of a list entry: whatever was timed out, released
\* or called from a handler before, a thread that waits on an object is in the
\* list that object's release and deletion go through.
WaitingIsListed == \A o \in Objects, t \in Uids : WaitsOn(t, o) => t \in Range(waiters[o])

\* Every wait, timeout, termination, grant and deletion keeps the waiter lists
\* and the threads' wait records in step: a thread is in the list of an object,
\* once, exactly when it waits on that object.
WaitersConsistent ==
    \A o \in Objects :
        /\ \A i \in DOMAIN waiters[o] : WaitsOn(waiters[o][i], o)
        /\ \A i, j \in DOMAIN waiters[o] : waiters[o][i] = waiters[o][j] => i = j
        /\ \A t \in Uids : WaitsOn(t, o) => t \in Range(waiters[o])

\* "Re-evaluates the waiters of an object after its state changed"
\* (kernel.hpp:294): a release loop ends the waits on its own object and no other.
ReleaseWakesItsOwn ==
    [][phase = "release" =>
        \A t \in Uids : IsWaiting(t) /\ ~WaitsOn(t, target) => status'[t] = "Waiting"]_vars

\* A semaphore's count never stays above max_count: the check of
\* sceKernelSignalSema, which counts the waiters and not what they want, is
\* made good by the release of the waiters that follows it.
SemaCountInRange ==
    \A s \in Semas : SemaLive(s) =>
        /\ semas[s].count - Len(waiters[s]) <= semas[s].max
        /\ phase # "release" \/ target # s => semas[s].count <= semas[s].max

\* First come, first served: units go to the first waiter, and to a thread that
\* does not wait only when none waits.
SemaFirstComeFirstServed ==
    [][\A s \in Semas : SemaLive(s) /\ SemaLive(s)' /\ semas'[s].count < semas[s].count
        => waiters[s] = <<>> \/ waiters'[s] = Tail(waiters[s])]_vars

\* The scan of an event flag's waiters is complete although each match may clear
\* bits: at rest no waiter's condition holds of the pattern.
NoFlagMissed ==
    \A f \in Flags, t \in Uids :
        WaitsOn(t, f) /\ ~(phase = "release" /\ target = f)
            => ~Matches(flags[f].pattern, wait[t].bits, wait[t].mode)

\* Whatever stale entries sceKernelReleaseWaitThread left in its list, as long as
\* the threads they name wait for nothing else (ReleaseWakesItsOwn): a mutex is
\* held exactly while it has an owner, nobody waits for a free one, and no thread
\* waits for a mutex it holds.
MutexHeldWhileWaited ==
    \A m \in Locks : MutexLive(m) =>
        /\ mutexes[m].locks > 0 <=> mutexes[m].owner # Nobody
        /\ waiters[m] # <<>> /\ ~(phase = "release" /\ target = m) => mutexes[m].locks > 0
        /\ ~WaitsOn(mutexes[m].owner, m)

\* While a thread holds a mutex, no step that is not made in that thread's name
\* changes whose it is or how often it is locked, short of deleting it.
OnlyOwnerChangesMutex ==
    [][\A m \in Locks : MutexLive(m) /\ mutexes[m].locks > 0 /\ mutexes'[m].life = "live"
        /\ mutexes'[m] # mutexes[m] => current = mutexes[m].owner]_vars
-----------------------------------------------------------------------------
(* Liveness *)

\* A ready thread gets to run unless a more urgent one is about: the boundary
\* hands over between equals, however long each would go on by itself.
Urgent(t) == \A u \in Uids : status[u] # "Gone" => prio[t] <= prio[u]
ReadyRuns == \A t \in Uids : status[t] = "Ready" /\ Urgent(t) ~> status[t] # "Ready" \/ ~Urgent(t)

\* A delay ends, whatever the other threads do meanwhile.
DelayEnds == \A t \in Uids : (IsWaiting(t) /\ wait[t].type = "Delay")
                             ~> ~(IsWaiting(t) /\ wait[t].type = "Delay")

\* A thread waiting for the vblank sees one.
VBlankEnds == \A t \in Uids : (IsWaiting(t) /\ wait[t].type = "VBlank")
                              ~> ~(IsWaiting(t) /\ wait[t].type = "VBlank")
=============================================================================
