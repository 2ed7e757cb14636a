------------------------------ MODULE Scheduler ------------------------------
(***************************************************************************)
(* The guest kernel's scheduler (profiles/mga/host/kernel/kernel.cpp): the *)
(* thread table, the ready order, the emulated clock, guest interrupt      *)
(* handlers, and the paths on which a kernel call ends.                    *)
(*                                                                         *)
(* The emulator is one host thread.  Guest code runs until it makes a      *)
(* kernel call, crosses a starvation boundary or returns from an interrupt *)
(* handler; what the kernel then does is sequential C++.  `phase' says     *)
(* where in that sequence it is, so that a loop of the code is a run of    *)
(* steps nothing else can come between:                                    *)
(*   "guest"     guest code runs, in a thread or in an interrupt handler   *)
(*   "release"   a release_*_waiters loop works through waiters[target]    *)
(*   "cancel"    cancel_waiters works through waiters[target]              *)
(*   "finish"    Kernel::finish decides who runs after the call            *)
(*   "timers"    process_timers                                            *)
(*   "pick"      the rest of one iteration of schedule                     *)
(*   "boundary"  the rest of on_starvation                                 *)
(*   "stopped"   the runtime was stopped with a deadlock report            *)
(*                                                                         *)
(* Time is relative: every time below is the distance from now_us_.        *)
(*                                                                         *)
(* X_Mutant, before the definition X, is X as a plausible mistake in the   *)
(* code would have made it.  No specification uses it: it says what a      *)
(* property is there to notice.                                            *)
(***************************************************************************)
EXTENDS Integers, Sequences, FiniteSetsExt, UidLists

CONSTANTS
    MaxThreads,     \* bound: threads ever created; their uids are 1..MaxThreads
    Priorities,     \* priorities in use, smaller is more urgent
    LoaderPriority, \* priority of the thread that runs module_start
    Objects,        \* uids of semaphores, event flags and mutexes
    Bits,           \* the bits of an event flag
    VTimers,        \* uids of virtual timers, positive integers
    Callbacks,      \* uids of callbacks, positive integers
    Delays,         \* times the guest passes to delays and timers
    Timeouts,       \* timeouts the guest passes to waits
    VBlankPeriod,   \* kVBlankPeriodUs
    HostPollPeriod, \* kHostWaitPollUs
    Quantum,        \* starvation_quantum_us_, the largest charge at a boundary
    IdleLimit,      \* kIdleVBlankLimit
    MaxWakeups,     \* bound: stored wakeups of one thread
    MaxPending,     \* bound: vblank and callback handler calls waiting to run
    MaxWaiters,     \* bound: entries of one waiter list
    MaxLate,        \* bound: how late a virtual timer is told apart
    Never,          \* no deadline, or a timer that is not armed
    Uses            \* the families of calls the guest program makes

Families == {"create", "start", "exit", "terminate", "priority", "sleep", "delay", "vblank",
             "thread end", "host wait", "release wait", "mask interrupts", "mask dispatch",
             "handler wait", "handler mask", "early rearm"}

Uids == 1..MaxThreads
Nobody == 0

Phases == {"guest", "release", "cancel", "finish", "timers", "pick", "boundary", "stopped"}
Statuses == {"Gone", "Dormant", "Ready", "Running", "Waiting"}
WaitTypes == {"None", "Delay", "Sleep", "Semaphore", "EventFlag", "Mutex", "VBlank",
              "ThreadEnd", "Host"}
ObjectWaits == {"Semaphore", "EventFlag", "Mutex"}
Modes == [any : BOOLEAN, clear : {"none", "bits", "all"}]
Waits == [type : WaitTypes, object : Objects \cup Uids \cup {Nobody},
          count : Nat, bits : SUBSET Bits, mode : Modes]
AnyMode == [any |-> FALSE, clear |-> "none"]
WaitFor(type, object) ==
    [type |-> type, object |-> object, count |-> 0, bits |-> {}, mode |-> AnyMode]
NoWait == WaitFor("None", Nobody)

\* A guest function queued to run in interrupt context.  `at' is the time a
\* virtual timer's call was due, which its on_return closure captures.
NoCall == [kind |-> "none", id |-> 0, at |-> 0]
VBlankCall == [kind |-> "vblank", id |-> 0, at |-> 0]
CallbackCall(c) == [kind |-> "callback", id |-> c, at |-> 0]
VTimerCall(v, at) == [kind |-> "vtimer", id |-> v, at |-> at]
Calls == [kind : {"vblank"}, id : {0}, at : {0}]
         \cup [kind : {"callback"}, id : Callbacks, at : {0}]
         \cup [kind : {"vtimer"}, id : VTimers, at : Int]

ASSUME SchedulerAssumption ==
    /\ MaxThreads \in Nat \ {0}
    /\ Priorities \subseteq Nat \ {0}
    /\ LoaderPriority \in Priorities
    /\ Objects \cap (Uids \cup {Nobody}) = {}
    /\ VTimers \subseteq Nat /\ IsFiniteSet(VTimers)
    /\ Callbacks \subseteq Nat /\ IsFiniteSet(Callbacks)
    /\ Delays \subseteq Nat \ {0}
    /\ Timeouts \subseteq Nat
    /\ VBlankPeriod \in Nat \ {0}
    /\ HostPollPeriod \in Nat \ {0}
    /\ Quantum \in Nat /\ Quantum < VBlankPeriod
    /\ IdleLimit \in Nat
    /\ MaxWakeups \in Nat /\ MaxPending \in Nat /\ MaxWaiters \in Nat /\ MaxLate \in Nat
    /\ Never \notin Int
    /\ Uses \subseteq Families

VARIABLES
    phase,         \* where the kernel is, see above
    target,        \* the object a release or cancel loop works on
    cursor,        \* its position in waiters[target]
    made,          \* threads ever created: next_uid_
    status,        \* Thread::status, "Gone" without a thread of that uid
    prio,          \* Thread::priority
    initPrio,      \* Thread::initial_priority
    wait,          \* Thread::wait
    deadline,      \* Thread::wait.deadline_us
    wakeups,       \* Thread::wakeup_count
    ready,         \* the ready threads, by ready_sequence
    current,       \* current_uid_
    waiters,       \* the waiter deque of every synchronization object
    dispatchOn,    \* dispatch_enabled_
    intrOn,        \* interrupts_enabled_
    handler,       \* the running interrupt call; NoCall is !interrupt_active_
    idleIntr,      \* interrupted_idle_
    pending,       \* pending_interrupts_
    vblankIn,      \* next_vblank_us_
    idleVblanks,   \* idle_vblanks_
    vblankHandler, \* the vblank entry of sub_interrupts
    callbacks,     \* callbacks
    vtimers        \* vtimers

loopVars == <<target, cursor>>
threadVars == <<made, status, prio, initPrio, wait, deadline, wakeups, ready, current>>
maskVars == <<dispatchOn, intrOn>>
intrVars == <<handler, idleIntr, pending>>
clockVars == <<vblankIn, idleVblanks>>
eventVars == <<vblankHandler, callbacks, vtimers>>
schedulerVars == <<phase, loopVars, threadVars, waiters, maskVars, intrVars, clockVars, eventVars>>
-----------------------------------------------------------------------------
(* Who runs, and helpers every call is built from *)

IsWaiting(t) == t \in Uids /\ status[t] = "Waiting"

\* Guest code can make a kernel call: in the running thread, or anywhere.
InThread == phase = "guest" /\ handler = NoCall
InGuest == phase = "guest"
\* Waiting calls made from a handler fail, but not before some state changed.
MayWait == InGuest /\ (handler # NoCall => "handler wait" \in Uses)

\* best_ready_thread: the most urgent thread, the longest ready among equals.
Best == ready[CHOOSE i \in DOMAIN ready : \A j \in DOMAIN ready :
            \/ prio[ready[i]] < prio[ready[j]]
            \/ prio[ready[i]] = prio[ready[j]] /\ i <= j]

\* make_ready for the threads of the sequence q, in its order.
MakeReady(q) ==
    /\ status' = [t \in Uids |-> IF t \in Range(q) THEN "Ready" ELSE status[t]]
    /\ wait' = [t \in Uids |-> IF t \in Range(q) THEN NoWait ELSE wait[t]]
    /\ deadline' = [t \in Uids |-> IF t \in Range(q) THEN Never ELSE deadline[t]]
    /\ ready' = ready \o q

\* switch_to(t) with no thread running.
SwitchTo_Mutant(t) ==
    /\ status' = [status EXCEPT ![t] = "Running"]
    /\ ready' = Without(ready, {t})
    /\ current' = t
    /\ UNCHANGED idleVblanks
SwitchTo(t) ==
    /\ status' = [status EXCEPT ![t] = "Running"]
    /\ ready' = Without(ready, {t})
    /\ current' = t
    /\ idleVblanks' = 0

\* save_current(Ready) and switch_to(t): the running thread goes to the back.
PreemptBy_Mutant(t) ==
    /\ status' = [status EXCEPT ![t] = "Running"]
    /\ ready' = Append(Without(ready, {t}), current)
    /\ current' = t
    /\ UNCHANGED <<wait, deadline, idleVblanks>>
PreemptBy(t) ==
    /\ status' = [status EXCEPT ![t] = "Running", ![current] = "Ready"]
    /\ wait' = [wait EXCEPT ![current] = NoWait]
    /\ deadline' = [deadline EXCEPT ![current] = Never]
    /\ ready' = Append(Without(ready, {t}), current)
    /\ current' = t
    /\ idleVblanks' = 0

\* begin_pending_interrupt: the guest goes on in the oldest queued handler.
BeginInterrupt ==
    /\ handler' = Head(pending)
    /\ pending' = Tail(pending)
    /\ phase' = "guest"

\* Kernel::block: a handler cannot wait, a thread waits and schedule runs.
Block(w, d) ==
    IF handler # NoCall \/ current = Nobody
    THEN UNCHANGED <<phase, status, wait, deadline, current>>
    ELSE /\ status' = [status EXCEPT ![current] = "Waiting"]
         /\ wait' = [wait EXCEPT ![current] = w]
         /\ deadline' = [deadline EXCEPT ![current] = d]
         /\ current' = Nobody
         /\ phase' = "timers"

\* The caller, whoever that is, goes to the back of an object's waiter list.
JoinWaiters_Mutant(o) == Len(waiters[o]) < MaxWaiters /\ UNCHANGED waiters
JoinWaiters(o) == Len(waiters[o]) < MaxWaiters /\ waiters' = [waiters EXCEPT ![o] = Append(@, current)]

\* remove_waiter for the threads in S, each from the object it waits on.
RemoveWaiters_Mutant(S) == UNCHANGED waiters
RemoveWaiters(S) ==
    waiters' = [o \in Objects |->
        Without(waiters[o], {t \in S : wait[t].type \in ObjectWaits /\ wait[t].object = o})]

\* deliver_callbacks: the notified callbacks of the current thread are queued.
Deliverable == {c \in Callbacks : handler = NoCall /\ current # Nobody
                                  /\ callbacks[c].notified /\ callbacks[c].owner = current}
DeliverCallbacks ==
    /\ Deliverable # {} => Len(pending) + Cardinality(Deliverable) <= MaxPending
    /\ pending' = pending \o [k \in 1..Cardinality(Deliverable) |->
                                CallbackCall(InUidOrder(Deliverable)[k])]
    /\ callbacks' = [c \in Callbacks |-> IF c \in Deliverable
                                         THEN [callbacks[c] EXCEPT !.notified = FALSE]
                                         ELSE callbacks[c]]
\* A *CB variant delivers callbacks before it waits, the plain call does not.
DeliverIf(cb) == IF cb THEN DeliverCallbacks ELSE UNCHANGED <<pending, callbacks>>

\* The clock moves on by c: every distance shrinks.
Later(x, c) == IF x = Never THEN Never ELSE IF x - c < -MaxLate THEN -MaxLate ELSE x - c
AdvanceClock(c) ==
    /\ vblankIn' = vblankIn - c
    /\ deadline' = [t \in Uids |-> IF deadline[t] = Never THEN Never
                                   ELSE IF deadline[t] <= c THEN 0 ELSE deadline[t] - c]
    /\ vtimers' = [v \in VTimers |-> IF vtimers[v].active
                                     THEN [vtimers[v] EXCEPT !.left = Later(@, c)]
                                     ELSE vtimers[v]]
    /\ pending' = [k \in 1..Len(pending) |-> IF pending[k].kind = "vtimer"
                                            THEN [pending[k] EXCEPT !.at = Later(@, c)]
                                            ELSE pending[k]]
    /\ phase' = "timers"
-----------------------------------------------------------------------------
(* Kernel::finish: the end of every call that does not block *)

FinishIn == phase = "finish"
\* In a handler, or with no thread to preempt, the caller simply goes on.
Preemptible == handler = NoCall /\ current # Nobody
Interruptible == intrOn /\ pending # <<>>
FinishSwitches_Mutant == dispatchOn /\ ready # <<>> /\ prio[Best] < prio[current]
FinishSwitches == dispatchOn /\ intrOn /\ ready # <<>> /\ prio[Best] < prio[current]

FinishInterrupt ==
    /\ FinishIn /\ Preemptible
    /\ Interruptible
    /\ BeginInterrupt
    /\ idleIntr' = FALSE
    /\ UNCHANGED <<loopVars, threadVars, waiters, maskVars, clockVars, eventVars>>

FinishPreempt ==
    /\ FinishIn /\ Preemptible
    /\ ~Interruptible /\ FinishSwitches
    /\ PreemptBy(Best)
    /\ phase' = "guest"
    /\ UNCHANGED <<loopVars, made, prio, initPrio, wakeups, waiters, maskVars, intrVars,
                   vblankIn, eventVars>>

FinishReturn_Mutant ==
    /\ FinishIn
    /\ Preemptible => ~FinishSwitches
    /\ phase' = "guest"
    /\ UNCHANGED <<loopVars, threadVars, waiters, maskVars, intrVars, clockVars, eventVars>>
FinishReturn ==
    /\ FinishIn
    /\ Preemptible => ~Interruptible /\ ~FinishSwitches
    /\ phase' = "guest"
    /\ UNCHANGED <<loopVars, threadVars, waiters, maskVars, intrVars, clockVars, eventVars>>
-----------------------------------------------------------------------------
(* process_timers *)

VBlankWoken_Mutant == IF vblankIn < 0
                      THEN {t \in Uids : IsWaiting(t) /\ wait[t].type = "VBlank"} ELSE {}
VBlankWoken == IF vblankIn <= 0
               THEN {t \in Uids : IsWaiting(t) /\ wait[t].type = "VBlank"} ELSE {}
Expired_Mutant == {t \in Uids : IsWaiting(t) /\ wait[t].type \in ObjectWaits /\ deadline[t] = 0}
Expired == {t \in Uids : IsWaiting(t) /\ deadline[t] = 0}
HostWaiting == {t \in Uids : IsWaiting(t) /\ wait[t].type = "Host"}
DueTimers == {v \in VTimers : /\ vtimers[v].active /\ vtimers[v].armed
                              /\ vtimers[v].left # Never /\ vtimers[v].left <= 0}
\* on_vblank queues the handler; beyond MaxPending the model drops the call.
VBlankCalls == IF vblankIn <= 0 /\ vblankHandler = "enabled" /\ Len(pending) < MaxPending
               THEN <<VBlankCall>> ELSE <<>>
VTimerCalls == [k \in 1..Cardinality(DueTimers) |->
                  LET v == InUidOrder(DueTimers)[k] IN VTimerCall(v, vtimers[v].left)]

Disarmed_Mutant(v) == vtimers[v]
Disarmed(v) == [vtimers[v] EXCEPT !.left = Never]

\* `done' are the host waits whose poll returned a result this time.
ProcessTimers ==
    /\ phase = "timers"
    /\ \E done \in SUBSET HostWaiting :
          /\ MakeReady(InUidOrder(VBlankWoken) \o InUidOrder(Expired \cup done))
          /\ RemoveWaiters(Expired)
    /\ vblankIn' = IF vblankIn <= 0 THEN vblankIn + VBlankPeriod ELSE vblankIn
    /\ idleVblanks' = IF vblankIn <= 0 /\ current = Nobody THEN idleVblanks + 1 ELSE idleVblanks
    /\ pending' = pending \o VBlankCalls \o VTimerCalls
    /\ vtimers' = [v \in VTimers |-> IF v \in DueTimers THEN Disarmed(v) ELSE vtimers[v]]
    /\ phase' = IF current = Nobody THEN "pick" ELSE "boundary"
    /\ UNCHANGED <<loopVars, made, prio, initPrio, wakeups, current, maskVars, handler, idleIntr,
                   vblankHandler, callbacks>>
-----------------------------------------------------------------------------
(* schedule, after process_timers: nothing runs yet *)

PickIn == phase = "pick"

PickInterrupt ==
    /\ PickIn /\ Interruptible
    /\ BeginInterrupt
    /\ idleIntr' = TRUE
    /\ UNCHANGED <<loopVars, threadVars, waiters, maskVars, clockVars, eventVars>>

PickThread ==
    /\ PickIn /\ ~Interruptible
    /\ ready # <<>>
    /\ SwitchTo(Best)
    /\ phase' = "guest"
    /\ UNCHANGED <<loopVars, made, prio, initPrio, wait, deadline, wakeups, waiters, maskVars,
                   intrVars, vblankIn, eventVars>>

PickDeadlock ==
    /\ PickIn /\ ~Interruptible
    /\ ready = <<>> /\ idleVblanks > IdleLimit
    /\ phase' = "stopped"
    /\ UNCHANGED <<loopVars, threadVars, waiters, maskVars, intrVars, clockVars, eventVars>>

\* next_event_us: how far away the next thing to happen is.
NextEvents ==
    {vblankIn}
    \cup {deadline[t] : t \in {u \in Uids : IsWaiting(u) /\ deadline[u] # Never}}
    \cup {HostPollPeriod : t \in HostWaiting}
    \cup {vtimers[v].left : v \in {u \in VTimers : /\ vtimers[u].active /\ vtimers[u].armed
                                                   /\ vtimers[u].left # Never /\ vtimers[u].left >= 0}}

\* A disarmed timer's event is at now_us_ + (UINT64_MAX - vtimer_value(timer)).
\* In 64 bits that is base_us - 1: in the past, for a timer started after time 0.
EventWraps == \E v \in VTimers : vtimers[v].active /\ vtimers[v].armed /\ vtimers[v].left = Never

\* advance_clock goes nowhere when the event is in the past.
IdleStep == IF EventWraps THEN 0 ELSE Min(NextEvents)

PickIdle ==
    /\ PickIn /\ ~Interruptible
    /\ ready = <<>> /\ idleVblanks <= IdleLimit
    /\ AdvanceClock(IdleStep)
    /\ UNCHANGED <<loopVars, made, status, prio, initPrio, wait, wakeups, ready, current, waiters,
                   maskVars, handler, idleIntr, idleVblanks, vblankHandler, callbacks>>
-----------------------------------------------------------------------------
(* on_starvation: a thread ran for a while without a kernel call *)

\* The host decides how much emulated time the work is charged: c.
Starvation(c) ==
    /\ InThread /\ current # Nobody
    /\ AdvanceClock(c)
    /\ UNCHANGED <<loopVars, made, status, prio, initPrio, wait, wakeups, ready, current, waiters,
                   maskVars, handler, idleIntr, idleVblanks, vblankHandler, callbacks>>

BoundaryIn == phase = "boundary"
\* At a boundary, and only there, an equally urgent thread takes over.
BoundarySwitches_Mutant == dispatchOn /\ intrOn /\ ready # <<>> /\ prio[Best] < prio[current]
BoundarySwitches == dispatchOn /\ intrOn /\ ready # <<>> /\ prio[Best] <= prio[current]

BoundaryInterrupt ==
    /\ BoundaryIn /\ Interruptible
    /\ BeginInterrupt
    /\ idleIntr' = FALSE
    /\ UNCHANGED <<loopVars, threadVars, waiters, maskVars, clockVars, eventVars>>

BoundaryPreempt ==
    /\ BoundaryIn /\ ~Interruptible
    /\ BoundarySwitches
    /\ PreemptBy(Best)
    /\ phase' = "guest"
    /\ UNCHANGED <<loopVars, made, prio, initPrio, wakeups, waiters, maskVars, intrVars,
                   vblankIn, eventVars>>

BoundaryReturn ==
    /\ BoundaryIn /\ ~Interruptible /\ ~BoundarySwitches
    /\ phase' = "guest"
    /\ UNCHANGED <<loopVars, threadVars, waiters, maskVars, intrVars, clockVars, eventVars>>
-----------------------------------------------------------------------------
(* interrupt_return_stub: the running handler returned *)

\* The on_return closure of a timer's call gets the handler's result: the delay
\* until the next call, from the time this one was due, or 0 to stop.
OnReturn ==
    IF handler.kind = "vtimer"
    THEN \E next \in Delays \cup {0} :
            vtimers' = IF next = 0
                       THEN [vtimers EXCEPT ![handler.id].armed = FALSE]
                       ELSE [vtimers EXCEPT ![handler.id].left = handler.at + next]
    ELSE UNCHANGED vtimers

HandlerReturns == InGuest /\ handler # NoCall

ReturnToHandler ==
    /\ HandlerReturns /\ Interruptible
    /\ OnReturn
    /\ BeginInterrupt
    /\ UNCHANGED <<loopVars, threadVars, waiters, maskVars, idleIntr, clockVars, vblankHandler,
                   callbacks>>

ReturnToSchedule ==
    /\ HandlerReturns /\ ~Interruptible
    /\ ~idleIntr => current = Nobody
    /\ OnReturn
    /\ handler' = NoCall
    /\ idleIntr' = FALSE
    /\ current' = Nobody
    /\ phase' = "timers"
    /\ UNCHANGED <<loopVars, made, status, prio, initPrio, wait, deadline, wakeups, ready, waiters,
                   maskVars, pending, clockVars, vblankHandler, callbacks>>

\* Unlike finish, this looks at dispatch_enabled_ alone.
ReturnPreempts_Mutant == FALSE
ReturnPreempts == dispatchOn /\ ready # <<>> /\ prio[Best] < prio[current]

ReturnAndPreempt ==
    /\ HandlerReturns /\ ~Interruptible
    /\ ~idleIntr /\ current # Nobody
    /\ ReturnPreempts
    /\ OnReturn
    /\ handler' = NoCall
    /\ PreemptBy(Best)
    /\ UNCHANGED <<phase, loopVars, made, prio, initPrio, wakeups, waiters, maskVars, idleIntr,
                   pending, vblankIn, vblankHandler, callbacks>>

ReturnToThread ==
    /\ HandlerReturns /\ ~Interruptible
    /\ ~idleIntr /\ current # Nobody
    /\ ~ReturnPreempts
    /\ OnReturn
    /\ handler' = NoCall
    /\ UNCHANGED <<phase, loopVars, threadVars, waiters, maskVars, idleIntr, pending, clockVars,
                   vblankHandler, callbacks>>
-----------------------------------------------------------------------------
(* cancel_waiters: an object is gone and every thread waiting on it is woken *)

CancelWaiter ==
    /\ phase = "cancel" /\ waiters[target] # <<>>
    /\ LET t == Head(waiters[target])
       IN  IF IsWaiting(t) THEN MakeReady(<<t>>)
                           ELSE UNCHANGED <<status, wait, deadline, ready>>
    /\ waiters' = [waiters EXCEPT ![target] = Tail(@)]
    /\ UNCHANGED <<phase, loopVars, made, prio, initPrio, wakeups, current, maskVars, intrVars,
                   clockVars, eventVars>>

CancelDone ==
    /\ phase = "cancel" /\ waiters[target] = <<>>
    /\ phase' = "finish"
    /\ UNCHANGED <<loopVars, threadVars, waiters, maskVars, intrVars, clockVars, eventVars>>
-----------------------------------------------------------------------------

\* The program after PickDeadlock: the dispatch loop ended.
Stopped == phase = "stopped" /\ UNCHANGED schedulerVars

SchedulerInit ==
    /\ phase = "guest"
    /\ target = Nobody
    /\ cursor = 1
    /\ made = 1
    /\ status = [t \in Uids |-> IF t = 1 THEN "Running" ELSE "Gone"]
    /\ prio = [t \in Uids |-> LoaderPriority]
    /\ initPrio = [t \in Uids |-> LoaderPriority]
    /\ wait = [t \in Uids |-> NoWait]
    /\ deadline = [t \in Uids |-> Never]
    /\ wakeups = [t \in Uids |-> 0]
    /\ ready = <<>>
    /\ current = 1
    /\ waiters = [o \in Objects |-> <<>>]
    /\ dispatchOn = TRUE /\ intrOn = TRUE
    /\ handler = NoCall /\ idleIntr = FALSE /\ pending = <<>>
    /\ vblankIn = VBlankPeriod /\ idleVblanks = 0
    /\ vblankHandler = "none"
    /\ callbacks = [c \in Callbacks |-> [made |-> FALSE, owner |-> Nobody, notified |-> FALSE]]
    /\ vtimers = [v \in VTimers |-> [made |-> FALSE, active |-> FALSE, armed |-> FALSE, left |-> 0]]

\* The steps that are the kernel's own and no guest call.
SchedulerNext ==
    \/ FinishInterrupt \/ FinishPreempt \/ FinishReturn
    \/ ProcessTimers
    \/ PickInterrupt \/ PickThread \/ PickDeadlock \/ PickIdle
    \/ \E c \in 0..Quantum : Starvation(c)
    \/ BoundaryInterrupt \/ BoundaryPreempt \/ BoundaryReturn
    \/ ReturnToHandler \/ ReturnToSchedule \/ ReturnAndPreempt \/ ReturnToThread
    \/ CancelWaiter \/ CancelDone
=============================================================================
