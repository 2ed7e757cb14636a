------------------------------- MODULE Threads -------------------------------
(***************************************************************************)
(* The guest's thread calls: the life of a thread, its priority, sleeping  *)
(* and being woken, waits on time, on another thread and on the host, and  *)
(* the two ways to hold preemption off (hle/hle_threadman.cpp,             *)
(* hle/hle_mga.cpp, hle/hle_media.cpp and the Kernel methods they call).   *)
(* A call that fails changes nothing and is OtherCall.                     *)
(***************************************************************************)
EXTENDS Scheduler

\* Every call that only reads or fails: kernel().finish and nothing else.
OtherCall ==
    /\ InThread
    /\ phase' = "finish"
    /\ UNCHANGED <<loopVars, threadVars, waiters, maskVars, intrVars, clockVars, eventVars>>

CreateThread(p) ==
    /\ InThread /\ "create" \in Uses
    /\ made < MaxThreads
    /\ made' = made + 1
    /\ status' = [status EXCEPT ![made + 1] = "Dormant"]
    /\ prio' = [prio EXCEPT ![made + 1] = p]
    /\ initPrio' = [initPrio EXCEPT ![made + 1] = p]
    /\ phase' = "finish"
    /\ UNCHANGED <<loopVars, wait, deadline, wakeups, ready, current, waiters, maskVars, intrVars,
                   clockVars, eventVars>>

StartThread(t) ==
    /\ InThread /\ "start" \in Uses
    /\ status[t] = "Dormant"
    /\ prio' = [prio EXCEPT ![t] = initPrio[t]]
    /\ wakeups' = [wakeups EXCEPT ![t] = 0]
    /\ MakeReady(<<t>>)
    /\ phase' = "finish"
    /\ UNCHANGED <<loopVars, made, initPrio, current, waiters, maskVars, intrVars, clockVars,
                   eventVars>>

\* exit_current_thread, by a call or by returning from the entry function; the
\* loader thread, "module_start", deletes itself when it returns.
Joined_Mutant ==
    {t \in Uids : IsWaiting(t) /\ wait[t].type = "ThreadEnd" /\ deadline[t] # Never}
Joined ==
    {t \in Uids : IsWaiting(t) /\ wait[t].type = "ThreadEnd" /\ wait[t].object = current}
ExitThread(delete) ==
    /\ InThread /\ "exit" \in Uses
    /\ current # Nobody
    /\ status' = [t \in Uids |-> IF t = current THEN IF delete THEN "Gone" ELSE "Dormant"
                                 ELSE IF t \in Joined THEN "Ready" ELSE status[t]]
    /\ wait' = [t \in Uids |-> IF t \in Joined THEN NoWait ELSE wait[t]]
    /\ deadline' = [t \in Uids |-> IF t \in Joined THEN Never ELSE deadline[t]]
    /\ ready' = ready \o InUidOrder(Joined)
    /\ current' = Nobody
    /\ phase' = "timers"
    /\ UNCHANGED <<loopVars, made, prio, initPrio, wakeups, waiters, maskVars, intrVars, clockVars,
                   eventVars>>

\* The thread's wait record stays as it was, and nobody waiting for it is told.
TerminateThread(t, delete) ==
    /\ InThread /\ "terminate" \in Uses
    /\ status[t] # "Gone" /\ t # current
    /\ RemoveWaiters({u \in {t} : IsWaiting(u)})
    /\ status' = [status EXCEPT ![t] = IF delete THEN "Gone" ELSE "Dormant"]
    /\ ready' = Without(ready, {t})
    /\ phase' = "finish"
    /\ UNCHANGED <<loopVars, made, prio, initPrio, wait, deadline, wakeups, current, maskVars,
                   intrVars, clockVars, eventVars>>

DeleteThread(t) ==
    /\ InThread /\ "exit" \in Uses
    /\ status[t] = "Dormant"
    /\ status' = [status EXCEPT ![t] = "Gone"]
    /\ phase' = "finish"
    /\ UNCHANGED <<loopVars, made, prio, initPrio, wait, deadline, wakeups, ready, current, waiters,
                   maskVars, intrVars, clockVars, eventVars>>

\* A ready thread goes to the back of its new priority.
ChangePriority(t, p) ==
    /\ InThread /\ "priority" \in Uses
    /\ status[t] \notin {"Gone", "Dormant"}
    /\ prio' = [prio EXCEPT ![t] = p]
    /\ ready' = IF status[t] = "Ready" THEN Append(Without(ready, {t}), t) ELSE ready
    /\ phase' = "finish"
    /\ UNCHANGED <<loopVars, made, status, initPrio, wait, deadline, wakeups, current, waiters,
                   maskVars, intrVars, clockVars, eventVars>>
-----------------------------------------------------------------------------
(* Sleeping and being woken *)

SleepTakesWakeup(cb) ==
    /\ MayWait /\ "sleep" \in Uses
    /\ current # Nobody /\ wakeups[current] # 0
    /\ DeliverIf(cb)
    /\ wakeups' = [wakeups EXCEPT ![current] = @ - 1]
    /\ phase' = "finish"
    /\ UNCHANGED <<loopVars, made, status, prio, initPrio, wait, deadline, ready, current, waiters,
                   maskVars, handler, idleIntr, clockVars, vblankHandler, vtimers>>

MustSleep_Mutant == TRUE
MustSleep == current # Nobody => wakeups[current] = 0
SleepBlocks(cb) ==
    /\ MayWait /\ "sleep" \in Uses
    /\ MustSleep
    /\ DeliverIf(cb)
    /\ Block(WaitFor("Sleep", Nobody), Never)
    /\ UNCHANGED <<loopVars, made, prio, initPrio, wakeups, ready, waiters, maskVars, handler,
                   idleIntr, clockVars, vblankHandler, vtimers>>

WakeupSleeper(t) ==
    /\ InGuest /\ "sleep" \in Uses
    /\ IsWaiting(t) /\ wait[t].type = "Sleep"
    /\ MakeReady(<<t>>)
    /\ phase' = "finish"
    /\ UNCHANGED <<loopVars, made, prio, initPrio, wakeups, current, waiters, maskVars, intrVars,
                   clockVars, eventVars>>

\* Anyone else, a dormant thread included, has the wakeup stored.
WakeupStored(t) ==
    /\ InGuest /\ "sleep" \in Uses
    /\ status[t] # "Gone"
    /\ ~(IsWaiting(t) /\ wait[t].type = "Sleep")
    /\ wakeups[t] < MaxWakeups
    /\ wakeups' = [wakeups EXCEPT ![t] = @ + 1]
    /\ phase' = "finish"
    /\ UNCHANGED <<loopVars, made, status, prio, initPrio, wait, deadline, ready, current, waiters,
                   maskVars, intrVars, clockVars, eventVars>>
-----------------------------------------------------------------------------
(* Waits on time, on a thread and on the host *)

\* The waits that always block: a delay, the next vblank.
TimedWait(w, d, cb) ==
    /\ MayWait
    /\ DeliverIf(cb)
    /\ Block(w, d)
    /\ UNCHANGED <<loopVars, made, prio, initPrio, wakeups, ready, waiters, maskVars, handler,
                   idleIntr, clockVars, vblankHandler, vtimers>>
DelayThread(d, cb) == "delay" \in Uses /\ TimedWait(WaitFor("Delay", Nobody), d, cb)
WaitVBlank(cb) == "vblank" \in Uses /\ TimedWait(WaitFor("VBlank", Nobody), Never, cb)

\* A thread that has ended is not waited for: the call is OtherCall.
WaitThreadEnd(t, d, cb) ==
    /\ "thread end" \in Uses
    /\ status[t] \notin {"Gone", "Dormant"}
    /\ TimedWait(WaitFor("ThreadEnd", t), d, cb)

\* wait_host whose first poll had no result and whose timeout is not zero.
WaitHost(d) ==
    /\ "host wait" \in Uses
    /\ d # 0
    /\ TimedWait(WaitFor("Host", Nobody), d, FALSE)

\* The thread is made ready and stays in the waiter list of what it waited on.
ReleaseWaitThread(t) ==
    /\ InGuest /\ "release wait" \in Uses
    /\ IsWaiting(t)
    /\ MakeReady(<<t>>)
    /\ phase' = "finish"
    /\ UNCHANGED <<loopVars, made, prio, initPrio, wakeups, current, waiters, maskVars, intrVars,
                   clockVars, eventVars>>
-----------------------------------------------------------------------------
(* Holding preemption off *)

MayMask == InGuest /\ (handler # NoCall => "handler mask" \in Uses)

\* sceKernelCpuSuspendIntr and sceKernelCpuResumeIntr.
SetInterrupts(on) ==
    /\ MayMask /\ "mask interrupts" \in Uses
    /\ intrOn' = on
    /\ phase' = "finish"
    /\ UNCHANGED <<loopVars, threadVars, waiters, dispatchOn, intrVars, clockVars, eventVars>>

\* sceKernelSuspendDispatchThread and sceKernelResumeDispatchThread.
SetDispatch(on) ==
    /\ MayMask /\ "mask dispatch" \in Uses
    /\ dispatchOn' = on
    /\ phase' = "finish"
    /\ UNCHANGED <<loopVars, threadVars, waiters, intrOn, intrVars, clockVars, eventVars>>

\* Waits may be given no timeout at all.
Limits == Timeouts \cup {Never}

ThreadsNext ==
    \/ OtherCall
    \/ \E p \in Priorities : CreateThread(p)
    \/ \E t \in Uids : StartThread(t) \/ DeleteThread(t)
    \/ \E delete \in BOOLEAN : ExitThread(delete)
    \/ \E t \in Uids, delete \in BOOLEAN : TerminateThread(t, delete)
    \/ \E t \in Uids, p \in Priorities : ChangePriority(t, p)
    \/ \E cb \in BOOLEAN : SleepTakesWakeup(cb) \/ SleepBlocks(cb)
    \/ \E t \in Uids : WakeupSleeper(t) \/ WakeupStored(t)
    \/ \E d \in Delays, cb \in BOOLEAN : DelayThread(d, cb)
    \/ \E cb \in BOOLEAN : WaitVBlank(cb)
    \/ \E t \in Uids, d \in Limits, cb \in BOOLEAN : WaitThreadEnd(t, d, cb)
    \/ \E d \in Limits : WaitHost(d)
    \/ \E t \in Uids : ReleaseWaitThread(t)
    \/ \E on \in BOOLEAN : SetInterrupts(on) \/ SetDispatch(on)
=============================================================================
