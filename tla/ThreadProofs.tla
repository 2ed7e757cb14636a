----------------------------- MODULE ThreadProofs -----------------------------
(***************************************************************************)
(* What holds of the threads, for any number of them.                      *)
(*                                                                         *)
(* That exactly the thread current_uid_ names is running: by itself        *)
(* OneRunning is not kept by every step, since the thread a switch takes   *)
(* from the ready order has to be ready and not the running one, schedule  *)
(* may only switch when nobody runs, also after a handler that interrupted *)
(* an idle kernel has returned, and a new thread must not get a uid that   *)
(* is in use.  RunInv adds that.  On it rest that no thread runs on while  *)
(* an interrupt is pending or a more urgent one is ready, and that a       *)
(* thread holding preemption off keeps the processor.                      *)
(*                                                                         *)
(* And what a waiting thread waits for: no wakeup it was given before, no  *)
(* thread that has ended, and nothing of the host in a state to be saved;  *)
(* and a kernel that reports a deadlock has one.                           *)
(***************************************************************************)
EXTENDS KernelProofs

ReadyListed == \A i \in DOMAIN ready : status[ready[i]] = "Ready"

HandlerPlace ==
    /\ phase = "pick" => current = Nobody
    /\ phase \in {"timers", "pick"} => handler = NoCall
    /\ idleIntr => handler # NoCall /\ current = Nobody

NoneBeyondMade == \A t \in Uids : t > made => status[t] = "Gone"

ThreadsInv == OneRunning /\ ReadyListed /\ NoneBeyondMade
RunInv == TypeInv /\ ThreadsInv /\ HandlerPlace
-----------------------------------------------------------------------------
(* The ways the running thread changes *)

LEMMA ReadyType ==
    ASSUME TypeInv
    PROVE  /\ ready \in Seq(Uids) /\ Len(ready) \in Nat /\ DOMAIN ready = 1..Len(ready)
           /\ status \in [Uids -> Statuses] /\ prio \in [Uids -> Priorities]
           /\ \A i \in DOMAIN ready : ready[i] \in Uids
  BY LenProperties, ElementOfSeq DEF TypeInv, TypeOK, ThreadsTypeOK

LEMMA SameThreads ==
    ASSUME ThreadsInv, UNCHANGED <<made, status, ready, current>>
    PROVE  ThreadsInv'
  BY DEF ThreadsInv, OneRunning, ReadyListed, NoneBeyondMade

\* The most urgent ready thread is ready.
LEMMA BestIsReady ==
    ASSUME TypeInv, ThreadsInv, ready # <<>>
    PROVE  Best \in Uids /\ status[Best] = "Ready" /\ Best # current
<1>1. Best \in Uids /\ \E i \in DOMAIN ready : Best = ready[i]
  BY ReadyType, BestType
<1>2. status[Best] = "Ready"
  BY <1>1 DEF ThreadsInv, ReadyListed
<1> QED BY <1>1, <1>2 DEF ThreadsInv, OneRunning

\* Without one of its threads the ready order still holds ready threads.
LEMMA OthersReady ==
    ASSUME TypeInv, ReadyListed, NEW t
    PROVE  /\ Without(ready, {t}) \in Seq(Uids)
           /\ \A i \in DOMAIN Without(ready, {t}) :
                 /\ Without(ready, {t})[i] # t
                 /\ Without(ready, {t})[i] \in Uids
                 /\ status[Without(ready, {t})[i]] = "Ready"
<1> DEFINE gone == {t}
           q == Without(ready, gone)
<1> HIDE DEF gone
<1>1. q \in Seq(Uids)
  BY ReadyType, WithoutProperties
<1>2. \A i \in DOMAIN q : q[i] \notin gone /\ \E j \in DOMAIN ready : q[i] = ready[j]
  <2>1. ready \in Seq(Uids)
    BY ReadyType
  <2> QED BY ONLY <2>1, WithoutProperties
<1> HIDE DEF q
<1>3. ASSUME NEW i \in DOMAIN q
      PROVE  q[i] # t /\ q[i] \in Uids /\ status[q[i]] = "Ready"
  <2>1. q[i] \in Uids
    BY <1>1, LenProperties, ElementOfSeq
  <2>2. PICK j \in DOMAIN ready : q[i] = ready[j]
    BY <1>2
  <2> QED BY <1>2, <2>1, <2>2 DEF ReadyListed, gone
<1> QED BY <1>1, <1>3 DEF q, gone

LEMMA MakeReadyRuns ==
    ASSUME TypeInv, ThreadsInv, NEW q \in Seq(Uids),
           \A i \in DOMAIN q : status[q[i]] \in {"Waiting", "Dormant"},
           MakeReady(q), UNCHANGED <<made, current>>
    PROVE  ThreadsInv'
<1>1. /\ ready' = ready \o q
      /\ status' = [t \in Uids |-> IF t \in Range(q) THEN "Ready" ELSE status[t]]
  BY DEF MakeReady
<1>2. \A t \in Range(q) : status[t] \in {"Waiting", "Dormant"}
  BY DEF Range
<1>3. OneRunning'
  BY <1>1, <1>2 DEF ThreadsInv, OneRunning
<1>4. ReadyListed'
  <2>1. Len(q) \in Nat /\ DOMAIN q = 1..Len(q) /\ \A i \in DOMAIN q : q[i] \in Uids
    BY LenProperties, ElementOfSeq
  <2>2. /\ ready' \in Seq(Uids) /\ Len(ready') = Len(ready) + Len(q)
        /\ \A i \in 1..Len(ready) + Len(q) :
              ready'[i] = IF i <= Len(ready) THEN ready[i] ELSE q[i - Len(ready)]
    BY <1>1, ReadyType, ConcatProperties
  <2>3. DOMAIN ready' = 1..Len(ready) + Len(q)
    BY <2>2, LenProperties
  <2> SUFFICES ASSUME NEW i \in 1..Len(ready) + Len(q)
               PROVE  status'[ready'[i]] = "Ready"
    BY <2>3 DEF ReadyListed
  <2>4. CASE i <= Len(ready)
    <3>1. i \in DOMAIN ready /\ ready'[i] = ready[i]
      BY <2>2, <2>4, ReadyType
    <3> QED BY <1>1, <3>1, ReadyType DEF ThreadsInv, ReadyListed
  <2>5. CASE ~(i <= Len(ready))
    <3>1. i - Len(ready) \in DOMAIN q
      BY <2>1, <2>5, ReadyType
    <3>2. ready'[i] \in Range(q)
      BY <2>2, <2>5, <3>1 DEF Range
    <3>3. ready'[i] \in Uids
      BY <2>1, <2>2, <2>5, <3>1
    <3> QED BY <1>1, <3>2, <3>3
  <2> QED BY <2>4, <2>5
<1>5. NoneBeyondMade'
  BY <1>1, <1>2 DEF ThreadsInv, NoneBeyondMade
<1> QED BY <1>3, <1>4, <1>5 DEF ThreadsInv

\* The threads a list of one set names are in that set.
LEMMA WokenRuns ==
    ASSUME TypeInv, ThreadsInv, NEW S \in SUBSET Uids,
           \A t \in S : status[t] \in {"Waiting", "Dormant"},
           NEW q \in Seq(S), MakeReady(q), UNCHANGED <<made, current>>
    PROVE  ThreadsInv'
<1>1. \A i \in DOMAIN q : q[i] \in S
  BY LenProperties, ElementOfSeq
<1>2. q \in Seq(Uids)
  BY SeqMonotonic
<1> QED BY <1>1, <1>2, MakeReadyRuns

LEMMA OneWokenRuns ==
    ASSUME TypeInv, ThreadsInv, NEW t \in Uids, status[t] \in {"Waiting", "Dormant"},
           MakeReady(<<t>>), UNCHANGED <<made, current>>
    PROVE  ThreadsInv'
<1> DEFINE S == {t}
<1>1. S \in SUBSET Uids /\ \A u \in S : status[u] \in {"Waiting", "Dormant"}
  OBVIOUS
<1>2. <<t>> \in Seq(S)
  OBVIOUS
<1> HIDE DEF S
<1> QED BY <1>1, <1>2, WokenRuns

LEMMA UidListsAppended ==
    ASSUME NEW S \in SUBSET Uids, NEW T \in SUBSET Uids
    PROVE  InUidOrder(S) \o InUidOrder(T) \in Seq(S \cup T)
<1>1. /\ S \in SUBSET Int /\ IsFiniteSet(S)
      /\ T \in SUBSET Int /\ IsFiniteSet(T)
  BY UidsFinite, FS_Subset
<1>2. InUidOrder(S) \in Seq(S) /\ InUidOrder(T) \in Seq(T)
  BY <1>1, InUidOrderType
<1>3. InUidOrder(S) \in Seq(S \cup T) /\ InUidOrder(T) \in Seq(S \cup T)
  BY <1>2, SeqMonotonic
<1> QED BY <1>3, ConcatProperties

LEMMA SwitchRuns ==
    ASSUME TypeInv, ThreadsInv, current = Nobody, ready # <<>>, SwitchTo(Best), made' = made
    PROVE  ThreadsInv'
<1>1. Best \in Uids /\ status[Best] = "Ready"
  BY BestIsReady
<1>2. /\ status' = [status EXCEPT ![Best] = "Running"]
      /\ ready' = Without(ready, {Best}) /\ current' = Best
  BY DEF SwitchTo
<1> HIDE DEF Best
<1>3. OneRunning'
  BY <1>1, <1>2, ReadyType, UidsFinite DEF ThreadsInv, OneRunning
<1>4. ReadyListed'
  BY <1>1, <1>2, ReadyType, OthersReady DEF ThreadsInv, ReadyListed
<1>5. NoneBeyondMade'
  BY <1>1, <1>2, ReadyType DEF ThreadsInv, NoneBeyondMade
<1> QED BY <1>3, <1>4, <1>5 DEF ThreadsInv

LEMMA PreemptRuns ==
    ASSUME TypeInv, ThreadsInv, current # Nobody, ready # <<>>, PreemptBy(Best), made' = made
    PROVE  ThreadsInv'
<1>1. Best \in Uids /\ status[Best] = "Ready" /\ Best # current
  BY BestIsReady
<1>2. /\ status' = [status EXCEPT ![Best] = "Running", ![current] = "Ready"]
      /\ ready' = Append(Without(ready, {Best}), current) /\ current' = Best
  BY DEF PreemptBy
<1>3. current \in Uids
  BY DEF TypeInv, TypeOK, ThreadsTypeOK
<1> DEFINE b == Best
           q == Without(ready, {b})
<1> HIDE DEF b
<1>4. OneRunning'
  BY <1>1, <1>2, <1>3, ReadyType DEF ThreadsInv, OneRunning, b
<1>5. ReadyListed'
  <2>1. q \in Seq(Uids) /\ \A i \in DOMAIN q : q[i] # b /\ q[i] \in Uids /\ status[q[i]] = "Ready"
    BY OthersReady DEF ThreadsInv
  <2>2. Len(q) \in Nat /\ DOMAIN q = 1..Len(q)
    BY <2>1, LenProperties
  <2> HIDE DEF q
  <2>3. ready' = Append(q, current)
    BY <1>2 DEF q, b
  <2>4. /\ DOMAIN ready' = 1..Len(q) + 1
        /\ \A i \in 1..Len(q) : ready'[i] = q[i]
        /\ ready'[Len(q) + 1] = current
    BY <1>3, <2>1, <2>3, AppendProperties, LenProperties
  <2>5. \A i \in 1..Len(q) + 1 : i \in 1..Len(q) \/ i = Len(q) + 1
    BY <2>2
  <2>6. \A i \in DOMAIN ready' : ready'[i] = current \/ \E j \in DOMAIN q : ready'[i] = q[j]
    BY <2>2, <2>4, <2>5
  <2>7. /\ status'[current] = "Ready"
        /\ \A j \in DOMAIN q : status'[q[j]] = "Ready"
    BY <1>1, <1>2, <1>3, <2>1, ReadyType DEF b
  <2> QED BY <2>6, <2>7 DEF ReadyListed
<1>6. NoneBeyondMade'
  <2>1. status[b] # "Gone" /\ status[current] # "Gone"
    BY <1>1, <1>3 DEF ThreadsInv, OneRunning, b
  <2>2. status' = [status EXCEPT ![b] = "Running", ![current] = "Ready"]
    BY <1>2 DEF b
  <2> QED BY <2>1, <2>2, <1>3, ReadyType DEF ThreadsInv, NoneBeyondMade
<1> QED BY <1>4, <1>5, <1>6 DEF ThreadsInv

LEMMA BlockRuns ==
    ASSUME TypeInv, ThreadsInv, NEW w, NEW d, Block(w, d), UNCHANGED <<made, ready>>
    PROVE  /\ ThreadsInv'
           /\ \/ UNCHANGED <<phase, current>>
              \/ handler = NoCall /\ phase' = "timers" /\ current' = Nobody
<1>1. CASE handler # NoCall \/ current = Nobody
  BY <1>1, SameThreads DEF Block
<1>2. CASE ~(handler # NoCall \/ current = Nobody)
  <2>1. /\ status' = [status EXCEPT ![current] = "Waiting"] /\ current' = Nobody
        /\ phase' = "timers"
    BY <1>2 DEF Block
  <2>2. OneRunning'
    BY <2>1, ReadyType, UidsFinite DEF ThreadsInv, OneRunning
  <2>3. ReadyListed'
    BY <2>1, ReadyType DEF ThreadsInv, OneRunning, ReadyListed
  <2>4. NoneBeyondMade'
    BY <2>1, <1>2, ReadyType DEF ThreadsInv, OneRunning, NoneBeyondMade, TypeInv, TypeOK, ThreadsTypeOK
  <2> QED BY <1>2, <2>1, <2>2, <2>3, <2>4 DEF ThreadsInv
<1> QED BY <1>1, <1>2
-----------------------------------------------------------------------------
(* The steps *)

LEMMA InitRuns == Init => RunInv
<1> SUFFICES ASSUME Init PROVE RunInv
  OBVIOUS
<1>1. ThreadsInv
  BY UidsFinite DEF Init, SchedulerInit, ThreadsInv, OneRunning, ReadyListed, NoneBeyondMade, Nobody
<1>2. HandlerPlace
  BY DEF Init, SchedulerInit, HandlerPlace
<1> QED BY <1>1, <1>2, InitTyped DEF RunInv

LEMMA HandlerIsCall ==
    ASSUME TypeInv, pending # <<>>, BeginInterrupt
    PROVE  handler' # NoCall /\ phase' = "guest"
  BY BeginInterruptType, CallsType DEF TypeInv

LEMMA SchedulerRuns ==
    ASSUME RunInv, SchedulerNext
    PROVE  ThreadsInv' /\ HandlerPlace'
<1> USE DEF RunInv, HandlerPlace, loopVars, threadVars, intrVars
<1>1. CASE FinishInterrupt
  BY <1>1, SameThreads, HandlerIsCall DEF FinishInterrupt, Interruptible
<1>2. CASE FinishPreempt
  BY <1>2, PreemptRuns DEF FinishPreempt, FinishSwitches, Preemptible
<1>3. CASE FinishReturn
  BY <1>3, SameThreads DEF FinishReturn
<1>4. CASE ProcessTimers
  <2>1. PICK done \in SUBSET HostWaiting :
            MakeReady(InUidOrder(VBlankWoken) \o InUidOrder(Expired \cup done))
    BY <1>4 DEF ProcessTimers
  <2>2. /\ VBlankWoken \in SUBSET Uids /\ Expired \cup done \in SUBSET Uids
        /\ \A t \in VBlankWoken \cup (Expired \cup done) : status[t] \in {"Waiting", "Dormant"}
    BY DEF VBlankWoken, Expired, HostWaiting, IsWaiting
  <2>3. InUidOrder(VBlankWoken) \o InUidOrder(Expired \cup done)
            \in Seq(VBlankWoken \cup (Expired \cup done))
    BY <2>2, UidListsAppended
  <2>4. ThreadsInv'
    BY <1>4, <2>1, <2>2, <2>3, WokenRuns DEF ProcessTimers
  <2> QED BY <1>4, <2>4 DEF ProcessTimers
<1>5. CASE PickInterrupt
  BY <1>5, SameThreads, HandlerIsCall DEF PickInterrupt, PickIn, Interruptible
<1>6. CASE PickThread
  BY <1>6, SwitchRuns DEF PickThread, PickIn
<1>7. CASE PickDeadlock
  BY <1>7, SameThreads DEF PickDeadlock
<1>8. CASE PickIdle
  BY <1>8, SameThreads DEF PickIdle, PickIn, AdvanceClock
<1>9. CASE \E c \in 0..Quantum : Starvation(c)
  BY <1>9, SameThreads DEF Starvation, InThread, AdvanceClock
<1>10. CASE BoundaryInterrupt
  BY <1>10, SameThreads, HandlerIsCall DEF BoundaryInterrupt, Interruptible
<1>11. CASE BoundaryPreempt
  <2>1. current # Nobody
    BY <1>11 DEF BoundaryPreempt, BoundaryIn, TypeInv, BoundaryHasThread
  <2> QED BY <1>11, <2>1, PreemptRuns DEF BoundaryPreempt, BoundarySwitches
<1>12. CASE BoundaryReturn
  BY <1>12, SameThreads DEF BoundaryReturn
<1>13. CASE ReturnToHandler
  BY <1>13, SameThreads, HandlerIsCall DEF ReturnToHandler, HandlerReturns, Interruptible
<1>14. CASE ReturnToSchedule
  BY <1>14, SameThreads DEF ReturnToSchedule, HandlerReturns
<1>15. CASE ReturnAndPreempt
  BY <1>15, PreemptRuns DEF ReturnAndPreempt, HandlerReturns, ReturnPreempts, InGuest
<1>16. CASE ReturnToThread
  BY <1>16, SameThreads DEF ReturnToThread, HandlerReturns, InGuest
<1>17. CASE CancelWaiter
  <2> DEFINE t == Head(waiters[target])
  <2>1. IsWaiting(t) => t \in Uids /\ status[t] \in {"Waiting", "Dormant"}
    BY DEF IsWaiting
  <2>2. IsWaiting(t) => ThreadsInv'
    BY <1>17, <2>1, OneWokenRuns DEF CancelWaiter
  <2>3. ~IsWaiting(t) => ThreadsInv'
    BY <1>17, SameThreads DEF CancelWaiter
  <2> QED BY <1>17, <2>2, <2>3 DEF CancelWaiter
<1>18. CASE CancelDone
  BY <1>18, SameThreads DEF CancelDone
<1> QED BY <1>1, <1>2, <1>3, <1>4, <1>5, <1>6, <1>7, <1>8, <1>9, <1>10, <1>11, <1>12, <1>13,
           <1>14, <1>15, <1>16, <1>17, <1>18 DEF SchedulerNext
-----------------------------------------------------------------------------

\* A call of guest code that neither blocks nor ends the thread.
LEMMA HandlerStays ==
    ASSUME HandlerPlace, UNCHANGED <<current, handler, idleIntr>>,
           phase' \in {"guest", "finish", "release", "cancel"}
    PROVE  HandlerPlace'
  BY DEF HandlerPlace

LEMMA WaitRuns ==
    ASSUME RunInv, phase = "guest", NEW w, NEW d, Block(w, d),
           UNCHANGED <<made, ready, handler, idleIntr>>
    PROVE  ThreadsInv' /\ HandlerPlace'
  BY BlockRuns DEF RunInv, HandlerPlace

LEMMA TimedWaitRuns ==
    ASSUME RunInv, NEW w, NEW d, NEW cb, TimedWait(w, d, cb)
    PROVE  ThreadsInv' /\ HandlerPlace'
  BY WaitRuns DEF TimedWait, MayWait, InGuest

LEMMA ExitRuns ==
    ASSUME RunInv, NEW delete \in BOOLEAN, ExitThread(delete)
    PROVE  ThreadsInv' /\ HandlerPlace'
<1> DEFINE q == InUidOrder(Joined)
           e == IF delete THEN "Gone" ELSE "Dormant"
<1>1. /\ status' = [t \in Uids |-> IF t = current THEN e
                                   ELSE IF t \in Joined THEN "Ready" ELSE status[t]]
      /\ ready' = ready \o q /\ current' = Nobody /\ made' = made
      /\ handler = NoCall /\ handler' = NoCall /\ idleIntr' = idleIntr /\ phase' = "timers"
  BY DEF ExitThread, InThread, intrVars
<1>2. e \in {"Gone", "Dormant"}
  OBVIOUS
<1>3. /\ Joined \in SUBSET Uids
      /\ \A t \in Joined : status[t] = "Waiting"
      /\ current \in Uids /\ current # Nobody /\ status[current] = "Running"
  BY UidsFinite DEF Joined, IsWaiting, ExitThread, RunInv, TypeInv, TypeOK, ThreadsTypeOK,
                    ThreadsInv, OneRunning
<1>4. q \in Seq(Joined)
  BY <1>3, UidsFinite, FS_Subset, InUidOrderType
<1>5. q \in Seq(Uids) /\ Len(q) \in Nat /\ DOMAIN q = 1..Len(q) /\ \A i \in DOMAIN q : q[i] \in Joined
  BY <1>3, <1>4, SeqMonotonic, LenProperties, ElementOfSeq
<1> HIDE DEF q, e
<1>6. OneRunning'
  BY <1>1, <1>2, UidsFinite DEF RunInv, ThreadsInv, OneRunning
<1>7. ReadyListed'
  <2>1. ready \in Seq(Uids) /\ Len(ready) \in Nat /\ DOMAIN ready = 1..Len(ready)
        /\ \A i \in DOMAIN ready : ready[i] \in Uids /\ status[ready[i]] = "Ready"
    BY ReadyType DEF RunInv, ThreadsInv, ReadyListed
  <2>2. /\ ready' \in Seq(Uids) /\ Len(ready') = Len(ready) + Len(q)
        /\ \A i \in 1..Len(ready) + Len(q) :
              ready'[i] = IF i <= Len(ready) THEN ready[i] ELSE q[i - Len(ready)]
    BY <1>1, <1>5, <2>1, ConcatProperties
  <2>3. DOMAIN ready' = 1..Len(ready) + Len(q)
    BY <2>2, LenProperties
  <2>4. \A i \in 1..Len(ready) + Len(q) :
            \/ \E j \in DOMAIN ready : ready'[i] = ready[j]
            \/ \E j \in DOMAIN q : ready'[i] = q[j]
    <3> SUFFICES ASSUME NEW i \in 1..Len(ready) + Len(q)
                 PROVE  \/ \E j \in DOMAIN ready : ready'[i] = ready[j]
                        \/ \E j \in DOMAIN q : ready'[i] = q[j]
      OBVIOUS
    <3>1. CASE i <= Len(ready)
      BY <2>1, <2>2, <3>1
    <3>2. CASE ~(i <= Len(ready))
      <4>1. i - Len(ready) \in DOMAIN q
        BY <1>5, <2>1, <3>2
      <4> QED BY <2>2, <3>2, <4>1
    <3> QED BY <3>1, <3>2
  <2>5. \A j \in DOMAIN ready : status'[ready[j]] = "Ready"
    BY <1>1, <1>3, <2>1
  <2>6. \A j \in DOMAIN q : status'[q[j]] = "Ready"
    BY <1>1, <1>3, <1>5
  <2> QED BY <2>3, <2>4, <2>5, <2>6 DEF ReadyListed
<1>8. NoneBeyondMade'
  BY <1>1, <1>3 DEF RunInv, ThreadsInv, NoneBeyondMade
<1>9. HandlerPlace'
  BY <1>1 DEF RunInv, HandlerPlace
<1> QED BY <1>6, <1>7, <1>8, <1>9 DEF ThreadsInv

LEMMA TerminateRuns ==
    ASSUME RunInv, NEW t \in Uids, NEW delete \in BOOLEAN, TerminateThread(t, delete)
    PROVE  ThreadsInv' /\ HandlerPlace'
<1> DEFINE e == IF delete THEN "Gone" ELSE "Dormant"
           q == Without(ready, {t})
<1>1. /\ status' = [status EXCEPT ![t] = e] /\ ready' = q
      /\ UNCHANGED <<made, current, handler, idleIntr>> /\ phase' = "finish"
      /\ t # current /\ status[t] # "Gone"
  BY DEF TerminateThread, intrVars
<1>2. e \in {"Gone", "Dormant"} /\ status \in [Uids -> Statuses]
  BY ReadyType DEF RunInv
<1>3. \A i \in DOMAIN q : q[i] # t /\ q[i] \in Uids /\ status[q[i]] = "Ready"
  BY OthersReady DEF RunInv, ThreadsInv
<1> HIDE DEF e, q
<1>4. OneRunning'
  BY <1>1, <1>2 DEF RunInv, ThreadsInv, OneRunning
<1>5. ReadyListed'
  BY <1>1, <1>2, <1>3 DEF ReadyListed
<1>6. NoneBeyondMade'
  BY <1>1, <1>2 DEF RunInv, ThreadsInv, NoneBeyondMade
<1>7. HandlerPlace'
  BY <1>1, HandlerStays DEF RunInv
<1> QED BY <1>4, <1>5, <1>6, <1>7 DEF ThreadsInv

LEMMA PriorityRuns ==
    ASSUME RunInv, NEW t \in Uids, NEW p, ChangePriority(t, p)
    PROVE  ThreadsInv' /\ HandlerPlace'
<1> DEFINE q == Without(ready, {t})
<1>1. /\ ready' = IF status[t] = "Ready" THEN Append(q, t) ELSE ready
      /\ UNCHANGED <<made, status, current, handler, idleIntr>> /\ phase' = "finish"
  BY DEF ChangePriority, intrVars
<1>2. q \in Seq(Uids) /\ \A i \in DOMAIN q : status[q[i]] = "Ready"
  BY OthersReady DEF RunInv, ThreadsInv
<1>3. Len(q) \in Nat /\ DOMAIN q = 1..Len(q)
  BY <1>2, LenProperties
<1> HIDE DEF q
<1>4. ReadyListed'
  <2>1. CASE status[t] = "Ready"
    <3>1. /\ DOMAIN ready' = 1..Len(q) + 1
          /\ \A i \in 1..Len(q) : ready'[i] = q[i]
          /\ ready'[Len(q) + 1] = t
      BY <1>1, <1>2, <2>1, AppendProperties, LenProperties
    <3>2. \A i \in 1..Len(q) + 1 : i \in 1..Len(q) \/ i = Len(q) + 1
      BY <1>3
    <3> QED BY <1>1, <1>2, <1>3, <2>1, <3>1, <3>2 DEF ReadyListed
  <2>2. CASE status[t] # "Ready"
    BY <1>1, <2>2 DEF RunInv, ThreadsInv, ReadyListed
  <2> QED BY <2>1, <2>2
<1>5. OneRunning' /\ NoneBeyondMade'
  BY <1>1 DEF RunInv, ThreadsInv, OneRunning, NoneBeyondMade
<1> QED BY <1>1, <1>4, <1>5, HandlerStays DEF RunInv, ThreadsInv

LEMMA ThreadsRuns ==
    ASSUME RunInv, ThreadsNext
    PROVE  ThreadsInv' /\ HandlerPlace'
<1> USE DEF RunInv, loopVars, threadVars, intrVars, InThread, InGuest, MayWait, MayMask
<1>1. CASE OtherCall
  BY <1>1, SameThreads, HandlerStays DEF OtherCall
<1>2. ASSUME NEW p \in Priorities, CreateThread(p)
      PROVE  ThreadsInv' /\ HandlerPlace'
  <2>1. made \in Nat /\ made + 1 \in Uids
    BY <1>2, SchedulerAssumption DEF CreateThread, TypeInv, TypeOK, ThreadsTypeOK, Uids
  <2>2. /\ status' = [status EXCEPT ![made + 1] = "Dormant"] /\ made' = made + 1
        /\ UNCHANGED <<ready, current, handler, idleIntr>> /\ phase' = "finish"
    BY <1>2 DEF CreateThread
  <2>3. status[made + 1] = "Gone" /\ status \in [Uids -> Statuses]
    BY <2>1, ReadyType DEF ThreadsInv, NoneBeyondMade
  <2>4. OneRunning' /\ ReadyListed'
    BY <2>1, <2>2, <2>3, ReadyType DEF ThreadsInv, OneRunning, ReadyListed
  <2>5. NoneBeyondMade'
    <3> SUFFICES ASSUME NEW t \in Uids, t > made + 1
                 PROVE  status'[t] = "Gone"
      BY <2>2 DEF NoneBeyondMade
    <3>1. t > made /\ t # made + 1
      BY <2>1 DEF Uids
    <3> QED BY <2>1, <2>2, <2>3, <3>1 DEF ThreadsInv, NoneBeyondMade
  <2> QED BY <2>2, <2>4, <2>5, HandlerStays DEF ThreadsInv
<1>3. ASSUME NEW t \in Uids, StartThread(t)
      PROVE  ThreadsInv' /\ HandlerPlace'
  BY <1>3, OneWokenRuns, HandlerStays DEF StartThread
<1>4. ASSUME NEW t \in Uids, DeleteThread(t)
      PROVE  ThreadsInv' /\ HandlerPlace'
  <2>1. /\ status' = [status EXCEPT ![t] = "Gone"] /\ status[t] = "Dormant"
        /\ UNCHANGED <<made, ready, current, handler, idleIntr>> /\ phase' = "finish"
    BY <1>4 DEF DeleteThread
  <2>2. ThreadsInv'
    BY <2>1, ReadyType DEF ThreadsInv, OneRunning, ReadyListed, NoneBeyondMade
  <2> QED BY <2>1, <2>2, HandlerStays
<1>5. ASSUME NEW delete \in BOOLEAN, ExitThread(delete)
      PROVE  ThreadsInv' /\ HandlerPlace'
  BY <1>5, ExitRuns
<1>6. ASSUME NEW t \in Uids, NEW delete \in BOOLEAN, TerminateThread(t, delete)
      PROVE  ThreadsInv' /\ HandlerPlace'
  BY <1>6, TerminateRuns
<1>7. ASSUME NEW t \in Uids, NEW p \in Priorities, ChangePriority(t, p)
      PROVE  ThreadsInv' /\ HandlerPlace'
  BY <1>7, PriorityRuns
<1>8. ASSUME NEW cb \in BOOLEAN, SleepTakesWakeup(cb)
      PROVE  ThreadsInv' /\ HandlerPlace'
  BY <1>8, SameThreads, HandlerStays DEF SleepTakesWakeup
<1>9. ASSUME NEW cb \in BOOLEAN, SleepBlocks(cb)
      PROVE  ThreadsInv' /\ HandlerPlace'
  BY <1>9, WaitRuns DEF SleepBlocks
<1>10. ASSUME NEW t \in Uids, WakeupSleeper(t)
       PROVE  ThreadsInv' /\ HandlerPlace'
  BY <1>10, OneWokenRuns, HandlerStays DEF WakeupSleeper, IsWaiting
<1>11. ASSUME NEW t \in Uids, WakeupStored(t)
       PROVE  ThreadsInv' /\ HandlerPlace'
  BY <1>11, SameThreads, HandlerStays DEF WakeupStored
<1>12. ASSUME NEW d \in Delays, NEW cb \in BOOLEAN, DelayThread(d, cb)
       PROVE  ThreadsInv' /\ HandlerPlace'
  BY <1>12, TimedWaitRuns DEF DelayThread
<1>13. ASSUME NEW cb \in BOOLEAN, WaitVBlank(cb)
       PROVE  ThreadsInv' /\ HandlerPlace'
  BY <1>13, TimedWaitRuns DEF WaitVBlank
<1>14. ASSUME NEW t \in Uids, NEW d \in Limits, NEW cb \in BOOLEAN, WaitThreadEnd(t, d, cb)
       PROVE  ThreadsInv' /\ HandlerPlace'
  BY <1>14, TimedWaitRuns DEF WaitThreadEnd
<1>15. ASSUME NEW d \in Limits, WaitHost(d)
       PROVE  ThreadsInv' /\ HandlerPlace'
  BY <1>15, TimedWaitRuns DEF WaitHost
<1>16. ASSUME NEW t \in Uids, ReleaseWaitThread(t)
       PROVE  ThreadsInv' /\ HandlerPlace'
  BY <1>16, OneWokenRuns, HandlerStays DEF ReleaseWaitThread, IsWaiting
<1>17. ASSUME NEW on \in BOOLEAN, SetInterrupts(on) \/ SetDispatch(on)
       PROVE  ThreadsInv' /\ HandlerPlace'
  BY <1>17, SameThreads, HandlerStays DEF SetInterrupts, SetDispatch
<1> QED BY <1>1, <1>2, <1>3, <1>4, <1>5, <1>6, <1>7, <1>8, <1>9, <1>10, <1>11, <1>12, <1>13, <1>14,
           <1>15, <1>16, <1>17 DEF ThreadsNext

LEMMA KernelEventsRuns ==
    ASSUME RunInv, KernelEventsNext
    PROVE  ThreadsInv' /\ HandlerPlace'
<1>1. EventCall
  BY DEF KernelEventsNext, RegisterVBlankHandler, EnableVBlankHandler, ReleaseVBlankHandler,
         CreateCallback, DeleteCallback, NotifyCallback, CreateVTimer, StartVTimer, SetVTimerHandler
<1> QED BY <1>1, SameThreads, HandlerStays DEF EventCall, RunInv, threadVars, intrVars

LEMMA ObjectsRuns ==
    ASSUME RunInv, ObjectKinds
    PROVE  ThreadsInv' /\ HandlerPlace'
<1> USE DEF RunInv, ObjectKinds, ObjectKeeps
<1>1. CASE ObjectRests
  BY <1>1, SameThreads, HandlerStays DEF ObjectRests
<1>2. CASE ObjectWakes
  <2>1. PICK t \in Uids : IsWaiting(t) /\ MakeReady(<<t>>)
    BY <1>2 DEF ObjectWakes
  <2>2. status[t] \in {"Waiting", "Dormant"}
    BY <2>1 DEF IsWaiting
  <2> QED BY <1>2, <2>1, <2>2, OneWokenRuns, HandlerStays DEF ObjectWakes
<1>3. CASE ObjectBlocks
  BY <1>3, WaitRuns DEF ObjectBlocks, MayWait, InGuest
<1> QED BY <1>1, <1>2, <1>3

LEMMA StepRuns == RunInv /\ [Next]_vars => RunInv'
<1> SUFFICES ASSUME RunInv, [Next]_vars PROVE RunInv'
  OBVIOUS
<1>1. TypeInv'
  BY StepTyped DEF RunInv
<1>2. CASE SchedulerNext
  BY <1>1, <1>2, SchedulerRuns DEF RunInv
<1>3. CASE ThreadsNext
  BY <1>1, <1>3, ThreadsRuns DEF RunInv
<1>4. CASE KernelEventsNext
  BY <1>1, <1>4, KernelEventsRuns DEF RunInv
<1>5. CASE SemaphoresNext \/ EventFlagsNext \/ MutexesNext
  BY <1>1, <1>5, ObjectKindsOnly, ObjectsRuns DEF RunInv
<1>6. CASE UNCHANGED schedulerVars
  BY <1>1, <1>6, SameThreads
     DEF RunInv, HandlerPlace, schedulerVars, threadVars, intrVars
<1>7. UNCHANGED vars => UNCHANGED schedulerVars
  BY DEF vars
<1> QED BY <1>2, <1>3, <1>4, <1>5, <1>6, <1>7 DEF Next, ObjectStep, Stopped

\* The inductive invariant, for what else rests on it.
LEMMA AlwaysRuns == Spec => []RunInv
  BY InitRuns, StepRuns, PTL DEF Spec
-----------------------------------------------------------------------------

\* Exactly the thread current_uid_ names is Running, at every moment of every
\* kernel call.
THEOREM KernelOneRunning == Spec => []OneRunning
<1>1. RunInv => OneRunning
  BY DEF RunInv, ThreadsInv
<1> QED BY AlwaysRuns, <1>1, PTL
-----------------------------------------------------------------------------
(* Pending interrupts.  Kernel::finish looks for one only if a thread runs, *)
(* so that InterruptsTaken rests on one running whenever no handler does    *)
(* and the kernel is not in schedule.                                       *)

SomeoneRuns ==
    handler = NoCall /\ phase \notin {"timers", "pick", "stopped"} => current # Nobody
Taken == SomeoneRuns /\ InterruptsTaken
TakenInv == TypeInv /\ Taken

LEMMA CallTaken ==
    ASSUME Taken, UNCHANGED <<current, handler>>, phase \in {"guest", "release", "cancel"},
           phase' \in {"finish", "release", "cancel"}
    PROVE  Taken'
  BY DEF Taken, SomeoneRuns, InterruptsTaken, InThread

\* What a wait queued before it blocked is found by schedule.
LEMMA BlockTaken ==
    ASSUME Taken, phase = "guest", NEW w, NEW d, Block(w, d), UNCHANGED handler
    PROVE  Taken'
  BY DEF Taken, SomeoneRuns, InterruptsTaken, InThread, Block

LEMMA HandlerTaken ==
    ASSUME TypeInv, Interruptible, BeginInterrupt
    PROVE  Taken'
  BY HandlerIsCall DEF Taken, SomeoneRuns, InterruptsTaken, InThread, Interruptible

LEMMA NobodyIsNoUid == TypeInv /\ ready # <<>> => Best \in Uids /\ Best # Nobody
  BY ReadyType, BestType, UidsFinite

LEMMA SchedulerTaken ==
    ASSUME TakenInv, SchedulerNext
    PROVE  Taken'
<1> USE DEF TakenInv, loopVars, threadVars, intrVars, maskVars
<1>1. CASE FinishInterrupt \/ PickInterrupt \/ BoundaryInterrupt \/ ReturnToHandler
  BY <1>1, HandlerTaken DEF FinishInterrupt, PickInterrupt, BoundaryInterrupt, ReturnToHandler
<1>2. CASE FinishPreempt \/ BoundaryPreempt \/ ReturnAndPreempt
  <2>1. ready # <<>> /\ PreemptBy(Best) /\ UNCHANGED <<intrOn, pending>> /\ ~Interruptible
    BY <1>2 DEF FinishPreempt, BoundaryPreempt, ReturnAndPreempt, FinishSwitches,
                BoundarySwitches, ReturnPreempts
  <2>2. current' # Nobody
    BY <2>1, NobodyIsNoUid DEF PreemptBy
  <2> QED BY <2>1, <2>2 DEF Taken, SomeoneRuns, InterruptsTaken, Interruptible
<1>3. CASE PickThread
  <2>1. ready # <<>> /\ SwitchTo(Best) /\ UNCHANGED <<intrOn, pending>> /\ ~Interruptible
    BY <1>3 DEF PickThread
  <2>2. current' # Nobody
    BY <2>1, NobodyIsNoUid DEF SwitchTo
  <2> QED BY <2>1, <2>2 DEF Taken, SomeoneRuns, InterruptsTaken, Interruptible
<1>4. CASE FinishReturn \/ BoundaryReturn
  BY <1>4 DEF FinishReturn, FinishIn, BoundaryReturn, BoundaryIn, Preemptible, Interruptible,
              Taken, SomeoneRuns, InterruptsTaken, InThread
<1>5. CASE ReturnToThread
  BY <1>5 DEF ReturnToThread, Interruptible, Taken, SomeoneRuns, InterruptsTaken
<1>6. CASE ProcessTimers
  BY <1>6 DEF ProcessTimers, Taken, SomeoneRuns, InterruptsTaken, InThread
<1>7. CASE PickDeadlock \/ PickIdle \/ ReturnToSchedule \/ \E c \in 0..Quantum : Starvation(c)
  <2>1. phase' \in {"timers", "stopped"}
    BY <1>7 DEF PickDeadlock, PickIdle, ReturnToSchedule, Starvation, AdvanceClock
  <2> QED BY <2>1 DEF Taken, SomeoneRuns, InterruptsTaken, InThread
<1>8. CASE CancelWaiter \/ CancelDone
  BY <1>8, CallTaken DEF CancelWaiter, CancelDone
<1> QED BY <1>1, <1>2, <1>3, <1>4, <1>5, <1>6, <1>7, <1>8 DEF SchedulerNext

LEMMA ThreadsTaken ==
    ASSUME TakenInv, ThreadsNext
    PROVE  Taken'
<1> USE DEF TakenInv, loopVars, threadVars, intrVars, InThread, InGuest, MayWait, MayMask
<1>1. CASE \/ OtherCall
           \/ \E p \in Priorities : CreateThread(p)
           \/ \E t \in Uids : StartThread(t) \/ DeleteThread(t)
           \/ \E t \in Uids, delete \in BOOLEAN : TerminateThread(t, delete)
           \/ \E t \in Uids, p \in Priorities : ChangePriority(t, p)
           \/ \E cb \in BOOLEAN : SleepTakesWakeup(cb)
           \/ \E t \in Uids : WakeupSleeper(t) \/ WakeupStored(t) \/ ReleaseWaitThread(t)
           \/ \E on \in BOOLEAN : SetInterrupts(on) \/ SetDispatch(on)
  <2>1. phase = "guest" /\ phase' = "finish" /\ UNCHANGED <<current, handler>>
    BY <1>1 DEF OtherCall, CreateThread, StartThread, DeleteThread, TerminateThread,
       ChangePriority, SleepTakesWakeup, WakeupSleeper, WakeupStored, ReleaseWaitThread,
       SetInterrupts, SetDispatch
  <2> QED BY <2>1, CallTaken
<1>2. CASE \E delete \in BOOLEAN : ExitThread(delete)
  BY <1>2 DEF ExitThread, Taken, SomeoneRuns, InterruptsTaken
<1>3. ASSUME NEW cb \in BOOLEAN, SleepBlocks(cb)
      PROVE  Taken'
  BY <1>3, BlockTaken DEF SleepBlocks
<1>4. ASSUME NEW w, NEW d, NEW cb, TimedWait(w, d, cb)
      PROVE  Taken'
  BY <1>4, BlockTaken DEF TimedWait
<1> QED BY <1>1, <1>2, <1>3, <1>4 DEF ThreadsNext, DelayThread, WaitVBlank, WaitThreadEnd, WaitHost

LEMMA KernelEventsTaken ==
    ASSUME TakenInv, KernelEventsNext
    PROVE  Taken'
<1>1. EventCall
  BY DEF KernelEventsNext, RegisterVBlankHandler, EnableVBlankHandler, ReleaseVBlankHandler,
         CreateCallback, DeleteCallback, NotifyCallback, CreateVTimer, StartVTimer, SetVTimerHandler
<1> QED BY <1>1, CallTaken DEF EventCall, InThread, TakenInv, threadVars, intrVars

LEMMA ObjectsTaken ==
    ASSUME TakenInv, ObjectKinds
    PROVE  Taken'
<1> USE DEF TakenInv, ObjectKinds, ObjectKeeps, maskVars
<1>1. CASE ObjectRests \/ ObjectWakes
  BY <1>1, CallTaken DEF ObjectRests, ObjectWakes
<1>2. CASE ObjectBlocks
  BY <1>2, BlockTaken DEF ObjectBlocks, MayWait, InGuest
<1> QED BY <1>1, <1>2

LEMMA StepTaken == TakenInv /\ [Next]_vars => TakenInv'
<1> SUFFICES ASSUME TakenInv, [Next]_vars PROVE TakenInv'
  OBVIOUS
<1>1. TypeInv'
  BY StepTyped DEF TakenInv
<1>2. UNCHANGED vars \/ Stopped => Taken'
  BY DEF vars, Stopped, schedulerVars, threadVars, intrVars, maskVars, TakenInv, Taken,
         SomeoneRuns, InterruptsTaken, InThread
<1> QED BY <1>1, <1>2, SchedulerTaken, ThreadsTaken, KernelEventsTaken, ObjectsTaken, ObjectKindsOnly
        DEF Next, ObjectStep, TakenInv

LEMMA InitTaken == Init => TakenInv
  BY InitTyped, UidsFinite DEF TakenInv, Taken, SomeoneRuns, InterruptsTaken, Init, SchedulerInit, Nobody

\* No thread runs on while an interrupt is pending and interrupts are enabled,
\* whichever of the kernel's ends of a call led to it.
THEOREM KernelInterruptsTaken == Spec => []InterruptsTaken
<1>1. TakenInv => InterruptsTaken
  BY DEF TakenInv, Taken
<1> QED BY InitTaken, StepTaken, <1>1, PTL DEF Spec
-----------------------------------------------------------------------------
(* Priorities.  That no ready thread is more urgent than the running one   *)
(* rests on the ready order naming every ready thread: what is not in it   *)
(* best_ready_thread never sees.                                           *)

AllListed == \A t \in Uids : status[t] = "Ready" => \E i \in DOMAIN ready : ready[i] = t
UrgentInv == RunInv /\ AllListed /\ UrgentRuns

LEMMA SameListed ==
    ASSUME AllListed, UNCHANGED <<status, ready>>
    PROVE  AllListed'
  BY DEF AllListed

\* A thread that stops being ready may leave the ready order as it is.
LEMMA FewerReady ==
    ASSUME AllListed, UNCHANGED ready,
           \A t \in Uids : status'[t] = "Ready" => status[t] = "Ready"
    PROVE  AllListed'
  BY DEF AllListed

LEMMA MoreListed ==
    ASSUME TypeInv, AllListed, NEW q \in Seq(Uids), ready' = ready \o q,
           \A t \in Uids : status'[t] = "Ready" => status[t] = "Ready" \/ \E i \in DOMAIN q : q[i] = t
    PROVE  AllListed'
<1>1. Len(q) \in Nat /\ DOMAIN q = 1..Len(q)
  BY LenProperties
<1>2. /\ ready' \in Seq(Uids) /\ Len(ready') = Len(ready) + Len(q)
      /\ \A i \in 1..Len(ready) + Len(q) :
            ready'[i] = IF i <= Len(ready) THEN ready[i] ELSE q[i - Len(ready)]
  BY ReadyType, ConcatProperties
<1>3. DOMAIN ready' = 1..Len(ready) + Len(q)
  BY <1>2, LenProperties
<1> SUFFICES ASSUME NEW t \in Uids, status'[t] = "Ready"
             PROVE  \E i \in DOMAIN ready' : ready'[i] = t
  BY DEF AllListed
<1>4. CASE status[t] = "Ready"
  <2>1. PICK i \in DOMAIN ready : ready[i] = t
    BY <1>4 DEF AllListed
  <2>2. i \in DOMAIN ready' /\ ready'[i] = t
    BY <1>1, <1>2, <1>3, <2>1, ReadyType
  <2> QED BY <2>2
<1>5. CASE status[t] # "Ready"
  <2>1. PICK i \in DOMAIN q : q[i] = t
    BY <1>5
  <2>2. i \in Int /\ 1 <= i /\ i <= Len(q) /\ Len(ready) \in Nat
    BY <1>1, <2>1, ReadyType
  <2>3. i + Len(ready) \in 1..Len(ready) + Len(q) /\ ~(i + Len(ready) <= Len(ready))
        /\ (i + Len(ready)) - Len(ready) = i
    BY <1>1, <2>2
  <2>4. ready'[i + Len(ready)] = t
    BY <1>2, <2>1, <2>3
  <2> QED BY <1>3, <2>3, <2>4
<1> QED BY <1>4, <1>5

LEMMA MakeReadyLists ==
    ASSUME TypeInv, AllListed, NEW q \in Seq(Uids), MakeReady(q)
    PROVE  AllListed'
<1>1. \A t \in Uids : status'[t] = "Ready" => status[t] = "Ready" \/ \E i \in DOMAIN q : q[i] = t
  BY DEF MakeReady, Range
<1>2. ready' = ready \o q
  BY DEF MakeReady
<1> QED BY <1>1, <1>2, MoreListed

LEMMA OneMadeReadyLists ==
    ASSUME TypeInv, AllListed, NEW t \in Uids, MakeReady(<<t>>)
    PROVE  AllListed'
<1> DEFINE q == <<t>>
<1>1. q \in Seq(Uids)
  OBVIOUS
<1>2. MakeReady(q)
  OBVIOUS
<1> HIDE DEF q
<1> QED BY <1>1, <1>2, MakeReadyLists

\* Without one thread the ready order still names all others that are ready.
LEMMA OthersListed ==
    ASSUME TypeInv, AllListed, NEW t, NEW u \in Uids, status[u] = "Ready", u # t
    PROVE  \E i \in DOMAIN Without(ready, {t}) : Without(ready, {t})[i] = u
<1>1. PICK i \in DOMAIN ready : ready[i] = u
  BY DEF AllListed
<1> DEFINE gone == {t}
<1>2. ready \in Seq(Uids) /\ ready[i] \notin gone
  BY <1>1, ReadyType
<1> HIDE DEF gone
<1>3. \E k \in DOMAIN Without(ready, gone) : Without(ready, gone)[k] = ready[i]
  BY ONLY <1>1, <1>2, WithoutComplete
<1> QED BY <1>1, <1>3 DEF gone

LEMMA AppendedListed ==
    ASSUME TypeInv, AllListed, NEW t, NEW u \in Uids, ready' = Append(Without(ready, {t}), u),
           \A v \in Uids : status'[v] = "Ready" => v = u \/ (status[v] = "Ready" /\ v # t)
    PROVE  AllListed'
<1> DEFINE q == Without(ready, {t})
<1>0. q \in Seq(Uids) /\ ready' = Append(q, u)
  BY ReadyType, WithoutProperties
<1>1. \A v \in Uids : status[v] = "Ready" /\ v # t => \E i \in DOMAIN q : q[i] = v
  BY OthersListed
<1>2. Len(q) \in Nat /\ DOMAIN q = 1..Len(q)
  BY <1>0, LenProperties
<1> HIDE DEF q
<1>3. /\ DOMAIN ready' = 1..Len(q) + 1
      /\ \A i \in 1..Len(q) : ready'[i] = q[i]
      /\ ready'[Len(q) + 1] = u
  <2>1. u \in Uids
    OBVIOUS
  <2> QED BY ONLY <1>0, <2>1, AppendProperties, LenProperties
<1>4. \A i \in DOMAIN q : i \in DOMAIN ready' /\ ready'[i] = q[i]
  <2>1. \A i \in 1..Len(q) : i \in 1..Len(q) + 1
    BY <1>2
  <2> QED BY <1>2, <1>3, <2>1
<1>5. Len(q) + 1 \in DOMAIN ready'
  BY <1>2, <1>3
<1> QED BY ZenonT(60), <1>1, <1>3, <1>4, <1>5 DEF AllListed

LEMMA PreemptLists ==
    ASSUME TypeInv, AllListed, NEW t \in Uids, current # Nobody, PreemptBy(t)
    PROVE  AllListed'
<1>1. current \in Uids
  BY DEF TypeInv, TypeOK, ThreadsTypeOK
<1>2. /\ ready' = Append(Without(ready, {t}), current)
      /\ status' = [status EXCEPT ![t] = "Running", ![current] = "Ready"]
  BY DEF PreemptBy
<1>3. \A v \in Uids : status'[v] = "Ready" => v = current \/ (status[v] = "Ready" /\ v # t)
  BY <1>2, ReadyType
<1> QED BY <1>1, <1>2, <1>3, AppendedListed

LEMMA SwitchLists ==
    ASSUME TypeInv, AllListed, NEW t \in Uids, SwitchTo(t)
    PROVE  AllListed'
<1>1. \A v \in Uids : status'[v] = "Ready" => status[v] = "Ready" /\ v # t
  BY ReadyType DEF SwitchTo
<1> QED BY <1>1, OthersListed DEF AllListed, SwitchTo

LEMMA BlockLists ==
    ASSUME TypeInv, AllListed, NEW w, NEW d, Block(w, d), UNCHANGED ready
    PROVE  AllListed'
<1>1. \A t \in Uids : status'[t] = "Ready" => status[t] = "Ready"
  BY ReadyType DEF Block
<1> QED BY <1>1, FewerReady
-----------------------------------------------------------------------------

\* The most urgent thread of the ready order is that of all ready threads.
LEMMA BestIsUrgent ==
    ASSUME TypeInv, AllListed, NEW t \in Uids, status[t] = "Ready"
    PROVE  ready # <<>> /\ Best \in Uids /\ prio[Best] <= prio[t]
<1>1. PICK i \in DOMAIN ready : ready[i] = t
  BY DEF AllListed
<1>2. ready # <<>>
  BY <1>1
<1> QED BY <1>1, <1>2, ReadyType, BestType

LEMMA PriosType == TypeInv => \A t \in Uids : prio[t] \in Int
<1>1. Priorities \subseteq Int
  BY SchedulerAssumption
<1> QED BY <1>1, ReadyType

\* What each of the three places that may preempt looks at is enough.
LEMMA StaysUrgent ==
    ASSUME TypeInv, AllListed, UNCHANGED <<status, prio, current>>,
           current # Nobody => ready = <<>> \/ ~(prio[Best] < prio[current])
    PROVE  UrgentRuns'
<1> SUFFICES ASSUME current # Nobody, NEW t \in Uids, status[t] = "Ready"
             PROVE  prio[current] <= prio[t]
  BY DEF UrgentRuns
<1>1. Best \in Uids /\ prio[Best] <= prio[t] /\ ~(prio[Best] < prio[current])
  BY BestIsUrgent
<1>2. current \in Uids
  BY DEF TypeInv, TypeOK, ThreadsTypeOK
<1> HIDE DEF Best
<1> QED BY <1>1, <1>2, PriosType

LEMMA PreemptUrgent ==
    ASSUME TypeInv, AllListed, current # Nobody, ready # <<>>, PreemptBy(Best), UNCHANGED prio,
           prio[Best] <= prio[current]
    PROVE  UrgentRuns'
<1>1. current \in Uids /\ Best \in Uids
  BY ReadyType, BestType DEF TypeInv, TypeOK, ThreadsTypeOK
<1>2. /\ status' = [status EXCEPT ![Best] = "Running", ![current] = "Ready"]
      /\ current' = Best
  BY DEF PreemptBy
<1>3. \A t \in Uids : status[t] = "Ready" => prio[Best] <= prio[t]
  BY BestIsUrgent
<1> HIDE DEF Best
<1>4. \A t \in Uids : status'[t] = "Ready" => t = current \/ status[t] = "Ready"
  BY <1>1, <1>2, ReadyType
<1> QED BY <1>2, <1>3, <1>4 DEF UrgentRuns

LEMMA SwitchUrgent ==
    ASSUME TypeInv, AllListed, ready # <<>>, SwitchTo(Best), UNCHANGED prio
    PROVE  UrgentRuns'
<1>1. Best \in Uids
  BY ReadyType, BestType
<1>2. status' = [status EXCEPT ![Best] = "Running"] /\ current' = Best
  BY DEF SwitchTo
<1>3. \A t \in Uids : status[t] = "Ready" => prio[Best] <= prio[t]
  BY BestIsUrgent
<1> HIDE DEF Best
<1>4. \A t \in Uids : status'[t] = "Ready" => status[t] = "Ready"
  BY <1>1, <1>2, ReadyType
<1> QED BY <1>2, <1>3, <1>4 DEF UrgentRuns

\* Nothing is promised inside the kernel or in a handler.
LEMMA ElsewhereUrgent == phase' # "guest" \/ handler' # NoCall => UrgentRuns'
  BY DEF UrgentRuns, InThread
-----------------------------------------------------------------------------
(* The steps *)

LEMMA SchedulerUrgent ==
    ASSUME UrgentInv, SchedulerNext
    PROVE  AllListed' /\ UrgentRuns'
<1> USE DEF UrgentInv, RunInv, loopVars, threadVars, intrVars
<1>1. CASE FinishInterrupt \/ PickInterrupt \/ BoundaryInterrupt \/ ReturnToHandler
  <2>1. UNCHANGED <<status, ready>> /\ pending # <<>> /\ BeginInterrupt
    BY <1>1 DEF FinishInterrupt, PickInterrupt, BoundaryInterrupt, ReturnToHandler, Interruptible
  <2> QED BY <2>1, SameListed, HandlerIsCall, ElsewhereUrgent
<1>2. CASE FinishPreempt \/ BoundaryPreempt \/ ReturnAndPreempt
  <2>1. /\ ready # <<>> /\ PreemptBy(Best) /\ UNCHANGED prio
        /\ prio[Best] < prio[current] \/ prio[Best] <= prio[current]
    BY <1>2 DEF FinishPreempt, BoundaryPreempt, ReturnAndPreempt, FinishSwitches,
                BoundarySwitches, ReturnPreempts
  <2>2. current # Nobody
    BY <1>2 DEF FinishPreempt, BoundaryPreempt, ReturnAndPreempt, Preemptible, BoundaryIn,
                TypeInv, BoundaryHasThread
  <2>3. Best \in Uids /\ current \in Uids
    BY <2>1, <2>2, ReadyType, BestType DEF TypeInv, TypeOK, ThreadsTypeOK
  <2>4. prio[Best] <= prio[current]
    <3> HIDE DEF Best
    <3> QED BY <2>1, <2>3, PriosType
  <2> QED BY <2>1, <2>2, <2>3, <2>4, PreemptLists, PreemptUrgent
<1>3. CASE PickThread
  <2>1. ready # <<>> /\ SwitchTo(Best) /\ UNCHANGED prio /\ Best \in Uids
    BY <1>3, ReadyType, BestType DEF PickThread
  <2> QED BY <2>1, SwitchLists, SwitchUrgent
<1>4. CASE FinishReturn \/ BoundaryReturn \/ ReturnToThread
  <2>1. UNCHANGED <<status, ready, prio, current, dispatchOn, intrOn>>
    BY <1>4 DEF FinishReturn, BoundaryReturn, ReturnToThread, maskVars
  <2>2. AllListed'
    BY <2>1, SameListed
  <2>3. CASE current # Nobody /\ ready # <<>> /\ prio[Best] < prio[current]
    <3>1. prio[Best] <= prio[current]
      <4>1. Best \in Uids /\ current \in Uids
        BY <2>3, ReadyType, BestType DEF TypeInv, TypeOK, ThreadsTypeOK
      <4> HIDE DEF Best
      <4> QED BY <2>3, <4>1, PriosType
    <3>2. handler' # NoCall \/ ~(dispatchOn' /\ intrOn')
      BY <1>4, <2>1, <2>3, <3>1
         DEF FinishReturn, BoundaryReturn, ReturnToThread, Preemptible, FinishSwitches,
             BoundarySwitches, ReturnPreempts
    <3> QED BY <2>2, <3>2 DEF UrgentRuns, InThread
  <2>4. CASE ~(current # Nobody /\ ready # <<>> /\ prio[Best] < prio[current])
    BY <2>1, <2>2, <2>4, StaysUrgent
  <2> QED BY <2>3, <2>4
<1>5. CASE ProcessTimers
  <2>1. PICK done \in SUBSET HostWaiting :
            MakeReady(InUidOrder(VBlankWoken) \o InUidOrder(Expired \cup done))
    BY <1>5 DEF ProcessTimers
  <2>2. VBlankWoken \in SUBSET Uids /\ Expired \cup done \in SUBSET Uids
    BY DEF VBlankWoken, Expired, HostWaiting
  <2>3. InUidOrder(VBlankWoken) \o InUidOrder(Expired \cup done) \in Seq(Uids)
    <3>1. InUidOrder(VBlankWoken) \o InUidOrder(Expired \cup done)
              \in Seq(VBlankWoken \cup (Expired \cup done))
      BY <2>2, UidListsAppended
    <3>2. VBlankWoken \cup (Expired \cup done) \subseteq Uids
      BY <2>2
    <3> QED BY ONLY <3>1, <3>2, SeqMonotonic
  <2>4. phase' # "guest"
    BY <1>5 DEF ProcessTimers
  <2> QED BY <2>1, <2>3, <2>4, MakeReadyLists, ElsewhereUrgent
<1>6. CASE PickDeadlock \/ PickIdle \/ ReturnToSchedule \/ CancelDone
           \/ \E c \in 0..Quantum : Starvation(c)
  <2>1. UNCHANGED <<status, ready>> /\ phase' # "guest"
    BY <1>6 DEF PickDeadlock, PickIdle, ReturnToSchedule, CancelDone, Starvation, AdvanceClock
  <2> QED BY <2>1, SameListed, ElsewhereUrgent
<1>7. CASE CancelWaiter
  <2> DEFINE t == Head(waiters[target])
  <2>1. IsWaiting(t) => AllListed'
    BY <1>7, OneMadeReadyLists DEF CancelWaiter, IsWaiting
  <2>2. ~IsWaiting(t) => AllListed'
    BY <1>7, SameListed DEF CancelWaiter
  <2>3. phase' # "guest"
    BY <1>7 DEF CancelWaiter
  <2> QED BY <2>1, <2>2, <2>3, ElsewhereUrgent
<1> QED BY <1>1, <1>2, <1>3, <1>4, <1>5, <1>6, <1>7 DEF SchedulerNext

\* A wait from a handler goes on in the handler, any other in schedule.
LEMMA BlockElsewhere ==
    ASSUME TypeInv, UrgentRuns, phase = "guest", NEW w, NEW d, Block(w, d),
           UNCHANGED <<handler, prio, dispatchOn, intrOn>>
    PROVE  UrgentRuns'
  BY DEF Block, UrgentRuns, InThread

LEMMA TimedWaitUrgent ==
    ASSUME UrgentInv, NEW w, NEW d, NEW cb, TimedWait(w, d, cb)
    PROVE  AllListed' /\ UrgentRuns'
  BY BlockLists, BlockElsewhere DEF TimedWait, MayWait, InGuest, UrgentInv, RunInv, maskVars

LEMMA ThreadsUrgent ==
    ASSUME UrgentInv, ThreadsNext
    PROVE  AllListed' /\ UrgentRuns'
<1> USE DEF UrgentInv, RunInv, threadVars
<1>1. CASE OtherCall \/ (\E cb \in BOOLEAN : SleepTakesWakeup(cb))
           \/ (\E t \in Uids : WakeupStored(t)) \/ \E on \in BOOLEAN : SetInterrupts(on) \/ SetDispatch(on)
  <2>1. UNCHANGED <<status, ready>> /\ phase' = "finish"
    BY <1>1 DEF OtherCall, SleepTakesWakeup, WakeupStored, SetInterrupts, SetDispatch
  <2> QED BY <2>1, SameListed, ElsewhereUrgent
<1>2. ASSUME NEW p \in Priorities, CreateThread(p)
      PROVE  AllListed' /\ UrgentRuns'
  <2>1. status' = [status EXCEPT ![made + 1] = "Dormant"] /\ UNCHANGED ready /\ phase' = "finish"
    BY <1>2 DEF CreateThread
  <2>2. \A t \in Uids : status'[t] = "Ready" => status[t] = "Ready"
    BY <2>1, ReadyType
  <2> QED BY <2>1, <2>2, FewerReady, ElsewhereUrgent
<1>3. ASSUME NEW t \in Uids, StartThread(t) \/ WakeupSleeper(t) \/ ReleaseWaitThread(t)
      PROVE  AllListed' /\ UrgentRuns'
  <2>1. MakeReady(<<t>>) /\ phase' = "finish"
    BY <1>3 DEF StartThread, WakeupSleeper, ReleaseWaitThread
  <2> QED BY <2>1, OneMadeReadyLists, ElsewhereUrgent
<1>4. ASSUME NEW t \in Uids, DeleteThread(t)
      PROVE  AllListed' /\ UrgentRuns'
  <2>1. status' = [status EXCEPT ![t] = "Gone"] /\ UNCHANGED ready /\ phase' = "finish"
    BY <1>4 DEF DeleteThread
  <2>2. \A u \in Uids : status'[u] = "Ready" => status[u] = "Ready"
    BY <2>1, ReadyType
  <2> QED BY <2>1, <2>2, FewerReady, ElsewhereUrgent
<1>5. ASSUME NEW delete \in BOOLEAN, ExitThread(delete)
      PROVE  AllListed' /\ UrgentRuns'
  <2> DEFINE q == InUidOrder(Joined)
  <2>1. Joined \in SUBSET Uids
    BY DEF Joined
  <2>2. Joined \in SUBSET Int /\ IsFiniteSet(Joined)
    BY <2>1, UidsFinite, FS_Subset
  <2>3. q \in Seq(Uids) /\ \A t \in Joined : \E i \in DOMAIN q : q[i] = t
    BY <2>1, <2>2, InUidOrderType, InUidOrderComplete, SeqMonotonic
  <2>4. ready' = ready \o q /\ phase' = "timers"
    BY <1>5 DEF ExitThread
  <2>5. \A t \in Uids : status'[t] = "Ready" => status[t] = "Ready" \/ t \in Joined
    BY <1>5 DEF ExitThread
  <2> HIDE DEF q
  <2> QED BY <2>3, <2>4, <2>5, MoreListed, ElsewhereUrgent
<1>6. ASSUME NEW t \in Uids, NEW delete \in BOOLEAN, TerminateThread(t, delete)
      PROVE  AllListed' /\ UrgentRuns'
  <2>1. /\ status' = [status EXCEPT ![t] = IF delete THEN "Gone" ELSE "Dormant"]
        /\ ready' = Without(ready, {t}) /\ phase' = "finish"
    BY <1>6 DEF TerminateThread
  <2>2. \A u \in Uids : status'[u] = "Ready" => status[u] = "Ready" /\ u # t
    BY <2>1, ReadyType
  <2>3. AllListed'
    BY <2>1, <2>2, OthersListed DEF AllListed
  <2> QED BY <2>1, <2>3, ElsewhereUrgent
<1>7. ASSUME NEW t \in Uids, NEW p \in Priorities, ChangePriority(t, p)
      PROVE  AllListed' /\ UrgentRuns'
  <2>1. /\ ready' = IF status[t] = "Ready" THEN Append(Without(ready, {t}), t) ELSE ready
        /\ UNCHANGED status /\ phase' = "finish"
    BY <1>7 DEF ChangePriority
  <2>2. CASE status[t] = "Ready"
    BY <2>1, <2>2, AppendedListed, ElsewhereUrgent
  <2>3. CASE status[t] # "Ready"
    BY <2>1, <2>3, SameListed, ElsewhereUrgent
  <2> QED BY <2>2, <2>3
<1>8. ASSUME NEW cb \in BOOLEAN, SleepBlocks(cb)
      PROVE  AllListed' /\ UrgentRuns'
  BY <1>8, BlockLists, BlockElsewhere DEF SleepBlocks, MayWait, InGuest, maskVars
<1>9. ASSUME NEW w, NEW d, NEW cb, TimedWait(w, d, cb)
      PROVE  AllListed' /\ UrgentRuns'
  BY <1>9, TimedWaitUrgent
<1> QED BY <1>1, <1>2, <1>3, <1>4, <1>5, <1>6, <1>7, <1>8, <1>9
        DEF ThreadsNext, DelayThread, WaitVBlank, WaitThreadEnd, WaitHost

LEMMA KernelEventsUrgent ==
    ASSUME UrgentInv, KernelEventsNext
    PROVE  AllListed' /\ UrgentRuns'
<1>1. EventCall
  BY DEF KernelEventsNext, RegisterVBlankHandler, EnableVBlankHandler, ReleaseVBlankHandler,
         CreateCallback, DeleteCallback, NotifyCallback, CreateVTimer, StartVTimer, SetVTimerHandler
<1>2. UNCHANGED <<status, ready>> /\ phase' = "finish"
  BY <1>1 DEF EventCall, threadVars
<1> QED BY <1>2, SameListed, ElsewhereUrgent DEF UrgentInv

LEMMA ObjectsUrgent ==
    ASSUME UrgentInv, ObjectKinds
    PROVE  AllListed' /\ UrgentRuns'
<1> USE DEF UrgentInv, RunInv, ObjectKinds
<1>1. CASE ObjectRests
  BY <1>1, SameListed, ElsewhereUrgent DEF ObjectRests
<1>2. CASE ObjectWakes
  BY <1>2, OneMadeReadyLists, ElsewhereUrgent DEF ObjectWakes
<1>3. CASE ObjectBlocks
  BY <1>3, BlockLists, BlockElsewhere DEF ObjectBlocks, ObjectKeeps, MayWait, InGuest, maskVars
<1> QED BY <1>1, <1>2, <1>3

\* While guest thread code runs and nothing holds preemption off, no ready
\* thread is more urgent than the running one, whichever way the kernel went
\* back to guest code.
THEOREM KernelUrgentRuns == Spec => []UrgentRuns
<1>1. Init => UrgentInv
  <2> SUFFICES ASSUME Init PROVE UrgentInv
    OBVIOUS
  <2>1. \A t \in Uids : status[t] # "Ready"
    BY DEF Init, SchedulerInit
  <2> QED BY <2>1, InitRuns DEF UrgentInv, AllListed, UrgentRuns
<1>2. UrgentInv /\ [Next]_vars => UrgentInv'
  <2> SUFFICES ASSUME UrgentInv, [Next]_vars PROVE UrgentInv'
    OBVIOUS
  <2>1. RunInv'
    BY StepRuns DEF UrgentInv
  <2>2. CASE UNCHANGED schedulerVars
    BY <2>1, <2>2 DEF UrgentInv, AllListed, UrgentRuns, InThread, schedulerVars, threadVars,
                      intrVars, maskVars
  <2>3. UNCHANGED vars => UNCHANGED schedulerVars
    BY DEF vars
  <2> QED BY <2>1, <2>2, <2>3, SchedulerUrgent, ThreadsUrgent, KernelEventsUrgent, ObjectsUrgent,
             ObjectKindsOnly DEF Next, ObjectStep, Stopped, UrgentInv
<1>3. UrgentInv => UrgentRuns
  BY DEF UrgentInv
<1> QED BY <1>1, <1>2, <1>3, PTL DEF Spec

-----------------------------------------------------------------------------
(* Holding preemption off.  interrupt_return_stub looks at dispatch_enabled_ *)
(* alone, which is enough as long as no handler suspends interrupts: it was  *)
(* begun with interrupts enabled.                                            *)

HandlerUnmasked == handler # NoCall => intrOn
NotPreempted == current # Nobody /\ ~(intrOn /\ dispatchOn) => status'[current] # "Ready"

LEMMA RunsOn ==
    ASSUME RunInv, current # Nobody, status'[current] = status[current]
    PROVE  status'[current] # "Ready"
  BY DEF RunInv, TypeInv, TypeOK, ThreadsTypeOK, ThreadsInv, OneRunning

LEMMA WokenNotRunning ==
    ASSUME RunInv, NEW q, MakeReady(q), \A t \in Range(q) : status[t] \in {"Waiting", "Dormant"}
    PROVE  NotPreempted
<1> SUFFICES ASSUME current # Nobody PROVE status'[current] # "Ready"
  BY DEF NotPreempted
<1>1. current \in Uids /\ status[current] = "Running"
  BY DEF RunInv, TypeInv, TypeOK, ThreadsTypeOK, ThreadsInv, OneRunning
<1> QED BY <1>1 DEF MakeReady

LEMMA OneWokenNotRunning ==
    ASSUME RunInv, NEW t \in Uids, MakeReady(<<t>>), status[t] \in {"Waiting", "Dormant"}
    PROVE  NotPreempted
<1>1. Range(<<t>>) = {t}
  BY DEF Range
<1> QED BY <1>1, WokenNotRunning

LEMMA BlockedNotReady ==
    ASSUME RunInv, NEW w, NEW d, Block(w, d)
    PROVE  NotPreempted
<1>1. current # Nobody => current \in Uids /\ status[current] = "Running" /\ status \in [Uids -> Statuses]
  BY DEF RunInv, TypeInv, TypeOK, ThreadsTypeOK, ThreadsInv, OneRunning
<1> QED BY <1>1 DEF Block, NotPreempted

LEMMA UnmaskedStays ==
    ASSUME HandlerUnmasked, UNCHANGED <<handler, intrOn>>
    PROVE  HandlerUnmasked'
  BY DEF HandlerUnmasked

LEMMA SchedulerHolds ==
    ASSUME RunInv, HandlerUnmasked, SchedulerNext
    PROVE  HandlerUnmasked' /\ NotPreempted
<1> USE DEF threadVars, maskVars, intrVars
<1>1. CASE FinishInterrupt \/ PickInterrupt \/ BoundaryInterrupt \/ ReturnToHandler
  <2>1. intrOn /\ UNCHANGED <<status, intrOn>>
    BY <1>1 DEF FinishInterrupt, PickInterrupt, BoundaryInterrupt, ReturnToHandler, Interruptible
  <2> QED BY <2>1, RunsOn DEF HandlerUnmasked, NotPreempted
<1>2. CASE FinishPreempt \/ BoundaryPreempt
  <2>1. intrOn /\ dispatchOn /\ UNCHANGED <<handler, intrOn>>
    BY <1>2 DEF FinishPreempt, BoundaryPreempt, FinishSwitches, BoundarySwitches
  <2> QED BY <2>1, UnmaskedStays DEF NotPreempted
<1>3. CASE ReturnAndPreempt
  BY <1>3 DEF ReturnAndPreempt, HandlerReturns, ReturnPreempts, HandlerUnmasked, NotPreempted
<1>4. CASE ReturnToThread \/ ReturnToSchedule
  <2>1. handler' = NoCall /\ UNCHANGED status
    BY <1>4 DEF ReturnToThread, ReturnToSchedule
  <2> QED BY <2>1, RunsOn DEF HandlerUnmasked, NotPreempted
<1>5. CASE FinishReturn \/ PickDeadlock \/ PickIdle \/ BoundaryReturn \/ CancelDone
           \/ \E c \in 0..Quantum : Starvation(c)
  <2>1. UNCHANGED <<status, handler, intrOn>>
    BY <1>5 DEF FinishReturn, PickDeadlock, PickIdle, BoundaryReturn, CancelDone, Starvation
  <2> QED BY <2>1, UnmaskedStays, RunsOn DEF NotPreempted
<1>6. CASE ProcessTimers
  <2>1. UNCHANGED <<handler, intrOn>>
    BY <1>6 DEF ProcessTimers
  <2>2. PICK done \in SUBSET HostWaiting :
            MakeReady(InUidOrder(VBlankWoken) \o InUidOrder(Expired \cup done))
    BY <1>6 DEF ProcessTimers
  <2> DEFINE S == VBlankWoken \cup (Expired \cup done)
             q == InUidOrder(VBlankWoken) \o InUidOrder(Expired \cup done)
  <2>3. VBlankWoken \in SUBSET Uids /\ Expired \cup done \in SUBSET Uids
        /\ \A t \in S : status[t] \in {"Waiting", "Dormant"}
    BY DEF VBlankWoken, Expired, HostWaiting, IsWaiting
  <2>4. q \in Seq(S)
    BY <2>3, UidListsAppended
  <2>5. MakeReady(q)
    BY <2>2
  <2> HIDE DEF q, S
  <2>6. \A t \in Range(q) : t \in S
    BY <2>4, LenProperties, ElementOfSeq DEF Range
  <2> QED BY <2>1, <2>3, <2>5, <2>6, UnmaskedStays, WokenNotRunning
<1>7. CASE PickThread
  <2>1. UNCHANGED <<handler, intrOn>> /\ current = Nobody
    BY <1>7 DEF PickThread, PickIn, RunInv, HandlerPlace
  <2> QED BY <2>1, UnmaskedStays DEF NotPreempted
<1>8. CASE CancelWaiter
  <2> DEFINE t == Head(waiters[target])
  <2>1. UNCHANGED <<handler, intrOn>>
    BY <1>8 DEF CancelWaiter
  <2>2. IsWaiting(t) => NotPreempted
    BY <1>8, OneWokenNotRunning DEF CancelWaiter, IsWaiting
  <2>3. ~IsWaiting(t) => NotPreempted
    BY <1>8, RunsOn DEF CancelWaiter, NotPreempted
  <2> QED BY <2>1, <2>2, <2>3, UnmaskedStays
<1> QED BY <1>1, <1>2, <1>3, <1>4, <1>5, <1>6, <1>7, <1>8 DEF SchedulerNext

LEMMA ThreadsHold ==
    ASSUME RunInv, HandlerUnmasked, ThreadsNext, "handler mask" \notin Uses
    PROVE  HandlerUnmasked' /\ NotPreempted
<1> USE DEF threadVars, maskVars, intrVars
<1>0. /\ current # Nobody => current \in Uids /\ status[current] = "Running"
      /\ status \in [Uids -> Statuses]
  BY DEF RunInv, TypeInv, TypeOK, ThreadsTypeOK, ThreadsInv, OneRunning
<1>1. CASE OtherCall \/ (\E t \in Uids, p \in Priorities : ChangePriority(t, p))
           \/ (\E cb \in BOOLEAN : SleepTakesWakeup(cb)) \/ \E t \in Uids : WakeupStored(t)
  <2>1. UNCHANGED <<status, handler, intrOn>>
    BY <1>1 DEF OtherCall, ChangePriority, SleepTakesWakeup, WakeupStored
  <2> QED BY <2>1, UnmaskedStays, RunsOn DEF NotPreempted
<1>2. ASSUME NEW p \in Priorities, CreateThread(p)
      PROVE  HandlerUnmasked' /\ NotPreempted
  <2>1. status' = [status EXCEPT ![made + 1] = "Dormant"] /\ UNCHANGED <<handler, intrOn>>
    BY <1>2 DEF CreateThread
  <2> QED BY <1>0, <2>1, UnmaskedStays DEF NotPreempted
<1>3. ASSUME NEW t \in Uids, StartThread(t) \/ WakeupSleeper(t) \/ ReleaseWaitThread(t)
      PROVE  HandlerUnmasked' /\ NotPreempted
  <2>1. UNCHANGED <<handler, intrOn>> /\ MakeReady(<<t>>) /\ status[t] \in {"Waiting", "Dormant"}
    BY <1>3 DEF StartThread, WakeupSleeper, ReleaseWaitThread, IsWaiting
  <2> QED BY <2>1, UnmaskedStays, OneWokenNotRunning
<1>4. ASSUME NEW t \in Uids, DeleteThread(t)
      PROVE  HandlerUnmasked' /\ NotPreempted
  <2>1. status' = [status EXCEPT ![t] = "Gone"] /\ UNCHANGED <<handler, intrOn>>
    BY <1>4 DEF DeleteThread
  <2> QED BY <1>0, <2>1, UnmaskedStays DEF NotPreempted
<1>5. ASSUME NEW delete \in BOOLEAN, ExitThread(delete)
      PROVE  HandlerUnmasked' /\ NotPreempted
  <2>1. /\ status' = [t \in Uids |-> IF t = current THEN IF delete THEN "Gone" ELSE "Dormant"
                                     ELSE IF t \in Joined THEN "Ready" ELSE status[t]]
        /\ UNCHANGED <<handler, intrOn>>
    BY <1>5 DEF ExitThread
  <2> QED BY <1>0, <2>1, UnmaskedStays DEF NotPreempted
<1>6. ASSUME NEW t \in Uids, NEW delete \in BOOLEAN, TerminateThread(t, delete)
      PROVE  HandlerUnmasked' /\ NotPreempted
  <2>1. /\ status' = [status EXCEPT ![t] = IF delete THEN "Gone" ELSE "Dormant"]
        /\ UNCHANGED <<handler, intrOn>>
    BY <1>6 DEF TerminateThread
  <2> QED BY <1>0, <2>1, UnmaskedStays DEF NotPreempted
<1>7. ASSUME NEW on \in BOOLEAN, SetInterrupts(on) \/ SetDispatch(on)
      PROVE  HandlerUnmasked' /\ NotPreempted
  <2>1. handler = NoCall /\ UNCHANGED <<status, handler>>
    BY <1>7 DEF SetInterrupts, SetDispatch, MayMask
  <2> QED BY <2>1, RunsOn DEF HandlerUnmasked, NotPreempted
<1>8. ASSUME NEW cb \in BOOLEAN, SleepBlocks(cb)
      PROVE  HandlerUnmasked' /\ NotPreempted
  BY <1>8, BlockedNotReady, UnmaskedStays DEF SleepBlocks
<1>9. ASSUME NEW t, NEW d, NEW cb,
             DelayThread(d, cb) \/ WaitVBlank(cb) \/ WaitThreadEnd(t, d, cb) \/ WaitHost(d)
      PROVE  HandlerUnmasked' /\ NotPreempted
  BY <1>9, BlockedNotReady, UnmaskedStays DEF DelayThread, WaitVBlank, WaitThreadEnd, WaitHost, TimedWait
<1> QED BY <1>1, <1>2, <1>3, <1>4, <1>5, <1>6, <1>7, <1>8, <1>9 DEF ThreadsNext

LEMMA ObjectsHold ==
    ASSUME RunInv, HandlerUnmasked, ObjectKinds
    PROVE  HandlerUnmasked' /\ NotPreempted
<1>1. HandlerUnmasked'
  BY UnmaskedStays DEF ObjectKinds, ObjectKeeps, maskVars
<1>2. CASE ObjectRests
  BY <1>1, <1>2, RunsOn DEF ObjectRests, NotPreempted
<1>3. CASE ObjectWakes
  BY <1>1, <1>3, OneWokenNotRunning DEF ObjectWakes, IsWaiting
<1>4. CASE ObjectBlocks
  BY <1>1, <1>4, BlockedNotReady DEF ObjectBlocks
<1> QED BY <1>1, <1>2, <1>3, <1>4 DEF ObjectKinds

\* In a program whose handlers leave the masks alone, a thread that has
\* suspended interrupts or dispatch runs on until it waits or ends.
THEOREM KernelNoPreemption == "handler mask" \notin Uses => (Spec => NoPreemption)
<1> SUFFICES ASSUME "handler mask" \notin Uses PROVE Spec => NoPreemption
  OBVIOUS
<1>1. Init => HandlerUnmasked
  BY DEF HandlerUnmasked, Init, SchedulerInit
<1>2. RunInv /\ HandlerUnmasked /\ [Next]_vars => HandlerUnmasked' /\ (NotPreempted \/ UNCHANGED vars)
  <2> SUFFICES ASSUME RunInv, HandlerUnmasked, [Next]_vars
               PROVE  HandlerUnmasked' /\ (NotPreempted \/ UNCHANGED vars)
    OBVIOUS
  <2>1. UNCHANGED vars \/ Stopped => UNCHANGED <<status, handler, intrOn>>
    BY DEF vars, Stopped, schedulerVars, threadVars, intrVars, maskVars
  <2>2. KernelEventsNext => UNCHANGED <<status, handler, intrOn>>
    <3> SUFFICES ASSUME KernelEventsNext PROVE UNCHANGED <<status, handler, intrOn>>
      OBVIOUS
    <3>1. EventCall
      BY DEF KernelEventsNext, RegisterVBlankHandler, EnableVBlankHandler, ReleaseVBlankHandler,
             CreateCallback, DeleteCallback, NotifyCallback, CreateVTimer, StartVTimer,
             SetVTimerHandler
    <3> QED BY <3>1 DEF EventCall, threadVars, intrVars, maskVars
  <2>3. UNCHANGED <<status, handler, intrOn>> => HandlerUnmasked' /\ NotPreempted
    BY RunsOn, UnmaskedStays DEF NotPreempted
  <2> QED BY <2>1, <2>2, <2>3, SchedulerHolds, ThreadsHold, ObjectsHold, ObjectKindsOnly
          DEF Next, ObjectStep
<1>3. NotPreempted \/ UNCHANGED vars
      => [current # Nobody /\ ~(intrOn /\ dispatchOn) => status'[current] # "Ready"]_vars
  BY DEF NotPreempted
<1> QED BY <1>1, <1>2, <1>3, AlwaysRuns, PTL DEF Spec, NoPreemption

-----------------------------------------------------------------------------
(* Sleep.  Most steps only end waits or begin one that is no sleep         *)
(* (WaitsEnd, OtherWait); what remains is sceKernelSleepThread and the     *)
(* calls that change a wakeup count.                                       *)

SleepInv == TypeInv /\ NoLostWakeup

LEMMA ThreadTypes ==
    ASSUME TypeInv
    PROVE  /\ status \in [Uids -> Statuses] /\ wait \in [Uids -> Waits]
           /\ wakeups \in [Uids -> 0..MaxWakeups] /\ current \in Uids \cup {Nobody}
  BY DEF TypeInv, TypeOK, ThreadsTypeOK

LEMMA WaitsEnd ==
    ASSUME NoLostWakeup, UNCHANGED wakeups,
           \A t \in Uids : status'[t] = "Waiting" => status[t] = "Waiting" /\ wait'[t] = wait[t]
    PROVE  NoLostWakeup'
  BY DEF NoLostWakeup, IsWaiting

LEMMA SameWaits ==
    ASSUME NoLostWakeup, UNCHANGED <<status, wait, wakeups>>
    PROVE  NoLostWakeup'
  BY DEF NoLostWakeup, IsWaiting

LEMMA MakeReadyWakes ==
    ASSUME NoLostWakeup, NEW q, MakeReady(q), UNCHANGED wakeups
    PROVE  NoLostWakeup'
  BY WaitsEnd DEF MakeReady

LEMMA SwitchWakes ==
    ASSUME SleepInv, NEW t, SwitchTo(t), UNCHANGED <<wait, wakeups>>
    PROVE  NoLostWakeup'
  BY ThreadTypes, WaitsEnd DEF SwitchTo, SleepInv

LEMMA PreemptWakes ==
    ASSUME SleepInv, NEW t, PreemptBy(t), UNCHANGED wakeups
    PROVE  NoLostWakeup'
<1>1. /\ status' = [status EXCEPT ![t] = "Running", ![current] = "Ready"]
      /\ wait' = [wait EXCEPT ![current] = NoWait]
  BY DEF PreemptBy
<1> QED BY <1>1, ThreadTypes, WaitsEnd DEF SleepInv

\* A wait that begins is no sleep, or one of a thread without a wakeup.
LEMMA BlockSleeps ==
    ASSUME SleepInv, NEW w, NEW d, Block(w, d), UNCHANGED wakeups,
           w.type # "Sleep" \/ MustSleep
    PROVE  NoLostWakeup'
<1>1. CASE handler # NoCall \/ current = Nobody
  BY <1>1, SameWaits DEF Block, SleepInv
<1>2. CASE ~(handler # NoCall \/ current = Nobody)
  <2>1. /\ status' = [status EXCEPT ![current] = "Waiting"]
        /\ wait' = [wait EXCEPT ![current] = w]
    BY <1>2 DEF Block
  <2>2. current \in Uids
    BY <1>2, ThreadTypes DEF SleepInv
  <2> SUFFICES ASSUME NEW t \in Uids, status'[t] = "Waiting", wait'[t].type = "Sleep"
               PROVE  wakeups[t] = 0
    BY DEF NoLostWakeup, IsWaiting
  <2>3. CASE t = current
    BY <1>2, <2>1, <2>2, <2>3, ThreadTypes DEF SleepInv, MustSleep
  <2>4. CASE t # current
    BY <2>1, <2>4, ThreadTypes DEF SleepInv, NoLostWakeup, IsWaiting
  <2> QED BY <2>3, <2>4
<1> QED BY <1>1, <1>2
-----------------------------------------------------------------------------
(* The steps *)

LEMMA SchedulerSleeps ==
    ASSUME SleepInv, SchedulerNext
    PROVE  NoLostWakeup'
<1> USE DEF SleepInv, threadVars
<1>1. CASE FinishInterrupt \/ FinishReturn \/ PickInterrupt \/ PickDeadlock \/ PickIdle
           \/ BoundaryInterrupt \/ BoundaryReturn \/ ReturnToHandler \/ ReturnToSchedule
           \/ ReturnToThread \/ CancelDone \/ \E c \in 0..Quantum : Starvation(c)
  <2>1. UNCHANGED <<status, wait, wakeups>>
    BY <1>1 DEF FinishInterrupt, FinishReturn, PickInterrupt, PickDeadlock, PickIdle,
                BoundaryInterrupt, BoundaryReturn, ReturnToHandler, ReturnToSchedule,
                ReturnToThread, CancelDone, Starvation
  <2> QED BY <2>1, SameWaits
<1>2. CASE FinishPreempt
  BY <1>2, PreemptWakes DEF FinishPreempt
<1>3. CASE BoundaryPreempt
  BY <1>3, PreemptWakes DEF BoundaryPreempt
<1>4. CASE ReturnAndPreempt
  BY <1>4, PreemptWakes DEF ReturnAndPreempt
<1>5. CASE ProcessTimers
  BY <1>5, MakeReadyWakes DEF ProcessTimers
<1>6. CASE PickThread
  BY <1>6, SwitchWakes DEF PickThread
<1>7. CASE CancelWaiter
  <2> DEFINE t == Head(waiters[target])
  <2>1. IsWaiting(t) => NoLostWakeup'
    BY <1>7, MakeReadyWakes DEF CancelWaiter
  <2>2. ~IsWaiting(t) => NoLostWakeup'
    BY <1>7, SameWaits DEF CancelWaiter
  <2> QED BY <2>1, <2>2
<1> QED BY <1>1, <1>2, <1>3, <1>4, <1>5, <1>6, <1>7 DEF SchedulerNext

LEMMA TimedWaitSleeps ==
    ASSUME SleepInv, NEW w, w.type # "Sleep", NEW d, NEW cb, TimedWait(w, d, cb)
    PROVE  NoLostWakeup'
  BY BlockSleeps DEF TimedWait

LEMMA ThreadsSleep ==
    ASSUME SleepInv, ThreadsNext
    PROVE  NoLostWakeup'
<1> USE DEF SleepInv, threadVars
<1>1. CASE OtherCall \/ (\E t \in Uids, p \in Priorities : ChangePriority(t, p))
           \/ \E on \in BOOLEAN : SetInterrupts(on) \/ SetDispatch(on)
  <2>1. UNCHANGED <<status, wait, wakeups>>
    BY <1>1 DEF OtherCall, ChangePriority, SetInterrupts, SetDispatch
  <2> QED BY <2>1, SameWaits
<1>2. ASSUME NEW p \in Priorities, CreateThread(p)
      PROVE  NoLostWakeup'
  <2>1. /\ status' = [status EXCEPT ![made + 1] = "Dormant"]
        /\ UNCHANGED <<wait, wakeups>>
    BY <1>2 DEF CreateThread
  <2> QED BY <2>1, ThreadTypes, WaitsEnd
<1>3. ASSUME NEW t \in Uids, StartThread(t)
      PROVE  NoLostWakeup'
  <2>1. /\ wakeups' = [wakeups EXCEPT ![t] = 0]
        /\ \A u \in Uids : status'[u] = "Waiting" => status[u] = "Waiting" /\ wait'[u] = wait[u]
    BY <1>3 DEF StartThread, MakeReady
  <2> QED BY <2>1, ThreadTypes DEF NoLostWakeup, IsWaiting
<1>4. ASSUME NEW t \in Uids, DeleteThread(t)
      PROVE  NoLostWakeup'
  <2>1. status' = [status EXCEPT ![t] = "Gone"] /\ UNCHANGED <<wait, wakeups>>
    BY <1>4 DEF DeleteThread
  <2> QED BY <2>1, ThreadTypes, WaitsEnd
<1>5. ASSUME NEW delete \in BOOLEAN, ExitThread(delete)
      PROVE  NoLostWakeup'
  BY <1>5, WaitsEnd DEF ExitThread
<1>6. ASSUME NEW t \in Uids, NEW delete \in BOOLEAN, TerminateThread(t, delete)
      PROVE  NoLostWakeup'
  <2>1. /\ status' = [status EXCEPT ![t] = IF delete THEN "Gone" ELSE "Dormant"]
        /\ UNCHANGED <<wait, wakeups>>
    BY <1>6 DEF TerminateThread
  <2> QED BY <2>1, ThreadTypes, WaitsEnd
<1>7. ASSUME NEW cb \in BOOLEAN, SleepTakesWakeup(cb)
      PROVE  NoLostWakeup'
  <2>1. current \in Uids /\ wakeups[current] # 0
        /\ wakeups' = [wakeups EXCEPT ![current] = @ - 1] /\ UNCHANGED <<status, wait>>
    BY <1>7, ThreadTypes DEF SleepTakesWakeup
  <2> QED BY <2>1, ThreadTypes DEF NoLostWakeup, IsWaiting
<1>8. ASSUME NEW cb \in BOOLEAN, SleepBlocks(cb)
      PROVE  NoLostWakeup'
  BY <1>8, BlockSleeps DEF SleepBlocks
<1>9. ASSUME NEW t \in Uids, WakeupSleeper(t) \/ ReleaseWaitThread(t)
      PROVE  NoLostWakeup'
  BY <1>9, MakeReadyWakes DEF WakeupSleeper, ReleaseWaitThread
<1>10. ASSUME NEW t \in Uids, WakeupStored(t)
       PROVE  NoLostWakeup'
  <2>1. /\ ~(IsWaiting(t) /\ wait[t].type = "Sleep")
        /\ wakeups' = [wakeups EXCEPT ![t] = @ + 1] /\ UNCHANGED <<status, wait>>
    BY <1>10 DEF WakeupStored
  <2> QED BY <2>1, ThreadTypes DEF NoLostWakeup, IsWaiting
<1>11. ASSUME NEW t, NEW d, NEW cb,
              DelayThread(d, cb) \/ WaitVBlank(cb) \/ WaitThreadEnd(t, d, cb) \/ WaitHost(d)
       PROVE  NoLostWakeup'
  BY <1>11, TimedWaitSleeps DEF DelayThread, WaitVBlank, WaitThreadEnd, WaitHost, WaitFor
<1> QED BY <1>1, <1>2, <1>3, <1>4, <1>5, <1>6, <1>7, <1>8, <1>9, <1>10, <1>11 DEF ThreadsNext

LEMMA KernelEventsSleep ==
    ASSUME SleepInv, KernelEventsNext
    PROVE  NoLostWakeup'
<1>1. EventCall
  BY DEF KernelEventsNext, RegisterVBlankHandler, EnableVBlankHandler, ReleaseVBlankHandler,
         CreateCallback, DeleteCallback, NotifyCallback, CreateVTimer, StartVTimer, SetVTimerHandler
<1> QED BY <1>1, SameWaits DEF EventCall, SleepInv, threadVars

LEMMA ObjectsSleep ==
    ASSUME SleepInv, ObjectKinds
    PROVE  NoLostWakeup'
<1> USE DEF SleepInv, ObjectKinds, ObjectKeeps
<1>1. CASE ObjectRests
  BY <1>1, SameWaits DEF ObjectRests
<1>2. CASE ObjectWakes
  BY <1>2, MakeReadyWakes DEF ObjectWakes
<1>3. CASE ObjectBlocks
  BY <1>3, BlockSleeps DEF ObjectBlocks, ObjectWaits
<1> QED BY <1>1, <1>2, <1>3
-----------------------------------------------------------------------------

\* A thread asleep has no stored wakeup: sceKernelWakeupThread ends a sleep or
\* stores a wakeup, whatever ended or began other waits in between.
THEOREM KernelNoLostWakeup == Spec => []NoLostWakeup
<1>1. Init => SleepInv
  BY InitTyped DEF SleepInv, NoLostWakeup, IsWaiting, Init, SchedulerInit
<1>2. SleepInv /\ [Next]_vars => SleepInv'
  <2> SUFFICES ASSUME SleepInv, [Next]_vars PROVE SleepInv'
    OBVIOUS
  <2>1. TypeInv'
    BY StepTyped DEF SleepInv
  <2>2. UNCHANGED vars \/ Stopped => UNCHANGED <<status, wait, wakeups>>
    BY DEF vars, Stopped, schedulerVars, threadVars
  <2>3. NoLostWakeup'
    BY <2>2, SchedulerSleeps, ThreadsSleep, KernelEventsSleep, ObjectsSleep, ObjectKindsOnly, SameWaits
       DEF Next, ObjectStep, SleepInv
  <2> QED BY <2>1, <2>3 DEF SleepInv
<1>3. SleepInv => NoLostWakeup
  BY DEF SleepInv
<1> QED BY <1>1, <1>2, <1>3, PTL DEF Spec

-----------------------------------------------------------------------------
(* Waiting for the end of a thread *)

Alive(t) == t \in Uids /\ status[t] \notin {"Gone", "Dormant"}
JoinedInv == \A t \in Uids : IsWaiting(t) /\ wait[t].type = "ThreadEnd" => Alive(wait[t].object)

WaitsOnlyEnd == \A t \in Uids : status'[t] = "Waiting" => status[t] = "Waiting" /\ wait'[t] = wait[t]
LivesOn == \A t \in Uids : status[t] \notin {"Gone", "Dormant"} => status'[t] \notin {"Gone", "Dormant"}

LEMMA JoinedStays ==
    ASSUME JoinedInv, WaitsOnlyEnd, LivesOn
    PROVE  JoinedInv'
  BY DEF JoinedInv, WaitsOnlyEnd, LivesOn, IsWaiting, Alive

LEMMA SameLives ==
    ASSUME UNCHANGED <<status, wait>>
    PROVE  WaitsOnlyEnd /\ LivesOn
  BY DEF WaitsOnlyEnd, LivesOn

LEMMA MakeReadyLives ==
    ASSUME NEW q, MakeReady(q)
    PROVE  WaitsOnlyEnd /\ LivesOn
  BY DEF MakeReady, WaitsOnlyEnd, LivesOn

LEMMA SwitchLives ==
    ASSUME TypeInv, NEW t, SwitchTo(t), UNCHANGED wait
    PROVE  WaitsOnlyEnd /\ LivesOn
  BY ThreadTypes DEF SwitchTo, WaitsOnlyEnd, LivesOn

LEMMA PreemptLives ==
    ASSUME TypeInv, NEW t, PreemptBy(t)
    PROVE  WaitsOnlyEnd /\ LivesOn
<1>1. /\ status' = [status EXCEPT ![t] = "Running", ![current] = "Ready"]
      /\ wait' = [wait EXCEPT ![current] = NoWait]
  BY DEF PreemptBy
<1> QED BY <1>1, ThreadTypes DEF WaitsOnlyEnd, LivesOn

LEMMA BlockJoins ==
    ASSUME TypeInv, JoinedInv, NEW w, NEW d, Block(w, d),
           w.type = "ThreadEnd" => Alive(w.object)
    PROVE  JoinedInv'
<1>1. CASE handler # NoCall \/ current = Nobody
  BY <1>1, SameLives, JoinedStays DEF Block
<1>2. CASE ~(handler # NoCall \/ current = Nobody)
  <2>1. /\ status' = [status EXCEPT ![current] = "Waiting"]
        /\ wait' = [wait EXCEPT ![current] = w]
    BY <1>2 DEF Block
  <2>2. LivesOn
    BY <2>1, ThreadTypes DEF LivesOn
  <2> SUFFICES ASSUME NEW t \in Uids, IsWaiting(t)', wait'[t].type = "ThreadEnd"
               PROVE  Alive(wait[t].object)'
    BY DEF JoinedInv
  <2>3. Alive(wait'[t].object)
    BY <2>1, ThreadTypes DEF JoinedInv, IsWaiting
  <2> QED BY <2>2, <2>3 DEF Alive, LivesOn
<1> QED BY <1>1, <1>2

LEMMA SchedulerJoins ==
    ASSUME TypeInv, JoinedInv, SchedulerNext
    PROVE  JoinedInv'
<1> USE DEF threadVars
<1>1. CASE FinishInterrupt \/ FinishReturn \/ PickInterrupt \/ PickDeadlock \/ PickIdle
           \/ BoundaryInterrupt \/ BoundaryReturn \/ ReturnToHandler \/ ReturnToSchedule
           \/ ReturnToThread \/ CancelDone \/ \E c \in 0..Quantum : Starvation(c)
  <2>1. UNCHANGED <<status, wait>>
    BY <1>1 DEF FinishInterrupt, FinishReturn, PickInterrupt, PickDeadlock, PickIdle,
                BoundaryInterrupt, BoundaryReturn, ReturnToHandler, ReturnToSchedule,
                ReturnToThread, CancelDone, Starvation
  <2> QED BY <2>1, SameLives, JoinedStays
<1>2. CASE FinishPreempt \/ BoundaryPreempt \/ ReturnAndPreempt
  BY <1>2, PreemptLives, JoinedStays DEF FinishPreempt, BoundaryPreempt, ReturnAndPreempt
<1>3. CASE ProcessTimers
  BY <1>3, MakeReadyLives, JoinedStays DEF ProcessTimers
<1>4. CASE PickThread
  BY <1>4, SwitchLives, JoinedStays DEF PickThread
<1>5. CASE CancelWaiter
  BY <1>5, MakeReadyLives, SameLives, JoinedStays DEF CancelWaiter
<1> QED BY <1>1, <1>2, <1>3, <1>4, <1>5 DEF SchedulerNext

LEMMA TimedWaitJoins ==
    ASSUME TypeInv, JoinedInv, NEW w, w.type = "ThreadEnd" => Alive(w.object), NEW d, NEW cb,
           TimedWait(w, d, cb)
    PROVE  JoinedInv'
  BY BlockJoins DEF TimedWait

LEMMA ThreadsJoin ==
    ASSUME RunInv, JoinedInv, ThreadsNext, "terminate" \notin Uses
    PROVE  JoinedInv'
<1> USE DEF RunInv, threadVars
<1>1. CASE OtherCall \/ (\E t \in Uids, p \in Priorities : ChangePriority(t, p))
           \/ (\E on \in BOOLEAN : SetInterrupts(on) \/ SetDispatch(on))
           \/ (\E cb \in BOOLEAN : SleepTakesWakeup(cb)) \/ \E t \in Uids : WakeupStored(t)
  <2>1. UNCHANGED <<status, wait>>
    BY <1>1 DEF OtherCall, ChangePriority, SetInterrupts, SetDispatch, SleepTakesWakeup, WakeupStored
  <2> QED BY <2>1, SameLives, JoinedStays
<1>2. ASSUME NEW p \in Priorities, CreateThread(p)
      PROVE  JoinedInv'
  <2>1. status' = [status EXCEPT ![made + 1] = "Dormant"] /\ UNCHANGED wait
    BY <1>2 DEF CreateThread
  <2>2. made + 1 \in Uids => status[made + 1] = "Gone"
    BY DEF ThreadsInv, NoneBeyondMade, TypeInv, TypeOK, ThreadsTypeOK
  <2> QED BY <2>1, <2>2, ThreadTypes, JoinedStays DEF WaitsOnlyEnd, LivesOn
<1>3. ASSUME NEW t \in Uids, StartThread(t) \/ WakeupSleeper(t) \/ ReleaseWaitThread(t)
      PROVE  JoinedInv'
  BY <1>3, MakeReadyLives, JoinedStays DEF StartThread, WakeupSleeper, ReleaseWaitThread
<1>4. ASSUME NEW t \in Uids, DeleteThread(t)
      PROVE  JoinedInv'
  <2>1. status' = [status EXCEPT ![t] = "Gone"] /\ UNCHANGED wait /\ status[t] = "Dormant"
    BY <1>4 DEF DeleteThread
  <2> QED BY <2>1, ThreadTypes, JoinedStays DEF WaitsOnlyEnd, LivesOn
<1>5. ASSUME NEW delete \in BOOLEAN, ExitThread(delete)
      PROVE  JoinedInv'
  <2>1. /\ status' = [t \in Uids |-> IF t = current THEN IF delete THEN "Gone" ELSE "Dormant"
                                     ELSE IF t \in Joined THEN "Ready" ELSE status[t]]
        /\ wait' = [t \in Uids |-> IF t \in Joined THEN NoWait ELSE wait[t]]
    BY <1>5 DEF ExitThread
  <2> SUFFICES ASSUME NEW t \in Uids, IsWaiting(t)', wait'[t].type = "ThreadEnd"
               PROVE  Alive(wait[t].object)'
    BY DEF JoinedInv
  <2>2. t # current /\ t \notin Joined /\ status[t] = "Waiting" /\ wait'[t] = wait[t]
    BY <2>1 DEF IsWaiting
  <2>3. Alive(wait[t].object) /\ wait[t].object # current
    BY <2>2 DEF JoinedInv, IsWaiting, Joined
  <2> QED BY <2>1, <2>2, <2>3 DEF Alive
<1>6. ASSUME NEW cb \in BOOLEAN, SleepBlocks(cb)
      PROVE  JoinedInv'
  BY <1>6, BlockJoins DEF SleepBlocks, WaitFor
<1>7. ASSUME NEW d, NEW cb, DelayThread(d, cb) \/ WaitVBlank(cb) \/ WaitHost(d)
      PROVE  JoinedInv'
  BY <1>7, TimedWaitJoins DEF DelayThread, WaitVBlank, WaitHost, WaitFor
<1>8. ASSUME NEW t \in Uids, NEW d, NEW cb, WaitThreadEnd(t, d, cb)
      PROVE  JoinedInv'
  <2>1. Alive(t) /\ WaitFor("ThreadEnd", t).object = t
    BY <1>8 DEF WaitThreadEnd, Alive, WaitFor
  <2> QED BY <1>8, <2>1, TimedWaitJoins DEF WaitThreadEnd
<1>9. ~\E t \in Uids, delete \in BOOLEAN : TerminateThread(t, delete)
  BY DEF TerminateThread
<1> QED BY <1>1, <1>2, <1>3, <1>4, <1>5, <1>6, <1>7, <1>8, <1>9 DEF ThreadsNext

LEMMA ObjectsJoin ==
    ASSUME TypeInv, JoinedInv, ObjectKinds
    PROVE  JoinedInv'
<1>1. CASE ObjectRests
  BY <1>1, SameLives, JoinedStays DEF ObjectRests
<1>2. CASE ObjectWakes
  BY <1>2, MakeReadyLives, JoinedStays DEF ObjectWakes
<1>3. CASE ObjectBlocks
  BY <1>3, BlockJoins DEF ObjectBlocks, ObjectWaits
<1> QED BY <1>1, <1>2, <1>3 DEF ObjectKinds

\* In a program that terminates no other thread, a thread waits for the end of
\* one that has not ended, however starts, exits, deletions and timeouts cross.
THEOREM KernelJoinedIsAlive == "terminate" \notin Uses => (Spec => []JoinedIsAlive)
<1> SUFFICES ASSUME "terminate" \notin Uses PROVE Spec => []JoinedIsAlive
  OBVIOUS
<1>1. Init => JoinedInv
  BY DEF JoinedInv, IsWaiting, Init, SchedulerInit
<1>2. RunInv /\ JoinedInv /\ [Next]_vars => JoinedInv'
  <2> SUFFICES ASSUME RunInv, JoinedInv, [Next]_vars PROVE JoinedInv'
    OBVIOUS
  <2>1. TypeInv
    BY DEF RunInv
  <2>2. UNCHANGED vars \/ Stopped => UNCHANGED <<status, wait>>
    BY DEF vars, Stopped, schedulerVars, threadVars
  <2>3. KernelEventsNext => UNCHANGED <<status, wait>>
    BY DEF KernelEventsNext, RegisterVBlankHandler, EnableVBlankHandler, ReleaseVBlankHandler,
           CreateCallback, DeleteCallback, NotifyCallback, CreateVTimer, StartVTimer,
           SetVTimerHandler, EventCall, threadVars
  <2>4. UNCHANGED <<status, wait>> => JoinedInv'
    BY SameLives, JoinedStays
  <2> QED BY <2>1, <2>2, <2>3, <2>4, SchedulerJoins, ThreadsJoin, ObjectsJoin, ObjectKindsOnly
          DEF Next, ObjectStep
<1>3. JoinedInv => JoinedIsAlive
  BY DEF JoinedInv, JoinedIsAlive, Alive
<1> QED BY <1>1, <1>2, <1>3, AlwaysRuns, PTL DEF Spec

-----------------------------------------------------------------------------
(* What a state that may be saved holds *)

\* A wait record outlives its wait only in a thread another one terminated.
HostWaitsEnd == \A t \in Uids : status[t] # "Waiting" => wait[t].type # "Host"

LEMMA HostCleared ==
    ASSUME HostWaitsEnd,
           \A t \in Uids : status'[t] # "Waiting" =>
              wait'[t] = NoWait \/ (status[t] # "Waiting" /\ wait'[t] = wait[t])
    PROVE  HostWaitsEnd'
  BY DEF HostWaitsEnd, NoWait, WaitFor

LEMMA SameHostWaits ==
    ASSUME HostWaitsEnd, UNCHANGED <<status, wait>>
    PROVE  HostWaitsEnd'
  BY HostCleared

LEMMA MakeReadyClears ==
    ASSUME HostWaitsEnd, NEW q, MakeReady(q)
    PROVE  HostWaitsEnd'
  BY HostCleared DEF MakeReady

LEMMA SwitchClears ==
    ASSUME RunInv, HostWaitsEnd, ready # <<>>, SwitchTo(Best), UNCHANGED wait
    PROVE  HostWaitsEnd'
<1>1. Best \in Uids /\ status[Best] = "Ready" /\ status \in [Uids -> Statuses]
  BY BestIsReady, ThreadTypes DEF RunInv
<1>2. status' = [status EXCEPT ![Best] = "Running"]
  BY DEF SwitchTo
<1> HIDE DEF Best
<1> QED BY <1>1, <1>2, HostCleared

LEMMA PreemptClears ==
    ASSUME RunInv, HostWaitsEnd, ready # <<>>, PreemptBy(Best)
    PROVE  HostWaitsEnd'
<1>1. Best \in Uids /\ status[Best] = "Ready"
  BY BestIsReady DEF RunInv
<1>2. /\ status' = [status EXCEPT ![Best] = "Running", ![current] = "Ready"]
      /\ wait' = [wait EXCEPT ![current] = NoWait]
  BY DEF PreemptBy
<1> HIDE DEF Best
<1>3. status \in [Uids -> Statuses] /\ wait \in [Uids -> Waits]
  BY ThreadTypes DEF RunInv
<1> QED BY <1>1, <1>2, <1>3, HostCleared

LEMMA BlockClears ==
    ASSUME TypeInv, HostWaitsEnd, NEW w, NEW d, Block(w, d)
    PROVE  HostWaitsEnd'
<1>1. CASE handler # NoCall \/ current = Nobody
  BY <1>1, SameHostWaits DEF Block
<1>2. CASE ~(handler # NoCall \/ current = Nobody)
  <2>1. /\ status' = [status EXCEPT ![current] = "Waiting"]
        /\ wait' = [wait EXCEPT ![current] = w]
    BY <1>2 DEF Block
  <2> QED BY <2>1, ThreadTypes, HostCleared
<1> QED BY <1>1, <1>2

LEMMA SchedulerClears ==
    ASSUME RunInv, HostWaitsEnd, SchedulerNext
    PROVE  HostWaitsEnd'
<1> USE DEF threadVars
<1>1. CASE FinishInterrupt \/ FinishReturn \/ PickInterrupt \/ PickDeadlock \/ PickIdle
           \/ BoundaryInterrupt \/ BoundaryReturn \/ ReturnToHandler \/ ReturnToSchedule
           \/ ReturnToThread \/ CancelDone \/ \E c \in 0..Quantum : Starvation(c)
  <2>1. UNCHANGED <<status, wait>>
    BY <1>1 DEF FinishInterrupt, FinishReturn, PickInterrupt, PickDeadlock, PickIdle,
                BoundaryInterrupt, BoundaryReturn, ReturnToHandler, ReturnToSchedule,
                ReturnToThread, CancelDone, Starvation
  <2> QED BY <2>1, SameHostWaits
<1>2. CASE FinishPreempt \/ BoundaryPreempt \/ ReturnAndPreempt
  <2>1. ready # <<>> /\ PreemptBy(Best)
    BY <1>2 DEF FinishPreempt, BoundaryPreempt, ReturnAndPreempt, FinishSwitches,
                BoundarySwitches, ReturnPreempts
  <2> QED BY <2>1, PreemptClears
<1>3. CASE ProcessTimers
  BY <1>3, MakeReadyClears DEF ProcessTimers
<1>4. CASE PickThread
  BY <1>4, SwitchClears DEF PickThread
<1>5. CASE CancelWaiter
  BY <1>5, MakeReadyClears, SameHostWaits DEF CancelWaiter
<1> QED BY <1>1, <1>2, <1>3, <1>4, <1>5 DEF SchedulerNext

LEMMA ThreadsClear ==
    ASSUME RunInv, HostWaitsEnd, ThreadsNext, "terminate" \notin Uses
    PROVE  HostWaitsEnd'
<1> USE DEF RunInv, threadVars
<1>1. CASE OtherCall \/ (\E t \in Uids, p \in Priorities : ChangePriority(t, p))
           \/ (\E on \in BOOLEAN : SetInterrupts(on) \/ SetDispatch(on))
           \/ (\E cb \in BOOLEAN : SleepTakesWakeup(cb)) \/ \E t \in Uids : WakeupStored(t)
  <2>1. UNCHANGED <<status, wait>>
    BY <1>1 DEF OtherCall, ChangePriority, SetInterrupts, SetDispatch, SleepTakesWakeup, WakeupStored
  <2> QED BY <2>1, SameHostWaits
<1>2. ASSUME NEW p \in Priorities, CreateThread(p)
      PROVE  HostWaitsEnd'
  <2>1. status' = [status EXCEPT ![made + 1] = "Dormant"] /\ UNCHANGED wait
    BY <1>2 DEF CreateThread
  <2>2. made + 1 \in Uids => status[made + 1] = "Gone"
    BY DEF ThreadsInv, NoneBeyondMade, TypeInv, TypeOK, ThreadsTypeOK
  <2> QED BY <2>1, <2>2, ThreadTypes, HostCleared
<1>3. ASSUME NEW t \in Uids, StartThread(t) \/ WakeupSleeper(t) \/ ReleaseWaitThread(t)
      PROVE  HostWaitsEnd'
  BY <1>3, MakeReadyClears DEF StartThread, WakeupSleeper, ReleaseWaitThread
<1>4. ASSUME NEW t \in Uids, DeleteThread(t)
      PROVE  HostWaitsEnd'
  <2>1. status' = [status EXCEPT ![t] = "Gone"] /\ UNCHANGED wait /\ status[t] = "Dormant"
    BY <1>4 DEF DeleteThread
  <2> QED BY <2>1, ThreadTypes, HostCleared
<1>5. ASSUME NEW delete \in BOOLEAN, ExitThread(delete)
      PROVE  HostWaitsEnd'
  <2>1. /\ status' = [t \in Uids |-> IF t = current THEN IF delete THEN "Gone" ELSE "Dormant"
                                     ELSE IF t \in Joined THEN "Ready" ELSE status[t]]
        /\ wait' = [t \in Uids |-> IF t \in Joined THEN NoWait ELSE wait[t]]
    BY <1>5 DEF ExitThread
  <2>2. \A t \in Uids : t = current => status[t] = "Running"
    BY DEF ThreadsInv, OneRunning
  <2> QED BY <2>1, <2>2, HostCleared
<1>6. ASSUME NEW cb \in BOOLEAN, SleepBlocks(cb)
      PROVE  HostWaitsEnd'
  BY <1>6, BlockClears DEF SleepBlocks
<1>7. ASSUME NEW t, NEW d, NEW cb,
             DelayThread(d, cb) \/ WaitVBlank(cb) \/ WaitThreadEnd(t, d, cb) \/ WaitHost(d)
      PROVE  HostWaitsEnd'
  BY <1>7, BlockClears DEF DelayThread, WaitVBlank, WaitThreadEnd, WaitHost, TimedWait
<1>8. ~\E t \in Uids, delete \in BOOLEAN : TerminateThread(t, delete)
  BY DEF TerminateThread
<1> QED BY <1>1, <1>2, <1>3, <1>4, <1>5, <1>6, <1>7, <1>8 DEF ThreadsNext

LEMMA ObjectsClear ==
    ASSUME TypeInv, HostWaitsEnd, ObjectKinds
    PROVE  HostWaitsEnd'
<1>1. CASE ObjectRests
  BY <1>1, SameHostWaits DEF ObjectRests
<1>2. CASE ObjectWakes
  BY <1>2, MakeReadyClears DEF ObjectWakes
<1>3. CASE ObjectBlocks
  BY <1>3, BlockClears DEF ObjectBlocks
<1> QED BY <1>1, <1>2, <1>3 DEF ObjectKinds

\* In a program that terminates no other thread, a kernel that why_no_state lets
\* be saved has no thread whose wait record read_state would refuse.
THEOREM KernelSavedStateLoads == "terminate" \notin Uses => (Spec => []SavedStateLoads)
<1> SUFFICES ASSUME "terminate" \notin Uses PROVE Spec => []SavedStateLoads
  OBVIOUS
<1>1. Init => HostWaitsEnd
  BY DEF HostWaitsEnd, Init, SchedulerInit, NoWait, WaitFor
<1>2. RunInv /\ HostWaitsEnd /\ [Next]_vars => HostWaitsEnd'
  <2> SUFFICES ASSUME RunInv, HostWaitsEnd, [Next]_vars PROVE HostWaitsEnd'
    OBVIOUS
  <2>1. TypeInv
    BY DEF RunInv
  <2>2. UNCHANGED vars \/ Stopped => UNCHANGED <<status, wait>>
    BY DEF vars, Stopped, schedulerVars, threadVars
  <2>3. KernelEventsNext => UNCHANGED <<status, wait>>
    BY DEF KernelEventsNext, RegisterVBlankHandler, EnableVBlankHandler, ReleaseVBlankHandler,
           CreateCallback, DeleteCallback, NotifyCallback, CreateVTimer, StartVTimer,
           SetVTimerHandler, EventCall, threadVars
  <2> QED BY <2>1, <2>2, <2>3, SameHostWaits, SchedulerClears, ThreadsClear, ObjectsClear,
             ObjectKindsOnly DEF Next, ObjectStep
<1>3. HostWaitsEnd => SavedStateLoads
  BY DEF HostWaitsEnd, SavedStateLoads, WhyNoState, IsWaiting
<1> QED BY <1>1, <1>2, <1>3, AlwaysRuns, PTL DEF Spec

-----------------------------------------------------------------------------
(* The deadlock report.  idle_vblanks_ counts the vblanks since a thread   *)
(* last ran, so a wait that ends by itself ends before the count passes    *)
(* kIdleVBlankLimit: the time left of it, and the vblanks counted, do not  *)
(* add up to more than the longest wait there is.                          *)

Long == IdleLimit * VBlankPeriod
ShortWaits == \A d \in Delays \cup Timeouts : d <= Long

\* What is left of a wait, and the idle time before it.
Left(t) == deadline[t] - vblankIn + idleVblanks * VBlankPeriod
IdleClock ==
    /\ current # Nobody => idleVblanks = 0
    /\ vblankIn <= VBlankPeriod /\ vblankIn > -VBlankPeriod
    /\ phase # "timers" => vblankIn > 0
WaitsNear == \A t \in Uids : IsWaiting(t) /\ deadline[t] # Never =>
    IF deadline[t] = 0 THEN phase = "timers" ELSE Left(t) < Long
NearInv == TypeInv /\ IdleClock /\ WaitsNear

LEMMA ClockTypes ==
    ASSUME TypeInv
    PROVE  /\ vblankIn \in Int /\ idleVblanks \in Nat /\ VBlankPeriod \in Nat \ {0} /\ Long \in Nat
           /\ idleVblanks * VBlankPeriod \in Nat /\ 0 * VBlankPeriod = 0
           /\ \A t \in Uids : deadline[t] # Never => deadline[t] \in Nat
           /\ current \in Uids \cup {Nobody}
           /\ status \in [Uids -> Statuses] /\ deadline \in [Uids -> Nat \cup {Never}]
<1>1. IdleLimit \in Nat /\ VBlankPeriod \in Nat \ {0}
  BY SchedulerAssumption
<1>2. Long \in Nat
  BY <1>1 DEF Long
<1> QED BY <1>1, <1>2 DEF TypeInv, TypeOK, ThreadsTypeOK

\* Waits end, and no time passes.
WaitsShrink == \A t \in Uids :
    status'[t] = "Waiting" => status[t] = "Waiting" /\ deadline'[t] = deadline[t]

LEMMA ShrinkNear ==
    ASSUME NearInv, phase # "timers", WaitsShrink, UNCHANGED vblankIn,
           idleVblanks' = idleVblanks \/ idleVblanks' = 0, current' # Nobody => idleVblanks' = 0
    PROVE  IdleClock' /\ WaitsNear'
<1> USE DEF NearInv
<1>1. IdleClock'
  BY DEF IdleClock
<1>2. ASSUME NEW t \in Uids, IsWaiting(t)', deadline'[t] # Never
      PROVE  deadline'[t] # 0 /\ Left(t)' < Long
  <2>1. IsWaiting(t) /\ deadline'[t] = deadline[t] /\ deadline[t] # 0 /\ Left(t) < Long
    BY <1>2 DEF WaitsShrink, WaitsNear, IsWaiting
  <2>2. idleVblanks' * VBlankPeriod <= idleVblanks * VBlankPeriod /\ idleVblanks' * VBlankPeriod \in Nat
    BY ClockTypes
  <2>3. deadline[t] \in Nat
    BY <1>2, <2>1, ClockTypes
  <2> DEFINE a == idleVblanks * VBlankPeriod
             b == idleVblanks' * VBlankPeriod
  <2>4. a \in Nat /\ b \in Nat /\ b <= a /\ vblankIn \in Int /\ Long \in Nat
    BY <2>2, ClockTypes
  <2>5. deadline[t] - vblankIn + a < Long
    BY <2>1 DEF Left
  <2> HIDE DEF a, b
  <2>6. deadline[t] - vblankIn + b < Long
    BY <2>3, <2>4, <2>5
  <2> QED BY <2>1, <2>6 DEF Left, b
<1> QED BY <1>1, <1>2 DEF WaitsNear

\* A thread begins to wait, for no longer than the limit or with no end.
LEMMA BlockNear ==
    ASSUME NearInv, ShortWaits, phase = "guest", NEW w, NEW d \in Delays \cup Timeouts \cup {Never},
           Block(w, d), UNCHANGED clockVars
    PROVE  IdleClock' /\ WaitsNear'
<1> USE DEF NearInv, clockVars
<1>1. CASE handler # NoCall \/ current = Nobody
  <2>1. WaitsShrink /\ UNCHANGED current
    BY <1>1 DEF Block, WaitsShrink
  <2> QED BY <2>1, ShrinkNear DEF IdleClock
<1>2. CASE ~(handler # NoCall \/ current = Nobody)
  <2>1. /\ status' = [status EXCEPT ![current] = "Waiting"] /\ deadline' = [deadline EXCEPT ![current] = d]
        /\ current' = Nobody /\ phase' = "timers" /\ current \in Uids
    BY <1>2, ClockTypes DEF Block
  <2>2. IdleClock'
    BY <2>1 DEF IdleClock
  <2> SUFFICES ASSUME NEW t \in Uids, IsWaiting(t)', deadline'[t] # Never, deadline'[t] # 0
               PROVE  Left(t)' < Long
    BY <2>1, <2>2 DEF WaitsNear
  <2>3. CASE t = current
    <3>1. deadline'[t] = d /\ d # Never
      BY <2>1, <2>3, ClockTypes
    <3>2. d \in Nat /\ d <= Long
      BY <3>1, SchedulerAssumption DEF ShortWaits
    <3>3. idleVblanks * VBlankPeriod = 0 /\ vblankIn > 0
      BY <1>2, ClockTypes DEF IdleClock
    <3>4. d - vblankIn + 0 < Long
      BY <3>2, <3>3, ClockTypes
    <3> QED BY <3>1, <3>3, <3>4 DEF Left
  <2>4. CASE t # current
    <3>1. status'[t] = status[t] /\ deadline'[t] = deadline[t]
      BY <2>1, <2>4, ClockTypes
    <3>2. Left(t) < Long
      BY <3>1 DEF WaitsNear, IsWaiting
    <3> QED BY <3>1, <3>2 DEF Left
  <2> QED BY <2>3, <2>4
<1> QED BY <1>1, <1>2

\* The clock moves on, by less than a vblank period or to the next event.
LEMMA AdvanceNear ==
    ASSUME NearInv, phase # "timers", NEW c \in Nat, c <= Quantum \/ c <= vblankIn, AdvanceClock(c),
           UNCHANGED <<status, current, idleVblanks>>
    PROVE  IdleClock' /\ WaitsNear'
<1> USE DEF NearInv
<1>1. vblankIn' = vblankIn - c /\ phase' = "timers"
  BY DEF AdvanceClock
<1>2. IdleClock'
  <2>1. Quantum \in Nat /\ Quantum < VBlankPeriod
    BY SchedulerAssumption
  <2> QED BY <1>1, <2>1, ClockTypes DEF IdleClock
<1> SUFFICES ASSUME NEW t \in Uids, IsWaiting(t)', deadline'[t] # Never, deadline'[t] # 0
             PROVE  Left(t)' < Long
  BY <1>1, <1>2 DEF WaitsNear
<1>3. deadline[t] # Never /\ ~(deadline[t] <= c) /\ deadline'[t] = deadline[t] - c
  BY DEF AdvanceClock
<1>4. deadline[t] # 0 /\ Left(t) < Long
  BY <1>3, ClockTypes DEF WaitsNear, IsWaiting
<1>5. Left(t)' = Left(t)
  <2> DEFINE a == idleVblanks * VBlankPeriod
  <2>1. a \in Nat /\ vblankIn \in Int /\ deadline[t] \in Nat
    BY <1>3, ClockTypes
  <2>2. Left(t) = deadline[t] - vblankIn + a /\ Left(t)' = deadline'[t] - vblankIn' + a
    BY DEF Left
  <2> HIDE DEF a
  <2> QED BY <1>1, <1>3, <2>1, <2>2
<1> QED BY <1>4, <1>5

\* process_timers wakes what is due, and counts a vblank that comes while no
\* thread runs.
LEMMA TimersNear ==
    ASSUME NearInv, ProcessTimers
    PROVE  IdleClock' /\ WaitsNear'
<1> USE DEF NearInv
<1>1. /\ vblankIn' = (IF vblankIn <= 0 THEN vblankIn + VBlankPeriod ELSE vblankIn)
      /\ idleVblanks' = (IF vblankIn <= 0 /\ current = Nobody THEN idleVblanks + 1 ELSE idleVblanks)
      /\ UNCHANGED current /\ phase' \in {"pick", "boundary"}
  BY DEF ProcessTimers
<1>2. IdleClock'
  BY <1>1, ClockTypes DEF IdleClock
<1>3. PICK done \in SUBSET HostWaiting : MakeReady(InUidOrder(VBlankWoken) \o InUidOrder(Expired \cup done))
  BY DEF ProcessTimers
<1> DEFINE q == InUidOrder(VBlankWoken) \o InUidOrder(Expired \cup done)
<1>4. \A t \in Expired : t \in Range(q)
  <2> DEFINE a == InUidOrder(VBlankWoken)
             b == InUidOrder(Expired \cup done)
  <2>1. VBlankWoken \in SUBSET Uids /\ (Expired \cup done) \in SUBSET Uids
    BY DEF VBlankWoken, Expired, HostWaiting
  <2>2. IsFiniteSet(VBlankWoken) /\ VBlankWoken \in SUBSET Int
    BY <2>1, UidsFinite, FS_Subset
  <2>3. IsFiniteSet(Expired \cup done) /\ (Expired \cup done) \in SUBSET Int
    BY <2>1, UidsFinite, FS_Subset
  <2>4. a \in Seq(VBlankWoken) /\ b \in Seq(Expired \cup done)
    BY <2>2, <2>3, InUidOrderType
  <2>5. \A t \in Expired : \E k \in DOMAIN b : b[k] = t
    BY <2>3, InUidOrderComplete
  <2> HIDE DEF a, b
  <2>6. \A k \in DOMAIN b : Len(a) + k \in DOMAIN (a \o b) /\ (a \o b)[Len(a) + k] = b[k]
    BY <2>4, LenProperties
  <2> QED BY <2>5, <2>6 DEF Range, a, b
<1> SUFFICES ASSUME NEW t \in Uids, IsWaiting(t)', deadline'[t] # Never
             PROVE  deadline'[t] # 0 /\ Left(t)' < Long
  BY <1>2 DEF WaitsNear
<1>5. t \notin Range(q) /\ status[t] = "Waiting" /\ deadline'[t] = deadline[t]
  BY <1>3 DEF MakeReady, IsWaiting
<1>6. IsWaiting(t) /\ deadline[t] # Never /\ deadline[t] # 0 /\ Left(t) < Long
  BY <1>4, <1>5 DEF Expired, IsWaiting, WaitsNear
<1>7. Left(t)' <= Left(t)
  <2> DEFINE a == idleVblanks * VBlankPeriod
             b == idleVblanks' * VBlankPeriod
  <2>1. /\ a \in Nat /\ vblankIn \in Int /\ deadline[t] \in Nat /\ VBlankPeriod \in Nat
        /\ idleVblanks \in Nat
    BY <1>6, ClockTypes
  <2>2. (idleVblanks + 1) * VBlankPeriod = idleVblanks * VBlankPeriod + VBlankPeriod
    BY <2>1
  <2>3. b = a \/ (b = a + VBlankPeriod /\ vblankIn <= 0)
    BY <1>1, <2>2
  <2>4. Left(t) = deadline[t] - vblankIn + a /\ Left(t)' = deadline'[t] - vblankIn' + b
    BY DEF Left
  <2>5. vblankIn' = vblankIn + VBlankPeriod \/ (vblankIn' = vblankIn /\ ~(vblankIn <= 0))
    BY <1>1
  <2> HIDE DEF a, b
  <2> QED BY <1>5, <2>1, <2>3, <2>4, <2>5
<1>8. Left(t) \in Int /\ Left(t)' \in Int /\ Long \in Int
  <2>1. idleVblanks' \in Nat /\ vblankIn' \in Int /\ deadline[t] \in Nat /\ deadline'[t] \in Nat
    BY <1>1, <1>5, <1>6, ClockTypes
  <2> QED BY <2>1, ClockTypes DEF Left
<1> QED BY <1>5, <1>6, <1>7, <1>8
-----------------------------------------------------------------------------
(* The steps *)

LEMMA PreemptShrinks ==
    ASSUME TypeInv, NEW t, PreemptBy(t)
    PROVE  WaitsShrink /\ idleVblanks' = 0
<1>1. /\ status' = [status EXCEPT ![t] = "Running", ![current] = "Ready"]
      /\ deadline' = [deadline EXCEPT ![current] = Never] /\ idleVblanks' = 0
  BY DEF PreemptBy
<1> QED BY <1>1, ClockTypes DEF WaitsShrink

LEMMA SchedulerNear ==
    ASSUME NearInv, SchedulerNext
    PROVE  IdleClock' /\ WaitsNear'
<1> USE DEF NearInv, threadVars, clockVars
<1>1. CASE FinishInterrupt \/ FinishReturn \/ PickInterrupt \/ PickDeadlock
           \/ BoundaryInterrupt \/ BoundaryReturn \/ ReturnToHandler \/ ReturnToThread \/ CancelDone
  <2>1. phase # "timers" /\ UNCHANGED <<status, deadline, current, vblankIn, idleVblanks>>
    BY <1>1 DEF FinishInterrupt, FinishReturn, FinishIn, PickInterrupt, PickDeadlock, PickIn,
                BoundaryInterrupt, BoundaryReturn, BoundaryIn, ReturnToHandler, ReturnToThread,
                HandlerReturns, InGuest, CancelDone
  <2> QED BY <2>1, ShrinkNear DEF WaitsShrink, IdleClock
<1>2. CASE ReturnToSchedule
  <2>1. /\ phase # "timers" /\ UNCHANGED <<status, deadline, vblankIn, idleVblanks>>
        /\ current' = Nobody
    BY <1>2 DEF ReturnToSchedule, HandlerReturns, InGuest
  <2> QED BY <2>1, ShrinkNear DEF WaitsShrink
<1>3. CASE FinishPreempt \/ BoundaryPreempt \/ ReturnAndPreempt
  <2>1. phase # "timers" /\ PreemptBy(Best) /\ UNCHANGED vblankIn
    BY <1>3 DEF FinishPreempt, FinishIn, BoundaryPreempt, BoundaryIn, ReturnAndPreempt,
                HandlerReturns, InGuest
  <2> QED BY <2>1, PreemptShrinks, ShrinkNear
<1>4. CASE PickThread
  <2>1. /\ phase # "timers" /\ UNCHANGED <<deadline, vblankIn>>
        /\ status' = [status EXCEPT ![Best] = "Running"] /\ idleVblanks' = 0
    BY <1>4 DEF PickThread, PickIn, SwitchTo
  <2> QED BY <2>1, ClockTypes, ShrinkNear DEF WaitsShrink
<1>5. CASE ProcessTimers
  BY <1>5, TimersNear
<1>6. CASE PickIdle
  <2>1. vblankIn > 0
    BY <1>6 DEF PickIdle, PickIn, IdleClock
  <2>2. IdleStep \in Nat /\ IdleStep <= vblankIn
    BY <2>1, NextEventType, ClockTypes DEF TypeInv
  <2> QED BY <1>6, <2>2, AdvanceNear DEF PickIdle, PickIn
<1>7. ASSUME NEW c \in 0..Quantum, Starvation(c)
      PROVE  IdleClock' /\ WaitsNear'
  <2>1. c \in Nat /\ c <= Quantum
    BY <1>7, SchedulerAssumption
  <2> QED BY <1>7, <2>1, AdvanceNear DEF Starvation, InThread
<1>8. CASE CancelWaiter
  <2>1. WaitsShrink /\ phase # "timers" /\ UNCHANGED <<current, vblankIn, idleVblanks>>
    BY <1>8 DEF CancelWaiter, MakeReady, WaitsShrink
  <2> QED BY <2>1, ShrinkNear DEF IdleClock
<1> QED BY <1>1, <1>2, <1>3, <1>4, <1>5, <1>6, <1>7, <1>8 DEF SchedulerNext

LEMMA TimedWaitNear ==
    ASSUME NearInv, ShortWaits, NEW w, NEW d \in Delays \cup Timeouts \cup {Never}, NEW cb,
           TimedWait(w, d, cb)
    PROVE  IdleClock' /\ WaitsNear'
  BY BlockNear DEF TimedWait, MayWait, InGuest

LEMMA ThreadsNear ==
    ASSUME NearInv, ShortWaits, ThreadsNext
    PROVE  IdleClock' /\ WaitsNear'
<1> USE DEF NearInv, threadVars, clockVars, InThread, InGuest, MayWait, MayMask
<1>1. CASE \/ OtherCall
           \/ \E t \in Uids, p \in Priorities : ChangePriority(t, p)
           \/ \E cb \in BOOLEAN : SleepTakesWakeup(cb)
           \/ \E t \in Uids : WakeupStored(t)
           \/ \E on \in BOOLEAN : SetInterrupts(on) \/ SetDispatch(on)
  <2>1. phase = "guest" /\ UNCHANGED <<status, deadline, current, vblankIn, idleVblanks>>
    BY <1>1 DEF OtherCall, ChangePriority, SleepTakesWakeup, WakeupStored, SetInterrupts, SetDispatch
  <2> QED BY <2>1, ShrinkNear DEF WaitsShrink, IdleClock
<1>2. CASE \/ \E p \in Priorities : CreateThread(p)
           \/ \E t \in Uids : DeleteThread(t)
           \/ \E t \in Uids, delete \in BOOLEAN : TerminateThread(t, delete)
  <2>1. /\ phase = "guest" /\ UNCHANGED <<deadline, current, vblankIn, idleVblanks>>
        /\ \E t, s : s # "Waiting" /\ status' = [status EXCEPT ![t] = s]
    BY <1>2 DEF CreateThread, DeleteThread, TerminateThread
  <2>2. WaitsShrink
    BY <2>1, ClockTypes DEF WaitsShrink
  <2> QED BY <2>1, <2>2, ShrinkNear DEF IdleClock
<1>3. CASE \E t \in Uids : StartThread(t) \/ WakeupSleeper(t) \/ ReleaseWaitThread(t)
  <2>1. /\ phase = "guest" /\ UNCHANGED <<current, vblankIn, idleVblanks>>
        /\ \E t \in Uids : MakeReady(<<t>>)
    BY <1>3 DEF StartThread, WakeupSleeper, ReleaseWaitThread
  <2>2. WaitsShrink
    BY <2>1 DEF MakeReady, WaitsShrink
  <2> QED BY <2>1, <2>2, ShrinkNear DEF IdleClock
<1>4. ASSUME NEW delete \in BOOLEAN, ExitThread(delete)
      PROVE  IdleClock' /\ WaitsNear'
  <2>1. /\ phase = "guest" /\ UNCHANGED <<vblankIn, idleVblanks>> /\ current' = Nobody
        /\ WaitsShrink
    BY <1>4 DEF ExitThread, WaitsShrink
  <2> QED BY <2>1, ShrinkNear
<1>5. ASSUME NEW cb \in BOOLEAN, SleepBlocks(cb)
      PROVE  IdleClock' /\ WaitsNear'
  BY <1>5, BlockNear DEF SleepBlocks
<1>6. ASSUME NEW d \in Delays, NEW cb, DelayThread(d, cb)
      PROVE  IdleClock' /\ WaitsNear'
  BY <1>6, TimedWaitNear DEF DelayThread
<1>7. ASSUME NEW cb, WaitVBlank(cb)
      PROVE  IdleClock' /\ WaitsNear'
  BY <1>7, TimedWaitNear DEF WaitVBlank
<1>8. ASSUME NEW t, NEW d \in Limits, NEW cb, WaitThreadEnd(t, d, cb) \/ WaitHost(d)
      PROVE  IdleClock' /\ WaitsNear'
  BY <1>8, TimedWaitNear DEF WaitThreadEnd, WaitHost, Limits
<1> QED BY <1>1, <1>2, <1>3, <1>4, <1>5, <1>6, <1>7, <1>8 DEF ThreadsNext

LEMMA KernelEventsNear ==
    ASSUME NearInv, KernelEventsNext
    PROVE  IdleClock' /\ WaitsNear'
<1>1. EventCall
  BY DEF KernelEventsNext, RegisterVBlankHandler, EnableVBlankHandler, ReleaseVBlankHandler,
         CreateCallback, DeleteCallback, NotifyCallback, CreateVTimer, StartVTimer, SetVTimerHandler
<1> QED BY <1>1, ShrinkNear
        DEF EventCall, InThread, threadVars, clockVars, WaitsShrink, NearInv, IdleClock

LEMMA ObjectsNear ==
    ASSUME NearInv, ShortWaits, ObjectKinds
    PROVE  IdleClock' /\ WaitsNear'
<1> USE DEF NearInv, ObjectKinds, ObjectKeeps, clockVars
<1>1. CASE ObjectRests \/ ObjectWakes
  <2>1. WaitsShrink /\ phase # "timers" /\ UNCHANGED current
    BY <1>1 DEF ObjectRests, ObjectWakes, MakeReady, WaitsShrink
  <2> QED BY <2>1, ShrinkNear DEF IdleClock
<1>2. CASE ObjectBlocks
  <2>1. phase = "guest"
    BY <1>2 DEF ObjectBlocks, MayWait, InGuest
  <2>2. PICK w \in Waits, d \in Timeouts \cup {Never} : Block(w, d)
    BY <1>2 DEF ObjectBlocks
  <2> QED BY <2>1, <2>2, BlockNear
<1> QED BY <1>1, <1>2

\* Only PickDeadlock stops the kernel.
LEMMA OnlyDeadlockStops ==
    ASSUME SchedulerNext \/ ThreadsNext \/ KernelEventsNext \/ ObjectKinds, phase' = "stopped"
    PROVE  PickDeadlock
<1>1. SchedulerNext => PickDeadlock
  <2>1. CASE \/ FinishInterrupt \/ FinishPreempt \/ FinishReturn \/ ProcessTimers \/ PickInterrupt
             \/ PickThread \/ PickIdle \/ \E c \in 0..Quantum : Starvation(c)
    BY <2>1 DEF FinishInterrupt, FinishPreempt, FinishReturn, ProcessTimers, PickInterrupt, PickThread,
                PickIdle, Starvation, AdvanceClock, BeginInterrupt
  <2>2. CASE \/ BoundaryInterrupt \/ BoundaryPreempt \/ BoundaryReturn \/ ReturnToHandler
             \/ ReturnToSchedule \/ ReturnAndPreempt \/ ReturnToThread \/ CancelWaiter \/ CancelDone
    BY <2>2 DEF BoundaryInterrupt, BoundaryPreempt, BoundaryReturn, ReturnToHandler, ReturnToSchedule,
                ReturnAndPreempt, ReturnToThread, CancelWaiter, CancelDone, BeginInterrupt,
                HandlerReturns, InGuest
  <2> QED BY <2>1, <2>2 DEF SchedulerNext
<1>2. ~ThreadsNext
  <2>1. CASE \/ OtherCall
             \/ \E p \in Priorities : CreateThread(p)
             \/ \E t \in Uids : StartThread(t) \/ DeleteThread(t)
             \/ \E delete \in BOOLEAN : ExitThread(delete)
             \/ \E t \in Uids, delete \in BOOLEAN : TerminateThread(t, delete)
             \/ \E t \in Uids, p \in Priorities : ChangePriority(t, p)
             \/ \E cb \in BOOLEAN : SleepTakesWakeup(cb)
             \/ \E t \in Uids : WakeupSleeper(t) \/ WakeupStored(t) \/ ReleaseWaitThread(t)
             \/ \E on \in BOOLEAN : SetInterrupts(on) \/ SetDispatch(on)
    BY <2>1 DEF OtherCall, CreateThread, StartThread, DeleteThread, ExitThread, TerminateThread,
                ChangePriority, SleepTakesWakeup, WakeupSleeper, WakeupStored, ReleaseWaitThread,
                SetInterrupts, SetDispatch
  <2>2. CASE \E cb \in BOOLEAN : SleepBlocks(cb)
    BY <2>2 DEF SleepBlocks, MayWait, InGuest, Block
  <2>3. CASE \/ \E d \in Delays, cb \in BOOLEAN : DelayThread(d, cb)
             \/ \E cb \in BOOLEAN : WaitVBlank(cb)
             \/ \E t \in Uids, d \in Limits, cb \in BOOLEAN : WaitThreadEnd(t, d, cb)
             \/ \E d \in Limits : WaitHost(d)
    BY <2>3 DEF DelayThread, WaitVBlank, WaitThreadEnd, WaitHost, TimedWait, MayWait, InGuest, Block
  <2> QED BY <2>1, <2>2, <2>3 DEF ThreadsNext
<1>3. ~KernelEventsNext
  BY DEF KernelEventsNext, RegisterVBlankHandler, EnableVBlankHandler, ReleaseVBlankHandler, EventCall,
         CreateCallback, DeleteCallback, NotifyCallback, CreateVTimer, StartVTimer, SetVTimerHandler
<1>4. ~ObjectKinds
  BY DEF ObjectKinds, ObjectRests, ObjectWakes, ObjectBlocks, MayWait, InGuest, Block
<1> QED BY <1>1, <1>2, <1>3, <1>4

\* More vblanks than the limit are more time than a wait can have left.
LEMMA NoneNearDeadlock ==
    ASSUME NearInv, PickDeadlock
    PROVE  \A t \in Uids : IsWaiting(t) => deadline[t] = Never
<1> SUFFICES ASSUME NEW t \in Uids, IsWaiting(t), deadline[t] # Never PROVE FALSE
  OBVIOUS
<1> USE DEF NearInv
<1>1. phase = "pick" /\ idleVblanks > IdleLimit
  BY DEF PickDeadlock, PickIn
<1>2. deadline[t] \in Nat /\ deadline[t] # 0 /\ Left(t) < Long
  BY <1>1, ClockTypes DEF WaitsNear
<1>3. idleVblanks * VBlankPeriod >= Long + VBlankPeriod
  <2> DEFINE more == idleVblanks - (IdleLimit + 1)
  <2>1. more \in Nat /\ idleVblanks = more + (IdleLimit + 1) /\ VBlankPeriod \in Nat /\ IdleLimit \in Nat
    BY <1>1, ClockTypes, SchedulerAssumption
  <2> HIDE DEF more
  <2>2. idleVblanks * VBlankPeriod = more * VBlankPeriod + (IdleLimit * VBlankPeriod + VBlankPeriod)
    BY <2>1
  <2>3. more * VBlankPeriod \in Nat /\ IdleLimit * VBlankPeriod \in Nat
    BY <2>1
  <2> QED BY <2>1, <2>2, <2>3 DEF Long
<1>4. Left(t) >= deadline[t] + Long
  <2> DEFINE a == idleVblanks * VBlankPeriod
  <2>1. a \in Nat /\ a >= Long + VBlankPeriod /\ Left(t) = deadline[t] - vblankIn + a
    BY <1>3, ClockTypes DEF Left
  <2> HIDE DEF a
  <2>2. vblankIn <= VBlankPeriod
    BY DEF IdleClock
  <2> QED BY <1>2, <2>1, <2>2, ClockTypes
<1>5. Left(t) \in Int
  BY <1>2, ClockTypes DEF Left
<1> QED BY <1>2, <1>4, <1>5, ClockTypes

\* The kernel reports a deadlock only when no wait of a thread has a deadline,
\* in a program whose waits are none of them longer than IdleLimit vblank periods.
THEOREM KernelDeadlockIsReal == ShortWaits => (Spec => []DeadlockIsReal)
<1> SUFFICES ASSUME ShortWaits PROVE Spec => []DeadlockIsReal
  OBVIOUS
<1> DEFINE Inv == NearInv /\ DeadlockIsReal
<1>1. Init => Inv
  <2> SUFFICES ASSUME Init PROVE Inv
    OBVIOUS
  <2>1. TypeInv /\ phase = "guest" /\ vblankIn = VBlankPeriod /\ idleVblanks = 0
        /\ \A t \in Uids : deadline[t] = Never
    BY InitTyped DEF Init, SchedulerInit
  <2> QED BY <2>1, ClockTypes DEF NearInv, IdleClock, WaitsNear, DeadlockIsReal
<1>2. Inv /\ [Next]_vars => Inv'
  <2> SUFFICES ASSUME Inv, [Next]_vars PROVE Inv'
    OBVIOUS
  <2>1. TypeInv'
    BY StepTyped DEF NearInv
  <2>2. CASE UNCHANGED vars \/ Stopped
    BY <2>1, <2>2 DEF vars, Stopped, schedulerVars, threadVars, clockVars, NearInv, IdleClock,
                      WaitsNear, Left, IsWaiting, DeadlockIsReal
  <2>3. CASE SchedulerNext \/ ThreadsNext \/ KernelEventsNext \/ ObjectKinds
    <3>1. NearInv'
      BY <2>1, <2>3, SchedulerNear, ThreadsNear, KernelEventsNear, ObjectsNear DEF NearInv
    <3>2. PickDeadlock => DeadlockIsReal'
      BY NoneNearDeadlock DEF PickDeadlock, threadVars, DeadlockIsReal, IsWaiting
    <3> QED BY <2>3, <3>1, <3>2, OnlyDeadlockStops DEF DeadlockIsReal
  <2> QED BY <2>2, <2>3, ObjectKindsOnly DEF Next, ObjectStep
<1> QED BY <1>1, <1>2, PTL DEF Spec
=============================================================================
