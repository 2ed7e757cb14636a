----------------------------- MODULE ObjectProofs -----------------------------
(***************************************************************************)
(* What holds of semaphores, event flags and mutexes and of their lists of *)
(* waiters, for any number of them and of threads.                         *)
(*                                                                         *)
(* A step changes the lists and the waits on objects in one of five ways   *)
(* (ListKinds): it leaves both alone, ends waits and drops their entries,  *)
(* ends one and leaves the entry behind, drops the entry the loop of a     *)
(* call is at, or lets the running thread join a list.  That every waiting *)
(* thread is listed, and what each kind of object adds, follows from the   *)
(* five.                                                                   *)
(***************************************************************************)
EXTENDS ThreadProofs

-----------------------------------------------------------------------------
(* What a step does to the waits on objects and to the waiter lists          *)

OnObject(t) == IsWaiting(t) /\ wait[t].type \in ObjectWaits
\* The waits on objects that end are those of the threads in S, and none begins.
OnlyEnds(S) ==
    \A t \in Uids : /\ OnObject(t)' <=> OnObject(t) /\ t \notin S
                    /\ OnObject(t)' => wait'[t] = wait[t]

Dropped(q, i) == SubSeq(q, 1, i - 1) \o SubSeq(q, i + 1, Len(q))

KeepsLists == OnlyEnds({}) /\ UNCHANGED waiters
EndsWaits ==
    /\ phase # "release"
    /\ \E S \in SUBSET Uids :
          (\A t \in S : IsWaiting(t)) /\ OnlyEnds(S) /\ RemoveWaiters(S)
\* sceKernelReleaseWaitThread leaves the entry in the list.
LeavesEntry ==
    /\ "release wait" \in Uses
    /\ \E t \in Uids : OnlyEnds({t}) /\ UNCHANGED waiters
DropsEntry(O) ==
    /\ phase \in {"release", "cancel"} /\ target \in O
    /\ \E i \in DOMAIN waiters[target] :
          /\ OnlyEnds({waiters[target][i]})
          /\ waiters' = [waiters EXCEPT ![target] = Dropped(@, i)]
JoinsList(O) ==
    /\ MayWait
    /\ \E o \in O, w \in Waits, d \in Timeouts \cup {Never} :
          w.type \in ObjectWaits /\ w.object = o /\ JoinWaiters(o) /\ Block(w, d)
ListKinds(D, J) == KeepsLists \/ EndsWaits \/ LeavesEntry \/ DropsEntry(D) \/ JoinsList(J)

\* The loops over a waiter list know whose list it is.
LoopHasTarget == phase \in {"release", "cancel"} => target \in Objects
LoopInv == RunInv /\ LoopHasTarget /\ cursor # 0

LEMMA WaitingTypes ==
    ASSUME TypeInv
    PROVE  /\ status \in [Uids -> Statuses] /\ wait \in [Uids -> Waits] /\ current \in Uids \cup {Nobody}
           /\ waiters \in [Objects -> Seq(Uids \cup {Nobody})]
  BY DEF TypeInv, TypeOK, ThreadsTypeOK

LEMMA SameLists ==
    ASSUME UNCHANGED <<status, wait, waiters>>
    PROVE  KeepsLists
  BY DEF KeepsLists, OnlyEnds, OnObject, IsWaiting

LEMMA MakeReadyEnds ==
    ASSUME NEW q, MakeReady(q), NEW S, \A t \in Range(q) : OnObject(t) => t \in S,
           \A t \in S : t \in Range(q)
    PROVE  OnlyEnds(S)
  BY DEF OnlyEnds, OnObject, IsWaiting, MakeReady

LEMMA OneMadeReadyEnds ==
    ASSUME NEW t, MakeReady(<<t>>)
    PROVE  OnlyEnds({t})
<1>1. Range(<<t>>) = {t}
  BY DEF Range
<1> QED BY <1>1, MakeReadyEnds

\* A thread that was not waiting changes its state, and is not waiting after.
LEMMA OthersWait ==
    ASSUME \A t \in Uids : \/ status'[t] = status[t] /\ wait'[t] = wait[t]
                           \/ ~OnObject(t) /\ status'[t] # "Waiting"
    PROVE  OnlyEnds({})
  BY DEF OnlyEnds, OnObject, IsWaiting

LEMMA PreemptKeeps ==
    ASSUME RunInv, ready # <<>>, current # Nobody, PreemptBy(Best), UNCHANGED waiters
    PROVE  KeepsLists
<1>1. Best \in Uids /\ status[Best] = "Ready"
  BY BestIsReady DEF RunInv
<1>2. /\ status' = [status EXCEPT ![Best] = "Running", ![current] = "Ready"]
      /\ wait' = [wait EXCEPT ![current] = NoWait]
  BY DEF PreemptBy
<1>3. current \in Uids /\ status[current] = "Running"
  BY DEF RunInv, TypeInv, TypeOK, ThreadsTypeOK, ThreadsInv, OneRunning
<1>4. status \in [Uids -> Statuses] /\ wait \in [Uids -> Waits]
  BY WaitingTypes DEF RunInv
<1> HIDE DEF Best
<1>5. \A t \in Uids : \/ status'[t] = status[t] /\ wait'[t] = wait[t]
                      \/ ~OnObject(t) /\ status'[t] # "Waiting"
  BY <1>1, <1>2, <1>3, <1>4 DEF OnObject, IsWaiting
<1> QED BY <1>5, OthersWait DEF KeepsLists

LEMMA SwitchKeeps ==
    ASSUME RunInv, ready # <<>>, SwitchTo(Best), UNCHANGED <<wait, waiters>>
    PROVE  KeepsLists
<1>1. Best \in Uids /\ status[Best] = "Ready" /\ status \in [Uids -> Statuses]
  BY BestIsReady, WaitingTypes DEF RunInv
<1>2. status' = [status EXCEPT ![Best] = "Running"]
  BY DEF SwitchTo
<1> HIDE DEF Best
<1>3. \A t \in Uids : \/ status'[t] = status[t] /\ wait'[t] = wait[t]
                      \/ ~OnObject(t) /\ status'[t] # "Waiting"
  BY <1>1, <1>2 DEF OnObject, IsWaiting
<1> QED BY <1>3, OthersWait DEF KeepsLists

\* A wait that is not one on an object.
LEMMA BlockKeeps ==
    ASSUME RunInv, NEW w, w.type \notin ObjectWaits, NEW d, Block(w, d), UNCHANGED waiters
    PROVE  KeepsLists
<1>1. CASE handler # NoCall \/ current = Nobody
  BY <1>1, SameLists DEF Block
<1>2. CASE ~(handler # NoCall \/ current = Nobody)
  <2>1. /\ status' = [status EXCEPT ![current] = "Waiting"]
        /\ wait' = [wait EXCEPT ![current] = w]
    BY <1>2 DEF Block
  <2>2. current \in Uids /\ status[current] = "Running"
    BY <1>2 DEF RunInv, TypeInv, TypeOK, ThreadsTypeOK, ThreadsInv, OneRunning
  <2>3. status \in [Uids -> Statuses] /\ wait \in [Uids -> Waits]
    BY WaitingTypes DEF RunInv
  <2>4. OnlyEnds({})
    BY <2>1, <2>2, <2>3 DEF OnlyEnds, OnObject, IsWaiting
  <2> QED BY <2>4 DEF KeepsLists
<1> QED BY <1>1, <1>2

LEMMA TailIsDropped ==
    ASSUME NEW T, NEW q \in Seq(T), q # <<>>
    PROVE  1 \in DOMAIN q /\ Head(q) = q[1] /\ Tail(q) = Dropped(q, 1)
<1>1. Len(q) \in Nat \ {0} /\ DOMAIN q = 1..Len(q)
  BY LenProperties, EmptySeq
<1>2. Head(q) = q[1] /\ Tail(q) = SubSeq(q, 2, Len(q))
  BY <1>1, HeadTailProperties
<1>3. SubSeq(q, 1, 1 - 1) = <<>>
  BY SubSeqProperties
<1> QED BY <1>1, <1>2, <1>3 DEF Dropped

\* A list without one entry.
LEMMA DroppedProperties ==
    ASSUME NEW T, NEW q \in Seq(T), NEW i \in DOMAIN q
    PROVE  /\ Dropped(q, i) \in Seq(T) /\ Len(Dropped(q, i)) = Len(q) - 1
           /\ DOMAIN Dropped(q, i) = 1..Len(q) - 1
           /\ \A k \in 1..Len(q) - 1 : Dropped(q, i)[k] = IF k < i THEN q[k] ELSE q[k + 1]
<1> DEFINE a == SubSeq(q, 1, i - 1)
           b == SubSeq(q, i + 1, Len(q))
<1>1. Len(q) \in Nat /\ DOMAIN q = 1..Len(q) /\ i \in 1..Len(q) /\ \A j \in 1..Len(q) : q[j] \in T
  BY LenProperties, ElementOfSeq
<1>2. a \in Seq(T) /\ Len(a) = i - 1 /\ \A k \in 1..i - 1 : a[k] = q[k]
  <2>1. \A j \in 1..i - 1 : q[j] \in T
    BY <1>1
  <2>2. i - 1 \in Int /\ 1 \in Int
    BY <1>1
  <2>3. /\ a \in Seq(T) /\ Len(a) = IF 1 <= i - 1 THEN (i - 1) - 1 + 1 ELSE 0
        /\ \A k \in 1..(i - 1) - 1 + 1 : a[k] = q[1 + k - 1]
    BY <2>1, <2>2, SubSeqProperties
  <2>4. Len(a) = i - 1
    BY <1>1, <2>3
  <2>5. \A k \in 1..i - 1 : a[k] = q[k]
    BY <1>1, <2>3
  <2> QED BY <2>3, <2>4, <2>5
<1>3. b \in Seq(T) /\ Len(b) = Len(q) - i /\ \A k \in 1..Len(q) - i : b[k] = q[i + k]
  <2>1. \A j \in i + 1..Len(q) : q[j] \in T
    BY <1>1
  <2>2. i + 1 \in Int /\ Len(q) \in Int
    BY <1>1
  <2>3. /\ b \in Seq(T) /\ Len(b) = IF i + 1 <= Len(q) THEN Len(q) - (i + 1) + 1 ELSE 0
        /\ \A k \in 1..Len(q) - (i + 1) + 1 : b[k] = q[i + 1 + k - 1]
    BY <2>1, <2>2, SubSeqProperties
  <2>4. Len(b) = Len(q) - i
    BY <1>1, <2>3
  <2>5. \A k \in 1..Len(q) - i : b[k] = q[i + k]
    BY <1>1, <2>3
  <2> QED BY <2>3, <2>4, <2>5
<1> HIDE DEF a, b
<1>4. /\ a \o b \in Seq(T) /\ Len(a \o b) = Len(a) + Len(b)
      /\ \A k \in 1..Len(a) + Len(b) : (a \o b)[k] = IF k <= Len(a) THEN a[k] ELSE b[k - Len(a)]
  BY <1>2, <1>3, ConcatProperties
<1>5. Len(a) + Len(b) = Len(q) - 1 /\ Dropped(q, i) = a \o b
  BY <1>1, <1>2, <1>3 DEF Dropped, a, b
<1>6. ASSUME NEW k \in 1..Len(q) - 1
      PROVE  Dropped(q, i)[k] = IF k < i THEN q[k] ELSE q[k + 1]
  <2>1. (a \o b)[k] = IF k <= Len(a) THEN a[k] ELSE b[k - Len(a)]
    BY <1>4, <1>5
  <2>2. CASE k < i
    <3>1. k <= Len(a) /\ k \in 1..i - 1
      BY <1>1, <1>2, <2>2
    <3> QED BY <1>2, <1>5, <2>1, <2>2, <3>1
  <2>3. CASE ~(k < i)
    <3>1. ~(k <= Len(a)) /\ k - Len(a) \in 1..Len(q) - i /\ i + (k - Len(a)) = k + 1
      BY <1>1, <1>2, <2>3
    <3> QED BY <1>3, <1>5, <2>1, <2>3, <3>1
  <2> QED BY <2>2, <2>3
<1>7. DOMAIN Dropped(q, i) = 1..Len(q) - 1
  BY <1>4, <1>5, LenProperties
<1> QED BY <1>4, <1>5, <1>6, <1>7

\* What is still in a list without one entry, and where.
LEMMA DroppedKeeps ==
    ASSUME NEW T, NEW q \in Seq(T), NEW i \in DOMAIN q
    PROVE  /\ \A j \in DOMAIN q : j < i => j \in DOMAIN Dropped(q, i) /\ Dropped(q, i)[j] = q[j]
           /\ \A j \in DOMAIN q : j > i => j - 1 \in DOMAIN Dropped(q, i) /\ Dropped(q, i)[j - 1] = q[j]
           /\ \A k \in DOMAIN Dropped(q, i) : \E j \in DOMAIN q : j # i /\ Dropped(q, i)[k] = q[j]
           /\ (\A j, k \in DOMAIN q : q[j] = q[k] => j = k) =>
                 \A j, k \in DOMAIN Dropped(q, i) : Dropped(q, i)[j] = Dropped(q, i)[k] => j = k
<1> DEFINE r == Dropped(q, i)
           n == Len(q)
<1>1. n \in Nat /\ DOMAIN q = 1..n /\ i \in 1..n
  BY LenProperties
<1>2. DOMAIN r = 1..n - 1 /\ \A k \in 1..n - 1 : r[k] = IF k < i THEN q[k] ELSE q[k + 1]
  BY DroppedProperties
<1> HIDE DEF r, n
<1>3. \A j \in DOMAIN q : j < i => j \in DOMAIN r /\ r[j] = q[j]
  BY <1>1, <1>2
<1>4. \A j \in DOMAIN q : j > i => j - 1 \in DOMAIN r /\ r[j - 1] = q[j]
  <2> SUFFICES ASSUME NEW j \in 1..n, j > i PROVE j - 1 \in DOMAIN r /\ r[j - 1] = q[j]
    BY <1>1
  <2>1. j - 1 \in 1..n - 1 /\ ~(j - 1 < i) /\ (j - 1) + 1 = j
    BY <1>1
  <2> QED BY <1>2, <2>1
<1>5. ASSUME NEW k \in DOMAIN r
      PROVE  \E j \in DOMAIN q : j # i /\ r[k] = q[j]
  <2>1. k \in 1..n - 1
    BY <1>2
  <2>2. CASE k < i
    <3>1. k \in DOMAIN q /\ k # i
      BY <1>1, <2>1, <2>2
    <3> QED BY <1>2, <2>1, <2>2, <3>1
  <2>3. CASE ~(k < i)
    <3>1. k + 1 \in DOMAIN q /\ k + 1 # i
      BY <1>1, <2>1, <2>3
    <3> QED BY <1>2, <2>1, <2>3, <3>1
  <2> QED BY <2>2, <2>3
<1>6. ASSUME \A j, k \in DOMAIN q : q[j] = q[k] => j = k,
             NEW j \in DOMAIN r, NEW k \in DOMAIN r, r[j] = r[k]
      PROVE  j = k
  <2> DEFINE p(x) == IF x < i THEN x ELSE x + 1
  <2>1. j \in 1..n - 1 /\ k \in 1..n - 1
    BY <1>2
  <2>2. p(j) \in DOMAIN q /\ p(k) \in DOMAIN q
    BY <1>1, <2>1
  <2>3. r[j] = q[p(j)] /\ r[k] = q[p(k)]
    BY <1>2, <2>1
  <2>4. p(j) = p(k)
    BY <1>6, <2>2, <2>3
  <2> QED BY <1>1, <2>1, <2>4
<1> QED BY <1>3, <1>4, <1>5, <1>6 DEF r
-----------------------------------------------------------------------------

LEMMA HeadDropped ==
    ASSUME TypeInv, NEW o \in Objects, waiters[o] # <<>>
    PROVE  /\ 1 \in DOMAIN waiters[o] /\ Head(waiters[o]) = waiters[o][1]
           /\ [waiters EXCEPT ![o] = Tail(@)] = [waiters EXCEPT ![o] = Dropped(@, 1)]
<1>1. waiters[o] \in Seq(Uids \cup {Nobody})
  BY WaitingTypes
<1> QED BY <1>1, TailIsDropped

LEMMA SchedulerKinds ==
    ASSUME LoopInv, SchedulerNext
    PROVE  ListKinds(Objects, {}) /\ LoopHasTarget'
<1> USE DEF LoopInv, LoopHasTarget, RunInv, threadVars, loopVars
<1>1. CASE FinishInterrupt \/ PickInterrupt \/ BoundaryInterrupt \/ ReturnToHandler
  <2>1. UNCHANGED <<status, wait, waiters>> /\ phase' = "guest"
    BY <1>1 DEF FinishInterrupt, PickInterrupt, BoundaryInterrupt, ReturnToHandler, BeginInterrupt
  <2> QED BY <2>1, SameLists DEF ListKinds
<1>2. CASE FinishReturn \/ PickDeadlock \/ PickIdle \/ BoundaryReturn \/ ReturnToSchedule
           \/ ReturnToThread \/ CancelDone \/ \E c \in 0..Quantum : Starvation(c)
  <2>1. UNCHANGED <<status, wait, waiters>> /\ phase' \notin {"release", "cancel"}
    BY <1>2 DEF FinishReturn, PickDeadlock, PickIdle, BoundaryReturn, ReturnToSchedule,
                ReturnToThread, CancelDone, Starvation, AdvanceClock, HandlerReturns, InGuest
  <2> QED BY <2>1, SameLists DEF ListKinds
<1>3. CASE FinishPreempt \/ BoundaryPreempt \/ ReturnAndPreempt
  <2>1. ready # <<>> /\ PreemptBy(Best) /\ UNCHANGED waiters /\ current # Nobody
        /\ phase' \notin {"release", "cancel"}
    BY <1>3 DEF FinishPreempt, BoundaryPreempt, ReturnAndPreempt, FinishSwitches, Preemptible,
                BoundarySwitches, ReturnPreempts, BoundaryIn, TypeInv, BoundaryHasThread,
                HandlerReturns, InGuest
  <2> QED BY <2>1, PreemptKeeps DEF ListKinds
<1>4. CASE ProcessTimers
  <2>1. PICK done \in SUBSET HostWaiting :
            MakeReady(InUidOrder(VBlankWoken) \o InUidOrder(Expired \cup done))
    BY <1>4 DEF ProcessTimers
  <2>2. RemoveWaiters(Expired) /\ phase = "timers" /\ phase' \notin {"release", "cancel"}
    BY <1>4 DEF ProcessTimers
  <2> DEFINE q == InUidOrder(VBlankWoken) \o InUidOrder(Expired \cup done)
             S == VBlankWoken \cup (Expired \cup done)
  <2>3. /\ VBlankWoken \in SUBSET Uids /\ Expired \cup done \in SUBSET Uids
        /\ \A t \in S : OnObject(t) => t \in Expired
        /\ Expired \in SUBSET Uids /\ \A t \in Expired : IsWaiting(t)
    BY DEF VBlankWoken, Expired, HostWaiting, OnObject, ObjectWaits
  <2>4. \A t \in Range(q) : t \in S
    <3>1. q \in Seq(S)
      BY <2>3, UidListsAppended
    <3> HIDE DEF q, S
    <3> QED BY <3>1, LenProperties, ElementOfSeq DEF Range
  <2>5. \A t \in Expired : t \in Range(q)
    <3> DEFINE a == InUidOrder(VBlankWoken)
               b == InUidOrder(Expired \cup done)
    <3>1. /\ VBlankWoken \in SUBSET Int /\ IsFiniteSet(VBlankWoken)
          /\ Expired \cup done \in SUBSET Int /\ IsFiniteSet(Expired \cup done)
      BY <2>3, UidsFinite, FS_Subset
    <3>2. a \in Seq(Uids) /\ b \in Seq(Uids)
      <4>1. a \in Seq(VBlankWoken) /\ b \in Seq(Expired \cup done)
        BY <3>1, InUidOrderType
      <4> HIDE DEF a, b
      <4> QED BY <2>3, <4>1, SeqMonotonic
    <3>3. \A t \in Expired : \E k \in DOMAIN b : b[k] = t
      BY <3>1, InUidOrderComplete
    <3> HIDE DEF a, b
    <3>4. /\ Len(a) \in Nat /\ Len(b) \in Nat /\ DOMAIN b = 1..Len(b)
          /\ DOMAIN (a \o b) = 1..Len(a) + Len(b)
          /\ \A i \in 1..Len(a) + Len(b) : (a \o b)[i] = IF i <= Len(a) THEN a[i] ELSE b[i - Len(a)]
      BY <3>2, ConcatProperties, LenProperties
    <3>5. \A k \in DOMAIN b : /\ k + Len(a) \in DOMAIN (a \o b)
                              /\ (a \o b)[k + Len(a)] = b[k]
      <4> SUFFICES ASSUME NEW k \in 1..Len(b)
                   PROVE  k + Len(a) \in DOMAIN (a \o b) /\ (a \o b)[k + Len(a)] = b[k]
        BY <3>4
      <4>1. k + Len(a) \in 1..Len(a) + Len(b) /\ ~(k + Len(a) <= Len(a)) /\ (k + Len(a)) - Len(a) = k
        BY <3>4
      <4> QED BY <3>4, <4>1
    <3>6. q = a \o b
      BY DEF a, b
    <3> QED BY <3>3, <3>5, <3>6 DEF Range
  <2>6. MakeReady(q)
    BY <2>1
  <2> HIDE DEF q, S
  <2>7. OnlyEnds(Expired)
    BY <2>3, <2>4, <2>5, <2>6, MakeReadyEnds
  <2> QED BY <2>2, <2>3, <2>7 DEF ListKinds, EndsWaits
<1>5. CASE PickThread
  BY <1>5, SwitchKeeps DEF PickThread, ListKinds
<1>6. CASE CancelWaiter
  <2> DEFINE t == Head(waiters[target])
  <2>1. target \in Objects /\ waiters[target] # <<>> /\ phase = "cancel"
        /\ UNCHANGED <<phase, target>>
        /\ waiters' = [waiters EXCEPT ![target] = Tail(@)]
    BY <1>6 DEF CancelWaiter
  <2>2. IsWaiting(t) => OnlyEnds({t})
    BY <1>6, OneMadeReadyEnds DEF CancelWaiter
  <2>3. ~IsWaiting(t) => OnlyEnds({t})
    BY <1>6 DEF CancelWaiter, OnlyEnds, OnObject, IsWaiting
  <2>4. 1 \in DOMAIN waiters[target] /\ t = waiters[target][1]
        /\ waiters' = [waiters EXCEPT ![target] = Dropped(@, 1)]
    BY <2>1, HeadDropped
  <2> HIDE DEF t
  <2> QED BY <2>1, <2>2, <2>3, <2>4 DEF ListKinds, DropsEntry
<1> QED BY <1>1, <1>2, <1>3, <1>4, <1>5, <1>6 DEF SchedulerNext

LEMMA ThreadsKinds ==
    ASSUME LoopInv, ThreadsNext
    PROVE  ListKinds({}, {}) /\ LoopHasTarget'
<1> USE DEF LoopInv, LoopHasTarget, RunInv, threadVars, loopVars, InThread, InGuest, MayWait, MayMask
<1>0. /\ status \in [Uids -> Statuses] /\ wait \in [Uids -> Waits]
      /\ \A t \in Uids : t = current => status[t] = "Running"
  BY WaitingTypes DEF ThreadsInv, OneRunning
<1>1. CASE OtherCall \/ (\E t \in Uids, p \in Priorities : ChangePriority(t, p))
           \/ (\E on \in BOOLEAN : SetInterrupts(on) \/ SetDispatch(on))
           \/ (\E cb \in BOOLEAN : SleepTakesWakeup(cb)) \/ \E t \in Uids : WakeupStored(t)
  <2>1. UNCHANGED <<status, wait, waiters>> /\ phase' = "finish"
    BY <1>1 DEF OtherCall, ChangePriority, SetInterrupts, SetDispatch, SleepTakesWakeup, WakeupStored
  <2> QED BY <2>1, SameLists DEF ListKinds
<1>2. ASSUME NEW p \in Priorities, CreateThread(p)
      PROVE  ListKinds({}, {}) /\ LoopHasTarget'
  <2>1. status' = [status EXCEPT ![made + 1] = "Dormant"] /\ UNCHANGED <<wait, waiters>>
        /\ phase' = "finish"
    BY <1>2 DEF CreateThread
  <2>2. made + 1 \in Uids => status[made + 1] = "Gone"
    BY DEF ThreadsInv, NoneBeyondMade, TypeInv, TypeOK, ThreadsTypeOK
  <2>3. \A t \in Uids : \/ status'[t] = status[t] /\ wait'[t] = wait[t]
                        \/ ~OnObject(t) /\ status'[t] # "Waiting"
    BY <1>0, <2>1, <2>2 DEF OnObject, IsWaiting
  <2> QED BY <2>1, <2>3, OthersWait DEF ListKinds, KeepsLists
<1>3. ASSUME NEW t \in Uids, StartThread(t) \/ WakeupSleeper(t)
      PROVE  ListKinds({}, {}) /\ LoopHasTarget'
  <2>1. MakeReady(<<t>>) /\ phase' = "finish" /\ UNCHANGED waiters /\ ~OnObject(t)
    BY <1>3 DEF StartThread, WakeupSleeper, OnObject, IsWaiting, ObjectWaits
  <2>2. OnlyEnds({t})
    BY <2>1, OneMadeReadyEnds
  <2>3. OnlyEnds({})
    BY <2>1, <2>2 DEF OnlyEnds
  <2> QED BY <2>1, <2>3 DEF ListKinds, KeepsLists
<1>4. ASSUME NEW t \in Uids, ReleaseWaitThread(t)
      PROVE  ListKinds({}, {}) /\ LoopHasTarget'
  BY <1>4, OneMadeReadyEnds DEF ReleaseWaitThread, ListKinds, LeavesEntry
<1>5. ASSUME NEW t \in Uids, DeleteThread(t)
      PROVE  ListKinds({}, {}) /\ LoopHasTarget'
  <2>1. status' = [status EXCEPT ![t] = "Gone"] /\ UNCHANGED <<wait, waiters>> /\ status[t] = "Dormant"
        /\ phase' = "finish"
    BY <1>5 DEF DeleteThread
  <2>2. \A u \in Uids : \/ status'[u] = status[u] /\ wait'[u] = wait[u]
                        \/ ~OnObject(u) /\ status'[u] # "Waiting"
    BY <1>0, <2>1 DEF OnObject, IsWaiting
  <2> QED BY <2>1, <2>2, OthersWait DEF ListKinds, KeepsLists
<1>6. ASSUME NEW delete \in BOOLEAN, ExitThread(delete)
      PROVE  ListKinds({}, {}) /\ LoopHasTarget'
  <2>1. /\ status' = [t \in Uids |-> IF t = current THEN IF delete THEN "Gone" ELSE "Dormant"
                                     ELSE IF t \in Joined THEN "Ready" ELSE status[t]]
        /\ wait' = [t \in Uids |-> IF t \in Joined THEN NoWait ELSE wait[t]]
        /\ UNCHANGED waiters /\ phase' = "timers"
    BY <1>6 DEF ExitThread
  <2>2. \A t \in Joined : ~OnObject(t)
    BY DEF Joined, OnObject, ObjectWaits
  <2>3. \A t \in Uids : \/ status'[t] = status[t] /\ wait'[t] = wait[t]
                        \/ ~OnObject(t) /\ status'[t] # "Waiting"
    BY <1>0, <2>1, <2>2 DEF OnObject, IsWaiting
  <2> QED BY <2>1, <2>3, OthersWait DEF ListKinds, KeepsLists
<1>7. ASSUME NEW t \in Uids, NEW delete \in BOOLEAN, TerminateThread(t, delete)
      PROVE  ListKinds({}, {}) /\ LoopHasTarget'
  <2> DEFINE S == {u \in {t} : IsWaiting(u)}
  <2>1. /\ status' = [status EXCEPT ![t] = IF delete THEN "Gone" ELSE "Dormant"]
        /\ UNCHANGED wait /\ RemoveWaiters(S) /\ phase = "guest" /\ phase' = "finish"
    BY <1>7 DEF TerminateThread
  <2>2. S \in SUBSET Uids /\ \A u \in S : IsWaiting(u)
    OBVIOUS
  <2>3. OnlyEnds(S)
    BY <1>0, <2>1 DEF OnlyEnds, OnObject, IsWaiting
  <2> HIDE DEF S
  <2> QED BY <2>1, <2>2, <2>3 DEF ListKinds, EndsWaits
<1>8. ASSUME NEW cb \in BOOLEAN, SleepBlocks(cb)
      PROVE  ListKinds({}, {}) /\ LoopHasTarget'
  <2>1. WaitFor("Sleep", Nobody).type \notin ObjectWaits
    BY DEF WaitFor, ObjectWaits
  <2>2. phase' \notin {"release", "cancel"}
    BY <1>8 DEF SleepBlocks, Block
  <2> QED BY <1>8, <2>1, <2>2, BlockKeeps DEF SleepBlocks, ListKinds
<1>9. ASSUME NEW t, NEW d, NEW cb,
             DelayThread(d, cb) \/ WaitVBlank(cb) \/ WaitThreadEnd(t, d, cb) \/ WaitHost(d)
      PROVE  ListKinds({}, {}) /\ LoopHasTarget'
  <2>1. \E w, e, c : w.type \notin ObjectWaits /\ TimedWait(w, e, c)
    BY <1>9 DEF DelayThread, WaitVBlank, WaitThreadEnd, WaitHost, WaitFor, ObjectWaits
  <2>2. PICK w, e, c : w.type \notin ObjectWaits /\ TimedWait(w, e, c)
    BY <2>1
  <2>3. phase' \notin {"release", "cancel"}
    BY <2>2 DEF TimedWait, Block
  <2> QED BY <2>2, <2>3, BlockKeeps DEF TimedWait, ListKinds
<1> QED BY <1>1, <1>2, <1>3, <1>4, <1>5, <1>6, <1>7, <1>8, <1>9 DEF ThreadsNext

LEMMA EventCallKinds ==
    ASSUME KernelEventsNext
    PROVE  ListKinds({}, {}) /\ LoopHasTarget'
<1>1. EventCall
  BY DEF KernelEventsNext, RegisterVBlankHandler, EnableVBlankHandler, ReleaseVBlankHandler,
         CreateCallback, DeleteCallback, NotifyCallback, CreateVTimer, StartVTimer, SetVTimerHandler
<1> QED BY <1>1, SameLists DEF EventCall, threadVars, ListKinds, LoopHasTarget

\* A loop's turn that takes the entry at i out, and ends its wait if it has one.
LEMMA TurnDrops ==
    ASSUME TypeInv, phase \in {"release", "cancel"}, NEW O, target \in O,
           NEW i \in DOMAIN waiters[target],
           \/ MakeReady(<<waiters[target][i]>>)
           \/ ~IsWaiting(waiters[target][i]) /\ UNCHANGED <<status, wait>>,
           waiters' = [waiters EXCEPT ![target] = Dropped(@, i)]
    PROVE  DropsEntry(O)
<1> DEFINE t == waiters[target][i]
<1>1. OnlyEnds({t})
  <2>1. CASE MakeReady(<<t>>)
    BY <2>1, OneMadeReadyEnds
  <2>2. CASE ~IsWaiting(t) /\ UNCHANGED <<status, wait>>
    BY <2>2 DEF OnlyEnds, OnObject, IsWaiting
  <2> QED BY <2>1, <2>2
<1> QED BY <1>1 DEF DropsEntry

LEMMA SemaphoresLists ==
    ASSUME LoopInv, SemaphoresNext
    PROVE  ListKinds(Semas, Semas) /\ LoopHasTarget'
<1> USE DEF LoopInv, RunInv, LoopHasTarget, ListKinds, loopVars, threadVars
<1> PICK s \in Semas :
        \/ \E max \in 1..MaxCount : \E initial \in 0..max : CreateSema(s, initial, max)
        \/ DeleteSema(s)
        \/ \E signal \in 1..MaxSignal : SignalSema(s, signal)
        \/ SemaDropsStale(s) \/ SemaGrants(s) \/ SemaReleased(s)
        \/ \E wanted \in 1..MaxCount : WaitSemaTakes(s, wanted) \/ PollSema(s, wanted)
        \/ \E wanted \in 1..MaxCount, d \in Timeouts \cup {Never}, cb \in BOOLEAN :
              WaitSemaBlocks(s, wanted, d, cb)
  BY DEF SemaphoresNext
<1>0. s \in Objects
  BY SemaphoreAssumption
<1>1. ASSUME NEW max, NEW initial, NEW signal, NEW wanted,
             \/ CreateSema(s, initial, max) \/ DeleteSema(s) \/ SignalSema(s, signal)
             \/ SemaReleased(s) \/ WaitSemaTakes(s, wanted) \/ PollSema(s, wanted)
      PROVE  ListKinds(Semas, Semas) /\ LoopHasTarget'
  <2>1. UNCHANGED <<status, wait, waiters>> /\ (phase' = "finish" \/ target' = s)
    BY <1>1 DEF CreateSema, DeleteSema, SignalSema, SemaReleased, WaitSemaTakes, PollSema, TakeSema
  <2> QED BY <1>0, <2>1, SameLists
<1>2. CASE SemaDropsStale(s) \/ SemaGrants(s)
  <2>1. /\ phase = "release" /\ target = s /\ waiters[s] # <<>> /\ UNCHANGED target
        /\ waiters' = [waiters EXCEPT ![s] = Tail(@)]
        /\ \/ MakeReady(<<Head(waiters[s])>>)
           \/ ~IsWaiting(Head(waiters[s])) /\ UNCHANGED <<status, wait>>
    BY <1>2 DEF SemaDropsStale, SemaGrants, ReleaseSema, SemaStale
  <2> QED BY <1>0, <2>1, HeadDropped, TurnDrops
<1>3. ASSUME NEW wanted \in 1..MaxCount, NEW d \in Timeouts \cup {Never}, NEW cb,
             WaitSemaBlocks(s, wanted, d, cb)
      PROVE  ListKinds(Semas, Semas) /\ LoopHasTarget'
  <2> DEFINE w == [WaitFor("Semaphore", s) EXCEPT !.count = wanted]
  <2>1. w \in Waits /\ w.type = "Semaphore" /\ w.object = s
    <3>1. wanted \in Nat
      OBVIOUS
    <3> QED BY <1>0, <3>1, WaitsType DEF WaitTypes, WaitFor
  <2>2. MayWait /\ JoinWaiters(s) /\ Block(w, d)
    BY <1>3 DEF WaitSemaBlocks
  <2> HIDE DEF w
  <2>3. phase' \in {"guest", "timers"}
    BY <2>2 DEF MayWait, InGuest, Block
  <2> QED BY <1>0, <2>1, <2>2, <2>3 DEF JoinsList, ObjectWaits
<1> QED BY <1>1, <1>2, <1>3

LEMMA EventFlagsLists ==
    ASSUME LoopInv, EventFlagsNext
    PROVE  ListKinds(Flags, Flags) /\ LoopHasTarget'
<1> USE DEF LoopInv, RunInv, LoopHasTarget, ListKinds, loopVars, threadVars
<1> PICK f \in Flags :
        \/ \E multi \in BOOLEAN, pattern \in SUBSET Bits : CreateEventFlag(f, multi, pattern)
        \/ DeleteEventFlag(f)
        \/ \E bits \in SUBSET Bits : SetEventFlag(f, bits) \/ ClearEventFlag(f, bits)
        \/ FlagDropsStale(f) \/ FlagSkips(f) \/ FlagWakes(f) \/ FlagReleased(f)
        \/ \E w \in Wanted : PollEventFlag(f, w) \/ WaitEventFlagTakes(f, w)
        \/ \E w \in Wanted, d \in Timeouts \cup {Never}, cb \in BOOLEAN :
              WaitEventFlagBlocks(f, w, d, cb)
  BY DEF EventFlagsNext
<1>0. f \in Objects
  BY EventFlagAssumption
<1>1. ASSUME NEW multi, NEW pattern, NEW bits, NEW w,
             \/ CreateEventFlag(f, multi, pattern) \/ DeleteEventFlag(f)
             \/ SetEventFlag(f, bits) \/ ClearEventFlag(f, bits)
             \/ FlagSkips(f) \/ FlagReleased(f)
             \/ PollEventFlag(f, w) \/ WaitEventFlagTakes(f, w)
      PROVE  ListKinds(Flags, Flags) /\ LoopHasTarget'
  <2>1. UNCHANGED <<status, wait, waiters>> /\ (phase' = "finish" \/ target' = f)
    BY <1>1 DEF CreateEventFlag, DeleteEventFlag, SetEventFlag, ClearEventFlag, FlagSkips,
                FlagReleased, ReleaseFlag, PollEventFlag, WaitEventFlagTakes, TakeFlag
  <2> QED BY <1>0, <2>1, SameLists
<1>2. CASE FlagDropsStale(f) \/ FlagWakes(f)
  <2>1. /\ phase = "release" /\ target = f /\ UNCHANGED target /\ cursor <= Len(waiters[f])
        /\ waiters' = [waiters EXCEPT ![f] = Dropped(@, cursor)]
        /\ \/ MakeReady(<<waiters[f][cursor]>>)
           \/ ~IsWaiting(waiters[f][cursor]) /\ UNCHANGED <<status, wait>>
    BY <1>2 DEF FlagDropsStale, FlagWakes, ReleaseFlag, DropScanned, Scanned, Dropped
  <2>2. cursor \in DOMAIN waiters[f]
    <3>1. waiters[f] \in Seq(Uids \cup {Nobody})
      BY <1>0, WaitingTypes
    <3>2. DOMAIN waiters[f] = 1..Len(waiters[f]) /\ Len(waiters[f]) \in Nat
      BY <3>1, LenProperties
    <3>3. cursor \in Nat \ {0}
      BY DEF TypeInv, TypeOK
    <3> QED BY <2>1, <3>2, <3>3
  <2> QED BY <1>0, <2>1, <2>2, TurnDrops
<1>3. ASSUME NEW w \in Wanted, NEW d \in Timeouts \cup {Never}, NEW cb,
             WaitEventFlagBlocks(f, w, d, cb)
      PROVE  ListKinds(Flags, Flags) /\ LoopHasTarget'
  <2> DEFINE x == [WaitFor("EventFlag", f) EXCEPT !.bits = w.bits, !.mode = w.mode]
  <2>1. x \in Waits /\ x.type = "EventFlag" /\ x.object = f
    BY <1>0, WaitsType DEF WaitFor
  <2>2. MayWait /\ JoinWaiters(f) /\ Block(x, d)
    BY <1>3 DEF WaitEventFlagBlocks
  <2> HIDE DEF x
  <2>3. phase' \in {"guest", "timers"}
    BY <2>2 DEF MayWait, InGuest, Block
  <2> QED BY <1>0, <2>1, <2>2, <2>3 DEF JoinsList, ObjectWaits
<1> QED BY <1>1, <1>2, <1>3

LEMMA MutexesLists ==
    ASSUME LoopInv, MutexesNext
    PROVE  ListKinds(Locks, Locks) /\ LoopHasTarget'
<1> USE DEF LoopInv, RunInv, LoopHasTarget, ListKinds, loopVars, threadVars
<1> PICK m \in Locks :
        \/ \E recursive \in BOOLEAN, locks \in 0..MaxLocks : CreateMutex(m, recursive, locks)
        \/ DeleteMutex(m)
        \/ \E count \in 1..MaxLocks :
              LockMutexTakes(m, count) \/ LockMutexAgain(m, count) \/ UnlockMutex(m, count)
        \/ \E count \in 1..MaxLocks, d \in Timeouts \cup {Never} : LockMutexBlocks(m, count, d)
        \/ MutexDropsStale(m) \/ MutexHandsOver(m) \/ MutexReleased(m)
  BY DEF MutexesNext
<1>0. m \in Objects
  BY MutexAssumption
<1>1. ASSUME NEW recursive, NEW locks, NEW count,
             \/ CreateMutex(m, recursive, locks) \/ DeleteMutex(m)
             \/ LockMutexTakes(m, count) \/ LockMutexAgain(m, count) \/ UnlockMutex(m, count)
             \/ MutexReleased(m)
      PROVE  ListKinds(Locks, Locks) /\ LoopHasTarget'
  <2>1. UNCHANGED <<status, wait, waiters>> /\ (phase' = "finish" \/ target' = m)
    BY <1>1 DEF CreateMutex, DeleteMutex, LockMutexTakes, LockMutexAgain, UnlockMutex, MutexReleased
  <2> QED BY <1>0, <2>1, SameLists
<1>2. CASE MutexDropsStale(m) \/ MutexHandsOver(m)
  <2>1. /\ phase = "release" /\ target = m /\ waiters[m] # <<>> /\ UNCHANGED target
        /\ waiters' = [waiters EXCEPT ![m] = Tail(@)]
        /\ \/ MakeReady(<<Head(waiters[m])>>)
           \/ ~IsWaiting(Head(waiters[m])) /\ UNCHANGED <<status, wait>>
    BY <1>2 DEF MutexDropsStale, MutexHandsOver, ReleaseMutex
  <2> QED BY <1>0, <2>1, HeadDropped, TurnDrops
<1>3. ASSUME NEW count \in 1..MaxLocks, NEW d \in Timeouts \cup {Never},
             LockMutexBlocks(m, count, d)
      PROVE  ListKinds(Locks, Locks) /\ LoopHasTarget'
  <2> DEFINE w == [WaitFor("Mutex", m) EXCEPT !.count = count]
  <2>1. w \in Waits /\ w.type = "Mutex" /\ w.object = m
    <3>1. count \in Nat
      OBVIOUS
    <3> QED BY <1>0, <3>1, WaitsType DEF WaitTypes, WaitFor
  <2>2. MayWait /\ JoinWaiters(m) /\ Block(w, d)
    BY <1>3 DEF LockMutexBlocks
  <2> HIDE DEF w
  <2>3. phase' \in {"guest", "timers"}
    BY <2>2 DEF MayWait, InGuest, Block
  <2> QED BY <1>0, <2>1, <2>2, <2>3 DEF JoinsList, ObjectWaits
<1> QED BY <1>1, <1>2, <1>3

\* Positions in a list are counted from 1.
LEMMA StepCursor ==
    ASSUME TypeInv, cursor # 0, [Next]_vars
    PROVE  cursor' # 0
<1> USE DEF loopVars
<1>1. CASE SchedulerNext
  BY <1>1 DEF SchedulerNext, FinishInterrupt, FinishPreempt, FinishReturn, ProcessTimers,
       PickInterrupt, PickThread, PickDeadlock, PickIdle, Starvation, BoundaryInterrupt,
       BoundaryPreempt, BoundaryReturn, ReturnToHandler, ReturnToSchedule, ReturnAndPreempt,
       ReturnToThread, CancelWaiter, CancelDone
<1>2. CASE ThreadsNext
  BY <1>2 DEF ThreadsNext, OtherCall, CreateThread, StartThread, DeleteThread, ExitThread,
       TerminateThread, ChangePriority, SleepTakesWakeup, SleepBlocks, WakeupSleeper, WakeupStored,
       DelayThread, WaitVBlank, WaitThreadEnd, WaitHost, TimedWait, ReleaseWaitThread,
       SetInterrupts, SetDispatch
<1>3. CASE KernelEventsNext
  <2>1. EventCall
    BY <1>3 DEF KernelEventsNext, RegisterVBlankHandler, EnableVBlankHandler, ReleaseVBlankHandler,
         CreateCallback, DeleteCallback, NotifyCallback, CreateVTimer, StartVTimer, SetVTimerHandler
  <2> QED BY <2>1 DEF EventCall
<1>4. CASE SemaphoresNext
  BY ZenonT(60), <1>4 DEF SemaphoresNext, CreateSema, DeleteSema, SignalSema, SemaDropsStale, SemaGrants,
       SemaReleased, WaitSemaTakes, PollSema, TakeSema, WaitSemaBlocks
<1>5. CASE EventFlagsNext
  <2>1. cursor' \in {cursor, 1, cursor + 1}
    BY ZenonT(60), <1>5 DEF EventFlagsNext, CreateEventFlag, DeleteEventFlag, SetEventFlag, ClearEventFlag,
         FlagDropsStale, FlagSkips, FlagWakes, FlagReleased, PollEventFlag, WaitEventFlagTakes,
         TakeFlag, WaitEventFlagBlocks
  <2>2. cursor \in Nat
    BY DEF TypeInv, TypeOK
  <2> QED BY <2>1, <2>2
<1>6. CASE MutexesNext
  BY ZenonT(60), <1>6 DEF MutexesNext, CreateMutex, DeleteMutex, LockMutexTakes, LockMutexAgain, LockMutexBlocks,
       UnlockMutex, MutexDropsStale, MutexHandsOver, MutexReleased
<1>7. CASE UNCHANGED schedulerVars
  BY <1>7 DEF schedulerVars
<1>8. UNCHANGED vars => UNCHANGED schedulerVars
  BY DEF vars
<1> QED BY <1>1, <1>2, <1>3, <1>4, <1>5, <1>6, <1>7, <1>8 DEF Next, ObjectStep, Stopped

LEMMA KindsOfAll ==
    ASSUME NEW D \in SUBSET Objects, NEW J \in SUBSET Objects, ListKinds(D, J)
    PROVE  ListKinds(Objects, Objects)
  BY DEF ListKinds, DropsEntry, JoinsList

LEMMA StepLists ==
    ASSUME LoopInv, [Next]_vars
    PROVE  ListKinds(Objects, Objects) /\ LoopInv'
<1>1. RunInv' /\ cursor' # 0
  BY StepRuns, StepCursor DEF LoopInv, RunInv
<1>2. CASE UNCHANGED schedulerVars
  <2>1. UNCHANGED <<status, wait, waiters, phase, target>>
    BY <1>2 DEF schedulerVars, threadVars, loopVars
  <2> QED BY <1>1, <2>1, SameLists DEF ListKinds, LoopInv, LoopHasTarget
<1>3. UNCHANGED vars => UNCHANGED schedulerVars
  BY DEF vars
<1>4. CASE SchedulerNext \/ ThreadsNext \/ KernelEventsNext
  BY <1>1, <1>4, SchedulerKinds, ThreadsKinds, EventCallKinds, KindsOfAll DEF LoopInv
<1>5. CASE SemaphoresNext \/ EventFlagsNext \/ MutexesNext
  <2>1. Semas \in SUBSET Objects /\ Flags \in SUBSET Objects /\ Locks \in SUBSET Objects
    BY SemaphoreAssumption, EventFlagAssumption, MutexAssumption
  <2> QED BY <1>1, <1>5, <2>1, SemaphoresLists, EventFlagsLists, MutexesLists, KindsOfAll DEF LoopInv
<1> QED BY <1>2, <1>3, <1>4, <1>5 DEF Next, ObjectStep, Stopped

LEMMA InitLoops == Init => LoopInv
  BY InitRuns DEF Init, SchedulerInit, LoopInv, LoopHasTarget
-----------------------------------------------------------------------------
(* Who waits is in the list                                                  *)

ListedInv == LoopInv /\ WaitingIsListed

LEMMA OnAnObject ==
    ASSUME TypeInv, NEW o \in Objects, NEW t \in Uids
    PROVE  WaitsOn(t, o) <=> OnObject(t) /\ wait[t].object = o
  BY DEF WaitsOn, OnObject

\* An entry of a list that is not among those taken out of it stays.
LEMMA ListedStays ==
    ASSUME NEW T, NEW q \in Seq(T), NEW S, NEW t \in Range(q), t \notin S
    PROVE  t \in Range(Without(q, S))
<1>1. PICK i \in DOMAIN q : q[i] = t
  BY DEF Range
<1>2. \E k \in DOMAIN Without(q, S) : Without(q, S)[k] = q[i]
  BY ONLY <1>1, t \notin S, q \in Seq(T), WithoutComplete
<1> QED BY <1>1, <1>2 DEF Range

LEMMA AppendListed ==
    ASSUME NEW T, NEW q \in Seq(T), NEW t \in T
    PROVE  t \in Range(Append(q, t)) /\ \A u \in Range(q) : u \in Range(Append(q, t))
<1>1. Len(q) \in Nat /\ DOMAIN q = 1..Len(q)
  BY LenProperties
<1> DEFINE r == Append(q, t)
<1>2. /\ r \in Seq(T) /\ Len(r) = Len(q) + 1
      /\ \A i \in 1..Len(q) : r[i] = q[i]
      /\ r[Len(q) + 1] = t
  BY AppendProperties
<1>3. DOMAIN r = 1..Len(q) + 1
  BY <1>2, LenProperties
<1> HIDE DEF r
<1>4. \A i \in DOMAIN q : i \in DOMAIN r /\ r[i] = q[i]
  BY <1>1, <1>2, <1>3
<1>5. Len(q) + 1 \in DOMAIN r
  BY <1>1, <1>3
<1> QED BY <1>2, <1>4, <1>5 DEF Range, r

LEMMA StepListed == ListedInv /\ [Next]_vars => ListedInv'
<1> SUFFICES ASSUME ListedInv, [Next]_vars PROVE ListedInv'
  OBVIOUS
<1>1. ListKinds(Objects, Objects) /\ LoopInv'
  BY StepLists DEF ListedInv
<1>2. /\ waiters \in [Objects -> Seq(Uids \cup {Nobody})]
      /\ wait \in [Uids -> Waits] /\ status \in [Uids -> Statuses]
  BY WaitingTypes DEF ListedInv, LoopInv, RunInv
<1> SUFFICES ASSUME NEW o \in Objects, NEW t \in Uids, WaitsOn(t, o)'
             PROVE  t \in Range(waiters'[o])
  BY <1>1 DEF ListedInv, WaitingIsListed
<1>3. OnObject(t)' /\ wait'[t].object = o
  BY DEF WaitsOn, OnObject
<1>4. \A S : OnlyEnds(S) => WaitsOn(t, o) /\ t \notin S /\ t \in Range(waiters[o])
  <2> SUFFICES ASSUME NEW S, OnlyEnds(S) PROVE WaitsOn(t, o) /\ t \notin S /\ t \in Range(waiters[o])
    OBVIOUS
  <2>1. OnObject(t) /\ t \notin S /\ wait'[t] = wait[t]
    BY <1>3 DEF OnlyEnds
  <2>2. WaitsOn(t, o)
    BY <1>3, <2>1 DEF WaitsOn, OnObject
  <2> QED BY <2>1, <2>2 DEF ListedInv, WaitingIsListed
<1>5. waiters[o] \in Seq(Uids \cup {Nobody})
  BY <1>2
<1>6. CASE KeepsLists \/ LeavesEntry
  BY <1>4, <1>6 DEF KeepsLists, LeavesEntry
<1>7. CASE EndsWaits
  <2>1. PICK S \in SUBSET Uids : OnlyEnds(S) /\ RemoveWaiters(S)
    BY <1>7 DEF EndsWaits
  <2> DEFINE G == {u \in S : wait[u].type \in ObjectWaits /\ wait[u].object = o}
  <2>2. waiters'[o] = Without(waiters[o], G)
    BY <2>1 DEF RemoveWaiters
  <2>3. t \notin G /\ t \in Range(waiters[o])
    BY <1>4, <2>1
  <2> HIDE DEF G
  <2> QED BY <1>5, <2>2, <2>3, ListedStays
<1>8. CASE DropsEntry(Objects)
  <2>1. PICK i \in DOMAIN waiters[target] :
            /\ OnlyEnds({waiters[target][i]})
            /\ waiters' = [waiters EXCEPT ![target] = Dropped(@, i)]
    BY <1>8 DEF DropsEntry
  <2>2. t # waiters[target][i] /\ t \in Range(waiters[o])
    BY <1>4, <2>1
  <2>3. CASE o # target
    BY <1>2, <2>1, <2>2, <2>3
  <2>4. CASE o = target
    <3>1. waiters'[o] = Dropped(waiters[o], i) /\ i \in DOMAIN waiters[o]
      BY <1>2, <2>1, <2>4
    <3>2. PICK j \in DOMAIN waiters[o] : waiters[o][j] = t
      BY <2>2 DEF Range
    <3>3. DOMAIN waiters[o] = 1..Len(waiters[o]) /\ Len(waiters[o]) \in Nat
      BY <1>5, LenProperties
    <3>4. j < i \/ j > i
      BY <2>2, <2>4, <3>1, <3>2, <3>3
    <3>5. \E k \in DOMAIN Dropped(waiters[o], i) : Dropped(waiters[o], i)[k] = t
      BY <1>5, <3>1, <3>2, <3>4, DroppedKeeps
    <3> QED BY <3>1, <3>5 DEF Range
  <2> QED BY <2>3, <2>4
<1>9. CASE JoinsList(Objects)
  <2>1. PICK p \in Objects, w \in Waits, d \in Timeouts \cup {Never} :
            w.type \in ObjectWaits /\ w.object = p /\ JoinWaiters(p) /\ Block(w, d)
    BY <1>9 DEF JoinsList
  <2>2. current \in Uids \cup {Nobody}
    BY WaitingTypes DEF ListedInv, LoopInv, RunInv
  <2>3. waiters' = [waiters EXCEPT ![p] = Append(@, current)]
    BY <2>1 DEF JoinWaiters
  <2>4. \A u \in Range(waiters[o]) : u \in Range(waiters'[o])
    <3>1. CASE o # p
      BY <1>2, <2>3, <3>1
    <3>2. CASE o = p
      <4>1. waiters'[o] = Append(waiters[o], current)
        BY <1>2, <2>3, <3>2
      <4> QED BY <1>5, <2>2, <4>1, AppendListed
    <3> QED BY <3>1, <3>2
  <2>5. CASE WaitsOn(t, o)
    BY <2>4, <2>5 DEF ListedInv, WaitingIsListed
  <2>6. CASE ~WaitsOn(t, o)
    <3>1. t = current /\ o = p
      BY <1>2, <1>3, <2>1, <2>6 DEF Block, WaitsOn, OnObject, IsWaiting
    <3>2. waiters'[o] = Append(waiters[o], t)
      BY <1>2, <2>3, <3>1
    <3> QED BY <1>5, <3>2, AppendListed
  <2> QED BY <2>5, <2>6
<1> QED BY <1>1, <1>6, <1>7, <1>8, <1>9 DEF ListKinds

LEMMA AlwaysListed == Spec => []ListedInv
<1>1. Init => ListedInv
  BY InitLoops DEF ListedInv, WaitingIsListed, WaitsOn, Init, SchedulerInit, IsWaiting
<1> QED BY <1>1, StepListed, PTL DEF Spec

\* A thread that waits on an object is in that object's list, whatever was
\* released, timed out, terminated or called from a handler before.
THEOREM KernelWaitingIsListed == Spec => []WaitingIsListed
<1>1. ListedInv => WaitingIsListed
  BY DEF ListedInv
<1> QED BY AlwaysListed, <1>1, PTL
-----------------------------------------------------------------------------
(* Steps on other objects *)

\* No step but one of its own begins a wait on an object.
LEMMA WaitsApart ==
    ASSUME TypeInv, NEW D, NEW J, ListKinds(D, J), NEW o, o \notin J, NEW t \in Uids, WaitsOn(t, o)'
    PROVE  WaitsOn(t, o) /\ wait'[t] = wait[t]
<1>1. OnObject(t)' /\ wait'[t].object = o
  BY DEF WaitsOn, OnObject
<1>2. OnObject(t) /\ wait'[t] = wait[t]
  <2>1. \A S : OnlyEnds(S) => OnObject(t) /\ wait'[t] = wait[t]
    BY <1>1 DEF OnlyEnds
  <2>2. CASE JoinsList(J)
    <3>1. PICK p \in J : \E w, d : w.object = p /\ Block(w, d)
      BY <2>2 DEF JoinsList
    <3>2. PICK w, d : w.object = p /\ Block(w, d)
      BY <3>1
    <3>3. (status'[t] = status[t] /\ wait'[t] = wait[t]) \/ wait'[t] = w
      BY <3>2, WaitingTypes DEF Block
    <3> QED BY <1>1, <3>2, <3>3 DEF OnObject, IsWaiting
  <2> QED BY <2>1, <2>2 DEF ListKinds, KeepsLists, EndsWaits, LeavesEntry, DropsEntry
<1> QED BY <1>1, <1>2 DEF WaitsOn, OnObject

LEMMA ObjectsApart ==
    /\ Semas \in SUBSET Objects /\ Flags \in SUBSET Objects /\ Locks \in SUBSET Objects
    /\ \A s \in Semas : s \notin Flags /\ s \notin Locks
    /\ \A f \in Flags : f \notin Semas /\ f \notin Locks
    /\ \A m \in Locks : m \notin Semas /\ m \notin Flags
  BY SemaphoreAssumption, EventFlagAssumption, MutexAssumption, KernelAssumption

\* No step of the scheduler, of a thread call or of an event call is made while
\* a release loop runs.
LEMMA LoopsAlone ==
    ASSUME SchedulerNext \/ ThreadsNext \/ KernelEventsNext
    PROVE  phase # "release"
<1>1. CASE SchedulerNext
  BY <1>1 DEF SchedulerNext, FinishInterrupt, FinishPreempt, FinishReturn, ProcessTimers, FinishIn,
       PickInterrupt, PickThread, PickDeadlock, PickIdle, PickIn, Starvation, BoundaryInterrupt,
       BoundaryPreempt, BoundaryReturn, BoundaryIn, ReturnToHandler, ReturnToSchedule, ReturnAndPreempt,
       ReturnToThread, HandlerReturns, InThread, InGuest, CancelWaiter, CancelDone
<1>2. CASE ThreadsNext
  BY <1>2 DEF ThreadsNext, OtherCall, CreateThread, StartThread, DeleteThread, ExitThread,
       TerminateThread, ChangePriority, SleepTakesWakeup, SleepBlocks, WakeupSleeper, WakeupStored,
       DelayThread, WaitVBlank, WaitThreadEnd, WaitHost, TimedWait, ReleaseWaitThread,
       SetInterrupts, SetDispatch, InThread, InGuest, MayWait, MayMask
<1>3. CASE KernelEventsNext
  <2>1. EventCall
    BY ZenonT(60), <1>3 DEF KernelEventsNext, RegisterVBlankHandler, EnableVBlankHandler, ReleaseVBlankHandler,
         CreateCallback, DeleteCallback, NotifyCallback, CreateVTimer, StartVTimer, SetVTimerHandler
  <2> QED BY <2>1 DEF EventCall, InThread
<1> QED BY <1>1, <1>2, <1>3

LEMMA OwnLoop ==
    /\ SemaphoresNext /\ phase = "release" => target \in Semas
    /\ EventFlagsNext /\ phase = "release" => target \in Flags
    /\ MutexesNext /\ phase = "release" => target \in Locks
  BY ZenonT(60) DEF SemaphoresNext, CreateSema, DeleteSema, SignalSema, SemaDropsStale, SemaGrants,
       SemaReleased, WaitSemaTakes, PollSema, TakeSema, WaitSemaBlocks, ReleaseSema,
       MutexesNext, CreateMutex, DeleteMutex, LockMutexTakes, LockMutexAgain, LockMutexBlocks,
       UnlockMutex, MutexDropsStale, MutexHandsOver, MutexReleased, ReleaseMutex,
       EventFlagsNext, CreateEventFlag, DeleteEventFlag, SetEventFlag, ClearEventFlag,
       FlagDropsStale, FlagSkips, FlagWakes, FlagReleased, PollEventFlag, WaitEventFlagTakes,
       TakeFlag, WaitEventFlagBlocks, ReleaseFlag, InThread, InGuest, MayWait

-----------------------------------------------------------------------------
(* Event flags.  A flag of which some waiter's condition holds is being     *)
(* scanned, and the scan has not come to that waiter.                       *)

HasMatch(t, f) == WaitsOn(t, f) /\ Matches(flags[f].pattern, wait[t].bits, wait[t].mode)
StillScanned(t, f) ==
    /\ phase = "release" /\ target = f
    /\ \E i \in DOMAIN waiters[f] : cursor <= i /\ waiters[f][i] = t

\* Nobody waits for no bits, nor on a flag that was never created.
FlagWaits == \A f \in Flags, t \in Uids :
    WaitsOn(t, f) => wait[t].bits # {} /\ flags[f].life # "unused"
AllScanned == \A f \in Flags, t \in Uids : HasMatch(t, f) => StillScanned(t, f)
FlagInv == ListedInv /\ FlagWaits /\ AllScanned

\* A pattern that loses bits meets no more conditions.
LEMMA MatchesLess ==
    ASSUME NEW p, NEW q \in SUBSET p, NEW bits, NEW mode, Matches(q, bits, mode)
    PROVE  Matches(p, bits, mode)
  BY DEF Matches

LEMMA AfterMatchLess ==
    ASSUME NEW p, NEW bits, NEW mode
    PROVE  AfterMatch(p, bits, mode) \in SUBSET p
  BY DEF AfterMatch

\* A step that is not one of the flags.
LEMMA FlagsApart ==
    ASSUME FlagInv, UNCHANGED flags, NEW D, NEW J, \A f \in Flags : f \notin J, ListKinds(D, J),
           phase = "release" => target \notin Flags
    PROVE  FlagWaits' /\ AllScanned'
<1> SUFFICES ASSUME NEW f \in Flags, NEW t \in Uids, WaitsOn(t, f)'
             PROVE  /\ wait'[t].bits # {} /\ flags'[f].life # "unused"
                    /\ ~HasMatch(t, f)'
  BY DEF FlagWaits, AllScanned, HasMatch
<1>1. WaitsOn(t, f) /\ wait'[t] = wait[t]
  BY WaitsApart DEF FlagInv, ListedInv, LoopInv, RunInv
<1>2. ~HasMatch(t, f)
  BY DEF FlagInv, AllScanned, StillScanned
<1> QED BY <1>1, <1>2 DEF FlagInv, FlagWaits, HasMatch

\* Outside a scan no condition holds; a step that begins no wait and gives no
\* flag more bits keeps it so.
LEMMA FlagsKeep ==
    ASSUME FlagInv, phase # "release",
           \A f \in Flags : /\ flags'[f].pattern \in SUBSET flags[f].pattern
                            /\ flags'[f].life = "unused" => flags[f].life = "unused",
           UNCHANGED <<status, wait>>
    PROVE  FlagWaits' /\ AllScanned'
<1> SUFFICES ASSUME NEW f \in Flags, NEW t \in Uids, WaitsOn(t, f)'
             PROVE  /\ wait'[t].bits # {} /\ flags'[f].life # "unused"
                    /\ ~HasMatch(t, f)'
  BY DEF FlagWaits, AllScanned, HasMatch
<1>1. WaitsOn(t, f) /\ wait'[t] = wait[t]
  BY DEF WaitsOn, IsWaiting
<1>2. ~HasMatch(t, f)
  BY DEF FlagInv, AllScanned, StillScanned
<1> QED BY <1>1, <1>2, MatchesLess DEF FlagInv, FlagWaits, HasMatch

LEMMA FlagTypes ==
    ASSUME FlagInv
    PROVE  /\ flags \in [Flags -> [life : Lives, multi : BOOLEAN, pattern : SUBSET Bits]]
           /\ status \in [Uids -> Statuses] /\ wait \in [Uids -> Waits]
           /\ cursor \in Nat \ {0}
           /\ \A f \in Flags : f \in Objects /\ waiters[f] \in Seq(Uids \cup {Nobody})
  BY WaitingTypes, ObjectsApart DEF FlagInv, ListedInv, LoopInv, RunInv, TypeInv, TypeOK, ObjectsTypeOK

LEMMA CreateFlagScanned ==
    ASSUME FlagInv, NEW f \in Flags, NEW multi \in BOOLEAN, NEW pattern \in SUBSET Bits,
           CreateEventFlag(f, multi, pattern)
    PROVE  FlagWaits' /\ AllScanned'
<1>1. /\ flags' = [flags EXCEPT ![f] = [life |-> "live", multi |-> multi, pattern |-> pattern]]
      /\ flags[f].life = "unused" /\ phase = "guest" /\ UNCHANGED <<status, wait>>
  BY DEF CreateEventFlag, InThread, threadVars
<1> SUFFICES ASSUME NEW g \in Flags, NEW t \in Uids, WaitsOn(t, g)'
             PROVE  /\ wait'[t].bits # {} /\ flags'[g].life # "unused"
                    /\ ~HasMatch(t, g)'
  BY DEF FlagWaits, AllScanned, HasMatch
<1>2. WaitsOn(t, g) /\ wait'[t] = wait[t]
  BY <1>1 DEF WaitsOn, IsWaiting
<1>3. g # f
  BY <1>1, <1>2 DEF FlagInv, FlagWaits
<1>4. flags'[g] = flags[g]
  BY <1>1, <1>3, FlagTypes
<1>5. ~HasMatch(t, g)
  BY <1>1 DEF FlagInv, AllScanned, StillScanned
<1> QED BY <1>2, <1>4, <1>5 DEF FlagInv, FlagWaits, HasMatch

LEMMA DeleteFlagScanned ==
    ASSUME FlagInv, NEW f \in Flags, DeleteEventFlag(f)
    PROVE  FlagWaits' /\ AllScanned'
<1>1. /\ flags' = [flags EXCEPT ![f] = [NoFlag EXCEPT !.life = "deleted"]]
      /\ phase = "guest" /\ UNCHANGED <<status, wait>>
  BY DEF DeleteEventFlag, InThread, threadVars
<1>2. [NoFlag EXCEPT !.life = "deleted"].pattern = {} /\ [NoFlag EXCEPT !.life = "deleted"].life = "deleted"
  BY DEF NoFlag
<1>3. \A g \in Flags : /\ flags'[g].pattern \in SUBSET flags[g].pattern
                       /\ flags'[g].life = "unused" => flags[g].life = "unused"
  BY <1>1, <1>2, FlagTypes
<1> QED BY <1>1, <1>3, FlagsKeep

LEMMA SetFlagScanned ==
    ASSUME FlagInv, NEW f \in Flags, NEW bits \in SUBSET Bits, SetEventFlag(f, bits)
    PROVE  FlagWaits' /\ AllScanned'
<1>1. /\ flags' = [flags EXCEPT ![f].pattern = @ \cup bits]
      /\ target' = f /\ cursor' = 1 /\ phase' = "release" /\ phase = "guest"
      /\ UNCHANGED <<status, wait, waiters>>
  BY DEF SetEventFlag, InGuest, threadVars
<1>2. /\ \A g \in Flags : flags'[g].life = flags[g].life
      /\ \A g \in Flags : g # f => flags'[g].pattern = flags[g].pattern
  BY <1>1, FlagTypes
<1>3. \A g \in Flags, t \in Uids : WaitsOn(t, g)' => WaitsOn(t, g)
  BY <1>1 DEF WaitsOn, IsWaiting
<1>4. FlagWaits'
  BY <1>1, <1>2, <1>3 DEF FlagInv, FlagWaits
<1>5. ASSUME NEW g \in Flags, NEW t \in Uids, HasMatch(t, g)'
      PROVE  StillScanned(t, g)'
  <2>1. WaitsOn(t, g)
    BY <1>3, <1>5 DEF HasMatch
  <2>2. ~HasMatch(t, g)
    BY <1>1 DEF FlagInv, AllScanned, StillScanned
  <2>3. g = f
    BY <1>1, <1>2, <1>5, <2>1, <2>2 DEF HasMatch
  <2>4. PICK i \in DOMAIN waiters[f] : waiters[f][i] = t
    BY <2>1, <2>3, FlagTypes DEF FlagInv, ListedInv, WaitingIsListed, Range
  <2>5. i >= 1
    BY <2>4, FlagTypes, LenProperties
  <2> QED BY <1>1, <2>3, <2>4, <2>5 DEF StillScanned
<1> QED BY <1>4, <1>5 DEF AllScanned

LEMMA TakeFlagScanned ==
    ASSUME FlagInv, phase = "guest", NEW f \in Flags, NEW p \in SUBSET flags[f].pattern,
           flags' = [flags EXCEPT ![f].pattern = p], UNCHANGED <<status, wait>>
    PROVE  FlagWaits' /\ AllScanned'
<1>1. \A g \in Flags : /\ flags'[g].pattern \in SUBSET flags[g].pattern
                       /\ flags'[g].life = "unused" => flags[g].life = "unused"
  BY FlagTypes
<1> QED BY <1>1, FlagsKeep

LEMMA BlockFlagScanned ==
    ASSUME FlagInv, NEW f \in Flags, NEW w \in Wanted, NEW d \in Timeouts \cup {Never},
           NEW cb \in BOOLEAN, WaitEventFlagBlocks(f, w, d, cb)
    PROVE  FlagWaits' /\ AllScanned'
<1> DEFINE x == [WaitFor("EventFlag", f) EXCEPT !.bits = w.bits, !.mode = w.mode]
<1>1. /\ phase = "guest" /\ flags[f].life = "live" /\ UNCHANGED flags
      /\ ~Matches(flags[f].pattern, w.bits, w.mode) /\ Block(x, d)
  BY DEF WaitEventFlagBlocks, MayWait, InGuest, FlagLive
<1>2. x.bits = w.bits /\ x.mode = w.mode /\ x.object = f /\ w.bits # {}
  BY EventFlagAssumption DEF WaitFor
<1> HIDE DEF x
<1> SUFFICES ASSUME NEW g \in Flags, NEW t \in Uids, WaitsOn(t, g)'
             PROVE  /\ wait'[t].bits # {} /\ flags'[g].life # "unused"
                    /\ ~HasMatch(t, g)'
  BY DEF FlagWaits, AllScanned, HasMatch
<1>3. (status'[t] = status[t] /\ wait'[t] = wait[t]) \/ wait'[t] = x
  BY <1>1, FlagTypes DEF Block
<1>4. CASE wait'[t] = x
  <2>1. g = f
    BY <1>2, <1>4 DEF WaitsOn
  <2> QED BY <1>1, <1>2, <1>4, <2>1 DEF HasMatch
<1>5. CASE status'[t] = status[t] /\ wait'[t] = wait[t]
  <2>1. WaitsOn(t, g)
    BY <1>5 DEF WaitsOn, IsWaiting
  <2>2. ~HasMatch(t, g)
    BY <1>1 DEF FlagInv, AllScanned, StillScanned
  <2> QED BY <1>1, <1>5, <2>1, <2>2 DEF FlagInv, FlagWaits, HasMatch
<1> QED BY <1>3, <1>4, <1>5

\* One turn of the scan.
LEMMA TurnScanned ==
    ASSUME FlagInv, NEW f \in Flags, ReleaseFlag(f), UNCHANGED <<phase, target>>,
           \A g \in Flags, t \in Uids : WaitsOn(t, g)' => WaitsOn(t, g) /\ wait'[t] = wait[t],
           NEW p \in SUBSET flags[f].pattern, flags' = [flags EXCEPT ![f].pattern = p],
           \A t \in Uids : HasMatch(t, f)' => t # Scanned(f),
           \/ cursor' = cursor /\ DropScanned(f)
           \/ cursor' = cursor + 1 /\ UNCHANGED waiters
    PROVE  FlagWaits' /\ AllScanned'
<1>0. /\ cursor \in Nat \ {0} /\ waiters[f] \in Seq(Uids \cup {Nobody}) /\ f \in Objects
      /\ Len(waiters[f]) \in Nat /\ DOMAIN waiters[f] = 1..Len(waiters[f])
  BY FlagTypes, LenProperties
<1>1. phase = "release" /\ target = f /\ cursor \in DOMAIN waiters[f]
  BY <1>0 DEF ReleaseFlag
<1>2. \A g \in Flags : /\ flags'[g].pattern \in SUBSET flags[g].pattern
                       /\ flags'[g].life = flags[g].life
  BY FlagTypes
<1>4. FlagWaits'
  BY <1>2 DEF FlagInv, FlagWaits
<1>5. ASSUME NEW g \in Flags, NEW t \in Uids, HasMatch(t, g)'
      PROVE  StillScanned(t, g)'
  <2>1. WaitsOn(t, g) /\ wait'[t] = wait[t]
    BY <1>5 DEF HasMatch
  <2>2. HasMatch(t, g)
    BY <1>2, <1>5, <2>1, MatchesLess DEF HasMatch
  <2>3. g = f
    BY <1>1, <2>2 DEF FlagInv, AllScanned, StillScanned
  <2>4. PICK i \in DOMAIN waiters[f] : cursor <= i /\ waiters[f][i] = t
    BY <2>2, <2>3 DEF FlagInv, AllScanned, StillScanned
  <2>5. i # cursor
    BY <1>5, <2>3, <2>4 DEF Scanned
  <2>6. i > cursor /\ i - 1 >= cursor /\ i >= cursor + 1
    BY <1>0, <2>4, <2>5
  <2>7. CASE cursor' = cursor /\ DropScanned(f)
    <3>1. waiters'[f] = Dropped(waiters[f], cursor)
      BY <1>0, <2>7, WaitingTypes DEF DropScanned, Dropped, FlagInv, ListedInv, LoopInv, RunInv
    <3>2. i - 1 \in DOMAIN Dropped(waiters[f], cursor) /\ Dropped(waiters[f], cursor)[i - 1] = t
      BY SMTT(30), <1>0, <1>1, <2>4, <2>6, DroppedKeeps
    <3> QED BY <1>1, <2>3, <2>6, <2>7, <3>1, <3>2 DEF StillScanned
  <2>8. CASE cursor' = cursor + 1 /\ UNCHANGED waiters
    BY <1>1, <2>3, <2>4, <2>6, <2>8 DEF StillScanned
  <2> QED BY <2>7, <2>8
<1> QED BY <1>4, <1>5 DEF AllScanned

LEMMA FlagsScanned ==
    ASSUME FlagInv, EventFlagsNext
    PROVE  FlagWaits' /\ AllScanned'
<1> PICK f \in Flags :
        \/ \E multi \in BOOLEAN, pattern \in SUBSET Bits : CreateEventFlag(f, multi, pattern)
        \/ DeleteEventFlag(f)
        \/ \E bits \in SUBSET Bits : SetEventFlag(f, bits) \/ ClearEventFlag(f, bits)
        \/ FlagDropsStale(f) \/ FlagSkips(f) \/ FlagWakes(f) \/ FlagReleased(f)
        \/ \E w \in Wanted : PollEventFlag(f, w) \/ WaitEventFlagTakes(f, w)
        \/ \E w \in Wanted, d \in Timeouts \cup {Never}, cb \in BOOLEAN :
              WaitEventFlagBlocks(f, w, d, cb)
  BY DEF EventFlagsNext
<1>1. ASSUME NEW bits \in SUBSET Bits, ClearEventFlag(f, bits)
      PROVE  FlagWaits' /\ AllScanned'
  <2> DEFINE p == flags[f].pattern \cap bits
  <2>1. /\ flags' = [flags EXCEPT ![f].pattern = p]
        /\ phase = "guest" /\ UNCHANGED <<status, wait>>
    BY <1>1 DEF ClearEventFlag, InGuest, threadVars
  <2>2. p \in SUBSET flags[f].pattern
    OBVIOUS
  <2> HIDE DEF p
  <2> QED BY <2>1, <2>2, TakeFlagScanned
<1>2. ASSUME NEW w \in Wanted, PollEventFlag(f, w) \/ WaitEventFlagTakes(f, w)
      PROVE  FlagWaits' /\ AllScanned'
  <2> DEFINE p == AfterMatch(flags[f].pattern, w.bits, w.mode)
  <2>1. /\ flags' = [flags EXCEPT ![f].pattern = p]
        /\ phase = "guest" /\ UNCHANGED <<status, wait>>
    BY <1>2 DEF PollEventFlag, WaitEventFlagTakes, TakeFlag, InGuest, MayWait, threadVars
  <2>2. p \in SUBSET flags[f].pattern
    BY AfterMatchLess
  <2> HIDE DEF p
  <2> QED BY <2>1, <2>2, TakeFlagScanned
<1>3. CASE FlagDropsStale(f)
  <2>1. /\ ReleaseFlag(f) /\ UNCHANGED <<phase, target, cursor, status, wait, flags>> /\ DropScanned(f)
        /\ ~IsWaiting(Scanned(f))
    BY <1>3 DEF FlagDropsStale, loopVars, threadVars
  <2>2. \A g \in Flags, t \in Uids : WaitsOn(t, g)' => WaitsOn(t, g) /\ wait'[t] = wait[t]
    BY <2>1 DEF WaitsOn, IsWaiting
  <2>3. \A t \in Uids : HasMatch(t, f)' => t # Scanned(f)
    BY <2>1 DEF HasMatch, WaitsOn, IsWaiting
  <2>4. flags' = [flags EXCEPT ![f].pattern = flags[f].pattern]
    BY <2>1, FlagTypes
  <2> QED BY <2>1, <2>2, <2>3, <2>4, TurnScanned
<1>4. CASE FlagSkips(f)
  <2>1. /\ ReleaseFlag(f) /\ UNCHANGED <<phase, target, status, wait, flags, waiters>>
        /\ cursor' = cursor + 1 /\ ~ScannedMatches(f)
    BY <1>4 DEF FlagSkips, threadVars
  <2>2. \A t \in Uids : HasMatch(t, f)' => t # Scanned(f)
    BY <2>1 DEF HasMatch, ScannedMatches
  <2>3. \A g \in Flags, t \in Uids : WaitsOn(t, g)' => WaitsOn(t, g) /\ wait'[t] = wait[t]
    BY <2>1 DEF WaitsOn, IsWaiting
  <2>4. flags' = [flags EXCEPT ![f].pattern = flags[f].pattern]
    BY <2>1, FlagTypes
  <2> QED BY <2>1, <2>2, <2>3, <2>4, TurnScanned
<1>5. CASE FlagWakes(f)
  <2> DEFINE w == wait[Scanned(f)]
             p == AfterMatch(flags[f].pattern, w.bits, w.mode)
  <2>1. /\ ReleaseFlag(f) /\ UNCHANGED <<phase, target, cursor>> /\ DropScanned(f)
        /\ flags' = [flags EXCEPT ![f].pattern = p] /\ MakeReady(<<Scanned(f)>>)
    BY <1>5 DEF FlagWakes, loopVars
  <2>2. p \in SUBSET flags[f].pattern
    BY AfterMatchLess
  <2>3. OnlyEnds({Scanned(f)})
    BY <2>1, OneMadeReadyEnds
  <2>4. \A t \in Uids : HasMatch(t, f)' => t # Scanned(f)
    BY <2>3 DEF HasMatch, WaitsOn, OnlyEnds, OnObject
  <2>5. \A g \in Flags, t \in Uids : WaitsOn(t, g)' => WaitsOn(t, g) /\ wait'[t] = wait[t]
    BY <2>3 DEF WaitsOn, OnlyEnds, OnObject
  <2> HIDE DEF p
  <2> QED BY <2>1, <2>2, <2>4, <2>5, TurnScanned
<1>6. CASE FlagReleased(f)
  <2>1. /\ phase = "release" /\ target = f /\ cursor > Len(waiters[f])
        /\ UNCHANGED <<status, wait, flags>>
    BY <1>6 DEF FlagReleased, threadVars
  <2>2. DOMAIN waiters[f] = 1..Len(waiters[f]) /\ Len(waiters[f]) \in Nat /\ cursor \in Nat
    BY FlagTypes, LenProperties
  <2>3. \A g \in Flags, t \in Uids : ~HasMatch(t, g)
    BY <2>1, <2>2 DEF FlagInv, AllScanned, StillScanned
  <2>4. \A g \in Flags, t \in Uids : WaitsOn(t, g)' => WaitsOn(t, g)
    BY <2>1 DEF WaitsOn, IsWaiting
  <2>5. \A g \in Flags, t \in Uids : ~HasMatch(t, g)'
    BY <2>1, <2>3, <2>4 DEF HasMatch
  <2>6. FlagWaits'
    BY <2>1, <2>4 DEF FlagInv, FlagWaits
  <2>7. AllScanned'
    BY <2>5 DEF AllScanned
  <2> QED BY <2>6, <2>7
<1> QED BY <1>1, <1>2, <1>3, <1>4, <1>5, <1>6, CreateFlagScanned, DeleteFlagScanned, SetFlagScanned,
           BlockFlagScanned

LEMMA StepScanned == FlagInv /\ [Next]_vars => FlagInv'
<1> SUFFICES ASSUME FlagInv, [Next]_vars PROVE FlagInv'
  OBVIOUS
<1>1. ListedInv' /\ LoopInv
  BY StepListed DEF FlagInv, ListedInv
<1>2. CASE UNCHANGED vars \/ (Stopped /\ UNCHANGED objectVars)
  <2>1. UNCHANGED <<flags, status, wait, waiters, phase, target, cursor>>
    BY <1>2 DEF vars, objectVars, Stopped, schedulerVars, threadVars, loopVars
  <2>2. \A f \in Flags, t \in Uids : WaitsOn(t, f)' => WaitsOn(t, f)
    BY <2>1 DEF WaitsOn, IsWaiting
  <2>3. FlagWaits'
    BY <2>1, <2>2 DEF FlagInv, FlagWaits
  <2>4. \A f \in Flags, t \in Uids : HasMatch(t, f)' => StillScanned(t, f)
    BY <2>1, <2>2 DEF FlagInv, AllScanned, HasMatch
  <2>5. AllScanned'
    BY <2>1, <2>4 DEF AllScanned, StillScanned
  <2> QED BY <1>1, <2>3, <2>5 DEF FlagInv
<1>3. CASE (SchedulerNext \/ ThreadsNext \/ KernelEventsNext) /\ UNCHANGED objectVars
  <2>1. phase # "release" /\ UNCHANGED flags
    BY <1>3, LoopsAlone DEF objectVars
  <2>2. ListKinds(Objects, {}) \/ ListKinds({}, {})
    BY <1>1, <1>3, SchedulerKinds, ThreadsKinds, EventCallKinds
  <2>3. FlagWaits' /\ AllScanned'
    BY <2>1, <2>2, FlagsApart
  <2> QED BY <1>1, <2>3 DEF FlagInv
<1>4. CASE (SemaphoresNext \/ MutexesNext) /\ UNCHANGED flags
  <2>1. ListKinds(Semas, Semas) \/ ListKinds(Locks, Locks)
    BY <1>1, <1>4, SemaphoresLists, MutexesLists
  <2>2. phase = "release" => target \notin Flags
    BY <1>4, OwnLoop, ObjectsApart
  <2>3. FlagWaits' /\ AllScanned'
    BY <1>4, <2>1, <2>2, FlagsApart, ObjectsApart
  <2> QED BY <1>1, <2>3 DEF FlagInv
<1>5. CASE EventFlagsNext
  BY <1>1, <1>5, FlagsScanned DEF FlagInv
<1>6. ObjectStep => EventFlagsNext \/ ((SemaphoresNext \/ MutexesNext) /\ UNCHANGED flags)
  BY DEF ObjectStep
<1> QED BY <1>2, <1>3, <1>4, <1>5, <1>6 DEF Next

\* The scan of an event flag's waiters misses none: once it is over no waiter's
\* condition holds, although each match may have cleared bits on the way.
THEOREM KernelNoFlagMissed == Spec => []NoFlagMissed
<1>1. Init => FlagInv
  <2> SUFFICES ASSUME Init PROVE FlagInv
    OBVIOUS
  <2>1. \A t \in Uids, o \in Objects : ~WaitsOn(t, o)
    BY DEF Init, SchedulerInit, WaitsOn, IsWaiting
  <2>2. ListedInv
    BY <2>1, InitLoops DEF ListedInv, WaitingIsListed
  <2> QED BY <2>1, <2>2, ObjectsApart DEF FlagInv, FlagWaits, AllScanned, HasMatch
<1>2. FlagInv => NoFlagMissed
  BY DEF FlagInv, AllScanned, HasMatch, StillScanned, NoFlagMissed
<1> QED BY <1>1, <1>2, StepScanned, PTL DEF Spec

-----------------------------------------------------------------------------
(* A program that releases no thread from its wait, and makes no waiting    *)
(* call from a handler.  The kernel's lists then hold exactly the threads   *)
(* that wait, and semaphores and mutexes keep their books.                  *)

Tidy == "release wait" \notin Uses /\ "handler wait" \notin Uses

EntriesWait == \A o \in Objects :
    /\ \A t \in Range(waiters[o]) : WaitsOn(t, o)
    /\ \A i, j \in DOMAIN waiters[o] : waiters[o][i] = waiters[o][j] => i = j
ConsistentInv == ListedInv /\ Taken /\ EntriesWait

Distinct(q) == \A i, j \in DOMAIN q : q[i] = q[j] => i = j

\* A list that names no thread twice, without some of its threads.
LEMMA WithoutDistinct ==
    ASSUME NEW T, NEW q \in Seq(T), NEW S, Distinct(q)
    PROVE  Range(Without(q, S)) \subseteq Range(q) \ S /\ Distinct(Without(q, S))
  BY WithoutProperties, WithoutComplete DEF Range, Distinct

LEMMA DroppedDistinct ==
    ASSUME NEW T, NEW q \in Seq(T), NEW i \in DOMAIN q, Distinct(q)
    PROVE  Range(Dropped(q, i)) \subseteq Range(q) \ {q[i]} /\ Distinct(Dropped(q, i))
<1> DEFINE r == Dropped(q, i)
<1>1. \A k \in DOMAIN r : \E j \in DOMAIN q : j # i /\ r[k] = q[j]
  BY DroppedKeeps
<1>2. Distinct(r)
  BY DroppedKeeps DEF Distinct
<1> HIDE DEF r
<1>3. \A t \in Range(r) : t \in Range(q) /\ t # q[i]
  BY <1>1 DEF Range, Distinct
<1> QED BY <1>2, <1>3 DEF r

\* The waiter that called last is at the end.
LEMMA AppendDistinct ==
    ASSUME NEW T, NEW q \in Seq(T), NEW t \in T, t \notin Range(q), Distinct(q)
    PROVE  Range(Append(q, t)) \subseteq Range(q) \cup {t} /\ Distinct(Append(q, t))
<1> DEFINE n == Len(q)
           r == Append(q, t)
<1>1. n \in Nat /\ DOMAIN q = 1..n
  BY LenProperties
<1>2. r \in Seq(T) /\ Len(r) = n + 1 /\ (\A i \in 1..n : r[i] = q[i]) /\ r[n + 1] = t
  BY AppendProperties
<1>3. DOMAIN r = 1..n + 1
  BY <1>2, LenProperties
<1>0. \A i \in 1..n : q[i] # t
  BY <1>1 DEF Range
<1> HIDE DEF r, n
<1>4. \A k \in 1..n + 1 : k \in 1..n \/ k = n + 1
  BY <1>1
<1>5. \A k \in DOMAIN r : r[k] = t \/ \E i \in DOMAIN q : r[k] = q[i]
  BY <1>1, <1>2, <1>3, <1>4
<1>6. ASSUME NEW k \in DOMAIN r, NEW l \in DOMAIN r, r[k] = r[l]
      PROVE  k = l
  <2>1. CASE k \in 1..n /\ l \in 1..n
    BY <1>1, <1>2, <1>6, <2>1 DEF Distinct
  <2>2. CASE k = n + 1 /\ l \in 1..n
    BY <1>0, <1>2, <1>6, <2>2
  <2>3. CASE k \in 1..n /\ l = n + 1
    BY <1>0, <1>2, <1>6, <2>3
  <2> QED BY <1>3, <1>4, <2>1, <2>2, <2>3
<1> QED BY <1>5, <1>6 DEF r, Range, Distinct

LEMMA StepConsistent ==
    ASSUME Tidy, ConsistentInv, [Next]_vars
    PROVE  ConsistentInv'
<1>1. ListKinds(Objects, Objects) /\ ListedInv' /\ Taken'
  BY StepLists, StepListed, StepTaken DEF ConsistentInv, ListedInv, LoopInv, RunInv, TakenInv
<1>2. /\ waiters \in [Objects -> Seq(Uids \cup {Nobody})]
      /\ wait \in [Uids -> Waits] /\ status \in [Uids -> Statuses]
      /\ current \in Uids \cup {Nobody}
  BY WaitingTypes DEF ConsistentInv, ListedInv, LoopInv, RunInv
<1> SUFFICES ASSUME NEW o \in Objects
             PROVE  (\A t \in Range(waiters'[o]) : WaitsOn(t, o)') /\ Distinct(waiters'[o])
  BY <1>1 DEF ConsistentInv, EntriesWait, Distinct
<1> DEFINE q == waiters[o]
<1>3. /\ q \in Seq(Uids \cup {Nobody})
      /\ \A t \in Range(q) : WaitsOn(t, o)
      /\ Distinct(q)
  BY <1>2 DEF ConsistentInv, EntriesWait, Distinct
<1>4. \A S : OnlyEnds(S) => \A t : WaitsOn(t, o) /\ t \notin S => WaitsOn(t, o)'
  BY DEF OnlyEnds, WaitsOn, OnObject, IsWaiting
<1>5. CASE KeepsLists
  BY <1>3, <1>4, <1>5 DEF KeepsLists
<1>6. CASE EndsWaits
  <2>1. PICK S \in SUBSET Uids : OnlyEnds(S) /\ RemoveWaiters(S)
    BY <1>6 DEF EndsWaits
  <2> DEFINE G == {u \in S : wait[u].type \in ObjectWaits /\ wait[u].object = o}
  <2>2. waiters'[o] = Without(q, G)
    BY <2>1 DEF RemoveWaiters
  <2>3. \A t \in Range(q) : t \in S => t \in G
    BY <1>3 DEF WaitsOn
  <2> HIDE DEF G, q
  <2>4. Range(Without(q, G)) \subseteq Range(q) \ G /\ Distinct(Without(q, G))
    BY <1>3, WithoutDistinct
  <2> QED BY <1>3, <1>4, <2>1, <2>2, <2>3, <2>4
<1>7. CASE DropsEntry(Objects)
  <2>1. PICK i \in DOMAIN waiters[target] :
            /\ target \in Objects
            /\ OnlyEnds({waiters[target][i]})
            /\ waiters' = [waiters EXCEPT ![target] = Dropped(@, i)]
    BY <1>7 DEF DropsEntry
  <2>2. CASE o # target
    <3>1. waiters'[o] = q
      BY <1>2, <2>1, <2>2
    <3>2. WaitsOn(waiters[target][i], target)
      BY <2>1 DEF ConsistentInv, EntriesWait, Range
    <3>3. \A t \in Range(q) : t # waiters[target][i]
      BY <1>3, <2>2, <3>2 DEF WaitsOn
    <3> QED BY <1>3, <1>4, <2>1, <3>1, <3>3
  <2>3. CASE o = target
    <3>1. waiters'[o] = Dropped(q, i) /\ i \in DOMAIN q
      BY <1>2, <2>1, <2>3
    <3>2. OnlyEnds({q[i]})
      BY <2>1, <2>3
    <3> HIDE DEF q
    <3>3. Range(Dropped(q, i)) \subseteq Range(q) \ {q[i]} /\ Distinct(Dropped(q, i))
      BY <1>3, <3>1, DroppedDistinct
    <3> QED BY <1>3, <1>4, <3>1, <3>2, <3>3
  <2> QED BY <2>2, <2>3
<1>8. CASE JoinsList(Objects)
  <2>1. PICK p \in Objects, w \in Waits, d \in Timeouts \cup {Never} :
            w.type \in ObjectWaits /\ w.object = p /\ JoinWaiters(p) /\ Block(w, d)
    BY <1>8 DEF JoinsList
  <2>2. handler = NoCall /\ phase = "guest" /\ current # Nobody
    BY <1>8 DEF Tidy, JoinsList, MayWait, InGuest, ConsistentInv, Taken, SomeoneRuns
  <2>3. PICK c \in Uids : c = current /\ status[c] = "Running"
    BY <1>2, <2>2 DEF ConsistentInv, ListedInv, LoopInv, RunInv, ThreadsInv, OneRunning
  <2>4. status' = [status EXCEPT ![c] = "Waiting"] /\ wait' = [wait EXCEPT ![c] = w]
    BY <2>1, <2>2, <2>3 DEF Block
  <2>5. \A t \in Range(q) : t # c /\ WaitsOn(t, o)'
    BY <1>2, <1>3, <2>3, <2>4 DEF WaitsOn, IsWaiting
  <2>6. waiters' = [waiters EXCEPT ![p] = Append(@, c)]
    BY <2>1, <2>3 DEF JoinWaiters
  <2>7. CASE o # p
    <3>1. waiters'[o] = q
      BY <1>2, <2>6, <2>7
    <3> QED BY <1>3, <2>5, <3>1
  <2>8. CASE o = p
    <3>1. waiters'[o] = Append(q, c)
      BY <1>2, <2>6, <2>8
    <3>2. WaitsOn(c, o)'
      BY <1>2, <2>1, <2>3, <2>4, <2>8 DEF WaitsOn, IsWaiting
    <3> HIDE DEF q
    <3>3. Range(Append(q, c)) \subseteq Range(q) \cup {c} /\ Distinct(Append(q, c))
      BY <1>2, <1>3, <2>5, AppendDistinct
    <3> QED BY <2>5, <3>1, <3>2, <3>3
  <2> QED BY <2>7, <2>8
<1> QED BY <1>1, <1>5, <1>6, <1>7, <1>8 DEF ListKinds, LeavesEntry, Tidy

LEMMA InitConsistent == Init => ConsistentInv
<1> SUFFICES ASSUME Init PROVE ConsistentInv
  OBVIOUS
<1>1. \A t \in Uids, o \in Objects : ~WaitsOn(t, o)
  BY DEF Init, SchedulerInit, WaitsOn, IsWaiting
<1>2. ListedInv
  BY <1>1, InitLoops DEF ListedInv, WaitingIsListed
<1>3. \A o \in Objects : waiters[o] = <<>> /\ DOMAIN waiters[o] = {}
  BY DEF Init, SchedulerInit
<1>4. EntriesWait
  BY <1>3 DEF EntriesWait, Range
<1> QED BY <1>2, <1>4, InitTaken DEF ConsistentInv, TakenInv

\* Every wait, timeout, termination, grant and deletion keeps the waiter lists
\* and the wait records in step, in a program that releases no thread from its
\* wait (sceKernelReleaseWaitThread leaves the entry) and makes no waiting call
\* from a handler (the call joins the list and then fails).
THEOREM KernelWaitersConsistent == Tidy => (Spec => []WaitersConsistent)
<1> SUFFICES ASSUME Tidy PROVE Spec => []WaitersConsistent
  OBVIOUS
<1>1. ConsistentInv /\ [Next]_vars => ConsistentInv'
  BY StepConsistent
<1>2. ConsistentInv => WaitersConsistent
  BY DEF ConsistentInv, EntriesWait, ListedInv, WaitingIsListed, WaitersConsistent, Range
<1> QED BY InitConsistent, <1>1, <1>2, PTL DEF Spec

-----------------------------------------------------------------------------
(* Semaphores.  What a waiter wants is possible, so that while one waits    *)
(* and no release loop runs the count is below max_count.                   *)

SemaWaits == \A s \in Semas, t \in Uids : WaitsOn(t, s) =>
    /\ wait[t].count \in Nat \ {0}
    /\ semas[s].life # "unused"
    /\ SemaLive(s) => wait[t].count <= semas[s].max
SemaInv == ConsistentInv /\ SemaWaits /\ SemaCountInRange

LEMMA SemaTypes ==
    ASSUME SemaInv
    PROVE  /\ semas \in [Semas -> [life : Lives, count : Nat, max : 1..MaxCount]]
           /\ status \in [Uids -> Statuses] /\ wait \in [Uids -> Waits]
           /\ waiters \in [Objects -> Seq(Uids \cup {Nobody})] /\ TypeInv
           /\ \A s \in Semas : /\ s \in Objects /\ waiters[s] \in Seq(Uids \cup {Nobody})
                               /\ Len(waiters[s]) \in Nat
                               /\ semas[s].count \in Nat /\ semas[s].max \in Nat
  BY WaitingTypes, ObjectsApart, LenProperties
     DEF SemaInv, ConsistentInv, ListedInv, LoopInv, RunInv, TypeInv, TypeOK, ObjectsTypeOK

LEMMA WaitersLen ==
    ASSUME TypeInv', NEW s \in Objects
    PROVE  Len(waiters'[s]) \in Nat
  BY LenProperties DEF TypeInv, TypeOK

\* A step that is not one of the semaphores.
LEMMA SemasApart ==
    ASSUME SemaInv, UNCHANGED semas, NEW D, NEW J, \A s \in Semas : s \notin J, ListKinds(D, J),
           phase = "release" => target \notin Semas, TypeInv'
    PROVE  SemaWaits' /\ SemaCountInRange'
<1>1. ASSUME NEW s \in Semas, NEW t \in Uids, WaitsOn(t, s)'
      PROVE  WaitsOn(t, s) /\ wait'[t] = wait[t]
  BY <1>1, SemaTypes, WaitsApart
<1>2. SemaWaits'
  BY <1>1 DEF SemaInv, SemaWaits, SemaLive
<1>3. ASSUME NEW s \in Semas, SemaLive(s)
      PROVE  semas[s].count <= semas[s].max /\ semas[s].count - Len(waiters'[s]) <= semas[s].max
  <2>1. semas[s].count <= semas[s].max
    BY <1>3 DEF SemaInv, SemaCountInRange
  <2>2. Len(waiters'[s]) \in Nat
    BY SemaTypes, WaitersLen
  <2> QED BY <2>1, <2>2, SemaTypes
<1> QED BY <1>2, <1>3 DEF SemaCountInRange, SemaLive

\* A step of the semaphore s that leaves the other semaphores as they are.
LEMMA SemasOthers ==
    ASSUME SemaInv, NEW s \in Semas,
           \A r \in Semas : r # s => semas'[r] = semas[r] /\ waiters'[r] = waiters[r],
           phase \in {"release", "cancel"} => target = s
    PROVE  \A r \in Semas : r # s /\ SemaLive(r)' =>
              /\ semas'[r].count - Len(waiters'[r]) <= semas'[r].max
              /\ semas'[r].count <= semas'[r].max
<1> SUFFICES ASSUME NEW r \in Semas, r # s, SemaLive(r)'
             PROVE  /\ semas[r].count - Len(waiters[r]) <= semas[r].max
                    /\ semas[r].count <= semas[r].max
  OBVIOUS
<1>1. SemaLive(r)
  BY DEF SemaLive
<1> QED BY <1>1 DEF SemaInv, SemaCountInRange

LEMMA CreateSemaCounts ==
    ASSUME SemaInv, NEW s \in Semas, NEW max \in 1..MaxCount, NEW initial \in 0..max,
           CreateSema(s, initial, max)
    PROVE  SemaWaits' /\ SemaCountInRange'
<1> DEFINE new == [life |-> "live", count |-> initial, max |-> max]
<1>1. /\ semas' = [semas EXCEPT ![s] = new] /\ semas[s].life = "unused" /\ phase = "guest"
      /\ UNCHANGED <<status, wait, waiters>> /\ initial <= max
  BY DEF CreateSema, InThread, threadVars
<1>2. \A t \in Uids : ~WaitsOn(t, s)
  BY <1>1 DEF SemaInv, SemaWaits
<1>3. semas'[s] = new /\ \A r \in Semas : r # s => semas'[r] = semas[r]
  BY <1>1, SemaTypes
<1>4. \A r \in Semas, t \in Uids : WaitsOn(t, r)' => WaitsOn(t, r) /\ r # s
  BY <1>1, <1>2 DEF WaitsOn, IsWaiting
<1>5. SemaWaits'
  BY <1>1, <1>3, <1>4 DEF SemaInv, SemaWaits, SemaLive
<1>6. new.count = initial /\ new.max = max /\ initial \in Nat /\ max \in Nat
  BY SemaphoreAssumption
<1> HIDE DEF new
<1>7. semas'[s].count <= semas'[s].max /\ semas'[s].count - Len(waiters'[s]) <= semas'[s].max
  BY <1>1, <1>3, <1>6, SemaTypes
<1>8. SemaCountInRange'
  BY <1>1, <1>3, <1>7, SemasOthers DEF SemaCountInRange
<1> QED BY <1>5, <1>8

LEMMA DeleteSemaCounts ==
    ASSUME SemaInv, NEW s \in Semas, DeleteSema(s)
    PROVE  SemaWaits' /\ SemaCountInRange'
<1> DEFINE new == [NoSema EXCEPT !.life = "deleted"]
<1>1. /\ semas' = [semas EXCEPT ![s] = new] /\ phase = "guest"
      /\ UNCHANGED <<status, wait, waiters>>
  BY DEF DeleteSema, InThread, threadVars
<1>2. new.life = "deleted"
  BY DEF NoSema
<1> HIDE DEF new
<1>3. semas'[s] = new /\ \A r \in Semas : r # s => semas'[r] = semas[r]
  BY <1>1, SemaTypes
<1>4. \A r \in Semas, t \in Uids : WaitsOn(t, r)' => WaitsOn(t, r)
  BY <1>1 DEF WaitsOn, IsWaiting
<1>5. ~SemaLive(s)' /\ semas'[s].life # "unused"
  BY <1>2, <1>3 DEF SemaLive
<1>6. SemaWaits'
  BY <1>1, <1>3, <1>4, <1>5 DEF SemaInv, SemaWaits, SemaLive
<1>7. SemaCountInRange'
  BY <1>1, <1>3, <1>5, SemasOthers DEF SemaCountInRange
<1> QED BY <1>6, <1>7

\* A step that changes the count of s and nothing else of the semaphores.
LEMMA SameLimits ==
    ASSUME SemaInv, NEW s \in Semas, NEW n, semas' = [semas EXCEPT ![s].count = n],
           \A r \in Semas, t \in Uids : WaitsOn(t, r)' => WaitsOn(t, r) /\ wait'[t] = wait[t]
    PROVE  /\ SemaWaits' /\ semas'[s].count = n /\ semas'[s].max = semas[s].max
           /\ SemaLive(s)' <=> SemaLive(s)
           /\ \A r \in Semas : r # s => semas'[r] = semas[r]
<1>1. /\ semas'[s].count = n /\ semas'[s].max = semas[s].max /\ semas'[s].life = semas[s].life
      /\ \A r \in Semas : r # s => semas'[r] = semas[r]
  BY SemaTypes
<1>2. \A r \in Semas : semas'[r].max = semas[r].max /\ semas'[r].life = semas[r].life
  BY <1>1
<1>3. SemaWaits'
  BY <1>2 DEF SemaInv, SemaWaits, SemaLive
<1> QED BY <1>1, <1>3 DEF SemaLive

LEMMA SignalSemaCounts ==
    ASSUME SemaInv, NEW s \in Semas, NEW signal \in 1..MaxSignal, SignalSema(s, signal)
    PROVE  SemaWaits' /\ SemaCountInRange'
<1> DEFINE n == semas[s].count + signal
<1>1. /\ semas' = [semas EXCEPT ![s].count = n] /\ phase = "guest" /\ phase' = "release" /\ target' = s
      /\ UNCHANGED <<status, wait, waiters>>
  BY DEF SignalSema, InGuest, threadVars
<1>0. n - Len(waiters[s]) <= semas[s].max
  <2>1. semas[s].count + signal - Len(waiters[s]) <= semas[s].max
    BY DEF SignalSema, SignalFits
  <2>2. signal \in Nat
    BY SemaphoreAssumption
  <2> QED BY <2>1, <2>2, SemaTypes
<1> HIDE DEF n
<1>2. \A r \in Semas, t \in Uids : WaitsOn(t, r)' => WaitsOn(t, r) /\ wait'[t] = wait[t]
  BY <1>1 DEF WaitsOn, IsWaiting
<1>3. /\ SemaWaits' /\ semas'[s].count = n /\ semas'[s].max = semas[s].max
      /\ \A r \in Semas : r # s => semas'[r] = semas[r]
  BY <1>1, <1>2, SameLimits
<1>4. semas'[s].count - Len(waiters'[s]) <= semas'[s].max
  BY <1>0, <1>1, <1>3
<1> QED BY <1>1, <1>3, <1>4, SemasOthers DEF SemaCountInRange

LEMMA TakeSemaCounts ==
    ASSUME SemaInv, phase = "guest", NEW s \in Semas, NEW wanted \in 1..MaxCount, TakeSema(s, wanted)
    PROVE  SemaWaits' /\ SemaCountInRange'
<1> DEFINE n == semas[s].count - wanted
<1>1. /\ semas' = [semas EXCEPT ![s].count = n] /\ UNCHANGED <<status, wait, waiters>> /\ SemaLive(s)
  BY DEF TakeSema, threadVars
<1>2. semas[s].count <= semas[s].max
  BY <1>1 DEF SemaInv, SemaCountInRange
<1>3. n <= semas[s].max /\ n - Len(waiters[s]) <= semas[s].max
  BY <1>2, SemaTypes
<1> HIDE DEF n
<1>4. \A r \in Semas, t \in Uids : WaitsOn(t, r)' => WaitsOn(t, r) /\ wait'[t] = wait[t]
  BY <1>1 DEF WaitsOn, IsWaiting
<1>5. /\ SemaWaits' /\ semas'[s].count = n /\ semas'[s].max = semas[s].max
      /\ \A r \in Semas : r # s => semas'[r] = semas[r]
  BY <1>1, <1>4, SameLimits
<1>6. semas'[s].count <= semas'[s].max /\ semas'[s].count - Len(waiters'[s]) <= semas'[s].max
  BY <1>1, <1>3, <1>5
<1> QED BY <1>1, <1>5, <1>6, SemasOthers DEF SemaCountInRange

\* The first of the waiters waits, in a tidy program.
LEMMA HeadWaits ==
    ASSUME ConsistentInv, NEW o \in Objects, waiters[o] # <<>>
    PROVE  /\ Head(waiters[o]) \in Uids /\ WaitsOn(Head(waiters[o]), o)
           /\ waiters[o] \in Seq(Uids \cup {Nobody})
<1>1. TypeInv
  BY DEF ConsistentInv, ListedInv, LoopInv, RunInv
<1>2. 1 \in DOMAIN waiters[o] /\ Head(waiters[o]) = waiters[o][1]
  BY <1>1, HeadDropped
<1>3. WaitsOn(Head(waiters[o]), o)
  BY <1>2 DEF ConsistentInv, EntriesWait, Range
<1> QED BY <1>1, <1>3, WaitingTypes DEF WaitsOn, IsWaiting

LEMMA GrantSemaCounts ==
    ASSUME SemaInv, NEW s \in Semas, SemaGrants(s)
    PROVE  SemaWaits' /\ SemaCountInRange'
<1> DEFINE c == wait[Head(waiters[s])].count
           n == semas[s].count - c
<1>1. /\ semas' = [semas EXCEPT ![s].count = n] /\ phase = "release" /\ target = s
      /\ phase' = "release" /\ target' = s
      /\ waiters[s] # <<>> /\ waiters' = [waiters EXCEPT ![s] = Tail(@)]
      /\ MakeReady(<<Head(waiters[s])>>)
  BY DEF SemaGrants, ReleaseSema, loopVars
<1>2. c \in Nat \ {0}
  BY <1>1, HeadWaits, SemaTypes DEF SemaInv, SemaWaits
<1>3. Len(waiters'[s]) = Len(waiters[s]) - 1
  BY <1>1, SemaTypes, HeadTailProperties
<1>4. SemaLive(s) => n - Len(waiters'[s]) <= semas[s].max
  <2>1. SemaLive(s) => semas[s].count - Len(waiters[s]) <= semas[s].max
    BY DEF SemaInv, SemaCountInRange
  <2> QED BY <1>2, <1>3, <2>1, SemaTypes
<1> HIDE DEF n, c
<1>5. \A r \in Semas, t \in Uids : WaitsOn(t, r)' => WaitsOn(t, r) /\ wait'[t] = wait[t]
  <2>1. OnlyEnds({Head(waiters[s])})
    BY <1>1, OneMadeReadyEnds
  <2> QED BY <2>1 DEF OnlyEnds, OnObject, WaitsOn
<1>6. /\ SemaWaits' /\ semas'[s].count = n /\ semas'[s].max = semas[s].max
      /\ SemaLive(s)' <=> SemaLive(s)
      /\ \A r \in Semas : r # s => semas'[r] = semas[r]
  BY <1>1, <1>5, SameLimits
<1>7. SemaLive(s)' => semas'[s].count - Len(waiters'[s]) <= semas'[s].max
  BY <1>4, <1>6
<1>8. \A r \in Semas : r # s => waiters'[r] = waiters[r]
  BY <1>1, SemaTypes
<1> QED BY <1>1, <1>6, <1>7, <1>8, SemasOthers DEF SemaCountInRange

LEMMA ReleasedSemaCounts ==
    ASSUME SemaInv, NEW s \in Semas, SemaReleased(s)
    PROVE  SemaWaits' /\ SemaCountInRange'
<1>1. /\ UNCHANGED <<status, wait, waiters, semas>> /\ phase = "release" /\ target = s
      /\ waiters[s] # <<>> => ~SemaGrantable(s)
  BY DEF SemaReleased, ReleaseSema, threadVars
<1>2. ASSUME SemaLive(s)
      PROVE  semas[s].count <= semas[s].max
  <2>1. CASE waiters[s] = <<>>
    <3>1. semas[s].count - Len(waiters[s]) <= semas[s].max
      BY <1>2 DEF SemaInv, SemaCountInRange
    <3>2. Len(waiters[s]) = 0
      BY <2>1
    <3> QED BY <3>1, <3>2, SemaTypes
  <2>2. CASE waiters[s] # <<>>
    <3> DEFINE c == wait[Head(waiters[s])].count
    <3>1. c \in Nat /\ c <= semas[s].max
      BY <1>2, <2>2, HeadWaits, SemaTypes DEF SemaInv, SemaWaits
    <3>2. ~(c <= semas[s].count)
      BY <1>1, <2>2 DEF SemaGrantable
    <3> QED BY <3>1, <3>2, SemaTypes
  <2> QED BY <2>1, <2>2
<1>3. \A r \in Semas, t \in Uids : WaitsOn(t, r)' => WaitsOn(t, r)
  BY <1>1 DEF WaitsOn, IsWaiting
<1>4. SemaWaits'
  BY <1>1, <1>3 DEF SemaInv, SemaWaits, SemaLive
<1>5. ASSUME NEW r \in Semas, SemaLive(r)'
      PROVE  semas'[r].count - Len(waiters'[r]) <= semas'[r].max /\ semas'[r].count <= semas'[r].max
  BY <1>1, <1>2, <1>5 DEF SemaInv, SemaCountInRange, SemaLive
<1> QED BY <1>4, <1>5 DEF SemaCountInRange

LEMMA BlockSemaCounts ==
    ASSUME Tidy, SemaInv, NEW s \in Semas, NEW wanted \in 1..MaxCount, NEW d, NEW cb,
           WaitSemaBlocks(s, wanted, d, cb), TypeInv'
    PROVE  SemaWaits' /\ SemaCountInRange'
<1> DEFINE x == [WaitFor("Semaphore", s) EXCEPT !.count = wanted]
<1>1. /\ phase = "guest" /\ SemaLive(s) /\ wanted <= semas[s].max /\ UNCHANGED semas
      /\ Block(x, d) /\ JoinWaiters(s)
  BY DEF WaitSemaBlocks, MayWait, InGuest
<1>2. x.count = wanted /\ x.object = s /\ wanted \in Nat \ {0}
  BY DEF WaitFor
<1> HIDE DEF x
<1>3. \A t \in Uids : (status'[t] = status[t] /\ wait'[t] = wait[t]) \/ wait'[t] = x
  BY <1>1, SemaTypes DEF Block
<1>4. ASSUME NEW r \in Semas, NEW t \in Uids, WaitsOn(t, r)'
      PROVE  /\ wait'[t].count \in Nat \ {0} /\ semas'[r].life # "unused"
             /\ SemaLive(r)' => wait'[t].count <= semas'[r].max
  <2>1. CASE wait'[t] = x
    BY <1>1, <1>2, <1>4, <2>1 DEF WaitsOn, SemaLive
  <2>2. CASE status'[t] = status[t] /\ wait'[t] = wait[t]
    <3>1. WaitsOn(t, r)
      BY <1>4, <2>2 DEF WaitsOn, IsWaiting
    <3> QED BY <1>1, <2>2, <3>1 DEF SemaInv, SemaWaits, SemaLive
  <2> QED BY <1>3, <2>1, <2>2
<1>5. SemaWaits'
  BY <1>4 DEF SemaWaits
<1>6. ASSUME NEW r \in Semas, SemaLive(r)
      PROVE  semas[r].count <= semas[r].max /\ semas[r].count - Len(waiters'[r]) <= semas[r].max
  <2>1. semas[r].count <= semas[r].max
    BY <1>1, <1>6 DEF SemaInv, SemaCountInRange
  <2>2. Len(waiters'[r]) \in Nat
    BY SemaTypes, WaitersLen
  <2> QED BY <2>1, <2>2, SemaTypes
<1> QED BY <1>1, <1>5, <1>6 DEF SemaCountInRange, SemaLive

LEMMA SemasCount ==
    ASSUME Tidy, SemaInv, SemaphoresNext, TypeInv'
    PROVE  SemaWaits' /\ SemaCountInRange'
<1> PICK s \in Semas :
        \/ \E max \in 1..MaxCount : \E initial \in 0..max : CreateSema(s, initial, max)
        \/ DeleteSema(s)
        \/ \E signal \in 1..MaxSignal : SignalSema(s, signal)
        \/ SemaDropsStale(s) \/ SemaGrants(s) \/ SemaReleased(s)
        \/ \E wanted \in 1..MaxCount : WaitSemaTakes(s, wanted) \/ PollSema(s, wanted)
        \/ \E wanted \in 1..MaxCount, d \in Timeouts \cup {Never}, cb \in BOOLEAN :
              WaitSemaBlocks(s, wanted, d, cb)
  BY DEF SemaphoresNext
<1>1. ASSUME NEW wanted \in 1..MaxCount, WaitSemaTakes(s, wanted) \/ PollSema(s, wanted)
      PROVE  SemaWaits' /\ SemaCountInRange'
  <2>1. phase = "guest" /\ TakeSema(s, wanted)
    BY <1>1 DEF WaitSemaTakes, PollSema, MayWait, InGuest
  <2> QED BY <2>1, TakeSemaCounts
<1>2. ~SemaDropsStale(s)
  <2>1. waiters[s] # <<>> => IsWaiting(Head(waiters[s]))
    BY SemaTypes, HeadWaits DEF SemaInv, WaitsOn
  <2> QED BY <2>1 DEF SemaDropsStale, SemaStale
<1> QED BY <1>1, <1>2, CreateSemaCounts, DeleteSemaCounts, SignalSemaCounts, GrantSemaCounts,
           ReleasedSemaCounts, BlockSemaCounts

LEMMA StepCounts ==
    ASSUME Tidy, SemaInv, [Next]_vars
    PROVE  SemaInv'
<1>1. ConsistentInv' /\ LoopInv /\ TypeInv'
  BY StepConsistent DEF SemaInv, ConsistentInv, ListedInv, LoopInv, RunInv
<1>2. CASE UNCHANGED vars \/ (Stopped /\ UNCHANGED objectVars)
  <2>1. UNCHANGED <<semas, status, wait, waiters, phase, target>>
    BY <1>2 DEF vars, objectVars, Stopped, schedulerVars, threadVars, loopVars
  <2>2. \A s \in Semas, t \in Uids : WaitsOn(t, s)' => WaitsOn(t, s)
    BY <2>1 DEF WaitsOn, IsWaiting
  <2>3. SemaWaits'
    BY <2>1, <2>2 DEF SemaInv, SemaWaits, SemaLive
  <2>4. SemaCountInRange'
    BY <2>1 DEF SemaInv, SemaCountInRange, SemaLive
  <2> QED BY <1>1, <2>3, <2>4 DEF SemaInv
<1>3. CASE (SchedulerNext \/ ThreadsNext \/ KernelEventsNext) /\ UNCHANGED objectVars
  <2>1. phase # "release" /\ UNCHANGED semas
    BY <1>3, LoopsAlone DEF objectVars
  <2>2. ListKinds(Objects, {}) \/ ListKinds({}, {})
    BY <1>1, <1>3, SchedulerKinds, ThreadsKinds, EventCallKinds
  <2>3. SemaWaits' /\ SemaCountInRange'
    BY <1>1, <2>1, <2>2, SemasApart
  <2> QED BY <1>1, <2>3 DEF SemaInv
<1>4. CASE (EventFlagsNext \/ MutexesNext) /\ UNCHANGED semas
  <2>1. ListKinds(Flags, Flags) \/ ListKinds(Locks, Locks)
    BY <1>1, <1>4, EventFlagsLists, MutexesLists
  <2>2. phase = "release" => target \notin Semas
    BY <1>4, OwnLoop, ObjectsApart
  <2>3. SemaWaits' /\ SemaCountInRange'
    BY <1>1, <1>4, <2>1, <2>2, SemasApart, ObjectsApart
  <2> QED BY <1>1, <2>3 DEF SemaInv
<1>5. CASE SemaphoresNext
  BY <1>1, <1>5, SemasCount DEF SemaInv
<1>6. ObjectStep => SemaphoresNext \/ ((EventFlagsNext \/ MutexesNext) /\ UNCHANGED semas)
  BY DEF ObjectStep
<1> QED BY <1>2, <1>3, <1>4, <1>5, <1>6 DEF Next

\* sceKernelSignalSema's check counts the waiters and not what they want; the
\* release that follows makes it good, and no count stays above its max_count.
THEOREM KernelSemaCountInRange == Tidy => (Spec => []SemaCountInRange)
<1> SUFFICES ASSUME Tidy PROVE Spec => []SemaCountInRange
  OBVIOUS
<1>1. Init => SemaInv
  <2> SUFFICES ASSUME Init PROVE SemaInv
    OBVIOUS
  <2>1. \A t \in Uids, s \in Semas : ~WaitsOn(t, s)
    BY DEF Init, SchedulerInit, WaitsOn, IsWaiting
  <2>2. \A s \in Semas : ~SemaLive(s)
    BY DEF Init, SemaphoresInit, NoSema, SemaLive
  <2> QED BY <2>1, <2>2, InitConsistent DEF SemaInv, SemaWaits, SemaCountInRange
<1>2. SemaInv /\ [Next]_vars => SemaInv'
  BY StepCounts
<1>3. SemaInv => SemaCountInRange
  BY DEF SemaInv
<1> QED BY <1>1, <1>2, <1>3, PTL DEF Spec

-----------------------------------------------------------------------------
(* Mutexes *)

MutexWaits == \A m \in Locks, t \in Uids : WaitsOn(t, m) =>
    /\ wait[t].count \in Nat \ {0}
    /\ mutexes[m].life # "unused"
    /\ MutexLive(m) => /\ mutexes[m].owner # t
                       /\ mutexes[m].locks = 0 => phase = "release" /\ target = m
HeldByOwner == \A m \in Locks : MutexLive(m) => (mutexes[m].locks > 0 <=> mutexes[m].owner # Nobody)
MutexInv == ConsistentInv /\ MutexWaits /\ HeldByOwner

LEMMA MutexTypes ==
    ASSUME MutexInv
    PROVE  /\ mutexes \in [Locks -> [life : Lives, recursive : BOOLEAN,
                                     owner : Uids \cup {Nobody}, locks : Nat]]
           /\ status \in [Uids -> Statuses] /\ wait \in [Uids -> Waits]
           /\ TypeInv
           /\ \A m \in Locks : m \in Objects
  BY WaitingTypes, ObjectsApart
     DEF MutexInv, ConsistentInv, ListedInv, LoopInv, RunInv, TypeInv, TypeOK, ObjectsTypeOK

\* A step of another kind, outside the release loops of mutexes.
LEMMA MutexesApart ==
    ASSUME MutexInv, UNCHANGED mutexes, phase = "release" => target \notin Locks,
           \A m \in Locks, t \in Uids : WaitsOn(t, m)' => WaitsOn(t, m) /\ wait'[t] = wait[t]
    PROVE  MutexWaits' /\ HeldByOwner'
  BY DEF MutexInv, MutexWaits, HeldByOwner, MutexLive

\* The caller of a mutex call that may wait runs, in a tidy program.
LEMMA CallerRuns ==
    ASSUME Tidy, ConsistentInv, MayWait \/ InThread
    PROVE  /\ current \in Uids /\ status[current] = "Running" /\ handler = NoCall /\ phase = "guest"
           /\ \A o \in Objects, t \in Uids : WaitsOn(t, o) => t # current
<1>1. handler = NoCall /\ phase = "guest" /\ current # Nobody
  BY DEF Tidy, MayWait, InThread, InGuest, ConsistentInv, Taken, SomeoneRuns
<1>2. current \in Uids /\ status[current] = "Running"
  BY <1>1, WaitingTypes DEF ConsistentInv, ListedInv, LoopInv, RunInv, ThreadsInv, OneRunning
<1> QED BY <1>1, <1>2 DEF WaitsOn, IsWaiting

\* A step of guest code that gives m a new state and ends no wait.
LEMMA CallHeld ==
    ASSUME MutexInv, phase = "guest", NEW m \in Locks, NEW new, mutexes' = [mutexes EXCEPT ![m] = new],
           UNCHANGED <<status, wait>>,
           new.life = "live" => (new.locks > 0 <=> new.owner # Nobody),
           \A t \in Uids : WaitsOn(t, m) =>
               /\ new.life # "unused"
               /\ new.life = "live" => /\ new.owner # t
                                       /\ new.locks = 0 => phase' = "release" /\ target' = m
    PROVE  MutexWaits' /\ HeldByOwner'
<1>1. mutexes'[m] = new /\ \A l \in Locks : l # m => mutexes'[l] = mutexes[l]
  BY MutexTypes
<1>2. \A l \in Locks, t \in Uids : WaitsOn(t, l)' => WaitsOn(t, l)
  BY DEF WaitsOn, IsWaiting
<1>3. HeldByOwner'
  BY <1>1 DEF MutexInv, HeldByOwner, MutexLive
<1>4. MutexWaits'
  BY <1>1, <1>2 DEF MutexInv, MutexWaits, MutexLive
<1> QED BY <1>3, <1>4

LEMMA MutexesHeld ==
    ASSUME Tidy, MutexInv, MutexesNext
    PROVE  MutexWaits' /\ HeldByOwner'
<1> PICK m \in Locks :
        \/ \E recursive \in BOOLEAN, locks \in 0..MaxLocks : CreateMutex(m, recursive, locks)
        \/ DeleteMutex(m)
        \/ \E count \in 1..MaxLocks :
              LockMutexTakes(m, count) \/ LockMutexAgain(m, count) \/ UnlockMutex(m, count)
        \/ \E count \in 1..MaxLocks, d \in Timeouts \cup {Never} : LockMutexBlocks(m, count, d)
        \/ MutexDropsStale(m) \/ MutexHandsOver(m) \/ MutexReleased(m)
  BY DEF MutexesNext
<1>0. /\ mutexes[m] \in [life : Lives, recursive : BOOLEAN, owner : Uids \cup {Nobody}, locks : Nat]
      /\ m \in Objects /\ MaxLocks \in Nat
  BY MutexTypes, MutexAssumption
<1>1. ASSUME NEW recursive \in BOOLEAN, NEW locks \in 0..MaxLocks, CreateMutex(m, recursive, locks)
      PROVE  MutexWaits' /\ HeldByOwner'
  <2> DEFINE new == [life |-> "live", recursive |-> recursive, locks |-> locks,
                     owner |-> IF locks > 0 THEN current ELSE Nobody]
  <2>1. /\ mutexes' = [mutexes EXCEPT ![m] = new] /\ mutexes[m].life = "unused"
        /\ phase = "guest" /\ UNCHANGED <<status, wait>>
    BY <1>1 DEF CreateMutex, InThread, threadVars
  <2>2. current # Nobody
    BY <1>1, CallerRuns, UidsFinite DEF CreateMutex, MutexInv, Nobody
  <2>3. new.locks > 0 <=> new.owner # Nobody
    BY <2>2
  <2>4. \A t \in Uids : ~WaitsOn(t, m)
    BY <2>1 DEF MutexInv, MutexWaits
  <2> HIDE DEF new
  <2> QED BY <2>1, <2>3, <2>4, CallHeld
<1>2. CASE DeleteMutex(m)
  <2> DEFINE new == [NoMutex EXCEPT !.life = "deleted"]
  <2>1. /\ mutexes' = [mutexes EXCEPT ![m] = new]
        /\ phase = "guest" /\ UNCHANGED <<status, wait>>
    BY <1>2 DEF DeleteMutex, InThread, threadVars
  <2>2. new.life = "deleted"
    BY DEF NoMutex
  <2> HIDE DEF new
  <2> QED BY <2>1, <2>2, CallHeld
<1>3. ASSUME NEW count \in 1..MaxLocks, LockMutexTakes(m, count)
      PROVE  MutexWaits' /\ HeldByOwner'
  <2> DEFINE new == [mutexes[m] EXCEPT !.owner = current, !.locks = count]
  <2>1. /\ mutexes' = [mutexes EXCEPT ![m].owner = current, ![m].locks = count]
        /\ phase = "guest" /\ UNCHANGED <<status, wait>> /\ MayWait /\ MutexLive(m)
    BY <1>3 DEF LockMutexTakes, MayWait, InGuest, threadVars
  <2>2. current \in Uids /\ current # Nobody /\ \A t \in Uids : WaitsOn(t, m) => t # current
    BY <1>0, <2>1, CallerRuns, UidsFinite DEF MutexInv, Nobody
  <2>3. new.owner = current /\ new.locks = count /\ new.life = "live"
    BY <1>0, <2>1 DEF MutexLive
  <2>4. mutexes' = [mutexes EXCEPT ![m] = new]
    BY <2>1, MutexTypes
  <2>5. new.locks > 0 /\ new.owner # Nobody /\ new.locks # 0
    BY <2>2, <2>3
  <2> HIDE DEF new
  <2> QED BY <2>1, <2>2, <2>3, <2>4, <2>5, CallHeld
<1>4. ASSUME NEW count \in 1..MaxLocks, LockMutexAgain(m, count)
      PROVE  MutexWaits' /\ HeldByOwner'
  <2> DEFINE new == [mutexes[m] EXCEPT !.locks = @ + count]
  <2>1. /\ mutexes' = [mutexes EXCEPT ![m] = new]
        /\ phase = "guest" /\ UNCHANGED <<status, wait>> /\ MutexLive(m) /\ mutexes[m].locks # 0
    BY <1>4 DEF LockMutexAgain, MayWait, InGuest, threadVars, Holds
  <2>2. new.owner = mutexes[m].owner /\ new.locks = mutexes[m].locks + count /\ new.life = "live"
    BY <1>0, <2>1 DEF MutexLive
  <2>3. mutexes[m].owner # Nobody /\ \A t \in Uids : WaitsOn(t, m) => mutexes[m].owner # t
    BY <1>0, <2>1 DEF MutexInv, MutexWaits, HeldByOwner
  <2>4. new.locks > 0 /\ new.locks # 0
    BY <1>0, <2>2
  <2> HIDE DEF new
  <2> QED BY <2>1, <2>2, <2>3, <2>4, CallHeld
<1>5. ASSUME NEW count \in 1..MaxLocks, UnlockMutex(m, count)
      PROVE  MutexWaits' /\ HeldByOwner'
  <2>3. phase = "guest" /\ UNCHANGED <<status, wait>> /\ MutexLive(m) /\ mutexes[m].locks # 0
    BY <1>5 DEF UnlockMutex, MayWait, InGuest, threadVars, Holds
  <2>4. mutexes[m].owner # Nobody /\ \A t \in Uids : WaitsOn(t, m) => mutexes[m].owner # t
    BY <1>0, <2>3 DEF MutexInv, MutexWaits, HeldByOwner
  <2>1. CASE StaysLocked(m, count)
    <3> DEFINE new == [mutexes[m] EXCEPT !.locks = @ - count]
    <3>1. mutexes' = [mutexes EXCEPT ![m] = new]
      BY <1>5, <2>1 DEF UnlockMutex
    <3>2. new.owner = mutexes[m].owner /\ new.locks = mutexes[m].locks - count /\ new.life = "live"
      BY <1>0, <2>3 DEF MutexLive
    <3>3. new.locks > 0 /\ new.locks # 0
      BY <1>0, <2>1, <3>2 DEF StaysLocked
    <3> HIDE DEF new
    <3> QED BY <2>3, <2>4, <3>1, <3>2, <3>3, CallHeld
  <2>2. CASE ~StaysLocked(m, count)
    <3> DEFINE new == [mutexes[m] EXCEPT !.locks = 0, !.owner = Nobody]
    <3>1. mutexes' = [mutexes EXCEPT ![m].locks = 0, ![m].owner = Nobody]
          /\ phase' = "release" /\ target' = m
      BY <1>5, <2>2 DEF UnlockMutex
    <3>2. new.owner = Nobody /\ new.locks = 0 /\ new.life = "live"
      BY <1>0, <2>3 DEF MutexLive
    <3>3. mutexes' = [mutexes EXCEPT ![m] = new]
      BY <3>1, MutexTypes
    <3>4. ~(new.locks > 0) /\ \A t \in Uids : new.owner # t
      BY <3>2, UidsFinite DEF Nobody
    <3> HIDE DEF new
    <3> QED BY <2>3, <3>1, <3>2, <3>3, <3>4, CallHeld
  <2> QED BY <2>1, <2>2
<1>6. ASSUME NEW count \in 1..MaxLocks, NEW d, LockMutexBlocks(m, count, d)
      PROVE  MutexWaits' /\ HeldByOwner'
  <2> DEFINE x == [WaitFor("Mutex", m) EXCEPT !.count = count]
  <2>1. /\ phase = "guest" /\ MutexLive(m) /\ UNCHANGED mutexes /\ MayWait
        /\ mutexes[m].locks # 0 /\ mutexes[m].owner # current /\ Block(x, d)
    BY <1>6 DEF LockMutexBlocks, MayWait, InGuest
  <2>2. x.count = count /\ x.object = m /\ count \in Nat \ {0}
    BY DEF WaitFor
  <2> HIDE DEF x
  <2>3. \A t \in Uids : \/ status'[t] = status[t] /\ wait'[t] = wait[t]
                        \/ t = current /\ wait'[t] = x
    BY <2>1, MutexTypes DEF Block
  <2>4. ASSUME NEW l \in Locks, NEW t \in Uids, WaitsOn(t, l)'
        PROVE  /\ wait'[t].count \in Nat \ {0} /\ mutexes[l].life # "unused"
               /\ MutexLive(l) => mutexes[l].owner # t /\ mutexes[l].locks # 0
    <3>1. CASE t = current /\ wait'[t] = x
      <4>1. l = m
        BY <2>2, <2>4, <3>1 DEF WaitsOn
      <4> QED BY <2>1, <2>2, <3>1, <4>1 DEF MutexLive
    <3>2. CASE status'[t] = status[t] /\ wait'[t] = wait[t]
      <4>1. WaitsOn(t, l)
        BY <2>4, <3>2 DEF WaitsOn, IsWaiting
      <4> QED BY <2>1, <3>2, <4>1 DEF MutexInv, MutexWaits
    <3> QED BY <2>3, <3>1, <3>2
  <2>5. MutexWaits'
    BY <2>1, <2>4 DEF MutexWaits, MutexLive
  <2>6. HeldByOwner'
    BY <2>1 DEF MutexInv, HeldByOwner, MutexLive
  <2> QED BY <2>5, <2>6
<1>7. ~MutexDropsStale(m)
  <2>1. waiters[m] # <<>> => IsWaiting(Head(waiters[m]))
    BY <1>0, HeadWaits DEF MutexInv, WaitsOn
  <2> QED BY <2>1 DEF MutexDropsStale, ReleaseMutex
<1>8. CASE MutexHandsOver(m)
  <2> DEFINE h == Head(waiters[m])
             new == [mutexes[m] EXCEPT !.owner = h, !.locks = wait[h].count]
  <2>1. /\ mutexes' = [mutexes EXCEPT ![m].owner = h, ![m].locks = wait[h].count]
        /\ phase = "release" /\ target = m /\ mutexes[m].locks = 0
        /\ waiters[m] # <<>> /\ MakeReady(<<h>>)
    BY <1>8 DEF MutexHandsOver, ReleaseMutex
  <2>2. h \in Uids /\ WaitsOn(h, m) /\ wait[h].count \in Nat \ {0}
    BY <1>0, <2>1, HeadWaits DEF MutexInv, MutexWaits
  <2>3. new.owner = h /\ new.locks = wait[h].count /\ new.life = mutexes[m].life
    BY <1>0
  <2>4. mutexes' = [mutexes EXCEPT ![m] = new]
    BY <2>1, MutexTypes
  <2>5. OnlyEnds({h})
    BY <2>1, OneMadeReadyEnds
  <2> HIDE DEF h, new
  <2>6. mutexes'[m] = new /\ \A l \in Locks : l # m => mutexes'[l] = mutexes[l]
    BY <2>4, MutexTypes
  <2>7. new.locks > 0 /\ new.locks # 0 /\ new.owner # Nobody
    BY <2>2, <2>3, UidsFinite DEF Nobody
  <2>8. \A l \in Locks, t \in Uids : WaitsOn(t, l)' => WaitsOn(t, l) /\ wait'[t] = wait[t] /\ t # h
    BY <2>5 DEF OnlyEnds, OnObject, WaitsOn
  <2>9. HeldByOwner'
    BY <2>6, <2>7 DEF MutexInv, HeldByOwner, MutexLive
  <2>10. MutexWaits'
    <3> SUFFICES ASSUME NEW l \in Locks, NEW t \in Uids, WaitsOn(t, l)'
                 PROVE  /\ wait'[t].count \in Nat \ {0}
                        /\ mutexes'[l].life # "unused"
                        /\ MutexLive(l)' => mutexes'[l].owner # t /\ mutexes'[l].locks # 0
      BY DEF MutexWaits
    <3>1. WaitsOn(t, l) /\ wait'[t] = wait[t] /\ t # h
      BY <2>8
    <3>2. CASE l = m
      BY <2>3, <2>6, <2>7, <3>1, <3>2 DEF MutexInv, MutexWaits
    <3>3. CASE l # m
      <4>1. mutexes'[l] = mutexes[l] /\ target # l
        BY <2>1, <2>6, <3>3
      <4> QED BY <3>1, <4>1 DEF MutexInv, MutexWaits, MutexLive
    <3> QED BY <3>2, <3>3
  <2> QED BY <2>9, <2>10
<1>9. CASE MutexReleased(m)
  <2>1. /\ UNCHANGED <<mutexes, status, wait, waiters>> /\ phase = "release" /\ target = m
        /\ mutexes[m].locks = 0 => waiters[m] = <<>>
    BY <1>9 DEF MutexReleased, threadVars
  <2>2. \A l \in Locks, t \in Uids : WaitsOn(t, l)' => WaitsOn(t, l)
    BY <2>1 DEF WaitsOn, IsWaiting
  <2>3. \A t \in Uids : WaitsOn(t, m) => waiters[m] # <<>>
    BY <1>0 DEF MutexInv, ConsistentInv, ListedInv, WaitingIsListed, Range
  <2>4. \A l \in Locks, t \in Uids : WaitsOn(t, l) /\ MutexLive(l) => mutexes[l].locks # 0
    BY <2>1, <2>3 DEF MutexInv, MutexWaits
  <2>5. MutexWaits'
    BY <2>1, <2>2, <2>4 DEF MutexInv, MutexWaits, MutexLive
  <2>6. HeldByOwner'
    BY <2>1 DEF MutexInv, HeldByOwner, MutexLive
  <2> QED BY <2>5, <2>6
<1> QED BY <1>1, <1>2, <1>3, <1>4, <1>5, <1>6, <1>7, <1>8, <1>9

LEMMA StepHeld ==
    ASSUME Tidy, MutexInv, [Next]_vars
    PROVE  MutexInv'
<1>1. ConsistentInv' /\ LoopInv /\ TypeInv
  BY StepConsistent DEF MutexInv, ConsistentInv, ListedInv, LoopInv, RunInv
<1>2. CASE UNCHANGED vars \/ (Stopped /\ UNCHANGED objectVars)
  <2>1. UNCHANGED <<mutexes, status, wait, phase, target>>
    BY <1>2 DEF vars, objectVars, Stopped, schedulerVars, threadVars, loopVars
  <2>2. \A m \in Locks, t \in Uids : WaitsOn(t, m)' => WaitsOn(t, m)
    BY <2>1 DEF WaitsOn, IsWaiting
  <2>3. MutexWaits'
    BY <2>1, <2>2 DEF MutexInv, MutexWaits, MutexLive
  <2>4. HeldByOwner'
    BY <2>1 DEF MutexInv, HeldByOwner, MutexLive
  <2> QED BY <1>1, <2>3, <2>4 DEF MutexInv
<1>3. CASE (SchedulerNext \/ ThreadsNext \/ KernelEventsNext) /\ UNCHANGED objectVars
  <2>1. phase # "release" /\ UNCHANGED mutexes
    BY <1>3, LoopsAlone DEF objectVars
  <2>2. ListKinds(Objects, {}) \/ ListKinds({}, {})
    BY <1>1, <1>3, SchedulerKinds, ThreadsKinds, EventCallKinds
  <2>3. \A m \in Locks, t \in Uids : WaitsOn(t, m)' => WaitsOn(t, m) /\ wait'[t] = wait[t]
    BY <1>1, <2>2, WaitsApart
  <2> QED BY <1>1, <2>1, <2>3, MutexesApart DEF MutexInv
<1>4. CASE (EventFlagsNext \/ SemaphoresNext) /\ UNCHANGED mutexes
  <2>1. ListKinds(Flags, Flags) \/ ListKinds(Semas, Semas)
    BY <1>1, <1>4, EventFlagsLists, SemaphoresLists
  <2>2. phase = "release" => target \notin Locks
    BY <1>4, OwnLoop, ObjectsApart
  <2>3. \A m \in Locks, t \in Uids : WaitsOn(t, m)' => WaitsOn(t, m) /\ wait'[t] = wait[t]
    BY <1>1, <2>1, WaitsApart, ObjectsApart
  <2> QED BY <1>1, <1>4, <2>2, <2>3, MutexesApart DEF MutexInv
<1>5. CASE MutexesNext
  BY <1>1, <1>5, MutexesHeld DEF MutexInv
<1>6. ObjectStep => MutexesNext \/ ((EventFlagsNext \/ SemaphoresNext) /\ UNCHANGED mutexes)
  BY DEF ObjectStep
<1> QED BY <1>2, <1>3, <1>4, <1>5, <1>6 DEF Next

LEMMA AlwaysHeld ==
    ASSUME Tidy
    PROVE  Spec => []MutexInv
<1>1. Init => MutexInv
  <2> SUFFICES ASSUME Init PROVE MutexInv
    OBVIOUS
  <2>1. \A t \in Uids, m \in Locks : ~WaitsOn(t, m)
    BY DEF Init, SchedulerInit, WaitsOn, IsWaiting
  <2>2. \A m \in Locks : ~MutexLive(m)
    BY DEF Init, MutexesInit, NoMutex, MutexLive
  <2> QED BY <2>1, <2>2, InitConsistent DEF MutexInv, MutexWaits, HeldByOwner
<1>2. MutexInv /\ [Next]_vars => MutexInv'
  BY StepHeld
<1> QED BY <1>1, <1>2, PTL DEF Spec

\* A mutex is held exactly while it has an owner, nobody waits for a free one
\* and no thread for one it holds.
THEOREM KernelMutexHeldWhileWaited == Tidy => (Spec => []MutexHeldWhileWaited)
<1> SUFFICES ASSUME Tidy PROVE Spec => []MutexHeldWhileWaited
  OBVIOUS
<1>1. ASSUME MutexInv PROVE MutexHeldWhileWaited
  <2> SUFFICES ASSUME NEW m \in Locks, MutexLive(m)
               PROVE  /\ mutexes[m].locks > 0 <=> mutexes[m].owner # Nobody
                      /\ waiters[m] # <<>> /\ ~(phase = "release" /\ target = m) => mutexes[m].locks > 0
                      /\ ~WaitsOn(mutexes[m].owner, m)
    BY DEF MutexHeldWhileWaited
  <2>1. m \in Objects /\ mutexes[m].locks \in Nat
    BY <1>1, MutexTypes
  <2>2. mutexes[m].locks > 0 <=> mutexes[m].owner # Nobody
    BY <1>1 DEF MutexInv, HeldByOwner
  <2>3. waiters[m] # <<>> /\ ~(phase = "release" /\ target = m) => mutexes[m].locks > 0
    <3> SUFFICES ASSUME waiters[m] # <<>>, ~(phase = "release" /\ target = m)
                 PROVE  mutexes[m].locks > 0
      OBVIOUS
    <3>1. \E t \in Uids : WaitsOn(t, m)
      BY <1>1, <2>1, HeadWaits DEF MutexInv
    <3> QED BY <1>1, <2>1, <3>1 DEF MutexInv, MutexWaits
  <2>4. \A t \in Uids : WaitsOn(t, m) => mutexes[m].owner # t
    BY <1>1 DEF MutexInv, MutexWaits
  <2>5. ~WaitsOn(mutexes[m].owner, m)
    BY <2>4 DEF WaitsOn, IsWaiting
  <2> QED BY <2>2, <2>3, <2>5
<1> QED BY AlwaysHeld, <1>1, PTL
-----------------------------------------------------------------------------
(* What a step may do to an object *)

\* A mutex that is held changes hands, and its count, only in a step made in
\* its owner's name, whatever the program does.
THEOREM KernelOnlyOwnerChangesMutex == Spec => OnlyOwnerChangesMutex
<1> DEFINE A == \A m \in Locks : MutexLive(m) /\ mutexes[m].locks > 0 /\ mutexes'[m].life = "live"
                    /\ mutexes'[m] # mutexes[m] => current = mutexes[m].owner
<1>1. TypeInv /\ [Next]_vars => [A]_vars
  <2> SUFFICES ASSUME TypeInv, Next, NEW l \in Locks,
                      MutexLive(l), mutexes[l].locks > 0, mutexes'[l].life = "live",
                      mutexes'[l] # mutexes[l]
               PROVE  current = mutexes[l].owner
    OBVIOUS
  <2>1. mutexes \in [Locks -> [life : Lives, recursive : BOOLEAN,
                               owner : Uids \cup {Nobody}, locks : Nat]]
    BY DEF TypeInv, TypeOK, ObjectsTypeOK
  <2>2. MutexesNext
    BY DEF Next, ObjectStep, objectVars
  <2>3. PICK m \in Locks :
            \/ \E recursive \in BOOLEAN, locks \in 0..MaxLocks : CreateMutex(m, recursive, locks)
            \/ DeleteMutex(m)
            \/ \E count \in 1..MaxLocks :
                  LockMutexTakes(m, count) \/ LockMutexAgain(m, count) \/ UnlockMutex(m, count)
            \/ \E count \in 1..MaxLocks, d \in Timeouts \cup {Never} : LockMutexBlocks(m, count, d)
            \/ MutexDropsStale(m) \/ MutexHandsOver(m) \/ MutexReleased(m)
    BY <2>2 DEF MutexesNext
  <2>4. mutexes[l].locks # 0
    BY <2>1
  <2>5. l # m => mutexes'[l] = mutexes[l]
    BY <2>1, <2>3 DEF CreateMutex, DeleteMutex, LockMutexTakes, LockMutexAgain, UnlockMutex,
                      LockMutexBlocks, MutexDropsStale, MutexHandsOver, MutexReleased
  <2>6. l = m
    BY <2>5
  <2>7. CASE \E recursive \in BOOLEAN, locks \in 0..MaxLocks : CreateMutex(m, recursive, locks)
    BY <2>6, <2>7 DEF CreateMutex, MutexLive
  <2>8. CASE DeleteMutex(m)
    <3>1. mutexes'[m] = [NoMutex EXCEPT !.life = "deleted"]
      BY <2>1, <2>8 DEF DeleteMutex
    <3>2. mutexes'[m].life = "deleted"
      BY <3>1 DEF NoMutex
    <3> QED BY <2>6, <3>2
  <2>9. CASE \E count \in 1..MaxLocks : LockMutexTakes(m, count)
    BY <2>4, <2>6, <2>9 DEF LockMutexTakes
  <2>10. CASE \E count \in 1..MaxLocks : LockMutexAgain(m, count) \/ UnlockMutex(m, count)
    BY <2>6, <2>10 DEF LockMutexAgain, UnlockMutex, Holds
  <2>11. CASE MutexHandsOver(m)
    BY <2>4, <2>6, <2>11 DEF MutexHandsOver, ReleaseMutex
  <2>12. CASE \/ \E count \in 1..MaxLocks, d \in Timeouts \cup {Never} : LockMutexBlocks(m, count, d)
              \/ MutexDropsStale(m) \/ MutexReleased(m)
    BY <2>6, <2>12 DEF LockMutexBlocks, MutexDropsStale, MutexReleased
  <2> QED BY <2>3, <2>7, <2>8, <2>9, <2>10, <2>11, <2>12
<1>2. Spec => []TypeInv
  BY InitTyped, StepTyped, PTL DEF Spec
<1> QED BY <1>1, <1>2, PTL DEF Spec, OnlyOwnerChangesMutex

\* Units of a semaphore go to the first waiter, and to a thread that does not
\* wait only when none waits, whatever the program does.
THEOREM KernelSemaFirstComeFirstServed == Spec => SemaFirstComeFirstServed
<1> DEFINE A == \A s \in Semas : SemaLive(s) /\ SemaLive(s)' /\ semas'[s].count < semas[s].count
                    => waiters[s] = <<>> \/ waiters'[s] = Tail(waiters[s])
<1>1. TypeInv /\ [Next]_vars => [A]_vars
  <2> SUFFICES ASSUME TypeInv, Next, NEW r \in Semas,
                      SemaLive(r), SemaLive(r)', semas'[r].count < semas[r].count
               PROVE  waiters[r] = <<>> \/ waiters'[r] = Tail(waiters[r])
    OBVIOUS
  <2>1. /\ semas \in [Semas -> [life : Lives, count : Nat, max : 1..MaxCount]]
        /\ waiters \in [Objects -> Seq(Uids \cup {Nobody})]
    BY DEF TypeInv, TypeOK, ObjectsTypeOK
  <2>2. semas'[r] # semas[r]
    BY <2>1
  <2>3. SemaphoresNext
    BY <2>2 DEF Next, ObjectStep, objectVars
  <2>4. PICK s \in Semas :
            \/ \E max \in 1..MaxCount : \E initial \in 0..max : CreateSema(s, initial, max)
            \/ DeleteSema(s)
            \/ \E signal \in 1..MaxSignal : SignalSema(s, signal)
            \/ SemaDropsStale(s) \/ SemaGrants(s) \/ SemaReleased(s)
            \/ \E wanted \in 1..MaxCount : WaitSemaTakes(s, wanted) \/ PollSema(s, wanted)
            \/ \E wanted \in 1..MaxCount, d \in Timeouts \cup {Never}, cb \in BOOLEAN :
                  WaitSemaBlocks(s, wanted, d, cb)
    BY <2>3 DEF SemaphoresNext
  <2>5. r = s
    BY <2>1, <2>2, <2>4 DEF CreateSema, DeleteSema, SignalSema, SemaDropsStale, SemaGrants, SemaReleased,
                      WaitSemaTakes, PollSema, TakeSema, WaitSemaBlocks
  <2>6. CASE \E max \in 1..MaxCount : \E initial \in 0..max : CreateSema(s, initial, max)
    BY <2>5, <2>6 DEF CreateSema, SemaLive
  <2>7. CASE DeleteSema(s)
    <3>1. semas'[s] = [NoSema EXCEPT !.life = "deleted"]
      BY <2>1, <2>7 DEF DeleteSema
    <3>2. semas'[s].life = "deleted"
      BY <3>1 DEF NoSema
    <3> QED BY <2>5, <3>2 DEF SemaLive
  <2>8. ASSUME NEW signal \in 1..MaxSignal, SignalSema(s, signal)
        PROVE  FALSE
    <3>1. semas'[s].count = semas[s].count + signal /\ semas[s].count \in Nat /\ signal \in Nat
      BY <2>1, <2>8, SemaphoreAssumption DEF SignalSema
    <3> QED BY <2>5, <3>1
  <2>9. CASE SemaGrants(s)
    BY <2>1, <2>5, <2>9, ObjectsApart DEF SemaGrants
  <2>10. CASE \E wanted \in 1..MaxCount : WaitSemaTakes(s, wanted) \/ PollSema(s, wanted)
    BY <2>5, <2>10 DEF WaitSemaTakes, PollSema, TakeSema, SemaFree
  <2>11. CASE \/ SemaDropsStale(s) \/ SemaReleased(s)
              \/ \E wanted \in 1..MaxCount, d \in Timeouts \cup {Never}, cb \in BOOLEAN :
                    WaitSemaBlocks(s, wanted, d, cb)
    BY <2>2, <2>5, <2>11 DEF SemaDropsStale, SemaReleased, WaitSemaBlocks
  <2> QED BY <2>4, <2>6, <2>7, <2>8, <2>9, <2>10, <2>11
<1>2. Spec => []TypeInv
  BY InitTyped, StepTyped, PTL DEF Spec
<1> QED BY <1>1, <1>2, PTL DEF Spec, SemaFirstComeFirstServed
=============================================================================
