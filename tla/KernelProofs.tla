----------------------------- MODULE KernelProofs -----------------------------
(***************************************************************************)
(* Type correctness of the kernel, for any number of threads, objects,     *)
(* timers and callbacks and any bounds, and that a virtual timer has one   *)
(* call at a time.  Before that, what the operators of UidLists return:    *)
(* the k-th least member of a set is in it and every member is the k-th    *)
(* least for one k; a set in uid order lists its members, each once, and a *)
(* list without some entries the others, no more often than before.        *)
(***************************************************************************)
EXTENDS Kernel, FiniteSetTheorems, SequenceTheorems, TLAPS

\* How many members of a set are no larger than one of them.
Rank(S, i) == Cardinality({j \in S : j <= i})

\* The members of a finite set of integers have different ranks, from 1 to as
\* many as there are.
LEMMA RankIsInjective ==
    ASSUME NEW S \in SUBSET Int, IsFiniteSet(S)
    PROVE  [i \in S |-> Rank(S, i)] \in Injection(S, 1..Cardinality(S))
<1> DEFINE Below(i) == {j \in S : j <= i}
           r == [i \in S |-> Rank(S, i)]
<1>1. ASSUME NEW i \in S
      PROVE  IsFiniteSet(Below(i)) /\ Rank(S, i) \in 1..Cardinality(S)
  <2>1. Below(i) \in SUBSET S
    OBVIOUS
  <2>2. IsFiniteSet(Below(i)) /\ Cardinality(Below(i)) <= Cardinality(S)
    BY <2>1, FS_Subset
  <2>3. Cardinality(Below(i)) # 0
    <3>1. i \in Below(i)
      OBVIOUS
    <3> QED BY <2>2, <3>1, FS_EmptySet
  <2>4. Cardinality(Below(i)) \in Nat /\ Cardinality(S) \in Nat
    BY <2>2, FS_CardinalityType
  <2> QED BY <2>2, <2>3, <2>4 DEF Rank
<1>2. ASSUME NEW i \in S, NEW j \in S, i < j
      PROVE  Rank(S, i) # Rank(S, j)
  <2>1. i \in Int /\ j \in Int /\ \A x \in S : x \in Int /\ (x <= i => x <= j)
    BY <1>2
  <2>2. Below(i) \in SUBSET Below(j)
    BY <2>1
  <2>3. j \in Below(j) /\ j \notin Below(i)
    BY <1>2, <2>1
  <2>4. Below(i) # Below(j)
    BY <2>3
  <2>5. Cardinality(Below(i)) # Cardinality(Below(j))
    BY <1>1, <2>2, <2>4, FS_Subset
  <2> QED BY <2>5 DEF Rank
<1>3. r \in [S -> 1..Cardinality(S)]
  BY <1>1
<1>4. \A i, j \in S : r[i] = r[j] => i = j
  <2> SUFFICES ASSUME NEW i \in S, NEW j \in S, i # j PROVE r[i] # r[j]
    OBVIOUS
  <2>1. i < j \/ j < i
    OBVIOUS
  <2> QED BY <1>2, <2>1
<1> QED BY <1>3, <1>4 DEF Injection, IsInjective

\* Each rank is some member's, which is the one KthLeast chooses.
LEMMA KthLeastProperties ==
    ASSUME NEW S \in SUBSET Int, IsFiniteSet(S), NEW k \in 1..Cardinality(S)
    PROVE  KthLeast(S, k) \in S /\ Rank(S, KthLeast(S, k)) = k
<1> DEFINE n == Cardinality(S)
           r == [i \in S |-> Rank(S, i)]
<1>1. n \in Nat
  BY FS_CardinalityType
<1>2. IsFiniteSet(1..n) /\ Cardinality(1..n) = n
  BY <1>1, FS_Interval
<1>3. r \in Injection(S, 1..n)
  BY RankIsInjective
<1>4. r \in Surjection(S, 1..n)
  <2> HIDE DEF n, r
  <2>1. Cardinality(S) = Cardinality(1..n)
    BY <1>2 DEF n
  <2> QED BY <1>2, <1>3, <2>1, FS_Injection
<1>5. \E i \in S : Rank(S, i) = k
  BY <1>4 DEF Surjection
<1> QED BY <1>5 DEF KthLeast, Rank

\* A member is the one of its rank, and of no other.
LEMMA KthLeastOfRank ==
    ASSUME NEW S \in SUBSET Int, IsFiniteSet(S), NEW i \in S
    PROVE  Rank(S, i) \in 1..Cardinality(S) /\ KthLeast(S, Rank(S, i)) = i
<1> DEFINE r == [j \in S |-> Rank(S, j)]
<1>1. r \in Injection(S, 1..Cardinality(S))
  BY RankIsInjective
<1>2. Rank(S, i) \in 1..Cardinality(S) /\ \A j \in S : Rank(S, j) = Rank(S, i) => j = i
  BY <1>1 DEF Injection, IsInjective
<1>3. KthLeast(S, Rank(S, i)) \in S /\ Rank(S, KthLeast(S, Rank(S, i))) = Rank(S, i)
  BY <1>2, KthLeastProperties
<1> QED BY <1>2, <1>3

\* A finite set of integers that is not empty has a least member.
LEMMA LeastExists ==
    ASSUME NEW S \in SUBSET Int, IsFiniteSet(S), S # {}
    PROVE  \E i \in S : \A j \in S : i <= j
<1> DEFINE i == KthLeast(S, 1)
           B == {j \in S : j <= i}
<1>1. Cardinality(S) \in Nat /\ Cardinality(S) # 0
  BY FS_CardinalityType, FS_EmptySet
<1>2. i \in S /\ Cardinality(B) = 1
  BY <1>1, KthLeastProperties DEF Rank
<1> HIDE DEF i
<1>3. IsFiniteSet(B)
  BY FS_Subset
<1>4. PICK x : B = {x}
  BY <1>2, <1>3, FS_Singleton
<1>5. i \in B
  BY <1>2
<1>6. \A j \in S : j <= i => j = i
  BY <1>4, <1>5
<1> QED BY <1>2, <1>6

\* A std::map's keys in its order are keys of the map.
LEMMA InUidOrderType ==
    ASSUME NEW S \in SUBSET Int, IsFiniteSet(S)
    PROVE  /\ InUidOrder(S) \in Seq(S)
           /\ DOMAIN InUidOrder(S) = 1..Cardinality(S)
           /\ \A k \in DOMAIN InUidOrder(S) : InUidOrder(S)[k] \in S
<1>1. Cardinality(S) \in Nat
  BY FS_CardinalityType
<1>2. \A k \in 1..Cardinality(S) : KthLeast(S, k) \in S
  BY KthLeastProperties
<1> QED BY <1>1, <1>2 DEF InUidOrder

\* A list without the entries in S is a list of its other entries.
LEMMA WithoutProperties ==
    ASSUME NEW T, NEW q \in Seq(T), NEW S
    PROVE  /\ Without(q, S) \in Seq(T)
           /\ \A k \in DOMAIN Without(q, S) :
                 /\ Without(q, S)[k] \notin S
                 /\ \E i \in DOMAIN q : Without(q, S)[k] = q[i]
<1> DEFINE kept == {i \in 1..Len(q) : q[i] \notin S}
<1>1. Len(q) \in Nat /\ DOMAIN q = 1..Len(q)
  BY LenProperties
<1>2. IsFiniteSet(kept)
  <2>1. IsFiniteSet(1..Len(q))
    BY <1>1, FS_Interval
  <2> QED BY <2>1, FS_Subset
<1>3. kept \in SUBSET Int
  BY <1>1
<1>4. Cardinality(kept) \in Nat
  BY <1>2, FS_CardinalityType
<1>5. \A k \in 1..Cardinality(kept) : KthLeast(kept, k) \in kept
  <2> HIDE DEF kept
  <2> QED BY <1>2, <1>3, KthLeastProperties
<1>6. \A k \in 1..Cardinality(kept) : q[KthLeast(kept, k)] \in T
  BY <1>1, <1>5
<1>7. Without(q, S) = [k \in 1..Cardinality(kept) |-> q[KthLeast(kept, k)]]
  BY DEF Without
<1> HIDE DEF kept
<1>8. Without(q, S) \in Seq(T)
  BY <1>4, <1>6, <1>7
<1>9. \A i \in kept : i \in DOMAIN q /\ q[i] \notin S
  BY <1>1 DEF kept
<1> QED BY <1>4, <1>5, <1>7, <1>8, <1>9

\* A set in uid order has each member once.
LEMMA InUidOrderComplete ==
    ASSUME NEW S \in SUBSET Int, IsFiniteSet(S)
    PROVE  /\ \A i \in S : \E k \in DOMAIN InUidOrder(S) : InUidOrder(S)[k] = i
           /\ \A k, l \in DOMAIN InUidOrder(S) : InUidOrder(S)[k] = InUidOrder(S)[l] => k = l
<1>1. DOMAIN InUidOrder(S) = 1..Cardinality(S)
  BY InUidOrderType
<1>2. \A k \in 1..Cardinality(S) : InUidOrder(S)[k] = KthLeast(S, k)
  BY DEF InUidOrder
<1>3. \A k \in 1..Cardinality(S) : Rank(S, KthLeast(S, k)) = k
  BY KthLeastProperties
<1>4. \A i \in S : Rank(S, i) \in 1..Cardinality(S) /\ KthLeast(S, Rank(S, i)) = i
  BY KthLeastOfRank
<1>5. \A k, l \in 1..Cardinality(S) : KthLeast(S, k) = KthLeast(S, l) => k = l
  BY <1>3
<1> QED BY <1>1, <1>2, <1>4, <1>5

\* A list without the entries in S keeps all the others, and an entry that was
\* there once is there once.
LEMMA WithoutComplete ==
    ASSUME NEW T, NEW q \in Seq(T), NEW S
    PROVE  /\ \A i \in DOMAIN q : q[i] \notin S =>
                 \E k \in DOMAIN Without(q, S) : Without(q, S)[k] = q[i]
           /\ (\A i, j \in DOMAIN q : q[i] = q[j] => i = j) =>
                 \A k, l \in DOMAIN Without(q, S) : Without(q, S)[k] = Without(q, S)[l] => k = l
<1> DEFINE kept == {i \in 1..Len(q) : q[i] \notin S}
           n == Cardinality(kept)
<1>1. Len(q) \in Nat /\ DOMAIN q = 1..Len(q)
  BY LenProperties
<1>2. IsFiniteSet(kept) /\ kept \in SUBSET Int
  <2>1. IsFiniteSet(1..Len(q))
    BY <1>1, FS_Interval
  <2> QED BY <1>1, <2>1, FS_Subset
<1>3. Without(q, S) = [k \in 1..n |-> q[KthLeast(kept, k)]]
  BY DEF Without
<1>4. \A i \in DOMAIN q : q[i] \notin S => i \in kept
  BY <1>1
<1>5. kept \in SUBSET DOMAIN q
  BY <1>1
<1> HIDE DEF kept
<1>6. \A i \in kept : Rank(kept, i) \in 1..n /\ KthLeast(kept, Rank(kept, i)) = i
  BY <1>2, KthLeastOfRank
<1>7. \A k \in 1..n : KthLeast(kept, k) \in kept /\ Rank(kept, KthLeast(kept, k)) = k
  BY <1>2, KthLeastProperties
<1> HIDE DEF n
<1>8. ASSUME NEW i \in DOMAIN q, q[i] \notin S
      PROVE  \E k \in DOMAIN Without(q, S) : Without(q, S)[k] = q[i]
  BY <1>3, <1>4, <1>6, <1>8
<1>9. ASSUME \A i, j \in DOMAIN q : q[i] = q[j] => i = j
      PROVE  \A k, l \in DOMAIN Without(q, S) : Without(q, S)[k] = Without(q, S)[l] => k = l
  <2> SUFFICES ASSUME NEW k \in 1..n, NEW l \in 1..n,
                      q[KthLeast(kept, k)] = q[KthLeast(kept, l)]
               PROVE  k = l
    BY <1>3
  <2>1. KthLeast(kept, k) = KthLeast(kept, l)
    BY <1>5, <1>7, <1>9
  <2> QED BY <1>7, <2>1
<1> QED BY <1>8, <1>9

-----------------------------------------------------------------------------
(* The types of the values and the helpers of Scheduler *)

LEMMA WaitsType ==
    /\ NoWait \in Waits
    /\ \A type \in WaitTypes, object \in Objects \cup Uids \cup {Nobody}, n \in Nat :
          /\ WaitFor(type, object) \in Waits
          /\ [WaitFor(type, object) EXCEPT !.count = n] \in Waits
    /\ \A o \in Objects, w \in Wanted :
          [WaitFor("EventFlag", o) EXCEPT !.bits = w.bits, !.mode = w.mode] \in Waits
  BY EventFlagAssumption DEF Waits, NoWait, WaitFor, WaitTypes, AnyMode, Modes

LEMMA CallsType ==
    /\ VBlankCall \in Calls
    /\ \A c \in Callbacks : CallbackCall(c) \in Calls
    /\ \A v \in VTimers, at \in Int : VTimerCall(v, at) \in Calls
    /\ NoCall \notin Calls
    /\ \A c \in Calls : c.kind = "vtimer" => c.id \in VTimers /\ c.at \in Int
    /\ \A c \in Calls, at \in Int : c.kind = "vtimer" => [c EXCEPT !.at = at] \in Calls
  BY DEF Calls, VBlankCall, CallbackCall, VTimerCall, NoCall

LEMMA UidsFinite == IsFiniteSet(Uids) /\ Uids \in SUBSET Int /\ Nobody \notin Uids
<1>1. MaxThreads \in Nat
  BY SchedulerAssumption
<1> QED BY <1>1, FS_Interval DEF Uids, Nobody

\* best_ready_thread names an entry of a ready order that is not empty, and no
\* entry is more urgent.
LEMMA BestType ==
    ASSUME prio \in [Uids -> Priorities], ready \in Seq(Uids), ready # <<>>
    PROVE  /\ Best \in Uids /\ \E i \in DOMAIN ready : Best = ready[i]
           /\ \A i \in DOMAIN ready : prio[Best] <= prio[ready[i]]
<1> DEFINE D == DOMAIN ready
           f == [i \in D |-> prio[ready[i]]]
           P == {f[i] : i \in D}
           OfLeast(p) == {i \in D : prio[ready[i]] = p}
<1>1. Len(ready) \in Nat \ {0} /\ D = 1..Len(ready) /\ \A i \in D : ready[i] \in Uids
  BY EmptySeq, LenProperties, ElementOfSeq
<1>2. IsFiniteSet(D) /\ D # {} /\ D \in SUBSET Int
  <2>1. IsFiniteSet(1..Len(ready))
    BY <1>1, FS_Interval
  <2>2. 1 \in D
    BY <1>1
  <2> QED BY <1>1, <2>1, <2>2
<1>3. \A i \in D : prio[ready[i]] \in Int
  <2>1. Priorities \subseteq Int
    BY SchedulerAssumption
  <2>2. \A u \in Uids : prio[u] \in Int
    BY <2>1
  <2> QED BY <1>1, <2>2
<1>4. IsFiniteSet(P)
  <2>1. f \in Surjection(D, P)
    BY DEF Surjection
  <2> QED BY <1>2, <2>1, FS_Surjection
<1>5. P \in SUBSET Int /\ P # {}
  BY <1>2, <1>3
<1>6. PICK p \in P : \A x \in P : p <= x
  <2> HIDE DEF P
  <2> QED BY <1>4, <1>5, LeastExists
<1>7. OfLeast(p) # {} /\ OfLeast(p) \in SUBSET Int
  BY <1>2, <1>6
<1>8. IsFiniteSet(OfLeast(p))
  BY <1>2, FS_Subset
<1>9. PICK i \in OfLeast(p) : \A j \in OfLeast(p) : i <= j
  <2> HIDE DEF OfLeast
  <2> QED BY <1>7, <1>8, LeastExists
<1>10. \A j \in D : \/ prio[ready[i]] < prio[ready[j]]
                    \/ prio[ready[i]] = prio[ready[j]] /\ i <= j
  <2> TAKE j \in D
  <2>1. prio[ready[i]] = p /\ p <= prio[ready[j]]
    BY <1>6, <1>9
  <2>0. prio[ready[j]] \in Int /\ p \in Int
    BY <1>3, <1>5
  <2>2. CASE prio[ready[j]] = p
    BY <1>9, <2>1, <2>2
  <2>3. CASE prio[ready[j]] # p
    <3>1. p < prio[ready[j]]
      BY <2>0, <2>1, <2>3
    <3> QED BY <2>1, <3>1
  <2> QED BY <2>2, <2>3
<1> DEFINE Top(k) == \A j \in D : \/ prio[ready[k]] < prio[ready[j]]
                                  \/ prio[ready[k]] = prio[ready[j]] /\ k <= j
           best == CHOOSE k \in D : Top(k)
<1>11. best \in D /\ Top(best)
  BY <1>9, <1>10
<1>12. Best = ready[best]
  BY DEF Best
<1> HIDE DEF best
<1>13. \A j \in D : prio[ready[best]] <= prio[ready[j]]
  BY <1>3, <1>11
<1> QED BY <1>1, <1>11, <1>12, <1>13

LEMMA MakeReadyType ==
    ASSUME TypeOK, NEW q \in Seq(Uids), MakeReady(q)
    PROVE  /\ status' \in [Uids -> Statuses] /\ wait' \in [Uids -> Waits]
           /\ deadline' \in [Uids -> Nat \cup {Never}] /\ ready' \in Seq(Uids)
<1>1. ready' \in Seq(Uids)
  BY ConcatProperties DEF MakeReady, TypeOK, ThreadsTypeOK
<1> QED BY <1>1, WaitsType DEF MakeReady, TypeOK, ThreadsTypeOK, Statuses

LEMMA SwitchToType ==
    ASSUME TypeOK, NEW t \in Uids, SwitchTo(t)
    PROVE  /\ status' \in [Uids -> Statuses] /\ ready' \in Seq(Uids)
           /\ current' \in Uids /\ idleVblanks' \in Nat
  BY WithoutProperties DEF SwitchTo, TypeOK, ThreadsTypeOK, Statuses

LEMMA PreemptByType ==
    ASSUME TypeOK, NEW t \in Uids, current # Nobody, PreemptBy(t)
    PROVE  /\ status' \in [Uids -> Statuses] /\ wait' \in [Uids -> Waits]
           /\ deadline' \in [Uids -> Nat \cup {Never}] /\ ready' \in Seq(Uids)
           /\ current' \in Uids /\ idleVblanks' \in Nat
<1>1. Without(ready, {t}) \in Seq(Uids)
  BY WithoutProperties DEF TypeOK, ThreadsTypeOK
<1>2. ready' \in Seq(Uids)
  BY <1>1, AppendProperties DEF PreemptBy, TypeOK, ThreadsTypeOK
<1> QED BY <1>2, WaitsType DEF PreemptBy, TypeOK, ThreadsTypeOK, Statuses

LEMMA BeginInterruptType ==
    ASSUME TypeOK, pending # <<>>, BeginInterrupt
    PROVE  handler' \in Calls /\ pending' \in Seq(Calls) /\ phase' = "guest"
  BY HeadTailProperties DEF BeginInterrupt, TypeOK, EventsTypeOK

LEMMA BlockType ==
    ASSUME TypeOK, NEW w \in Waits, NEW d \in Nat \cup {Never}, Block(w, d)
    PROVE  /\ phase' \in Phases /\ status' \in [Uids -> Statuses] /\ wait' \in [Uids -> Waits]
           /\ deadline' \in [Uids -> Nat \cup {Never}] /\ current' \in Uids \cup {Nobody}
           /\ phase' = "boundary" => phase = "boundary" /\ current' = current
  BY DEF Block, TypeOK, ThreadsTypeOK, Statuses, Phases

LEMMA JoinWaitersType ==
    ASSUME TypeOK, NEW o \in Objects, JoinWaiters(o)
    PROVE  waiters' \in [Objects -> Seq(Uids \cup {Nobody})]
<1>1. Append(waiters[o], current) \in Seq(Uids \cup {Nobody})
  BY AppendProperties DEF TypeOK, ThreadsTypeOK
<1> QED BY <1>1 DEF JoinWaiters, TypeOK

LEMMA RemoveWaitersType ==
    ASSUME TypeOK, NEW S, RemoveWaiters(S)
    PROVE  waiters' \in [Objects -> Seq(Uids \cup {Nobody})]
<1>1. \A o \in Objects : \A gone : Without(waiters[o], gone) \in Seq(Uids \cup {Nobody})
  BY WithoutProperties DEF TypeOK
<1> QED BY <1>1 DEF RemoveWaiters

CallbackStates == [made : BOOLEAN, owner : Uids \cup {Nobody}, notified : BOOLEAN]
VTimerStates == [made : BOOLEAN, active : BOOLEAN, armed : BOOLEAN, left : Int \cup {Never}]

LEMMA DeliverCallbacksType ==
    ASSUME TypeOK, DeliverCallbacks
    PROVE  pending' \in Seq(Calls) /\ callbacks' \in [Callbacks -> CallbackStates]
<1> DEFINE n == Cardinality(Deliverable)
           queued == [k \in 1..n |-> CallbackCall(InUidOrder(Deliverable)[k])]
<1>1. IsFiniteSet(Deliverable) /\ Deliverable \in SUBSET Int
  <2>1. Deliverable \in SUBSET Callbacks
    BY DEF Deliverable
  <2>2. IsFiniteSet(Callbacks) /\ Callbacks \subseteq Int
    BY SchedulerAssumption
  <2> QED BY <2>1, <2>2, FS_Subset
<1>2. n \in Nat /\ \A k \in 1..n : InUidOrder(Deliverable)[k] \in Callbacks
  BY <1>1, FS_CardinalityType, InUidOrderType DEF Deliverable
<1>3. \A k \in 1..n : CallbackCall(InUidOrder(Deliverable)[k]) \in Calls
  BY <1>2, CallsType
<1>4. queued \in Seq(Calls)
  BY <1>2, <1>3
<1>5. pending' \in Seq(Calls)
  <2> HIDE DEF queued, n
  <2>1. pending' = pending \o queued
    BY DEF DeliverCallbacks, queued, n
  <2> QED BY <1>4, <2>1, ConcatProperties DEF TypeOK, EventsTypeOK
<1>6. callbacks' \in [Callbacks -> CallbackStates]
  BY ZenonT(60) DEF DeliverCallbacks, TypeOK, EventsTypeOK, CallbackStates
<1> QED BY <1>5, <1>6

LEMMA LaterType ==
    ASSUME NEW x \in Int \cup {Never}, NEW c \in Int
    PROVE  Later(x, c) \in Int \cup {Never} /\ (x \in Int => Later(x, c) \in Int)
<1>1. MaxLate \in Int /\ Never \notin Int
  BY SchedulerAssumption
<1> QED BY <1>1 DEF Later

LEMMA AdvanceClockType ==
    ASSUME TypeOK, NEW c \in Int, AdvanceClock(c)
    PROVE  /\ vblankIn' \in Int /\ deadline' \in [Uids -> Nat \cup {Never}]
           /\ pending' \in Seq(Calls) /\ vtimers' \in [VTimers -> VTimerStates]
           /\ phase' = "timers"
<1>1. vblankIn' \in Int /\ phase' = "timers"
  BY DEF AdvanceClock, TypeOK
<1>2. deadline' \in [Uids -> Nat \cup {Never}]
  <2>1. \A t \in Uids : deadline[t] # Never => deadline[t] \in Nat
    BY DEF TypeOK, ThreadsTypeOK
  <2>2. \A d \in Nat : ~(d <= c) => d - c \in Nat
    OBVIOUS
  <2> QED BY <2>1, <2>2 DEF AdvanceClock
<1>3. pending' \in Seq(Calls)
  <2> DEFINE moved(k) == IF pending[k].kind = "vtimer"
                         THEN [pending[k] EXCEPT !.at = Later(@, c)] ELSE pending[k]
  <2>1. Len(pending) \in Nat /\ \A k \in 1..Len(pending) : pending[k] \in Calls
    BY LenProperties, ElementOfSeq DEF TypeOK, EventsTypeOK
  <2>2. \A x \in Calls : x.kind = "vtimer" => Later(x.at, c) \in Int
    BY CallsType, LaterType
  <2>3. \A k \in 1..Len(pending) : moved(k) \in Calls
    BY <2>1, <2>2, CallsType
  <2>4. pending' = [k \in 1..Len(pending) |-> moved(k)]
    BY DEF AdvanceClock
  <2> HIDE DEF moved
  <2> QED BY <2>1, <2>3, <2>4
<1>4. vtimers' \in [VTimers -> VTimerStates]
  BY ZenonT(60), LaterType DEF AdvanceClock, TypeOK, EventsTypeOK, VTimerStates
<1> QED BY <1>1, <1>2, <1>3, <1>4

LEMMA OnReturnType ==
    ASSUME TypeOK, handler # NoCall, OnReturn
    PROVE  vtimers' \in [VTimers -> VTimerStates]
<1>1. handler.kind = "vtimer" => handler.id \in VTimers /\ handler.at \in Int
  BY CallsType DEF TypeOK, EventsTypeOK
<1>2. \A next \in Delays \cup {0} : next \in Int
  BY SchedulerAssumption
<1>3. vtimers \in [VTimers -> VTimerStates]
  BY DEF TypeOK, EventsTypeOK, VTimerStates
<1>4. CASE handler.kind = "vtimer"
  <2>1. PICK next \in Delays \cup {0} :
            vtimers' = IF next = 0
                       THEN [vtimers EXCEPT ![handler.id].armed = FALSE]
                       ELSE [vtimers EXCEPT ![handler.id].left = handler.at + next]
    BY <1>4 DEF OnReturn
  <2>2. handler.at + next \in Int
    BY <1>1, <1>2, <1>4
  <2> QED BY <1>1, <1>3, <1>4, <2>1, <2>2 DEF VTimerStates
<1>5. CASE handler.kind # "vtimer"
  BY <1>3, <1>5 DEF OnReturn
<1> QED BY <1>4, <1>5

\* The clock of an idle kernel moves to the nearest of finitely many events.
LEMMA NextEventType ==
    ASSUME TypeOK
    PROVE  IdleStep \in Int /\ (vblankIn >= 0 => 0 <= IdleStep /\ IdleStep <= vblankIn)
<1> DEFINE T == {u \in Uids : IsWaiting(u) /\ deadline[u] # Never}
           V == {u \in VTimers : /\ vtimers[u].active /\ vtimers[u].armed
                                 /\ vtimers[u].left # Never /\ vtimers[u].left >= 0}
           td == [t \in T |-> deadline[t]]
           vd == [v \in V |-> vtimers[v].left]
           A == {td[t] : t \in T}
           B == {HostPollPeriod : t \in HostWaiting}
           C == {vd[v] : v \in V}
<1>1. IsFiniteSet(A) /\ A \subseteq Int
  <2>1. IsFiniteSet(T)
    BY UidsFinite, FS_Subset
  <2>2. td \in Surjection(T, A)
    BY DEF Surjection
  <2>3. A \subseteq Int
    <3>1. \A t \in T : deadline[t] \in Int
      BY DEF TypeOK, ThreadsTypeOK
    <3> QED BY <3>1
  <2> HIDE DEF T, td, A
  <2> QED BY <2>1, <2>2, <2>3, FS_Surjection
<1>2. IsFiniteSet(B) /\ B \subseteq Int
  <2>1. B \in SUBSET {HostPollPeriod} /\ HostPollPeriod \in Int
    BY SchedulerAssumption
  <2> QED BY <2>1, FS_Singleton, FS_Subset
<1>3. IsFiniteSet(C) /\ C \subseteq Int
  <2>1. IsFiniteSet(V)
    <3>1. IsFiniteSet(VTimers)
      BY SchedulerAssumption
    <3> QED BY <3>1, FS_Subset
  <2>2. vd \in Surjection(V, C)
    BY DEF Surjection
  <2>3. C \subseteq Int
    BY DEF TypeOK, EventsTypeOK
  <2> HIDE DEF V, vd, C
  <2> QED BY <2>1, <2>2, <2>3, FS_Surjection
<1>4. IsFiniteSet({vblankIn}) /\ vblankIn \in Int
  BY FS_Singleton DEF TypeOK
<1>5. NextEvents = (({vblankIn} \cup A) \cup B) \cup C
  BY DEF NextEvents
<1> HIDE DEF A, B, C
<1>6. IsFiniteSet(NextEvents) /\ NextEvents \in SUBSET Int /\ NextEvents # {}
  <2>1. IsFiniteSet({vblankIn} \cup A)
    BY <1>1, <1>4, FS_Union
  <2>2. IsFiniteSet(({vblankIn} \cup A) \cup B)
    BY <1>2, <2>1, FS_Union
  <2> QED BY <1>1, <1>2, <1>3, <1>4, <1>5, <2>2, FS_Union
<1>7. \E x \in NextEvents : \A y \in NextEvents : x <= y
  BY <1>6, LeastExists
<1>8. Min(NextEvents) \in NextEvents /\ \A y \in NextEvents : Min(NextEvents) <= y
  BY <1>6, <1>7 DEF Min
<1>9. vblankIn >= 0 => \A y \in NextEvents : y >= 0
  <2>1. HostPollPeriod \in Nat /\ Never \notin Int
    BY SchedulerAssumption
  <2>2. \A u \in Uids : deadline[u] \in Nat \cup {Never}
    BY DEF TypeOK, ThreadsTypeOK
  <2> QED BY <2>1, <2>2 DEF NextEvents
<1>10. Min(NextEvents) \in Int /\ vblankIn \in NextEvents /\ vblankIn \in Int
  BY <1>4, <1>6, <1>8 DEF NextEvents
<1>11. IdleStep = 0 \/ IdleStep = Min(NextEvents)
  BY DEF IdleStep
<1> QED BY <1>8, <1>9, <1>10, <1>11
-----------------------------------------------------------------------------
(* Type correctness.  A boundary needs a thread to preempt, which TypeOK    *)
(* does not say and the step that preempts it relies on.                    *)

BoundaryHasThread == phase = "boundary" => current # Nobody
TypeInv == TypeOK /\ BoundaryHasThread

LEMMA InitTyped == Init => TypeInv
<1> SUFFICES ASSUME Init PROVE TypeInv
  OBVIOUS
<1> USE DEF Init, SchedulerInit, SemaphoresInit, EventFlagsInit, MutexesInit
<1>1. 1 \in Uids /\ Nobody \notin Uids /\ LoaderPriority \in Priorities /\ VBlankPeriod \in Int
  BY SchedulerAssumption DEF Uids, Nobody
<1>2. ThreadsTypeOK
  <2>1. made \in 1..MaxThreads /\ current \in Uids
    BY <1>1 DEF Uids
  <2>2. wakeups \in [Uids -> 0..MaxWakeups]
    <3>1. 0 \in 0..MaxWakeups
      BY SchedulerAssumption
    <3> QED BY <3>1
  <2>3. status \in [Uids -> Statuses] /\ ready \in Seq(Uids)
    BY DEF Statuses
  <2> QED BY <1>1, <2>1, <2>2, <2>3, WaitsType DEF ThreadsTypeOK
<1>3. EventsTypeOK
  <2>1. pending \in Seq(Calls)
    BY EmptySeq
  <2>2. /\ callbacks \in [Callbacks -> CallbackStates]
        /\ vtimers \in [VTimers -> VTimerStates]
    BY DEF CallbackStates, VTimerStates
  <2> QED BY <2>1, <2>2 DEF EventsTypeOK, CallbackStates, VTimerStates
<1>4. ObjectsTypeOK
  BY SemaphoreAssumption, MutexAssumption
     DEF ObjectsTypeOK, Lives, NoSema, NoFlag, NoMutex
<1>5. waiters \in [Objects -> Seq(Uids \cup {Nobody})]
  BY EmptySeq
<1> QED BY <1>1, <1>2, <1>3, <1>4, <1>5 DEF TypeInv, TypeOK, BoundaryHasThread, Phases

LEMMA TimerCallsType ==
    ASSUME TypeOK
    PROVE  /\ pending \o VBlankCalls \o VTimerCalls \in Seq(Calls)
           /\ [v \in VTimers |-> IF v \in DueTimers THEN Disarmed(v) ELSE vtimers[v]]
                 \in [VTimers -> VTimerStates]
<1> DEFINE n == Cardinality(DueTimers)
           v(k) == InUidOrder(DueTimers)[k]
<1>1. DueTimers \in SUBSET VTimers /\ \A x \in DueTimers : vtimers[x].left \in Int
  BY DEF DueTimers, TypeOK, EventsTypeOK
<1>2. IsFiniteSet(DueTimers) /\ DueTimers \in SUBSET Int
  <2>1. IsFiniteSet(VTimers) /\ VTimers \subseteq Int
    BY SchedulerAssumption
  <2> QED BY <1>1, <2>1, FS_Subset
<1>3. n \in Nat /\ \A k \in 1..n : v(k) \in DueTimers
  BY <1>2, FS_CardinalityType, InUidOrderType
<1>4. \A k \in 1..n : VTimerCall(v(k), vtimers[v(k)].left) \in Calls
  BY <1>1, <1>3, CallsType
<1>5. VTimerCalls = [k \in 1..n |-> VTimerCall(v(k), vtimers[v(k)].left)]
  BY DEF VTimerCalls
<1>6. VTimerCalls \in Seq(Calls)
  <2> HIDE DEF n, v
  <2> QED BY <1>3, <1>4, <1>5
<1>7. VBlankCalls \in Seq(Calls)
  BY CallsType DEF VBlankCalls
<1>8. pending \o VBlankCalls \o VTimerCalls \in Seq(Calls)
  BY <1>6, <1>7, ConcatProperties DEF TypeOK, EventsTypeOK
<1>9. [x \in VTimers |-> IF x \in DueTimers THEN Disarmed(x) ELSE vtimers[x]]
         \in [VTimers -> VTimerStates]
  BY DEF Disarmed, TypeOK, EventsTypeOK, VTimerStates
<1> QED BY <1>8, <1>9

LEMMA SchedulerTyped ==
    ASSUME TypeInv, SchedulerNext, UNCHANGED objectVars
    PROVE  TypeInv'
<1> USE DEF TypeInv, TypeOK, BoundaryHasThread, Phases, ThreadsTypeOK, EventsTypeOK, ObjectsTypeOK,
            CallbackStates, VTimerStates, objectVars, loopVars, threadVars, maskVars, intrVars,
            clockVars, eventVars
<1>1. CASE FinishInterrupt
  BY <1>1, BeginInterruptType DEF FinishInterrupt, Interruptible
<1>2. CASE FinishPreempt
  BY <1>2, BestType, PreemptByType DEF FinishPreempt, FinishSwitches, Preemptible
<1>3. CASE FinishReturn
  BY <1>3 DEF FinishReturn
<1>4. CASE ProcessTimers
  <2>1. PICK done \in SUBSET HostWaiting :
            /\ MakeReady(InUidOrder(VBlankWoken) \o InUidOrder(Expired \cup done))
            /\ RemoveWaiters(Expired)
    BY <1>4 DEF ProcessTimers
  <2>2. /\ VBlankWoken \in SUBSET Uids /\ IsFiniteSet(VBlankWoken)
        /\ Expired \cup done \in SUBSET Uids /\ IsFiniteSet(Expired \cup done)
    <3>1. VBlankWoken \in SUBSET Uids /\ Expired \cup done \in SUBSET Uids
      BY DEF VBlankWoken, Expired, HostWaiting
    <3> QED BY <3>1, UidsFinite, FS_Subset
  <2>3. InUidOrder(VBlankWoken) \in Seq(Uids) /\ InUidOrder(Expired \cup done) \in Seq(Uids)
    BY ZenonT(60), <2>2, UidsFinite, InUidOrderType, SeqMonotonic
  <2>4. InUidOrder(VBlankWoken) \o InUidOrder(Expired \cup done) \in Seq(Uids)
    BY <2>3, ConcatProperties
  <2>5. /\ status' \in [Uids -> Statuses] /\ wait' \in [Uids -> Waits]
        /\ deadline' \in [Uids -> Nat \cup {Never}] /\ ready' \in Seq(Uids)
        /\ waiters' \in [Objects -> Seq(Uids \cup {Nobody})]
    BY <2>1, <2>4, MakeReadyType, RemoveWaitersType
  <2>6. /\ vtimers' \in [VTimers -> VTimerStates] /\ pending' \in Seq(Calls)
    BY <1>4, TimerCallsType DEF ProcessTimers
  <2>7. vblankIn' \in Int /\ idleVblanks' \in Nat
    BY <1>4, SchedulerAssumption DEF ProcessTimers
  <2> QED BY <1>4, <2>5, <2>6, <2>7 DEF ProcessTimers
<1>5. CASE PickInterrupt
  BY <1>5, BeginInterruptType DEF PickInterrupt, Interruptible
<1>6. CASE PickThread
  BY <1>6, BestType, SwitchToType DEF PickThread
<1>7. CASE PickDeadlock
  BY <1>7 DEF PickDeadlock
<1>8. CASE PickIdle
  BY ZenonT(60), <1>8, NextEventType, AdvanceClockType DEF PickIdle
<1>9. CASE \E c \in 0..Quantum : Starvation(c)
  <2>1. PICK c \in 0..Quantum : Starvation(c)
    BY <1>9
  <2>2. c \in Int
    BY SchedulerAssumption
  <2> QED BY ZenonT(60), <2>1, <2>2, AdvanceClockType DEF Starvation
<1>10. CASE BoundaryInterrupt
  BY <1>10, BeginInterruptType DEF BoundaryInterrupt, Interruptible
<1>11. CASE BoundaryPreempt
  BY <1>11, BestType, PreemptByType DEF BoundaryPreempt, BoundarySwitches, BoundaryIn
<1>12. CASE BoundaryReturn
  BY <1>12 DEF BoundaryReturn
<1>13. CASE ReturnToHandler
  BY <1>13, OnReturnType, BeginInterruptType DEF ReturnToHandler, HandlerReturns, Interruptible
<1>14. CASE ReturnToSchedule
  BY <1>14, OnReturnType DEF ReturnToSchedule, HandlerReturns
<1>15. CASE ReturnAndPreempt
  BY <1>15, OnReturnType, BestType, PreemptByType
     DEF ReturnAndPreempt, HandlerReturns, ReturnPreempts, InGuest
<1>16. CASE ReturnToThread
  BY <1>16, OnReturnType DEF ReturnToThread, HandlerReturns
<1>17. CASE CancelWaiter
  <2>1. target # Nobody => /\ Head(waiters[target]) \in Uids \cup {Nobody}
                           /\ Tail(waiters[target]) \in Seq(Uids \cup {Nobody})
    BY <1>17, HeadTailProperties DEF CancelWaiter
  <2>2. waiters' \in [Objects -> Seq(Uids \cup {Nobody})]
    <3>1. target \in Objects => Tail(waiters[target]) \in Seq(Uids \cup {Nobody})
      BY <2>1, SchedulerAssumption
    <3>2. waiters' = [waiters EXCEPT ![target] = Tail(waiters[target])]
      BY <1>17 DEF CancelWaiter
    <3> QED BY <3>1, <3>2
  <2>3. ASSUME IsWaiting(Head(waiters[target]))
        PROVE  <<Head(waiters[target])>> \in Seq(Uids)
    BY <2>3 DEF IsWaiting
  <2>4. /\ status' \in [Uids -> Statuses] /\ wait' \in [Uids -> Waits]
        /\ deadline' \in [Uids -> Nat \cup {Never}] /\ ready' \in Seq(Uids)
    BY <1>17, <2>3, MakeReadyType DEF CancelWaiter
  <2> QED BY <1>17, <2>2, <2>4 DEF CancelWaiter
<1>18. CASE CancelDone
  BY <1>18 DEF CancelDone
<1> QED BY <1>1, <1>2, <1>3, <1>4, <1>5, <1>6, <1>7, <1>8, <1>9, <1>10, <1>11, <1>12, <1>13,
           <1>14, <1>15, <1>16, <1>17, <1>18 DEF SchedulerNext

\* A wait on time, a thread or the host.
LEMMA TimedWaitTyped ==
    ASSUME TypeInv, NEW w \in Waits, NEW d \in Nat \cup {Never}, NEW cb \in BOOLEAN,
           TimedWait(w, d, cb), UNCHANGED objectVars
    PROVE  TypeInv'
<1> USE DEF TypeInv, TypeOK, BoundaryHasThread, Phases, ThreadsTypeOK, EventsTypeOK, ObjectsTypeOK,
            CallbackStates, VTimerStates, objectVars, loopVars, threadVars, maskVars, intrVars,
            clockVars, eventVars
<1>1. pending' \in Seq(Calls) /\ callbacks' \in [Callbacks -> CallbackStates]
  BY DeliverCallbacksType DEF TimedWait, DeliverIf
<1>2. /\ phase' \in Phases /\ status' \in [Uids -> Statuses] /\ wait' \in [Uids -> Waits]
      /\ deadline' \in [Uids -> Nat \cup {Never}] /\ current' \in Uids \cup {Nobody}
      /\ phase' = "boundary" => phase = "boundary" /\ current' = current
  BY BlockType DEF TimedWait
<1> QED BY <1>1, <1>2 DEF TimedWait

LEMMA TimedWaitsTyped ==
    ASSUME TypeInv, UNCHANGED objectVars,
           \/ \E d \in Delays, cb \in BOOLEAN : DelayThread(d, cb)
           \/ \E cb \in BOOLEAN : WaitVBlank(cb)
           \/ \E t \in Uids, d \in Limits, cb \in BOOLEAN : WaitThreadEnd(t, d, cb)
           \/ \E d \in Limits : WaitHost(d)
    PROVE  TypeInv'
<1>1. CASE \E d \in Delays, cb \in BOOLEAN : DelayThread(d, cb)
  <2>1. PICK d \in Delays, cb \in BOOLEAN : DelayThread(d, cb)
    BY <1>1
  <2>2. WaitFor("Delay", Nobody) \in Waits /\ d \in Nat
    BY WaitsType, SchedulerAssumption DEF WaitTypes
  <2> QED BY <2>1, <2>2, TimedWaitTyped DEF DelayThread
<1>2. CASE \E cb \in BOOLEAN : WaitVBlank(cb)
  <2>1. WaitFor("VBlank", Nobody) \in Waits
    BY WaitsType DEF WaitTypes
  <2> QED BY <1>2, <2>1, TimedWaitTyped DEF WaitVBlank
<1>3. CASE \E t \in Uids, d \in Limits, cb \in BOOLEAN : WaitThreadEnd(t, d, cb)
  <2>1. PICK t \in Uids, d \in Limits, cb \in BOOLEAN : WaitThreadEnd(t, d, cb)
    BY <1>3
  <2>2. WaitFor("ThreadEnd", t) \in Waits /\ d \in Nat \cup {Never}
    BY WaitsType, SchedulerAssumption DEF WaitTypes, Limits
  <2> QED BY <2>1, <2>2, TimedWaitTyped DEF WaitThreadEnd
<1>4. CASE \E d \in Limits : WaitHost(d)
  <2>1. PICK d \in Limits : WaitHost(d)
    BY <1>4
  <2>2. WaitFor("Host", Nobody) \in Waits /\ d \in Nat \cup {Never}
    BY WaitsType, SchedulerAssumption DEF WaitTypes, Limits
  <2> QED BY <2>1, <2>2, TimedWaitTyped DEF WaitHost
<1> QED BY <1>1, <1>2, <1>3, <1>4

LEMMA ThreadsTyped ==
    ASSUME TypeInv, ThreadsNext, UNCHANGED objectVars
    PROVE  TypeInv'
<1> USE DEF TypeInv, TypeOK, BoundaryHasThread, Phases, ThreadsTypeOK, EventsTypeOK, ObjectsTypeOK,
            CallbackStates, VTimerStates, objectVars, loopVars, threadVars, maskVars, intrVars,
            clockVars, eventVars
<1>0. \A t \in Uids : <<t>> \in Seq(Uids)
  OBVIOUS
<1>1. CASE OtherCall
  BY <1>1 DEF OtherCall
<1>2. CASE \E p \in Priorities : CreateThread(p)
  <2>1. PICK p \in Priorities : CreateThread(p)
    BY <1>2
  <2>2. made' \in 1..MaxThreads
    BY <2>1, SchedulerAssumption DEF CreateThread
  <2> QED BY <2>1, <2>2 DEF CreateThread, Statuses
<1>3. CASE \E t \in Uids : StartThread(t)
  <2>1. PICK t \in Uids : StartThread(t)
    BY <1>3
  <2>2. wakeups' \in [Uids -> 0..MaxWakeups]
    <3>1. 0 \in 0..MaxWakeups
      BY SchedulerAssumption
    <3> QED BY <2>1, <3>1 DEF StartThread
  <2> QED BY ZenonT(60), <1>0, <2>1, <2>2, MakeReadyType DEF StartThread
<1>4. CASE \E t \in Uids : DeleteThread(t)
  BY <1>4 DEF DeleteThread, Statuses
<1>5. CASE \E delete \in BOOLEAN : ExitThread(delete)
  <2>1. InUidOrder(Joined) \in Seq(Uids)
    <3>1. Joined \in SUBSET Uids
      BY DEF Joined
    <3>2. IsFiniteSet(Joined) /\ Joined \in SUBSET Int
      BY <3>1, UidsFinite, FS_Subset
    <3> QED BY <3>1, <3>2, InUidOrderType, SeqMonotonic
  <2>2. ready' \in Seq(Uids)
    BY <1>5, <2>1, ConcatProperties DEF ExitThread
  <2>3. PICK delete \in BOOLEAN : ExitThread(delete)
    BY <1>5
  <2>4. status' \in [Uids -> Statuses]
    BY <2>3 DEF ExitThread, Statuses
  <2>5. wait' \in [Uids -> Waits] /\ deadline' \in [Uids -> Nat \cup {Never}]
    BY <2>3, WaitsType DEF ExitThread
  <2> QED BY <2>2, <2>3, <2>4, <2>5 DEF ExitThread
<1>6. CASE \E t \in Uids, delete \in BOOLEAN : TerminateThread(t, delete)
  BY SMTT(30), <1>6, RemoveWaitersType, WithoutProperties DEF TerminateThread, Statuses
<1>7. CASE \E t \in Uids, p \in Priorities : ChangePriority(t, p)
  BY <1>7, WithoutProperties, AppendProperties DEF ChangePriority
<1>8. CASE \E cb \in BOOLEAN : SleepTakesWakeup(cb)
  <2>1. PICK cb \in BOOLEAN : SleepTakesWakeup(cb)
    BY <1>8
  <2>2. pending' \in Seq(Calls) /\ callbacks' \in [Callbacks -> CallbackStates]
    BY <2>1, DeliverCallbacksType DEF SleepTakesWakeup, DeliverIf
  <2>3. wakeups' \in [Uids -> 0..MaxWakeups]
    BY <2>1, SchedulerAssumption DEF SleepTakesWakeup
  <2> QED BY <2>1, <2>2, <2>3 DEF SleepTakesWakeup
<1>9. CASE \E cb \in BOOLEAN : SleepBlocks(cb)
  <2>1. PICK cb \in BOOLEAN : SleepBlocks(cb)
    BY <1>9
  <2>2. pending' \in Seq(Calls) /\ callbacks' \in [Callbacks -> CallbackStates]
    BY <2>1, DeliverCallbacksType DEF SleepBlocks, DeliverIf
  <2>3. WaitFor("Sleep", Nobody) \in Waits
    BY WaitsType DEF WaitTypes
  <2> QED BY ZenonT(60), <2>1, <2>2, <2>3, BlockType DEF SleepBlocks
<1>10. CASE \E t \in Uids : WakeupSleeper(t)
  BY <1>0, <1>10, MakeReadyType DEF WakeupSleeper
<1>11. CASE \E t \in Uids : WakeupStored(t)
  BY SMTT(30), <1>11, SchedulerAssumption DEF WakeupStored
<1>12. CASE \/ \E d \in Delays, cb \in BOOLEAN : DelayThread(d, cb)
            \/ \E cb \in BOOLEAN : WaitVBlank(cb)
            \/ \E t \in Uids, d \in Limits, cb \in BOOLEAN : WaitThreadEnd(t, d, cb)
            \/ \E d \in Limits : WaitHost(d)
  BY <1>12, TimedWaitsTyped
<1>13. CASE \E t \in Uids : ReleaseWaitThread(t)
  BY <1>0, <1>13, MakeReadyType DEF ReleaseWaitThread
<1>14. CASE \E on \in BOOLEAN : SetInterrupts(on)
  BY <1>14 DEF SetInterrupts
<1>15. CASE \E on \in BOOLEAN : SetDispatch(on)
  BY <1>15 DEF SetDispatch
<1> QED BY <1>1, <1>2, <1>3, <1>4, <1>5, <1>6, <1>7, <1>8, <1>9, <1>10, <1>11, <1>12, <1>13,
           <1>14, <1>15 DEF ThreadsNext

LEMMA CallbacksTyped ==
    ASSUME TypeInv, NEW c \in Callbacks, CreateCallback(c) \/ DeleteCallback(c) \/ NotifyCallback(c)
    PROVE  callbacks' \in [Callbacks -> CallbackStates]
<1>1. callbacks \in [Callbacks -> CallbackStates] /\ current \in Uids \cup {Nobody}
  BY DEF TypeInv, TypeOK, EventsTypeOK, ThreadsTypeOK, CallbackStates
<1>2. CASE CreateCallback(c)
  BY <1>1, <1>2 DEF CallbackStates, CreateCallback
<1>3. CASE DeleteCallback(c)
  BY <1>1, <1>3 DEF CallbackStates, DeleteCallback
<1>4. CASE NotifyCallback(c)
  BY <1>1, <1>4 DEF CallbackStates, NotifyCallback
<1> QED BY <1>2, <1>3, <1>4

LEMMA VTimersTyped ==
    ASSUME TypeInv, NEW v \in VTimers,
           \/ CreateVTimer(v) \/ StartVTimer(v)
           \/ \E left \in Delays \cup {0}, armed \in BOOLEAN : SetVTimerHandler(v, left, armed)
    PROVE  vtimers' \in [VTimers -> VTimerStates]
<1>1. vtimers \in [VTimers -> VTimerStates]
  BY DEF TypeInv, TypeOK, EventsTypeOK, VTimerStates
<1>2. \A left \in Delays \cup {0} : left \in Int
  BY SchedulerAssumption
<1>3. CASE CreateVTimer(v)
  BY <1>1, <1>3 DEF VTimerStates, CreateVTimer
<1>4. CASE StartVTimer(v)
  BY <1>1, <1>4 DEF VTimerStates, StartVTimer
<1>5. CASE \E left \in Delays \cup {0}, armed \in BOOLEAN : SetVTimerHandler(v, left, armed)
  <2>1. PICK left \in Delays \cup {0}, armed \in BOOLEAN :
            vtimers' = [vtimers EXCEPT ![v].left = left, ![v].armed = armed]
    BY <1>5 DEF SetVTimerHandler
  <2>2. left \in Int \cup {Never}
    BY <1>2
  <2> QED BY <1>1, <2>1, <2>2 DEF VTimerStates
<1> QED BY <1>3, <1>4, <1>5

LEMMA KernelEventsTyped ==
    ASSUME TypeInv, KernelEventsNext, UNCHANGED objectVars
    PROVE  TypeInv'
<1> USE DEF TypeInv, TypeOK, BoundaryHasThread, Phases, ThreadsTypeOK, EventsTypeOK, ObjectsTypeOK,
            CallbackStates, VTimerStates, objectVars, loopVars, threadVars, maskVars, intrVars,
            clockVars, eventVars
<1> USE DEF EventCall
<1>1. CASE RegisterVBlankHandler \/ EnableVBlankHandler \/ ReleaseVBlankHandler
  BY <1>1 DEF RegisterVBlankHandler, EnableVBlankHandler, ReleaseVBlankHandler
<1>2. CASE \E c \in Callbacks : CreateCallback(c) \/ DeleteCallback(c) \/ NotifyCallback(c)
  <2>1. callbacks' \in [Callbacks -> CallbackStates]
    BY <1>2, CallbacksTyped
  <2> QED BY <1>2, <2>1 DEF CreateCallback, DeleteCallback, NotifyCallback
<1>3. CASE \E v \in VTimers : CreateVTimer(v) \/ StartVTimer(v)
  <2>1. vtimers' \in [VTimers -> VTimerStates]
    BY <1>3, VTimersTyped
  <2> QED BY SMTT(30), <1>3, <2>1 DEF CreateVTimer, StartVTimer
<1>4. CASE \E v \in VTimers, left \in Delays \cup {0}, armed \in BOOLEAN :
              SetVTimerHandler(v, left, armed)
  <2>1. vtimers' \in [VTimers -> VTimerStates]
    BY <1>4, VTimersTyped
  <2> QED BY ZenonT(60), <1>4, <2>1 DEF SetVTimerHandler
<1> QED BY <1>1, <1>2, <1>3, <1>4 DEF KernelEventsNext

SemaStates == [life : Lives, count : Nat, max : 1..MaxCount]
FlagStates == [life : Lives, multi : BOOLEAN, pattern : SUBSET Bits]
MutexStates == [life : Lives, recursive : BOOLEAN, owner : Uids \cup {Nobody}, locks : Nat]

\* A wait that joins the waiters of an object.
LEMMA ObjectWaitTyped ==
    ASSUME TypeInv, NEW o \in Objects, NEW w \in Waits, NEW d \in Nat \cup {Never},
           NEW cb \in BOOLEAN, DeliverIf(cb), JoinWaiters(o), Block(w, d),
           UNCHANGED <<loopVars, made, prio, initPrio, wakeups, ready, maskVars, handler, idleIntr,
                       clockVars, vblankHandler, vtimers>>,
           UNCHANGED objectVars
    PROVE  TypeInv'
<1> USE DEF TypeInv, TypeOK, BoundaryHasThread, Phases, loopVars, threadVars, maskVars, intrVars,
            clockVars, eventVars
<1> USE DEF ThreadsTypeOK, EventsTypeOK, ObjectsTypeOK, objectVars
<1>1. pending' \in Seq(Calls) /\ callbacks' \in [Callbacks -> CallbackStates]
  BY DeliverCallbacksType DEF DeliverIf, CallbackStates
<1>2. /\ phase' \in Phases /\ status' \in [Uids -> Statuses] /\ wait' \in [Uids -> Waits]
      /\ deadline' \in [Uids -> Nat \cup {Never}] /\ current' \in Uids \cup {Nobody}
      /\ phase' = "boundary" => phase = "boundary" /\ current' = current
  BY BlockType
<1>3. waiters' \in [Objects -> Seq(Uids \cup {Nobody})]
  BY JoinWaitersType
<1> QED BY <1>1, <1>2, <1>3 DEF CallbackStates

\* A list without its first entry, or without the entry at a position.
LEMMA WaitersTailType ==
    ASSUME TypeOK, NEW o \in Objects
    PROVE  /\ waiters[o] # <<>> => [waiters EXCEPT ![o] = Tail(@)]
                                      \in [Objects -> Seq(Uids \cup {Nobody})]
           /\ \A i \in Nat : i <= Len(waiters[o]) =>
                 [waiters EXCEPT ![o] = SubSeq(@, 1, i - 1) \o SubSeq(@, i + 1, Len(@))]
                                      \in [Objects -> Seq(Uids \cup {Nobody})]
<1> DEFINE T == Uids \cup {Nobody}
<1>1. waiters \in [Objects -> Seq(T)] /\ waiters[o] \in Seq(T)
  BY DEF TypeOK
<1>2. waiters[o] # <<>> => Tail(waiters[o]) \in Seq(T)
  BY <1>1, HeadTailProperties
<1>3. ASSUME NEW i \in Nat, i <= Len(waiters[o])
      PROVE  SubSeq(waiters[o], 1, i - 1) \o SubSeq(waiters[o], i + 1, Len(waiters[o])) \in Seq(T)
  <2>1. Len(waiters[o]) \in Nat /\ \A k \in 1..Len(waiters[o]) : waiters[o][k] \in T
    BY <1>1, LenProperties, ElementOfSeq
  <2>2. SubSeq(waiters[o], 1, i - 1) \in Seq(T)
    BY <1>3, <2>1, SubSeqProperties
  <2>3. SubSeq(waiters[o], i + 1, Len(waiters[o])) \in Seq(T)
    BY <1>3, <2>1, SubSeqProperties
  <2> QED BY <2>2, <2>3, ConcatProperties
<1> QED BY <1>1, <1>2, <1>3

LEMMA ThreadsUnchanged ==
    ASSUME ThreadsTypeOK, UNCHANGED threadVars
    PROVE  ThreadsTypeOK'
  BY DEF ThreadsTypeOK, threadVars

LEMMA EventsUnchanged ==
    ASSUME EventsTypeOK, UNCHANGED <<intrVars, eventVars>>
    PROVE  EventsTypeOK'
  BY DEF EventsTypeOK, intrVars, eventVars

\* The release loops: the thread at the head of a list, or at a position of it,
\* becomes ready and leaves the list.
LEMMA WokenTyped ==
    ASSUME TypeInv, NEW t \in Uids, MakeReady(<<t>>),
           UNCHANGED <<made, prio, initPrio, wakeups, current>>
    PROVE  ThreadsTypeOK'
<1>1. <<t>> \in Seq(Uids)
  OBVIOUS
<1>2. /\ status' \in [Uids -> Statuses] /\ wait' \in [Uids -> Waits]
      /\ deadline' \in [Uids -> Nat \cup {Never}] /\ ready' \in Seq(Uids)
  BY <1>1, MakeReadyType DEF TypeInv
<1> QED BY <1>2 DEF TypeInv, TypeOK, ThreadsTypeOK

LEMMA SemaphoresTyped ==
    ASSUME TypeInv, SemaphoresNext, UNCHANGED <<flags, mutexes>>
    PROVE  TypeInv'
<1> USE DEF TypeInv, TypeOK, BoundaryHasThread, Phases, loopVars, maskVars, clockVars
<1> USE ThreadsUnchanged, EventsUnchanged
<1> PICK s \in Semas :
        \/ \E max \in 1..MaxCount : \E initial \in 0..max : CreateSema(s, initial, max)
        \/ DeleteSema(s)
        \/ \E signal \in 1..MaxSignal : SignalSema(s, signal)
        \/ SemaDropsStale(s) \/ SemaGrants(s) \/ SemaReleased(s)
        \/ \E wanted \in 1..MaxCount : WaitSemaTakes(s, wanted) \/ PollSema(s, wanted)
        \/ \E wanted \in 1..MaxCount, d \in Timeouts \cup {Never}, cb \in BOOLEAN :
              WaitSemaBlocks(s, wanted, d, cb)
  BY DEF SemaphoresNext
<1>1. semas \in [Semas -> SemaStates] /\ s \in Objects /\ current \in Uids \cup {Nobody}
  BY SemaphoreAssumption DEF ObjectsTypeOK, SemaStates, ThreadsTypeOK
<1>2. ASSUME semas' \in [Semas -> SemaStates]
      PROVE  ObjectsTypeOK'
  BY <1>2 DEF ObjectsTypeOK, SemaStates
<1>3. CASE \E max \in 1..MaxCount : \E initial \in 0..max : CreateSema(s, initial, max)
  <2>1. semas' \in [Semas -> SemaStates]
    BY <1>1, <1>3 DEF CreateSema, SemaStates, Lives
  <2> QED BY <1>2, <1>3, <2>1 DEF CreateSema
<1>4. CASE DeleteSema(s)
  <2>1. semas' \in [Semas -> SemaStates]
    BY <1>1, <1>4, SemaphoreAssumption DEF DeleteSema, SemaStates, Lives, NoSema
  <2> QED BY <1>1, <1>2, <1>4, <2>1 DEF DeleteSema
<1>5. CASE \E signal \in 1..MaxSignal : SignalSema(s, signal)
  <2>1. semas' \in [Semas -> SemaStates]
    <3>1. PICK signal \in 1..MaxSignal : semas' = [semas EXCEPT ![s].count = @ + signal]
      BY <1>5 DEF SignalSema
    <3>2. semas[s].count + signal \in Nat
      BY <1>1 DEF SemaStates
    <3> QED BY <1>1, <3>1, <3>2 DEF SemaStates
  <2> QED BY <1>1, <1>2, <1>5, <2>1 DEF SignalSema
<1>6. CASE SemaDropsStale(s)
  <2>1. waiters' \in [Objects -> Seq(Uids \cup {Nobody})]
    BY <1>1, <1>6, WaitersTailType DEF SemaDropsStale
  <2> QED BY <1>1, <1>2, <1>6, <2>1 DEF SemaDropsStale, ReleaseSema
<1>7. CASE SemaGrants(s)
  <2> DEFINE t == Head(waiters[s])
  <2>1. t \in Uids /\ wait[t].count \in Nat /\ wait[t].count <= semas[s].count
    BY <1>7 DEF SemaGrants, SemaStale, SemaGrantable, IsWaiting, ThreadsTypeOK, Waits
  <2>2. semas' \in [Semas -> SemaStates]
    <3>1. semas' = [semas EXCEPT ![s].count = @ - wait[t].count]
      BY <1>7 DEF SemaGrants
    <3>2. semas[s].count - wait[t].count \in Nat
      BY <1>1, <2>1 DEF SemaStates
    <3> QED BY <1>1, <3>1, <3>2 DEF SemaStates
  <2>3. ThreadsTypeOK'
    BY <1>7, <2>1, WokenTyped DEF SemaGrants
  <2>4. waiters' \in [Objects -> Seq(Uids \cup {Nobody})]
    BY <1>1, <1>7, WaitersTailType DEF SemaGrants
  <2> QED BY <1>1, <1>2, <1>7, <2>2, <2>3, <2>4 DEF SemaGrants
<1>8. CASE SemaReleased(s)
  BY <1>1, <1>2, <1>8 DEF SemaReleased
<1>9. CASE \E wanted \in 1..MaxCount : WaitSemaTakes(s, wanted) \/ PollSema(s, wanted)
  <2>1. PICK wanted \in 1..MaxCount : TakeSema(s, wanted)
    BY <1>9 DEF WaitSemaTakes, PollSema
  <2>2. semas' \in [Semas -> SemaStates]
    <3>1. semas' = [semas EXCEPT ![s].count = @ - wanted] /\ wanted <= semas[s].count
      BY <2>1 DEF TakeSema, SemaFree
    <3>2. semas[s].count - wanted \in Nat
      BY <1>1, <3>1 DEF SemaStates
    <3> QED BY <1>1, <3>1, <3>2 DEF SemaStates
  <2> QED BY <1>2, <2>1, <2>2 DEF TakeSema
<1>10. CASE \E wanted \in 1..MaxCount, d \in Timeouts \cup {Never}, cb \in BOOLEAN :
              WaitSemaBlocks(s, wanted, d, cb)
  <2>1. PICK wanted \in 1..MaxCount, d \in Timeouts \cup {Never}, cb \in BOOLEAN :
              WaitSemaBlocks(s, wanted, d, cb)
    BY <1>10
  <2>2. [WaitFor("Semaphore", s) EXCEPT !.count = wanted] \in Waits
    <3>1. wanted \in Nat /\ "Semaphore" \in WaitTypes
      BY DEF WaitTypes
    <3> QED BY <1>1, <3>1, WaitsType
  <2>3. d \in Nat \cup {Never}
    BY SchedulerAssumption
  <2> HIDE DEF TypeInv
  <2> QED BY <1>1, <2>1, <2>2, <2>3, ObjectWaitTyped DEF WaitSemaBlocks, objectVars
<1> QED BY <1>3, <1>4, <1>5, <1>6, <1>7, <1>8, <1>9, <1>10

LEMMA EventFlagsTyped ==
    ASSUME TypeInv, EventFlagsNext, UNCHANGED <<semas, mutexes>>
    PROVE  TypeInv'
<1> USE DEF TypeInv, TypeOK, BoundaryHasThread, Phases, loopVars, maskVars, clockVars
<1> USE ThreadsUnchanged, EventsUnchanged
<1> PICK f \in Flags :
        \/ \E multi \in BOOLEAN, pattern \in SUBSET Bits : CreateEventFlag(f, multi, pattern)
        \/ DeleteEventFlag(f)
        \/ \E bits \in SUBSET Bits : SetEventFlag(f, bits) \/ ClearEventFlag(f, bits)
        \/ FlagDropsStale(f) \/ FlagSkips(f) \/ FlagWakes(f) \/ FlagReleased(f)
        \/ \E w \in Wanted : PollEventFlag(f, w) \/ WaitEventFlagTakes(f, w)
        \/ \E w \in Wanted, d \in Timeouts \cup {Never}, cb \in BOOLEAN :
              WaitEventFlagBlocks(f, w, d, cb)
  BY DEF EventFlagsNext
<1>1. flags \in [Flags -> FlagStates] /\ f \in Objects
  BY EventFlagAssumption DEF ObjectsTypeOK, FlagStates
<1>2. ASSUME flags' \in [Flags -> FlagStates]
      PROVE  ObjectsTypeOK'
  BY <1>2 DEF ObjectsTypeOK, FlagStates
<1>3. ASSUME NEW p \in SUBSET Bits, NEW b \in SUBSET Bits, NEW mode \in Modes
      PROVE  AfterMatch(p, b, mode) \in SUBSET Bits
  BY DEF AfterMatch, Modes
<1>4. CASE \E multi \in BOOLEAN, pattern \in SUBSET Bits : CreateEventFlag(f, multi, pattern)
  <2>1. flags' \in [Flags -> FlagStates]
    BY <1>1, <1>4 DEF CreateEventFlag, FlagStates, Lives
  <2> QED BY <1>2, <1>4, <2>1 DEF CreateEventFlag
<1>5. CASE DeleteEventFlag(f)
  <2>1. flags' \in [Flags -> FlagStates]
    BY <1>1, <1>5 DEF DeleteEventFlag, FlagStates, Lives, NoFlag
  <2> QED BY <1>1, <1>2, <1>5, <2>1 DEF DeleteEventFlag
<1>6. CASE \E bits \in SUBSET Bits : SetEventFlag(f, bits) \/ ClearEventFlag(f, bits)
  <2>1. PICK bits \in SUBSET Bits : SetEventFlag(f, bits) \/ ClearEventFlag(f, bits)
    BY <1>6
  <2>2. CASE SetEventFlag(f, bits)
    <3>1. flags' \in [Flags -> FlagStates]
      BY <1>1, <2>2 DEF SetEventFlag, FlagStates
    <3> QED BY <1>1, <1>2, <2>2, <3>1 DEF SetEventFlag
  <2>3. CASE ClearEventFlag(f, bits)
    <3>1. flags' \in [Flags -> FlagStates]
      BY <1>1, <2>3 DEF ClearEventFlag, FlagStates
    <3> QED BY <1>2, <2>3, <3>1 DEF ClearEventFlag
  <2> QED BY <2>1, <2>2, <2>3
<1>7. CASE FlagDropsStale(f)
  <2>1. waiters' \in [Objects -> Seq(Uids \cup {Nobody})]
    BY <1>1, <1>7, WaitersTailType DEF FlagDropsStale, DropScanned, ReleaseFlag
  <2> QED BY <1>1, <1>2, <1>7, <2>1 DEF FlagDropsStale, ReleaseFlag
<1>8. CASE FlagSkips(f)
  BY <1>1, <1>2, <1>8 DEF FlagSkips, ReleaseFlag
<1>9. CASE FlagWakes(f)
  <2> DEFINE t == Scanned(f)
  <2>1. t \in Uids /\ wait[t].bits \in SUBSET Bits /\ wait[t].mode \in Modes
    BY <1>9 DEF FlagWakes, IsWaiting, ThreadsTypeOK, Waits
  <2>2. flags' \in [Flags -> FlagStates]
    <3>1. flags' = [flags EXCEPT ![f].pattern = AfterMatch(@, wait[t].bits, wait[t].mode)]
      BY <1>9 DEF FlagWakes
    <3>2. AfterMatch(flags[f].pattern, wait[t].bits, wait[t].mode) \in SUBSET Bits
      BY <1>1, <1>3, <2>1 DEF FlagStates
    <3> QED BY <1>1, <3>1, <3>2 DEF FlagStates
  <2>3. ThreadsTypeOK'
    BY <1>9, <2>1, WokenTyped DEF FlagWakes
  <2>4. waiters' \in [Objects -> Seq(Uids \cup {Nobody})]
    BY <1>1, <1>9, WaitersTailType DEF FlagWakes, DropScanned, ReleaseFlag
  <2> QED BY <1>1, <1>2, <1>9, <2>2, <2>3, <2>4 DEF FlagWakes, ReleaseFlag
<1>10. CASE FlagReleased(f)
  BY <1>1, <1>2, <1>10 DEF FlagReleased
<1>11. CASE \E w \in Wanted : PollEventFlag(f, w) \/ WaitEventFlagTakes(f, w)
  <2>1. PICK w \in Wanted : TakeFlag(f, w)
    BY <1>11 DEF PollEventFlag, WaitEventFlagTakes
  <2>2. flags' \in [Flags -> FlagStates]
    <3>1. flags' = [flags EXCEPT ![f].pattern = AfterMatch(@, w.bits, w.mode)]
      BY <2>1 DEF TakeFlag
    <3>2. w.bits \in SUBSET Bits /\ w.mode \in Modes
      BY EventFlagAssumption
    <3>3. AfterMatch(flags[f].pattern, w.bits, w.mode) \in SUBSET Bits
      BY <1>1, <1>3, <3>2 DEF FlagStates
    <3> QED BY <1>1, <3>1, <3>3 DEF FlagStates
  <2> QED BY <1>2, <2>1, <2>2 DEF TakeFlag
<1>12. CASE \E w \in Wanted, d \in Timeouts \cup {Never}, cb \in BOOLEAN :
              WaitEventFlagBlocks(f, w, d, cb)
  <2>1. PICK w \in Wanted, d \in Timeouts \cup {Never}, cb \in BOOLEAN :
              WaitEventFlagBlocks(f, w, d, cb)
    BY <1>12
  <2>2. [WaitFor("EventFlag", f) EXCEPT !.bits = w.bits, !.mode = w.mode] \in Waits
    BY <1>1, WaitsType
  <2>3. d \in Nat \cup {Never}
    BY SchedulerAssumption
  <2> HIDE DEF TypeInv
  <2> QED BY <1>1, <2>1, <2>2, <2>3, ObjectWaitTyped DEF WaitEventFlagBlocks, objectVars
<1> QED BY <1>4, <1>5, <1>6, <1>7, <1>8, <1>9, <1>10, <1>11, <1>12

LEMMA MutexesTyped ==
    ASSUME TypeInv, MutexesNext, UNCHANGED <<semas, flags>>
    PROVE  TypeInv'
<1> USE DEF TypeInv, TypeOK, BoundaryHasThread, Phases, loopVars, maskVars, clockVars
<1> USE ThreadsUnchanged, EventsUnchanged
<1> PICK m \in Locks :
        \/ \E recursive \in BOOLEAN, locks \in 0..MaxLocks : CreateMutex(m, recursive, locks)
        \/ DeleteMutex(m)
        \/ \E count \in 1..MaxLocks :
              LockMutexTakes(m, count) \/ LockMutexAgain(m, count) \/ UnlockMutex(m, count)
        \/ \E count \in 1..MaxLocks, d \in Timeouts \cup {Never} : LockMutexBlocks(m, count, d)
        \/ MutexDropsStale(m) \/ MutexHandsOver(m) \/ MutexReleased(m)
  BY DEF MutexesNext
<1>1. mutexes \in [Locks -> MutexStates] /\ m \in Objects /\ current \in Uids \cup {Nobody}
  BY MutexAssumption DEF ObjectsTypeOK, MutexStates, ThreadsTypeOK
<1>2. ASSUME mutexes' \in [Locks -> MutexStates]
      PROVE  ObjectsTypeOK'
  BY <1>2 DEF ObjectsTypeOK, MutexStates
<1>3. CASE \E recursive \in BOOLEAN, locks \in 0..MaxLocks : CreateMutex(m, recursive, locks)
  <2>1. mutexes' \in [Locks -> MutexStates]
    BY <1>1, <1>3 DEF CreateMutex, MutexStates, Lives
  <2> QED BY <1>2, <1>3, <2>1 DEF CreateMutex
<1>4. CASE DeleteMutex(m)
  <2>1. mutexes' \in [Locks -> MutexStates]
    BY <1>1, <1>4 DEF DeleteMutex, MutexStates, Lives, NoMutex
  <2> QED BY <1>1, <1>2, <1>4, <2>1 DEF DeleteMutex
<1>5. CASE \E count \in 1..MaxLocks : LockMutexTakes(m, count)
  <2>1. mutexes' \in [Locks -> MutexStates]
    <3>1. PICK count \in 1..MaxLocks :
              mutexes' = [mutexes EXCEPT ![m].owner = current, ![m].locks = count]
      BY <1>5 DEF LockMutexTakes
    <3>2. count \in Nat
      OBVIOUS
    <3> QED BY <1>1, <3>1, <3>2 DEF MutexStates
  <2> QED BY <1>2, <1>5, <2>1 DEF LockMutexTakes
<1>6. CASE \E count \in 1..MaxLocks : LockMutexAgain(m, count)
  <2>1. mutexes' \in [Locks -> MutexStates]
    <3>1. PICK count \in 1..MaxLocks : mutexes' = [mutexes EXCEPT ![m].locks = @ + count]
      BY <1>6 DEF LockMutexAgain
    <3>2. mutexes[m].locks + count \in Nat
      BY <1>1 DEF MutexStates
    <3> QED BY <1>1, <3>1, <3>2 DEF MutexStates
  <2> QED BY <1>2, <1>6, <2>1 DEF LockMutexAgain
<1>7. CASE \E count \in 1..MaxLocks : UnlockMutex(m, count)
  <2>1. PICK count \in 1..MaxLocks : UnlockMutex(m, count)
    BY <1>7
  <2>2. mutexes' \in [Locks -> MutexStates]
    <3>1. mutexes[m].locks - count \in Nat
      BY <1>1, <2>1 DEF UnlockMutex, MutexStates
    <3>2. \/ mutexes' = [mutexes EXCEPT ![m].locks = @ - count]
          \/ mutexes' = [mutexes EXCEPT ![m].locks = 0, ![m].owner = Nobody]
      BY <2>1 DEF UnlockMutex
    <3>3. CASE mutexes' = [mutexes EXCEPT ![m].locks = @ - count]
      BY <1>1, <3>1, <3>3 DEF MutexStates
    <3>4. CASE mutexes' = [mutexes EXCEPT ![m].locks = 0, ![m].owner = Nobody]
      BY <1>1, <3>4 DEF MutexStates
    <3> QED BY <3>2, <3>3, <3>4
  <2> QED BY <1>1, <1>2, <2>1, <2>2 DEF UnlockMutex
<1>8. CASE \E count \in 1..MaxLocks, d \in Timeouts \cup {Never} : LockMutexBlocks(m, count, d)
  <2>1. PICK count \in 1..MaxLocks, d \in Timeouts \cup {Never} : LockMutexBlocks(m, count, d)
    BY <1>8
  <2>2. [WaitFor("Mutex", m) EXCEPT !.count = count] \in Waits
    <3>1. count \in Nat /\ "Mutex" \in WaitTypes
      BY DEF WaitTypes
    <3> QED BY <1>1, <3>1, WaitsType
  <2>3. d \in Nat \cup {Never}
    BY SchedulerAssumption
  <2>4. UNCHANGED <<pending, callbacks, vblankHandler, vtimers, handler, idleIntr>>
    BY <2>1 DEF LockMutexBlocks, intrVars, eventVars
  <2>5. DeliverIf(FALSE)
    BY <2>4 DEF DeliverIf
  <2> HIDE DEF TypeInv
  <2> QED BY <1>1, <2>1, <2>2, <2>3, <2>4, <2>5, ObjectWaitTyped DEF LockMutexBlocks, objectVars
<1>9. CASE MutexDropsStale(m)
  <2>1. waiters' \in [Objects -> Seq(Uids \cup {Nobody})]
    BY <1>1, <1>9, WaitersTailType DEF MutexDropsStale, ReleaseMutex
  <2> QED BY <1>1, <1>2, <1>9, <2>1 DEF MutexDropsStale, ReleaseMutex
<1>10. CASE MutexHandsOver(m)
  <2> DEFINE t == Head(waiters[m])
  <2>1. t \in Uids /\ wait[t].count \in Nat
    BY <1>10 DEF MutexHandsOver, IsWaiting, ThreadsTypeOK, Waits
  <2>2. mutexes' \in [Locks -> MutexStates]
    BY <1>1, <1>10, <2>1 DEF MutexHandsOver, MutexStates
  <2>3. ThreadsTypeOK'
    BY <1>10, <2>1, WokenTyped DEF MutexHandsOver
  <2>4. waiters' \in [Objects -> Seq(Uids \cup {Nobody})]
    BY <1>1, <1>10, WaitersTailType DEF MutexHandsOver, ReleaseMutex
  <2> QED BY <1>1, <1>2, <1>10, <2>2, <2>3, <2>4 DEF MutexHandsOver, ReleaseMutex
<1>11. CASE MutexReleased(m)
  BY <1>1, <1>2, <1>11 DEF MutexReleased
<1> QED BY <1>3, <1>4, <1>5, <1>6, <1>7, <1>8, <1>9, <1>10, <1>11

LEMMA StutterTyped ==
    ASSUME TypeInv, UNCHANGED vars
    PROVE  TypeInv'
  BY ThreadsUnchanged, EventsUnchanged
     DEF TypeInv, TypeOK, BoundaryHasThread, vars, schedulerVars, objectVars, loopVars, threadVars,
         maskVars, clockVars, ObjectsTypeOK

LEMMA StepTyped ==
    ASSUME TypeInv, [Next]_vars
    PROVE  TypeInv'
<1>1. CASE SchedulerNext /\ UNCHANGED objectVars
  BY <1>1, SchedulerTyped
<1>2. CASE ThreadsNext /\ UNCHANGED objectVars
  BY <1>2, ThreadsTyped
<1>3. CASE KernelEventsNext /\ UNCHANGED objectVars
  BY <1>3, KernelEventsTyped
<1>4. CASE SemaphoresNext /\ UNCHANGED <<flags, mutexes>>
  BY <1>4, SemaphoresTyped
<1>5. CASE EventFlagsNext /\ UNCHANGED <<semas, mutexes>>
  BY <1>5, EventFlagsTyped
<1>6. CASE MutexesNext /\ UNCHANGED <<semas, flags>>
  BY <1>6, MutexesTyped
<1>7. CASE UNCHANGED vars
  BY <1>7, StutterTyped
<1> QED BY <1>1, <1>2, <1>3, <1>4, <1>5, <1>6, <1>7 DEF Next, ObjectStep, Stopped, vars

\* Whatever guest code calls and whenever the host says that time has passed,
\* every field of the kernel keeps to the values its type is read for: no thread
\* id in the ready order, a waiter list or an owner is out of range, no count is
\* negative, no handler call names a timer or callback that is not there.
THEOREM KernelTypeCorrect == Spec => []TypeOK
<1>1. Init => TypeInv
  BY InitTyped
<1>2. TypeInv /\ [Next]_vars => TypeInv'
  BY StepTyped
<1>3. TypeInv => TypeOK
  BY DEF TypeInv
<1> QED BY <1>1, <1>2, <1>3, PTL DEF Spec
-----------------------------------------------------------------------------
(* What the calls on objects do to threads: nothing, or they end one wait in *)
(* a release loop, or they begin one.                                        *)

ObjectRests ==
    /\ UNCHANGED <<status, wait, deadline, ready, current, pending, callbacks>>
    /\ phase \in {"guest", "release"} /\ phase' \in {"finish", "release", "cancel"}
ObjectWakes ==
    /\ phase = "release" /\ phase' = "release"
    /\ UNCHANGED <<current, pending, callbacks>>
    /\ \E t \in Uids : IsWaiting(t) /\ MakeReady(<<t>>)
ObjectBlocks ==
    /\ MayWait /\ UNCHANGED ready
    /\ \E o \in Objects, w \in Waits, d \in Timeouts \cup {Never}, cb \in BOOLEAN :
          /\ w.type \in ObjectWaits /\ w.object = o
          /\ DeliverIf(cb) /\ JoinWaiters(o) /\ Block(w, d)
ObjectKeeps ==
    UNCHANGED <<made, prio, initPrio, wakeups, maskVars, handler, idleIntr, clockVars,
                vblankHandler, vtimers>>
ObjectKinds == ObjectKeeps /\ (ObjectRests \/ ObjectWakes \/ ObjectBlocks)

LEMMA SemaphoresKinds == SemaphoresNext => ObjectKinds
<1> SUFFICES ASSUME SemaphoresNext PROVE ObjectKinds
  OBVIOUS
<1> USE DEF loopVars, threadVars, intrVars, maskVars, clockVars, eventVars, InThread, InGuest, MayWait,
            ObjectKinds, ObjectKeeps
<1> PICK s \in Semas :
        \/ \E max \in 1..MaxCount : \E initial \in 0..max : CreateSema(s, initial, max)
        \/ DeleteSema(s)
        \/ \E signal \in 1..MaxSignal : SignalSema(s, signal)
        \/ SemaDropsStale(s) \/ SemaGrants(s) \/ SemaReleased(s)
        \/ \E wanted \in 1..MaxCount : WaitSemaTakes(s, wanted) \/ PollSema(s, wanted)
        \/ \E wanted \in 1..MaxCount, d \in Timeouts \cup {Never}, cb \in BOOLEAN :
              WaitSemaBlocks(s, wanted, d, cb)
  BY DEF SemaphoresNext
<1>1. ASSUME NEW max, NEW initial, NEW signal, NEW wanted,
             \/ CreateSema(s, initial, max) \/ DeleteSema(s) \/ SignalSema(s, signal)
             \/ SemaDropsStale(s) \/ SemaReleased(s) \/ WaitSemaTakes(s, wanted) \/ PollSema(s, wanted)
      PROVE  ObjectKinds
  BY <1>1 DEF CreateSema, DeleteSema, SignalSema, SemaDropsStale, SemaReleased, ReleaseSema,
              WaitSemaTakes, PollSema, TakeSema, ObjectRests
<1>2. CASE SemaGrants(s)
  <2> DEFINE t == Head(waiters[s])
  <2>1. IsWaiting(t) /\ t \in Uids /\ MakeReady(<<t>>)
    BY <1>2 DEF SemaGrants, SemaStale, IsWaiting
  <2> QED BY <1>2, <2>1 DEF SemaGrants, ReleaseSema, ObjectWakes
<1>3. ASSUME NEW wanted \in 1..MaxCount, NEW d \in Timeouts \cup {Never}, NEW cb \in BOOLEAN,
             WaitSemaBlocks(s, wanted, d, cb)
      PROVE  ObjectKinds
  <2> DEFINE w == [WaitFor("Semaphore", s) EXCEPT !.count = wanted]
  <2>1. s \in Objects /\ w \in Waits
    <3>1. s \in Objects /\ wanted \in Nat
      BY SemaphoreAssumption
    <3> QED BY <3>1, WaitsType DEF WaitTypes
  <2>2. w.type = "Semaphore" /\ w.object = s
    BY DEF WaitFor
  <2>3. DeliverIf(cb) /\ JoinWaiters(s) /\ Block(w, d)
    BY <1>3 DEF WaitSemaBlocks
  <2> HIDE DEF w
  <2> QED BY <1>3, <2>1, <2>2, <2>3 DEF WaitSemaBlocks, ObjectBlocks, ObjectWaits
<1> QED BY <1>1, <1>2, <1>3

LEMMA EventFlagsKinds == EventFlagsNext => ObjectKinds
<1> SUFFICES ASSUME EventFlagsNext PROVE ObjectKinds
  OBVIOUS
<1> USE DEF loopVars, threadVars, intrVars, maskVars, clockVars, eventVars, InThread, InGuest, MayWait,
            ObjectKinds, ObjectKeeps
<1> PICK f \in Flags :
        \/ \E multi \in BOOLEAN, pattern \in SUBSET Bits : CreateEventFlag(f, multi, pattern)
        \/ DeleteEventFlag(f)
        \/ \E bits \in SUBSET Bits : SetEventFlag(f, bits) \/ ClearEventFlag(f, bits)
        \/ FlagDropsStale(f) \/ FlagSkips(f) \/ FlagWakes(f) \/ FlagReleased(f)
        \/ \E w \in Wanted : PollEventFlag(f, w) \/ WaitEventFlagTakes(f, w)
        \/ \E w \in Wanted, d \in Timeouts \cup {Never}, cb \in BOOLEAN :
              WaitEventFlagBlocks(f, w, d, cb)
  BY DEF EventFlagsNext
<1>1. ASSUME NEW multi, NEW pattern, NEW bits, NEW w,
             \/ CreateEventFlag(f, multi, pattern) \/ DeleteEventFlag(f)
             \/ SetEventFlag(f, bits) \/ ClearEventFlag(f, bits)
             \/ FlagDropsStale(f) \/ FlagSkips(f) \/ FlagReleased(f)
             \/ PollEventFlag(f, w) \/ WaitEventFlagTakes(f, w)
      PROVE  ObjectKinds
  BY <1>1 DEF CreateEventFlag, DeleteEventFlag, SetEventFlag, ClearEventFlag, FlagDropsStale,
              FlagSkips, FlagReleased, ReleaseFlag, PollEventFlag, WaitEventFlagTakes, TakeFlag,
              ObjectRests
<1>2. CASE FlagWakes(f)
  <2> DEFINE t == Scanned(f)
  <2>1. IsWaiting(t) /\ t \in Uids /\ MakeReady(<<t>>)
    BY <1>2 DEF FlagWakes, IsWaiting
  <2> QED BY <1>2, <2>1 DEF FlagWakes, ReleaseFlag, ObjectWakes
<1>3. ASSUME NEW w \in Wanted, NEW d \in Timeouts \cup {Never}, NEW cb \in BOOLEAN,
             WaitEventFlagBlocks(f, w, d, cb)
      PROVE  ObjectKinds
  <2> DEFINE x == [WaitFor("EventFlag", f) EXCEPT !.bits = w.bits, !.mode = w.mode]
  <2>1. f \in Objects /\ x \in Waits
    BY WaitsType, EventFlagAssumption
  <2>2. x.type = "EventFlag" /\ x.object = f
    BY DEF WaitFor
  <2>3. DeliverIf(cb) /\ JoinWaiters(f) /\ Block(x, d)
    BY <1>3 DEF WaitEventFlagBlocks
  <2> HIDE DEF x
  <2> QED BY <1>3, <2>1, <2>2, <2>3 DEF WaitEventFlagBlocks, ObjectBlocks, ObjectWaits
<1> QED BY <1>1, <1>2, <1>3

LEMMA MutexesKinds == MutexesNext => ObjectKinds
<1> SUFFICES ASSUME MutexesNext PROVE ObjectKinds
  OBVIOUS
<1> USE DEF loopVars, threadVars, intrVars, maskVars, clockVars, eventVars, InThread, InGuest, MayWait,
            ObjectKinds, ObjectKeeps
<1> PICK m \in Locks :
        \/ \E recursive \in BOOLEAN, locks \in 0..MaxLocks : CreateMutex(m, recursive, locks)
        \/ DeleteMutex(m)
        \/ \E count \in 1..MaxLocks :
              LockMutexTakes(m, count) \/ LockMutexAgain(m, count) \/ UnlockMutex(m, count)
        \/ \E count \in 1..MaxLocks, d \in Timeouts \cup {Never} : LockMutexBlocks(m, count, d)
        \/ MutexDropsStale(m) \/ MutexHandsOver(m) \/ MutexReleased(m)
  BY DEF MutexesNext
<1>1. ASSUME NEW recursive, NEW locks, NEW count,
             \/ CreateMutex(m, recursive, locks) \/ DeleteMutex(m)
             \/ LockMutexTakes(m, count) \/ LockMutexAgain(m, count) \/ UnlockMutex(m, count)
             \/ MutexDropsStale(m) \/ MutexReleased(m)
      PROVE  ObjectKinds
  BY <1>1 DEF CreateMutex, DeleteMutex, LockMutexTakes, LockMutexAgain, UnlockMutex,
              MutexDropsStale, MutexReleased, ReleaseMutex, ObjectRests
<1>2. CASE MutexHandsOver(m)
  <2> DEFINE t == Head(waiters[m])
  <2>1. IsWaiting(t) /\ t \in Uids /\ MakeReady(<<t>>)
    BY <1>2 DEF MutexHandsOver, IsWaiting
  <2> QED BY <1>2, <2>1 DEF MutexHandsOver, ReleaseMutex, ObjectWakes
<1>3. ASSUME NEW count \in 1..MaxLocks, NEW d \in Timeouts \cup {Never},
             LockMutexBlocks(m, count, d)
      PROVE  ObjectKinds
  <2> DEFINE w == [WaitFor("Mutex", m) EXCEPT !.count = count]
  <2>1. m \in Objects /\ w \in Waits
    <3>1. m \in Objects /\ count \in Nat
      BY MutexAssumption
    <3> QED BY <3>1, WaitsType DEF WaitTypes
  <2>2. w.type = "Mutex" /\ w.object = m
    BY DEF WaitFor
  <2>3. DeliverIf(FALSE) /\ JoinWaiters(m) /\ Block(w, d)
    BY <1>3 DEF LockMutexBlocks, DeliverIf
  <2> HIDE DEF w
  <2> QED BY <1>3, <2>1, <2>2, <2>3 DEF LockMutexBlocks, ObjectBlocks, ObjectWaits
<1> QED BY <1>1, <1>2, <1>3

LEMMA ObjectKindsOnly == SemaphoresNext \/ EventFlagsNext \/ MutexesNext => ObjectKinds
  BY SemaphoresKinds, EventFlagsKinds, MutexesKinds

-----------------------------------------------------------------------------
(* Virtual timers.  That a timer has one call at most rests on its being   *)
(* disarmed from the time the call is queued to the time the handler       *)
(* returns: process_timers then has no reason to queue another.            *)

CallOf(c, v) == c.kind = "vtimer" /\ c.id = v
QueuedOnce == \A j, k \in DOMAIN pending, v \in VTimers :
    CallOf(pending[j], v) /\ CallOf(pending[k], v) => j = k
RunsUnqueued == \A v \in VTimers : CallOf(handler, v) => ~CallQueued(v)
CalledDisarmed == \A v \in VTimers : CallOf(handler, v) \/ CallQueued(v) => vtimers[v].left = Never
\* A program that sets no timer's handler while a call to it is queued.
RearmsLate == "early rearm" \notin Uses
TimerInv == TypeInv /\ QueuedOnce /\ RunsUnqueued /\ CalledDisarmed

LEMMA TimerTypes ==
    ASSUME TypeInv
    PROVE  /\ pending \in Seq(Calls) /\ DOMAIN pending = 1..Len(pending) /\ Len(pending) \in Nat
           /\ vtimers \in [VTimers -> VTimerStates] /\ handler \in Calls \cup {NoCall}
  BY LenProperties DEF TypeInv, TypeOK, EventsTypeOK, VTimerStates

LEMMA SameCalls ==
    ASSUME TimerInv, UNCHANGED <<handler, pending>>,
           \A v \in VTimers : CallQueued(v) \/ CallOf(handler, v) => vtimers'[v].left = Never
    PROVE  QueuedOnce' /\ RunsUnqueued' /\ CalledDisarmed'
  BY DEF TimerInv, QueuedOnce, RunsUnqueued, CalledDisarmed, CallQueued, CallOf

\* Calls to callbacks and to the vblank handler are not told apart here.
LEMMA OtherCalls ==
    ASSUME TimerInv, UNCHANGED handler, NEW q \in Seq(Calls), \A k \in DOMAIN q : q[k].kind # "vtimer",
           pending' = pending \o q, \A v \in VTimers : vtimers'[v].left = vtimers[v].left
    PROVE  QueuedOnce' /\ RunsUnqueued' /\ CalledDisarmed'
<1>1. \A k \in DOMAIN pending' : pending'[k].kind = "vtimer" =>
          k \in DOMAIN pending /\ pending'[k] = pending[k]
  BY TimerTypes, LenProperties DEF TimerInv
<1>2. \A v \in VTimers : CallQueued(v)' => CallQueued(v)
  BY <1>1 DEF CallQueued
<1>3. QueuedOnce'
  BY <1>1 DEF TimerInv, QueuedOnce, CallOf
<1> QED BY <1>2, <1>3 DEF TimerInv, RunsUnqueued, CalledDisarmed, CallOf

LEMMA DeliveredCalls ==
    ASSUME TimerInv, NEW cb \in BOOLEAN, DeliverIf(cb), UNCHANGED <<handler, vtimers>>
    PROVE  QueuedOnce' /\ RunsUnqueued' /\ CalledDisarmed'
<1>1. CASE ~cb
  BY <1>1, SameCalls DEF DeliverIf, TimerInv, CalledDisarmed
<1>2. CASE cb
  <2> DEFINE n == Cardinality(Deliverable)
             q == [k \in 1..n |-> CallbackCall(InUidOrder(Deliverable)[k])]
  <2>1. IsFiniteSet(Deliverable) /\ Deliverable \in SUBSET Int
    <3>1. Deliverable \in SUBSET Callbacks
      BY DEF Deliverable
    <3>2. IsFiniteSet(Callbacks) /\ Callbacks \subseteq Int
      BY SchedulerAssumption
    <3> QED BY <3>1, <3>2, FS_Subset
  <2>2. n \in Nat /\ \A k \in 1..n : InUidOrder(Deliverable)[k] \in Callbacks
    BY <2>1, FS_CardinalityType, InUidOrderType DEF Deliverable
  <2>3. \A k \in 1..n : q[k] \in Calls /\ q[k].kind # "vtimer"
    BY <2>2, CallsType DEF CallbackCall
  <2>4. pending' = pending \o q
    BY <1>2 DEF DeliverIf, DeliverCallbacks
  <2>5. DOMAIN q = 1..n
    OBVIOUS
  <2>6. q \in Seq(Calls)
    BY <2>2, <2>3
  <2> HIDE DEF q, n
  <2> QED BY <2>3, <2>4, <2>5, <2>6, OtherCalls
<1> QED BY <1>1, <1>2

\* The oldest call begins to run.
LEMMA BegunCall ==
    ASSUME TimerInv, pending # <<>>, BeginInterrupt,
           \A v \in VTimers : CallQueued(v) => vtimers'[v].left = Never
    PROVE  QueuedOnce' /\ RunsUnqueued' /\ CalledDisarmed'
<1>1. /\ 1 \in DOMAIN pending /\ handler' = pending[1]
      /\ \A k \in DOMAIN pending' : k + 1 \in DOMAIN pending /\ pending'[k] = pending[k + 1] /\ k + 1 # 1
      /\ \A j, k \in DOMAIN pending' : j + 1 = k + 1 => j = k
  BY TimerTypes, HeadTailProperties DEF TimerInv, BeginInterrupt
<1>2. \A v \in VTimers : CallQueued(v)' \/ CallOf(handler, v)' => CallQueued(v)
  BY <1>1 DEF CallQueued, CallOf
<1>3. QueuedOnce'
  BY <1>1 DEF TimerInv, QueuedOnce
<1>4. RunsUnqueued'
  BY <1>1 DEF TimerInv, QueuedOnce, RunsUnqueued, CallQueued, CallOf
<1>5. CalledDisarmed'
  BY <1>2 DEF CalledDisarmed
<1> QED BY <1>3, <1>4, <1>5

LEMMA ClockedCalls ==
    ASSUME TimerInv, NEW c, AdvanceClock(c), UNCHANGED handler
    PROVE  QueuedOnce' /\ RunsUnqueued' /\ CalledDisarmed'
<1>1. /\ DOMAIN pending' = DOMAIN pending
      /\ \A k \in DOMAIN pending : pending'[k].kind = pending[k].kind /\ pending'[k].id = pending[k].id
  <2>1. \A x \in Calls : \A at : [x EXCEPT !.at = at].kind = x.kind /\ [x EXCEPT !.at = at].id = x.id
    BY DEF Calls
  <2>2. \A k \in DOMAIN pending : pending[k] \in Calls
    BY TimerTypes DEF TimerInv
  <2>3. DOMAIN pending = 1..Len(pending)
    BY TimerTypes DEF TimerInv
  <2> QED BY <2>1, <2>2, <2>3 DEF AdvanceClock
<1>2. \A v \in VTimers : vtimers[v].left = Never => vtimers'[v].left = Never
  BY TimerTypes DEF TimerInv, AdvanceClock, Later, VTimerStates
<1>3. QueuedOnce' /\ \A v \in VTimers : CallQueued(v)' <=> CallQueued(v)
  BY <1>1 DEF TimerInv, QueuedOnce, CallQueued, CallOf
<1> QED BY <1>2, <1>3 DEF TimerInv, RunsUnqueued, CalledDisarmed, CallOf

\* process_timers calls the timers that are due, which are armed, and disarms them.
LEMMA DueCalls ==
    ASSUME TimerInv, UNCHANGED handler, pending' = pending \o VBlankCalls \o VTimerCalls,
           vtimers' = [v \in VTimers |-> IF v \in DueTimers THEN Disarmed(v) ELSE vtimers[v]]
    PROVE  QueuedOnce' /\ RunsUnqueued' /\ CalledDisarmed'
<1> DEFINE n == Cardinality(DueTimers)
           before == pending \o VBlankCalls
           l == Len(before)
<1>1. IsFiniteSet(DueTimers) /\ DueTimers \in SUBSET Int
  <2>1. IsFiniteSet(VTimers) /\ VTimers \subseteq Int
    BY SchedulerAssumption
  <2> QED BY <2>1, FS_Subset DEF DueTimers
<1>2. /\ n \in Nat /\ DOMAIN InUidOrder(DueTimers) = 1..n
      /\ \A k \in 1..n : InUidOrder(DueTimers)[k] \in DueTimers
      /\ \A j, k \in 1..n : InUidOrder(DueTimers)[j] = InUidOrder(DueTimers)[k] => j = k
  BY <1>1, FS_CardinalityType, InUidOrderType, InUidOrderComplete
<1>3. /\ DOMAIN VTimerCalls = 1..n
      /\ \A k \in 1..n : VTimerCalls[k].kind = "vtimer" /\ VTimerCalls[k].id = InUidOrder(DueTimers)[k]
  BY DEF VTimerCalls, VTimerCall
<1>4. VTimerCalls \in Seq(Calls) /\ Len(VTimerCalls) = n
  <2> DEFINE call(k) == VTimerCall(InUidOrder(DueTimers)[k], vtimers[InUidOrder(DueTimers)[k]].left)
  <2>1. \A k \in 1..n : call(k) \in Calls
    <3>1. \A v \in DueTimers : v \in VTimers /\ vtimers[v].left \in Int
      BY TimerTypes DEF DueTimers, TimerInv, VTimerStates
    <3> QED BY <1>2, <3>1, CallsType
  <2>2. VTimerCalls = [k \in 1..n |-> call(k)]
    BY DEF VTimerCalls
  <2> HIDE DEF n, call
  <2> QED BY <1>2, <2>1, <2>2
<1>5. /\ before \in Seq(Calls)
      /\ \A k \in DOMAIN before : before[k].kind = "vtimer" => k \in DOMAIN pending /\ before[k] = pending[k]
  <2>1. VBlankCalls \in Seq(Calls) /\ \A k \in DOMAIN VBlankCalls : VBlankCalls[k].kind # "vtimer"
    BY CallsType DEF VBlankCalls, VBlankCall
  <2>2. pending \in Seq(Calls)
    BY TimerTypes DEF TimerInv
  <2> DEFINE b == VBlankCalls
  <2> HIDE DEF b
  <2>3. /\ pending \o b \in Seq(Calls)
        /\ \A k \in DOMAIN (pending \o b) :
              \/ k \in DOMAIN pending /\ (pending \o b)[k] = pending[k]
              \/ \E i \in DOMAIN b : (pending \o b)[k] = b[i]
    BY <2>1, <2>2 DEF b
  <2> QED BY <2>1, <2>3 DEF b
<1> HIDE DEF n, before
<1>6. /\ \A k \in DOMAIN pending' : k \in 1..l + n /\ k \in Nat
      /\ \A k \in 1..l : k \in DOMAIN before /\ pending'[k] = before[k]
      /\ \A k \in 1..n : pending'[l + k] = VTimerCalls[k]
  <2>1. pending' = before \o VTimerCalls
    BY DEF before
  <2> QED BY <1>2, <1>3, <1>4, <1>5, <2>1, ConcatProperties, LenProperties
<1>7. l \in Nat
  BY <1>5, LenProperties
<1> HIDE DEF l
<1>8. ASSUME NEW k \in DOMAIN pending', NEW v \in VTimers, CallOf(pending'[k], v)
      PROVE  \/ k \in DOMAIN pending /\ pending'[k] = pending[k] /\ CallOf(pending[k], v)
                /\ v \notin DueTimers
             \/ \E i \in 1..n : k = l + i /\ v = InUidOrder(DueTimers)[i] /\ v \in DueTimers
  <2>1. CASE k \in 1..l
    <3>1. k \in DOMAIN pending /\ pending'[k] = pending[k]
      BY <1>5, <1>6, <1>8, <2>1 DEF CallOf
    <3>2. vtimers[v].left = Never
      BY <1>8, <3>1 DEF TimerInv, CalledDisarmed, CallQueued, CallOf
    <3> QED BY <1>8, <3>1, <3>2 DEF DueTimers
  <2>2. CASE k \notin 1..l
    <3>1. k - l \in 1..n /\ k = l + (k - l)
      BY <1>2, <1>6, <1>7, <2>2
    <3> QED BY <1>2, <1>3, <1>6, <1>8, <3>1 DEF CallOf
  <2> QED BY <2>1, <2>2
<1>9. QueuedOnce'
  <2> SUFFICES ASSUME NEW j \in DOMAIN pending', NEW k \in DOMAIN pending', NEW v \in VTimers,
                      CallOf(pending'[j], v), CallOf(pending'[k], v)
               PROVE  j = k
    BY DEF QueuedOnce, CallOf
  <2>1. CASE v \in DueTimers
    BY <1>2, <1>8, <2>1
  <2>2. CASE v \notin DueTimers
    BY <1>8, <2>2 DEF TimerInv, QueuedOnce
  <2> QED BY <2>1, <2>2
<1>10. \A v \in VTimers : CallQueued(v)' => CallQueued(v) \/ v \in DueTimers
  BY <1>8 DEF CallQueued, CallOf
<1>11. \A v \in VTimers : CallOf(handler, v) => v \notin DueTimers
  BY DEF TimerInv, CalledDisarmed, DueTimers
<1>12. \A v \in VTimers : /\ v \in DueTimers => vtimers'[v].left = Never
                          /\ v \notin DueTimers => vtimers'[v] = vtimers[v]
  BY TimerTypes DEF Disarmed, TimerInv, VTimerStates
<1>13. RunsUnqueued'
  BY <1>10, <1>11 DEF TimerInv, RunsUnqueued, CallOf
<1>14. CalledDisarmed'
  BY <1>10, <1>12 DEF TimerInv, CalledDisarmed, CallOf
<1> QED BY <1>9, <1>13, <1>14

\* The handler's return arms its own timer at most, which has no call queued.
LEMMA ReturnedCall ==
    ASSUME TimerInv, OnReturn
    PROVE  \A v \in VTimers : CallQueued(v) => vtimers'[v].left = Never
<1> SUFFICES ASSUME NEW v \in VTimers, CallQueued(v) PROVE vtimers'[v].left = Never
  OBVIOUS
<1>1. vtimers[v].left = Never
  BY DEF TimerInv, CalledDisarmed
<1>2. CASE handler.kind # "vtimer"
  BY <1>1, <1>2 DEF OnReturn
<1>3. CASE handler.kind = "vtimer"
  <2>1. v # handler.id
    BY <1>3 DEF TimerInv, RunsUnqueued, CallOf
  <2> QED BY <1>1, <1>3, <2>1, TimerTypes DEF OnReturn, TimerInv
<1> QED BY <1>2, <1>3

LEMMA SchedulerCalls ==
    ASSUME TimerInv, SchedulerNext
    PROVE  QueuedOnce' /\ RunsUnqueued' /\ CalledDisarmed'
<1> USE DEF loopVars, threadVars, maskVars, intrVars, clockVars, eventVars
<1>0. \A v \in VTimers : CallQueued(v) \/ CallOf(handler, v) => vtimers[v].left = Never
  BY DEF TimerInv, CalledDisarmed
<1>1. CASE FinishInterrupt \/ PickInterrupt \/ BoundaryInterrupt
  <2>1. pending # <<>> /\ BeginInterrupt /\ UNCHANGED vtimers
    BY <1>1 DEF FinishInterrupt, PickInterrupt, BoundaryInterrupt, Interruptible
  <2> QED BY <1>0, <2>1, BegunCall
<1>2. CASE \/ FinishPreempt \/ FinishReturn \/ PickThread \/ PickDeadlock
           \/ BoundaryPreempt \/ BoundaryReturn \/ CancelWaiter \/ CancelDone
  <2>1. UNCHANGED <<handler, pending, vtimers>>
    BY <1>2 DEF FinishPreempt, FinishReturn, PickThread, PickDeadlock, BoundaryPreempt,
                BoundaryReturn, CancelWaiter, CancelDone
  <2> QED BY <1>0, <2>1, SameCalls
<1>3. CASE ProcessTimers
  BY <1>3, DueCalls DEF ProcessTimers
<1>4. CASE PickIdle \/ \E c \in 0..Quantum : Starvation(c)
  BY <1>4, ClockedCalls DEF PickIdle, Starvation
<1>5. CASE ReturnToHandler
  <2>1. pending # <<>> /\ BeginInterrupt /\ OnReturn
    BY <1>5 DEF ReturnToHandler, Interruptible
  <2> QED BY <2>1, BegunCall, ReturnedCall
<1>6. CASE ReturnToSchedule \/ ReturnAndPreempt \/ ReturnToThread
  <2>1. handler' = NoCall /\ UNCHANGED pending /\ OnReturn
    BY <1>6 DEF ReturnToSchedule, ReturnAndPreempt, ReturnToThread
  <2>2. \A v \in VTimers : ~CallOf(handler, v)'
    BY <2>1 DEF CallOf, NoCall
  <2> QED BY <2>1, <2>2, ReturnedCall
          DEF TimerInv, QueuedOnce, RunsUnqueued, CalledDisarmed, CallQueued, CallOf
<1> QED BY <1>1, <1>2, <1>3, <1>4, <1>5, <1>6 DEF SchedulerNext

LEMMA ThreadsCalls ==
    ASSUME TimerInv, ThreadsNext
    PROVE  QueuedOnce' /\ RunsUnqueued' /\ CalledDisarmed'
<1> USE DEF intrVars, eventVars
<1>1. \/ UNCHANGED <<handler, pending, vtimers>>
      \/ \E cb \in BOOLEAN : DeliverIf(cb) /\ UNCHANGED <<handler, vtimers>>
  <2>1. CASE \/ OtherCall
             \/ \E p \in Priorities : CreateThread(p)
             \/ \E t \in Uids : StartThread(t) \/ DeleteThread(t)
             \/ \E delete \in BOOLEAN : ExitThread(delete)
             \/ \E t \in Uids, delete \in BOOLEAN : TerminateThread(t, delete)
             \/ \E t \in Uids, p \in Priorities : ChangePriority(t, p)
             \/ \E t \in Uids : WakeupSleeper(t) \/ WakeupStored(t) \/ ReleaseWaitThread(t)
             \/ \E on \in BOOLEAN : SetInterrupts(on) \/ SetDispatch(on)
    BY <2>1 DEF OtherCall, CreateThread, StartThread, DeleteThread, ExitThread, TerminateThread,
                ChangePriority, WakeupSleeper, WakeupStored, ReleaseWaitThread, SetInterrupts, SetDispatch
  <2>2. CASE \E cb \in BOOLEAN : SleepTakesWakeup(cb) \/ SleepBlocks(cb)
    BY <2>2 DEF SleepTakesWakeup, SleepBlocks
  <2>3. CASE \/ \E d \in Delays, cb \in BOOLEAN : DelayThread(d, cb)
             \/ \E cb \in BOOLEAN : WaitVBlank(cb)
             \/ \E t \in Uids, d \in Limits, cb \in BOOLEAN : WaitThreadEnd(t, d, cb)
             \/ \E d \in Limits : WaitHost(d)
    BY <2>3 DEF DelayThread, WaitVBlank, WaitThreadEnd, WaitHost, TimedWait
  <2> QED BY <2>1, <2>2, <2>3 DEF ThreadsNext
<1> QED BY <1>1, SameCalls, DeliveredCalls DEF TimerInv, CalledDisarmed

LEMMA KernelEventsCalls ==
    ASSUME TimerInv, RearmsLate, KernelEventsNext
    PROVE  QueuedOnce' /\ RunsUnqueued' /\ CalledDisarmed'
<1>1. EventCall
  BY DEF KernelEventsNext, RegisterVBlankHandler, EnableVBlankHandler, ReleaseVBlankHandler,
         CreateCallback, DeleteCallback, NotifyCallback, CreateVTimer, StartVTimer, SetVTimerHandler
<1>2. UNCHANGED <<handler, pending>> /\ handler = NoCall
  BY <1>1 DEF EventCall, InThread, intrVars
<1>3. vtimers \in [VTimers -> VTimerStates]
  BY TimerTypes DEF TimerInv
<1>4. CASE UNCHANGED vtimers
  BY <1>2, <1>4, SameCalls DEF TimerInv, CalledDisarmed
<1>5. ASSUME NEW v \in VTimers, CreateVTimer(v) \/ StartVTimer(v)
      PROVE  QueuedOnce' /\ RunsUnqueued' /\ CalledDisarmed'
  <2>1. ASSUME NEW u \in VTimers PROVE vtimers'[u].left = vtimers[u].left
    <3>1. vtimers[u] \in VTimerStates /\ vtimers[v] \in VTimerStates
      BY <1>3
    <3>2. CASE CreateVTimer(v)
      BY <1>3, <3>1, <3>2 DEF CreateVTimer, VTimerStates
    <3>3. CASE StartVTimer(v)
      BY <1>3, <3>1, <3>3 DEF StartVTimer, VTimerStates
    <3> QED BY <1>5, <3>2, <3>3
  <2> QED BY <1>2, <2>1, SameCalls DEF TimerInv, CalledDisarmed
<1>6. ASSUME NEW v \in VTimers, NEW left \in Delays \cup {0}, NEW armed \in BOOLEAN,
             SetVTimerHandler(v, left, armed)
      PROVE  QueuedOnce' /\ RunsUnqueued' /\ CalledDisarmed'
  <2>1. ~CallQueued(v) /\ ~CallOf(handler, v)
    BY <1>2, <1>6 DEF SetVTimerHandler, CallOf, NoCall, RearmsLate
  <2>2. \A u \in VTimers : u # v => vtimers'[u] = vtimers[u]
    BY <1>3, <1>6 DEF SetVTimerHandler
  <2> QED BY <1>2, <2>1, <2>2, SameCalls DEF TimerInv, CalledDisarmed
<1> QED BY <1>4, <1>5, <1>6
        DEF KernelEventsNext, RegisterVBlankHandler, EnableVBlankHandler, ReleaseVBlankHandler,
            CreateCallback, DeleteCallback, NotifyCallback

LEMMA ObjectsCalls ==
    ASSUME TimerInv, ObjectKinds
    PROVE  QueuedOnce' /\ RunsUnqueued' /\ CalledDisarmed'
<1>1. \/ UNCHANGED <<handler, pending, vtimers>>
      \/ \E cb \in BOOLEAN : DeliverIf(cb) /\ UNCHANGED <<handler, vtimers>>
  BY DEF ObjectKinds, ObjectKeeps, ObjectRests, ObjectWakes, ObjectBlocks
<1> QED BY <1>1, SameCalls, DeliveredCalls DEF TimerInv, CalledDisarmed

\* In a program that sets no timer's handler while a call to it is queued, a
\* timer never has two, one running and one queued included.
THEOREM KernelOneCallPerTimer == RearmsLate => (Spec => []OneCallPerTimer)
<1> SUFFICES ASSUME RearmsLate PROVE Spec => []OneCallPerTimer
  OBVIOUS
<1>1. Init => TimerInv
  <2> SUFFICES ASSUME Init PROVE TimerInv
    OBVIOUS
  <2>1. handler = NoCall /\ pending = <<>>
    BY DEF Init, SchedulerInit
  <2>2. \A v \in VTimers : ~CallOf(handler, v)
    BY <2>1 DEF CallOf, NoCall
  <2>3. \A k : k \notin DOMAIN pending
    BY <2>1
  <2>4. \A v \in VTimers : ~CallQueued(v)
    BY <2>3 DEF CallQueued
  <2> QED BY <2>2, <2>3, <2>4, InitTyped DEF TimerInv, QueuedOnce, RunsUnqueued, CalledDisarmed
<1>2. TimerInv /\ [Next]_vars => TimerInv'
  <2> SUFFICES ASSUME TimerInv, [Next]_vars PROVE TimerInv'
    OBVIOUS
  <2>1. TypeInv'
    BY StepTyped DEF TimerInv
  <2>2. CASE UNCHANGED vars \/ Stopped
    <3>1. UNCHANGED <<handler, pending, vtimers>>
      BY <2>2 DEF vars, Stopped, schedulerVars, intrVars, eventVars
    <3> QED BY <2>1, <3>1, SameCalls DEF TimerInv, CalledDisarmed
  <2> QED BY <2>1, <2>2, SchedulerCalls, ThreadsCalls, KernelEventsCalls, ObjectsCalls, ObjectKindsOnly
          DEF Next, ObjectStep, TimerInv
<1>3. TimerInv => OneCallPerTimer
  <2> SUFFICES ASSUME TimerInv, NEW v \in VTimers
               PROVE  Cardinality({k \in DOMAIN pending : pending[k].kind = "vtimer" /\ pending[k].id = v})
                        + (IF handler.kind = "vtimer" /\ handler.id = v THEN 1 ELSE 0) <= 1
    BY DEF OneCallPerTimer
  <2> DEFINE queued == {k \in DOMAIN pending : pending[k].kind = "vtimer" /\ pending[k].id = v}
             n == Cardinality(queued)
             running == IF handler.kind = "vtimer" /\ handler.id = v THEN 1 ELSE 0
  <2>1. CallQueued(v) => n = 1 /\ running = 0
    <3> SUFFICES ASSUME CallQueued(v) PROVE n = 1 /\ running = 0
      OBVIOUS
    <3>1. running = 0
      BY DEF TimerInv, RunsUnqueued, CallOf
    <3>2. PICK k \in DOMAIN pending : pending[k].kind = "vtimer" /\ pending[k].id = v
      BY DEF CallQueued
    <3>3. queued = {k}
      BY <3>2 DEF TimerInv, QueuedOnce, CallOf
    <3> QED BY <3>1, <3>3, FS_Singleton
  <2>2. ~CallQueued(v) => n = 0
    <3>1. ~CallQueued(v) => queued = {}
      BY DEF CallQueued
    <3> QED BY <3>1, FS_EmptySet
  <2>3. running \in {0, 1}
    OBVIOUS
  <2>4. n \in Int /\ running \in Int
    BY <2>1, <2>2
  <2>5. n + running <= 1
    <3> HIDE DEF n, running
    <3> QED BY <2>1, <2>2, <2>3, <2>4
  <2> QED BY <2>5
<1> QED BY <1>1, <1>2, <1>3, PTL DEF Spec
=============================================================================
