---------------------------- MODULE MemoryProofs ----------------------------
(***************************************************************************)
(* For a partition of any size and any requests that do not wrap round:    *)
(* the free ranges are the memory no block covers, and every request is    *)
(* answered as Partition says.  The list loses the range a block is taken  *)
(* out of and gets what is left of it, or loses what touches a freed block *)
(* and gets the whole: both put some ranges in the place of some others,   *)
(* and IsSplice says what that leaves.                                     *)
(***************************************************************************)
EXTENDS Memory, FiniteSetTheorems, SequenceTheorems, WellFoundedInduction, TLAPS

\* One past the last granule of a range, and the granules of it.
Past(r) == r.address + r.size
In(x, r) == r.address <= x /\ x < Past(r)
Spans == {r \in [address : Nat, size : Nat \ {0}] : Start <= r.address /\ Past(r) <= End}

\* The ranges of a list, in order and no two of them touching.
Apart(s) == \A i, j \in DOMAIN s : i < j => Past(s[i]) < s[j].address
Holds(s, x) == \E i \in DOMAIN s : In(x, s[i])
Taken(x) == \E id \in DOMAIN blocks : In(x, blocks[id])

\* t is s with its entries from i to j - 1 replaced by those of m.
IsSplice(t, s, i, m, j) ==
    /\ t \in Seq(Spans) /\ Len(t) = Len(s) + Len(m) - (j - i)
    /\ \A k \in 1 .. Len(t) :
         t[k] = IF k < i THEN s[k]
                ELSE IF k < i + Len(m) THEN m[k - i + 1] ELSE s[k - Len(m) - i + j]

\* The free ranges are apart, the blocks do not overlap, and what is not taken
\* is free.
MemoryInv ==
    /\ free \in Seq(Spans) /\ Apart(free)
    /\ \A id \in DOMAIN blocks : blocks[id] \in Spans
    /\ \A id, other \in DOMAIN blocks : \A x \in User :
         In(x, blocks[id]) /\ In(x, blocks[other]) => id = other
    /\ \A x \in User : Taken(x) <=> ~ Holds(free, x)

\* No request is so large that its end wraps round: allocate_block adds in 32
\* bits, and would grant one that does.
NoWrap ==
    /\ \A n \in Sizes, al \in Alignments : End + al + n <= Width
    /\ \A n \in Sizes, a \in Addresses : a + n < Width

-----------------------------------------------------------------------------
(* Least and greatest members. *)

\* A set of naturals has a least member, and Min is it.
LEMMA LeastMember ==
    ASSUME NEW S \in SUBSET Nat, S # {}
    PROVE  Min(S) \in S /\ \A y \in S : Min(S) <= y
<1>1. PICK x \in S : \A y \in S : <<y, x>> \notin OpToRel(<, Nat)
  BY NatLessThanWellFounded, WFMin
<1>2. \A y \in S : ~ (y < x)
  BY <1>1 DEF OpToRel
<1>3. \A y \in S : x <= y
  BY <1>2
<1> QED BY <1>3 DEF Min

\* A bounded one has a greatest.
LEMMA GreatestMember ==
    ASSUME NEW n \in Nat, NEW S \in SUBSET (0 .. n), S # {}
    PROVE  Max(S) \in S /\ \A y \in S : y <= Max(S)
<1> DEFINE T == {n - x : x \in S}
<1>1. \A x \in S : x \in 0 .. n
  OBVIOUS
<1>2. T \in SUBSET Nat /\ T # {}
  <2>1. \A x \in 0 .. n : n - x \in Nat
    OBVIOUS
  <2> QED BY <1>1, <2>1
<1>3. Min(T) \in T /\ \A y \in T : Min(T) <= y
  <2> HIDE DEF T
  <2> QED BY <1>2, LeastMember
<1>4. PICK x \in S : n - x = Min(T)
  BY <1>3
<1>5. \A y \in S : y <= x
  <2> TAKE y \in S
  <2>1. n - y \in T
    OBVIOUS
  <2>2. n - x <= n - y
    BY <1>3, <1>4, <2>1
  <2>3. x \in Int /\ y \in Int
    BY <1>1
  <2> QED BY <2>2, <2>3
<1> QED BY <1>5 DEF Max

-----------------------------------------------------------------------------
(* Lists of ranges. *)

\* Where the entries of a splice come from.
LEMMA SpliceEntries ==
    ASSUME NEW s \in Seq(Spans), NEW m \in Seq(Spans), NEW t,
           NEW i \in 1 .. Len(s) + 1, NEW j \in i .. Len(s) + 1, IsSplice(t, s, i, m, j)
    PROVE  /\ DOMAIN s = 1 .. Len(s) /\ DOMAIN m = 1 .. Len(m) /\ DOMAIN t = 1 .. Len(t)
           /\ Len(s) \in Nat /\ Len(m) \in Nat /\ Len(t) \in Nat /\ i \in Int /\ j \in Int
           /\ Len(t) = Len(s) + Len(m) - (j - i)
           /\ \A k \in DOMAIN t : k < i => t[k] = s[k] /\ k \in DOMAIN s
           /\ \A k \in DOMAIN t : k >= i /\ k < i + Len(m) =>
                t[k] = m[k - i + 1] /\ k - i + 1 \in DOMAIN m
           /\ \A k \in DOMAIN t : k >= i + Len(m) =>
                t[k] = s[k - Len(m) - i + j] /\ k - Len(m) - i + j \in DOMAIN s
                /\ k - Len(m) - i + j >= j
<1>1. DOMAIN s = 1 .. Len(s) /\ DOMAIN m = 1 .. Len(m) /\ Len(s) \in Nat /\ Len(m) \in Nat
  BY LenProperties
<1>2. DOMAIN t = 1 .. Len(t) /\ Len(t) \in Nat
  BY LenProperties DEF IsSplice
<1>3. i \in Int /\ j \in Int /\ 1 <= i /\ i <= j /\ j <= Len(s) + 1
  BY <1>1
<1>4. Len(t) = Len(s) + Len(m) - (j - i)
  BY DEF IsSplice
<1> DEFINE a == Len(s)
           b == Len(m)
           c == Len(t)
<1>5. \A k \in 1 .. c : t[k] = IF k < i THEN s[k]
                                ELSE IF k < i + b THEN m[k - i + 1] ELSE s[k - b - i + j]
  BY DEF IsSplice
<1>6. a \in Nat /\ b \in Nat /\ c \in Nat /\ c = a + b - (j - i) /\ j <= a + 1
  BY <1>1, <1>2, <1>3, <1>4
<1> HIDE DEF a, b, c
<1>7. \A k \in 1 .. c : k < i => t[k] = s[k] /\ k \in 1 .. a
  BY ONLY <1>3, <1>5, <1>6
<1>8. \A k \in 1 .. c : k >= i /\ k < i + b => t[k] = m[k - i + 1] /\ k - i + 1 \in 1 .. b
  BY ONLY <1>3, <1>5, <1>6
<1>9. \A k \in 1 .. c : k >= i + b =>
         t[k] = s[k - b - i + j] /\ k - b - i + j \in 1 .. a /\ k - b - i + j >= j
  BY ONLY <1>3, <1>5, <1>6
<1> QED BY <1>1, <1>2, <1>3, <1>4, <1>7, <1>8, <1>9 DEF a, b, c

\* A splice keeps a list apart when what it puts in is apart from what it keeps.
LEMMA SpliceApart ==
    ASSUME NEW s \in Seq(Spans), NEW m \in Seq(Spans), NEW t,
           NEW i \in 1 .. Len(s) + 1, NEW j \in i .. Len(s) + 1, IsSplice(t, s, i, m, j),
           Apart(s), Apart(m),
           \A k \in DOMAIN s, l \in DOMAIN m :
             /\ k < i => Past(s[k]) < m[l].address
             /\ k >= j => Past(m[l]) < s[k].address
    PROVE  Apart(t)
<1> SUFFICES ASSUME NEW k \in DOMAIN t, NEW l \in DOMAIN t, k < l
             PROVE  Past(t[k]) < t[l].address
  BY DEF Apart
<1>1. /\ Len(m) \in Nat /\ i \in Int /\ j \in Int /\ k \in Int /\ l \in Int
      /\ k < i => t[k] = s[k] /\ k \in DOMAIN s
      /\ l < i => t[l] = s[l] /\ l \in DOMAIN s
      /\ k >= i /\ k < i + Len(m) => t[k] = m[k - i + 1] /\ k - i + 1 \in DOMAIN m
      /\ l >= i /\ l < i + Len(m) => t[l] = m[l - i + 1] /\ l - i + 1 \in DOMAIN m
      /\ k >= i + Len(m) =>
           t[k] = s[k - Len(m) - i + j] /\ k - Len(m) - i + j \in DOMAIN s
      /\ l >= i + Len(m) =>
           t[l] = s[l - Len(m) - i + j] /\ l - Len(m) - i + j \in DOMAIN s
           /\ l - Len(m) - i + j >= j
  BY SpliceEntries
<1>2. i <= j
  BY LenProperties
<1>3. CASE l < i
  BY <1>1, <1>3 DEF Apart
<1>4. CASE k < i /\ l >= i /\ l < i + Len(m)
  BY <1>1, <1>4
<1>5. CASE k < i /\ l >= i + Len(m)
  <2>1. k < l - Len(m) - i + j
    BY <1>1, <1>2, <1>5
  <2> QED BY <1>1, <1>5, <2>1 DEF Apart
<1>6. CASE k >= i /\ l < i + Len(m)
  <2>1. k - i + 1 < l - i + 1
    BY <1>1
  <2> QED BY <1>1, <1>6, <2>1 DEF Apart
<1>7. CASE k >= i /\ k < i + Len(m) /\ l >= i + Len(m)
  BY <1>1, <1>7
<1>8. CASE k >= i + Len(m)
  <2>1. k - Len(m) - i + j < l - Len(m) - i + j /\ l >= i + Len(m)
    BY <1>1, <1>8
  <2> QED BY <1>1, <1>8, <2>1 DEF Apart
<1> QED BY <1>1, <1>3, <1>4, <1>5, <1>6, <1>7, <1>8

\* x is in a range of s that is kept.
Kept(s, i, j, x) == \E k \in DOMAIN s : (k < i \/ k >= j) /\ In(x, s[k])

LEMMA SpliceHolds ==
    ASSUME NEW s \in Seq(Spans), NEW m \in Seq(Spans), NEW t,
           NEW i \in 1 .. Len(s) + 1, NEW j \in i .. Len(s) + 1, IsSplice(t, s, i, m, j),
           NEW x \in Nat
    PROVE  Holds(t, x) <=> Holds(m, x) \/ Kept(s, i, j, x)
<1>1. /\ DOMAIN s = 1 .. Len(s) /\ DOMAIN m = 1 .. Len(m) /\ DOMAIN t = 1 .. Len(t)
      /\ Len(s) \in Nat /\ Len(m) \in Nat /\ Len(t) \in Nat /\ i \in Int /\ j \in Int
      /\ Len(t) = Len(s) + Len(m) - (j - i)
  BY SpliceEntries
<1>2. 1 <= i /\ i <= j /\ j <= Len(s) + 1
  BY <1>1
<1>3. ASSUME NEW k \in DOMAIN t, In(x, t[k])
      PROVE  Holds(m, x) \/ Kept(s, i, j, x)
  <2>1. /\ k < i => t[k] = s[k] /\ k \in DOMAIN s
        /\ k >= i /\ k < i + Len(m) => t[k] = m[k - i + 1] /\ k - i + 1 \in DOMAIN m
        /\ k >= i + Len(m) =>
             t[k] = s[k - Len(m) - i + j] /\ k - Len(m) - i + j \in DOMAIN s
             /\ k - Len(m) - i + j >= j
    BY SpliceEntries
  <2>2. k \in Int
    BY <1>1
  <2> QED BY <1>1, <1>3, <2>1, <2>2 DEF Holds, Kept
<1>4. ASSUME NEW k \in DOMAIN m, In(x, m[k]) PROVE Holds(t, x)
  <2> DEFINE q == i + k - 1
  <2>1. q \in DOMAIN t /\ q >= i /\ q < i + Len(m) /\ q - i + 1 = k
    BY <1>1, <1>2
  <2> HIDE DEF q
  <2>2. t[q] = m[q - i + 1]
    BY <2>1, SpliceEntries
  <2> QED BY <1>4, <2>1, <2>2 DEF Holds
<1>5. ASSUME NEW k \in DOMAIN s, k < i, In(x, s[k]) PROVE Holds(t, x)
  <2>1. k \in DOMAIN t
    BY <1>1, <1>2, <1>5
  <2>2. t[k] = s[k]
    BY <1>5, <2>1, SpliceEntries
  <2> QED BY <1>5, <2>1, <2>2 DEF Holds
<1>6. ASSUME NEW k \in DOMAIN s, k >= j, In(x, s[k]) PROVE Holds(t, x)
  <2> DEFINE q == k + Len(m) + i - j
  <2>1. q \in DOMAIN t /\ q >= i + Len(m) /\ q - Len(m) - i + j = k
    BY SMTT(30), <1>1, <1>2, <1>6
  <2> HIDE DEF q
  <2>2. t[q] = s[q - Len(m) - i + j]
    BY <2>1, SpliceEntries
  <2> QED BY <1>6, <2>1, <2>2 DEF Holds
<1> QED BY <1>3, <1>4, <1>5, <1>6 DEF Holds, Kept

\* A splice is put together from what comes before, what is put in and the rest.
LEMMA Spliced ==
    ASSUME NEW s \in Seq(Spans), NEW m \in Seq(Spans),
           NEW i \in 1 .. Len(s) + 1, NEW j \in i .. Len(s) + 1
    PROVE  IsSplice(SubSeq(s, 1, i - 1) \o m \o SubSeq(s, j, Len(s)), s, i, m, j)
<1> DEFINE a == SubSeq(s, 1, i - 1)
           n == Len(s)
           c == SubSeq(s, j, n)
           l == Len(m)
<1>1. /\ n \in Nat /\ l \in Nat /\ DOMAIN s = 1 .. n /\ i \in Int /\ j \in Int
      /\ 1 <= i /\ i <= j /\ j <= n + 1
  BY LenProperties
<1> HIDE DEF n, l
<1>2. \A k \in 1 .. n : s[k] \in Spans
  BY ElementOfSeq DEF n
<1>3. a \in Seq(Spans) /\ Len(a) = i - 1 /\ \A k \in 1 .. i - 1 : a[k] = s[k]
  <2>1. \A k \in 1 .. i - 1 : s[k] \in Spans
    BY <1>1, <1>2
  <2>2. a \in Seq(Spans) /\ Len(a) = (IF 1 <= i - 1 THEN i - 1 - 1 + 1 ELSE 0)
        /\ \A k \in 1 .. i - 1 - 1 + 1 : a[k] = s[1 + k - 1]
    <3>1. 1 \in Int /\ i - 1 \in Int
      BY <1>1
    <3> QED BY <2>1, <3>1, SubSeqProperties
  <2> HIDE DEF a, c
  <2> QED BY <1>1, <2>2
<1>4. c \in Seq(Spans) /\ Len(c) = n - j + 1 /\ \A k \in 1 .. n - j + 1 : c[k] = s[j + k - 1]
  <2>1. \A k \in j .. n : s[k] \in Spans
    BY <1>1, <1>2
  <2>2. c \in Seq(Spans) /\ Len(c) = (IF j <= n THEN n - j + 1 ELSE 0)
        /\ \A k \in 1 .. n - j + 1 : c[k] = s[j + k - 1]
    <3>1. j \in Int /\ n \in Int
      BY <1>1
    <3> QED BY <2>1, <3>1, SubSeqProperties
  <2> HIDE DEF a, c
  <2> QED BY <1>1, <2>2
<1> HIDE DEF a, c
<1>5. a \o m \in Seq(Spans) /\ Len(a \o m) = i - 1 + l
      /\ \A k \in 1 .. i - 1 + l : (a \o m)[k] = IF k <= i - 1 THEN a[k] ELSE m[k - (i - 1)]
  <2>1. /\ a \o m \in Seq(Spans) /\ Len(a \o m) = Len(a) + l
        /\ \A k \in 1 .. Len(a) + l :
             (a \o m)[k] = IF k <= Len(a) THEN a[k] ELSE m[k - Len(a)]
    BY <1>3, ConcatProperties DEF l
  <2> QED BY <1>3, <2>1
<1> DEFINE d == a \o m
<1>6. d \o c \in Seq(Spans) /\ Len(d \o c) = i - 1 + l + (n - j + 1)
      /\ \A k \in 1 .. i - 1 + l + (n - j + 1) :
           (d \o c)[k] = IF k <= i - 1 + l THEN d[k] ELSE c[k - (i - 1 + l)]
  <2> HIDE DEF d
  <2>1. d \in Seq(Spans) /\ Len(d) = i - 1 + l
    BY <1>5 DEF d
  <2>2. /\ d \o c \in Seq(Spans) /\ Len(d \o c) = Len(d) + Len(c)
        /\ \A k \in 1 .. Len(d) + Len(c) :
             (d \o c)[k] = IF k <= Len(d) THEN d[k] ELSE c[k - Len(d)]
    BY <1>4, <2>1, ConcatProperties
  <2> QED BY <1>4, <2>1, <2>2
<1> DEFINE t == d \o c
<1>7. \A k \in 1 .. Len(t) :
        t[k] = IF k < i THEN s[k] ELSE IF k < i + l THEN m[k - i + 1] ELSE s[k - l - i + j]
  <2> SUFFICES ASSUME NEW k \in 1 .. Len(t)
               PROVE  t[k] = IF k < i THEN s[k]
                             ELSE IF k < i + l THEN m[k - i + 1] ELSE s[k - l - i + j]
    OBVIOUS
  <2>1. k \in 1 .. i - 1 + l + (n - j + 1) /\ k \in Int
    BY <1>1, <1>6
  <2>2. t[k] = IF k <= i - 1 + l THEN d[k] ELSE c[k - (i - 1 + l)]
    BY <1>6, <2>1
  <2> HIDE DEF t
  <2>3. CASE k < i
    <3>1. d[k] = a[k] /\ a[k] = s[k]
      BY <1>1, <1>3, <1>5, <2>1, <2>3
    <3> QED BY <1>1, <2>1, <2>2, <2>3, <3>1
  <2>4. CASE k >= i /\ k < i + l
    <3>1. k \in 1 .. i - 1 + l /\ ~ (k <= i - 1) /\ k - (i - 1) = k - i + 1
      BY <1>1, <2>1, <2>4
    <3>2. d[k] = m[k - (i - 1)]
      BY <1>5, <3>1
    <3> QED BY <1>1, <2>1, <2>2, <2>4, <3>1, <3>2
  <2>5. CASE k >= i + l
    <3>1. k - (i - 1 + l) \in 1 .. n - j + 1 /\ j + (k - (i - 1 + l)) - 1 = k - l - i + j
      BY <1>1, <2>1, <2>5
    <3>2. c[k - (i - 1 + l)] = s[k - l - i + j]
      BY <1>4, <3>1
    <3> QED BY <1>1, <2>1, <2>2, <2>5, <3>2
  <2> QED BY <1>1, <2>1, <2>3, <2>4, <2>5
<1>8. Len(t) = n + l - (j - i) /\ t \in Seq(Spans)
  BY <1>1, <1>6
<1> HIDE DEF t
<1>9. IsSplice(t, s, i, m, j)
  BY <1>7, <1>8 DEF IsSplice, n, l
<1> QED BY <1>9 DEF t, d, a, c, n

\* An address of the partition, and the end of a range in it, fit in 32 bits.
LEMMA WrapSmall ==
    ASSUME NEW x \in Nat, x < Width
    PROVE  Wrap(x) = x
BY MemoryAssumption DEF Wrap

\* What a range of the partition is.
LEMMA SpanTypes ==
    ASSUME NEW r \in Spans
    PROVE  /\ r.address \in Nat /\ r.size \in Nat \ {0} /\ r = Range32(r.address, r.size)
           /\ Past(r) \in Nat /\ Past(r) = r.address + r.size
           /\ Start <= r.address /\ Past(r) <= End /\ r.address < Past(r) /\ EndOf(r) = Past(r)
<1>1. r.address \in Nat /\ r.size \in Nat \ {0} /\ r = Range32(r.address, r.size)
      /\ Start <= r.address /\ Past(r) <= End
  BY DEF Spans, Range32
<1>2. Past(r) \in Nat /\ Past(r) < Width
  BY <1>1, MemoryAssumption DEF Past
<1> QED BY <1>1, <1>2, WrapSmall DEF EndOf, Past

\* What is aligned up is not lower, and by less than the alignment higher.
LEMMA AlignedUp ==
    ASSUME NEW a \in Nat, NEW al \in Nat \ {0}, a + al < Width
    PROVE  AlignUp(a, al) \in Nat /\ AlignUp(a, al) >= a /\ AlignUp(a, al) < a + al
<1> DEFINE q == (a + al - 1) \div al
<1>1. q \in Nat /\ q * al <= a + al - 1 /\ a + al - 1 < q * al + al
  OBVIOUS
<1> DEFINE p == q * al
<1>2. p \in Nat /\ p <= a + al - 1 /\ a + al - 1 < p + al
  BY <1>1
<1> HIDE DEF p
<1>3. p < Width /\ p >= a /\ p < a + al
  BY <1>2, MemoryAssumption
<1> QED BY <1>2, <1>3, WrapSmall DEF AlignUp, p

\* What is aligned down is not higher.
LEMMA AlignedDown ==
    ASSUME NEW a \in Nat, NEW al \in Nat \ {0}
    PROVE  AlignDown(a, al) \in Nat /\ AlignDown(a, al) <= a
<1> DEFINE q == a \div al
<1>1. q \in Nat /\ q * al \in Nat /\ q * al <= a
  OBVIOUS
<1> QED BY <1>1 DEF AlignDown

-----------------------------------------------------------------------------
(* A request is granted. *)

\* What is left of a range when a part is taken out of it.
Rest(r, a, n) == Piece(r.address, a - r.address) \o Piece(a + n, Past(r) - (a + n))

LEMMA Pieces ==
    ASSUME NEW r \in Spans, NEW a \in Nat, NEW n \in Nat \ {0},
           r.address <= a, a + n <= Past(r)
    PROVE  /\ Rest(r, a, n) \in Seq(Spans) /\ Apart(Rest(r, a, n))
           /\ \A l \in DOMAIN Rest(r, a, n) :
                r.address <= Rest(r, a, n)[l].address /\ Past(Rest(r, a, n)[l]) <= Past(r)
           /\ \A x \in Nat :
                Holds(Rest(r, a, n), x) <=> In(x, r) /\ ~ (a <= x /\ x < a + n)
<1> DEFINE m == Rest(r, a, n)
<1> SUFFICES /\ m \in Seq(Spans) /\ Apart(m)
             /\ \A l \in DOMAIN m : r.address <= m[l].address /\ Past(m[l]) <= Past(r)
             /\ \A x \in Nat : Holds(m, x) <=> In(x, r) /\ ~ (a <= x /\ x < a + n)
  OBVIOUS
<1>1. /\ r.address \in Nat /\ Past(r) \in Nat /\ Start <= r.address /\ Past(r) <= End
      /\ Start \in Nat /\ End \in Nat
  BY SpanTypes, MemoryAssumption
<1> DEFINE y == Range32(r.address, a - r.address)
           z == Range32(a + n, Past(r) - (a + n))
<1>2. /\ y.address = r.address /\ Past(y) = a
      /\ z.address = a + n /\ Past(z) = Past(r)
      /\ a # r.address => y \in Spans
      /\ a + n # Past(r) => z \in Spans
  BY <1>1 DEF Range32, Spans, Past
<1> DEFINE v == Piece(r.address, a - r.address)
           w == Piece(a + n, Past(r) - (a + n))
<1>3. /\ v = IF a = r.address THEN <<>> ELSE <<y>>
      /\ w = IF a + n = Past(r) THEN <<>> ELSE <<z>>
  BY <1>1 DEF Piece
<1> HIDE DEF y, z, v, w, m
<1>4. /\ v \in Seq(Spans) /\ Len(v) = (IF a = r.address THEN 0 ELSE 1)
      /\ a # r.address => v[1] = y
  BY <1>2, <1>3
<1>5. /\ w \in Seq(Spans) /\ Len(w) = (IF a + n = Past(r) THEN 0 ELSE 1)
      /\ a + n # Past(r) => w[1] = z
  BY <1>2, <1>3
<1>6. /\ m \in Seq(Spans) /\ Len(m) = Len(v) + Len(w)
      /\ \A k \in 1 .. Len(v) + Len(w) : m[k] = IF k <= Len(v) THEN v[k] ELSE w[k - Len(v)]
  <2>1. /\ v \o w \in Seq(Spans) /\ Len(v \o w) = Len(v) + Len(w)
        /\ \A k \in 1 .. Len(v) + Len(w) :
             (v \o w)[k] = IF k <= Len(v) THEN v[k] ELSE w[k - Len(v)]
    BY <1>4, <1>5, ConcatProperties
  <2>2. m = v \o w
    BY DEF m, v, w, Rest
  <2> QED BY <2>1, <2>2
<1>7. DOMAIN m = 1 .. Len(v) + Len(w)
  <2>1. m \in Seq(Spans)
    BY <1>6
  <2>2. DOMAIN m = 1 .. Len(m)
    BY <2>1, LenProperties
  <2> QED BY <1>6, <2>2
<1>8. CASE a = r.address /\ a + n = Past(r)
  <2>1. DOMAIN m = {}
    BY <1>4, <1>5, <1>7, <1>8
  <2>2. Apart(m)
    BY <2>1 DEF Apart
  <2>3. \A x \in Nat : ~ Holds(m, x)
    BY <2>1 DEF Holds
  <2>4. \A x \in Nat : ~ (In(x, r) /\ ~ (a <= x /\ x < a + n))
    BY <1>1, <1>8 DEF In
  <2>5. \A l \in DOMAIN m : r.address <= m[l].address /\ Past(m[l]) <= Past(r)
    BY <2>1
  <2> QED BY <1>6, <2>2, <2>3, <2>4, <2>5
<1>9. CASE a = r.address /\ a + n # Past(r)
  <2>1. DOMAIN m = {1} /\ m[1] = z
    BY <1>4, <1>5, <1>6, <1>7, <1>9
  <2>2. Apart(m)
    BY <2>1 DEF Apart
  <2>3. \A x \in Nat : Holds(m, x) <=> In(x, z)
    BY <2>1 DEF Holds
  <2>4. \A x \in Nat : In(x, z) <=> In(x, r) /\ ~ (a <= x /\ x < a + n)
    BY <1>1, <1>2, <1>9 DEF In
  <2>5. \A l \in DOMAIN m : r.address <= m[l].address /\ Past(m[l]) <= Past(r)
    BY <1>1, <1>2, <2>1
  <2> QED BY <1>6, <2>2, <2>3, <2>4, <2>5
<1>10. CASE a # r.address /\ a + n = Past(r)
  <2>1. DOMAIN m = {1} /\ m[1] = y
    BY <1>4, <1>5, <1>6, <1>7, <1>10
  <2>2. Apart(m)
    BY <2>1 DEF Apart
  <2>3. \A x \in Nat : Holds(m, x) <=> In(x, y)
    BY <2>1 DEF Holds
  <2>4. \A x \in Nat : In(x, y) <=> In(x, r) /\ ~ (a <= x /\ x < a + n)
    BY <1>1, <1>2, <1>10 DEF In
  <2>5. \A l \in DOMAIN m : r.address <= m[l].address /\ Past(m[l]) <= Past(r)
    BY <1>1, <1>2, <2>1
  <2> QED BY <1>6, <2>2, <2>3, <2>4, <2>5
<1>11. CASE a # r.address /\ a + n # Past(r)
  <2>1. DOMAIN m = {1, 2} /\ m[1] = y /\ m[2] = z
    <3>1. Len(v) = 1 /\ Len(w) = 1 /\ v[1] = y /\ w[1] = z
      BY <1>4, <1>5, <1>11
    <3>2. DOMAIN m = {1, 2}
      BY <1>7, <3>1
    <3>3. m[1] = v[1] /\ m[2] = w[2 - 1]
      BY <1>6, <3>1
    <3> QED BY <3>1, <3>2, <3>3
  <2>2. Apart(m)
    BY <1>1, <1>2, <2>1 DEF Apart
  <2>3. \A x \in Nat : Holds(m, x) <=> In(x, y) \/ In(x, z)
    BY <2>1 DEF Holds
  <2>4. \A x \in Nat : In(x, y) \/ In(x, z) <=> In(x, r) /\ ~ (a <= x /\ x < a + n)
    BY <1>1, <1>2, <1>11 DEF In
  <2>5. \A l \in DOMAIN m : r.address <= m[l].address /\ Past(m[l]) <= Past(r)
    BY <1>1, <1>2, <2>1
  <2> QED BY <1>6, <2>2, <2>3, <2>4, <2>5
<1> QED BY <1>8, <1>9, <1>10, <1>11

\* Where the free ranges hold a request that does not wrap round.
LEMMA HoldingFits ==
    ASSUME MemoryInv, NEW a \in Nat, NEW n \in Nat, a + n < Width
    PROVE  Holding(a, n) = {i \in DOMAIN free : free[i].address <= a /\ a + n <= Past(free[i])}
<1>1. \A i \in DOMAIN free : free[i].address \in Nat /\ EndOf(free[i]) = Past(free[i])
  <2> TAKE i \in DOMAIN free
  <2>1. free[i] \in Spans
    BY LenProperties, ElementOfSeq DEF MemoryInv
  <2> QED BY <2>1, SpanTypes
<1>2. Wrap(a + n) = a + n
  BY WrapSmall
<1> QED BY <1>1, <1>2 DEF Holding, FitsAt

\* What is taken out of the free ranges was free and is not after it, and they
\* stay apart.
LEMMA CarvedKeeps ==
    ASSUME MemoryInv, NEW a \in Nat, NEW n \in Nat \ {0}, a + n < Width, Holding(a, n) # {}
    PROVE  /\ Carved(a, n) \in Seq(Spans) /\ Apart(Carved(a, n)) /\ Range32(a, n) \in Spans
           /\ \A x \in Nat : Holds(Carved(a, n), x) <=> Holds(free, x) /\ ~ (a <= x /\ x < a + n)
           /\ \A x \in Nat : a <= x /\ x < a + n => Holds(free, x)
<1> DEFINE i == Min(Holding(a, n))
           r == free[i]
           m == Rest(r, a, n)
           c == SubSeq(free, 1, i - 1) \o m \o SubSeq(free, i + 1, Len(free))
<1>1. free \in Seq(Spans) /\ Apart(free)
  BY DEF MemoryInv
<1>2. Len(free) \in Nat /\ DOMAIN free = 1 .. Len(free)
  BY <1>1, LenProperties
<1>3. i \in DOMAIN free /\ r.address <= a /\ a + n <= Past(r)
  <2>1. Holding(a, n) = {k \in DOMAIN free : free[k].address <= a /\ a + n <= Past(free[k])}
    BY HoldingFits
  <2>2. Holding(a, n) \in SUBSET Nat
    BY <1>2, <2>1
  <2>3. i \in Holding(a, n)
    BY <2>2, LeastMember
  <2> QED BY <2>1, <2>3
<1>4. r \in Spans
  BY <1>1, <1>2, <1>3, ElementOfSeq
<1>5. /\ r.address \in Nat /\ Past(r) \in Nat /\ EndOf(r) = Past(r) /\ Wrap(a + n) = a + n
      /\ Start <= r.address /\ Past(r) <= End
  BY <1>4, SpanTypes, WrapSmall
<1>6. Carved(a, n) = c
  BY <1>5 DEF Carved, Rest
<1> HIDE DEF i
<1>7. /\ m \in Seq(Spans) /\ Apart(m)
      /\ \A l \in DOMAIN m : r.address <= m[l].address /\ Past(m[l]) <= Past(r)
      /\ \A x \in Nat : Holds(m, x) <=> In(x, r) /\ ~ (a <= x /\ x < a + n)
  <2> HIDE DEF r
  <2> QED BY <1>3, <1>4, Pieces
<1> HIDE DEF m
<1>8. IsSplice(c, free, i, m, i + 1)
  <2>1. i \in 1 .. Len(free) + 1 /\ i + 1 \in i .. Len(free) + 1
    BY <1>2, <1>3
  <2> QED BY <1>1, <1>7, <2>1, Spliced
<1> HIDE DEF c
<1>9. i \in 1 .. Len(free) + 1 /\ i + 1 \in i .. Len(free) + 1
  BY <1>2, <1>3
<1>10. Apart(c)
  <2>1. \A k \in DOMAIN free, l \in DOMAIN m :
          /\ k < i => Past(free[k]) < m[l].address
          /\ k >= i + 1 => Past(m[l]) < free[k].address
    <3> SUFFICES ASSUME NEW k \in DOMAIN free, NEW l \in DOMAIN m
                 PROVE  /\ k < i => Past(free[k]) < m[l].address
                        /\ k >= i + 1 => Past(m[l]) < free[k].address
      OBVIOUS
    <3>1. free[k] \in Spans /\ m[l] \in Spans
      BY <1>1, <1>7, ElementOfSeq, LenProperties
    <3>2. /\ Past(free[k]) \in Nat /\ free[k].address \in Nat
          /\ Past(m[l]) \in Nat /\ m[l].address \in Nat
      BY <3>1, SpanTypes
    <3>3. k < i => Past(free[k]) < r.address
      BY <1>1, <1>3 DEF Apart
    <3>4. k >= i + 1 => Past(r) < free[k].address
      BY <1>1, <1>2, <1>3 DEF Apart
    <3> QED BY <1>5, <1>7, <3>2, <3>3, <3>4
  <2> QED BY <1>1, <1>7, <1>8, <1>9, <2>1, SpliceApart
<1>11. c \in Seq(Spans)
  BY <1>8 DEF IsSplice
<1>12. \A x \in Nat : Holds(c, x) <=> Holds(free, x) /\ ~ (a <= x /\ x < a + n)
  <2> TAKE x \in Nat
  <2>1. Holds(c, x) <=> Holds(m, x) \/ Kept(free, i, i + 1, x)
    BY <1>1, <1>7, <1>8, <1>9, SpliceHolds
  <2>2. Kept(free, i, i + 1, x) => ~ In(x, r)
    <3> SUFFICES ASSUME NEW k \in DOMAIN free, k < i \/ k >= i + 1, In(x, free[k]), In(x, r)
                 PROVE  FALSE
      BY DEF Kept
    <3>1. Past(free[k]) \in Nat /\ free[k].address \in Nat
      BY <1>1, ElementOfSeq, LenProperties, SpanTypes
    <3>2. Past(free[k]) < r.address \/ Past(r) < free[k].address
      BY <1>1, <1>2, <1>3 DEF Apart
    <3> QED BY <1>5, <3>1, <3>2 DEF In
  <2>3. In(x, r) => Holds(free, x)
    BY <1>3 DEF Holds
  <2>4. Holds(free, x) => In(x, r) \/ Kept(free, i, i + 1, x)
    BY <1>2, <1>3 DEF Holds, Kept
  <2>5. a <= x /\ x < a + n => In(x, r)
    BY <1>3, <1>5 DEF In
  <2>6. Kept(free, i, i + 1, x) => Holds(free, x)
    BY DEF Holds, Kept
  <2> QED BY <1>7, <2>1, <2>2, <2>3, <2>4, <2>5, <2>6
<1>13. \A x \in Nat : a <= x /\ x < a + n => Holds(free, x)
  BY <1>3, <1>5 DEF Holds, In
<1>14. Range32(a, n) \in Spans
  BY <1>3, <1>5, MemoryAssumption DEF Spans, Range32, Past
<1> QED BY <1>6, <1>10, <1>11, <1>12, <1>13, <1>14

\* A block taken out of a free range keeps the invariant.
LEMMA GrantedKeeps ==
    ASSUME MemoryInv, NEW a \in Nat, NEW n \in Nat \ {0}, a + n < Width, Holding(a, n) # {},
           Granted(a, n)
    PROVE  MemoryInv'
<1>1. PICK id \in Ids \ DOMAIN blocks :
        blocks' = [k \in DOMAIN blocks \union {id} |-> IF k = id THEN Range32(a, n) ELSE blocks[k]]
  BY DEF Granted
<1>2. free' = Carved(a, n)
  BY DEF Granted
<1>3. /\ free' \in Seq(Spans) /\ Apart(free') /\ Range32(a, n) \in Spans
      /\ \A x \in Nat : Holds(free', x) <=> Holds(free, x) /\ ~ (a <= x /\ x < a + n)
      /\ \A x \in Nat : a <= x /\ x < a + n => Holds(free, x)
  BY <1>2, CarvedKeeps
<1>4. /\ DOMAIN blocks' = DOMAIN blocks \union {id} /\ blocks'[id] = Range32(a, n)
      /\ \A k \in DOMAIN blocks : blocks'[k] = blocks[k]
  BY <1>1
<1>5. \A x \in Nat : In(x, Range32(a, n)) <=> a <= x /\ x < a + n
  BY DEF In, Past, Range32
<1>6. User \subseteq Nat
  BY MemoryAssumption DEF User
<1>7. \A x : Taken(x)' <=> Taken(x) \/ In(x, Range32(a, n))
  BY <1>4 DEF Taken
<1>8. \A k \in DOMAIN blocks' : blocks'[k] \in Spans
  BY <1>3, <1>4 DEF MemoryInv
<1>9. \A x \in User : Taken(x)' <=> ~ Holds(free', x)
  BY <1>3, <1>5, <1>6, <1>7 DEF MemoryInv
<1>10. \A k, other \in DOMAIN blocks' : \A x \in User :
         In(x, blocks'[k]) /\ In(x, blocks'[other]) => k = other
  <2>1. \A x \in User : In(x, Range32(a, n)) => ~ Taken(x)
    BY <1>3, <1>5, <1>6 DEF MemoryInv
  <2>2. \A x \in User, k \in DOMAIN blocks : In(x, blocks[k]) => ~ In(x, Range32(a, n))
    BY <2>1 DEF Taken
  <2> QED BY <1>4, <2>2 DEF MemoryInv
<1> QED BY <1>3, <1>8, <1>9, <1>10 DEF MemoryInv

-----------------------------------------------------------------------------
(* A block is freed. *)

\* One range in the place of some.
IsOne(t, s, i, r, j) == IsSplice(t, s, i, <<r>>, j)

OneEntry(t, s, i, r, j) ==
    /\ t \in Seq(Spans) /\ Len(t) = Len(s) + 1 - (j - i)
    /\ \A k \in 1 .. Len(t) :
         t[k] = IF k < i THEN s[k] ELSE IF k = i THEN r ELSE s[k - 1 - i + j]

\* The entries of a list with one range in the place of some.
LEMMA OneEntries ==
    ASSUME NEW s \in Seq(Spans), NEW r \in Spans, NEW t,
           NEW i \in 1 .. Len(s) + 1, NEW j \in i .. Len(s) + 1
    PROVE  IsOne(t, s, i, r, j) <=> OneEntry(t, s, i, r, j)
<1>1. Len(<<r>>) = 1 /\ <<r>>[1] = r
  OBVIOUS
<1>2. i \in Int /\ j \in Int /\ Len(s) \in Nat
  BY LenProperties
<1> DEFINE m == <<r>>
<1>3. ASSUME NEW k \in Int
      PROVE  (IF k < i THEN s[k] ELSE IF k < i + 1 THEN m[k - i + 1] ELSE s[k - 1 - i + j])
             = (IF k < i THEN s[k] ELSE IF k = i THEN r ELSE s[k - 1 - i + j])
  <2> HIDE DEF m
  <2>1. k < i \/ k = i \/ k > i
    BY <1>2
  <2>2. k = i => m[k - i + 1] = r
    BY <1>1, <1>2 DEF m
  <2> QED BY <1>2, <2>1, <2>2
<1>4. IsSplice(t, s, i, m, j) <=>
         /\ t \in Seq(Spans) /\ Len(t) = Len(s) + 1 - (j - i)
         /\ \A k \in 1 .. Len(t) :
              t[k] = IF k < i THEN s[k] ELSE IF k < i + 1 THEN m[k - i + 1] ELSE s[k - 1 - i + j]
  <2> HIDE DEF m
  <2>1. Len(m) = 1
    BY <1>1 DEF m
  <2> QED BY <2>1 DEF IsSplice
<1> HIDE DEF m
<1>5. ASSUME t \in Seq(Spans)
      PROVE  \A k \in 1 .. Len(t) : k \in Int
  BY <1>5, LenProperties
<1> QED BY <1>3, <1>4, <1>5 DEF IsOne, OneEntry, m

\* The next, or the one before, is taken into the range as well.
LEMMA OneMore ==
    ASSUME NEW s \in Seq(Spans), NEW u, NEW r \in Spans, NEW q \in Spans,
           NEW i \in 1 .. Len(s) + 1, NEW j \in i .. Len(s), NEW t,
           IsOne(u, s, i, q, j), IsOne(t, u, i, r, i + 2)
    PROVE  IsOne(t, s, i, r, j + 1)
<1>1. Len(s) \in Nat /\ i \in Int /\ j \in Int /\ i <= j /\ j <= Len(s) /\ 1 <= i
  BY LenProperties
<1>2. j \in i .. Len(s) + 1 /\ j + 1 \in i .. Len(s) + 1
  BY <1>1
<1>3. /\ u \in Seq(Spans) /\ Len(u) = Len(s) + 1 - (j - i)
      /\ \A k \in 1 .. Len(u) :
           u[k] = IF k < i THEN s[k] ELSE IF k = i THEN q ELSE s[k - 1 - i + j]
  <2>1. OneEntry(u, s, i, q, j)
    BY <1>2, OneEntries
  <2> QED BY <2>1 DEF OneEntry
<1>4. i \in 1 .. Len(u) + 1 /\ i + 2 \in i .. Len(u) + 1
  BY <1>1, <1>3
<1>5. /\ t \in Seq(Spans) /\ Len(t) = Len(u) + 1 - (i + 2 - i)
      /\ \A k \in 1 .. Len(t) :
           t[k] = IF k < i THEN u[k] ELSE IF k = i THEN r ELSE u[k - 1 - i + (i + 2)]
  <2> DEFINE h == i + 2
  <2>1. i \in 1 .. Len(u) + 1 /\ h \in i .. Len(u) + 1 /\ IsOne(t, u, i, r, h)
    BY <1>4
  <2> HIDE DEF h
  <2>2. /\ t \in Seq(Spans) /\ Len(t) = Len(u) + 1 - (h - i)
        /\ \A k \in 1 .. Len(t) :
             t[k] = IF k < i THEN u[k] ELSE IF k = i THEN r ELSE u[k - 1 - i + h]
    <3>1. OneEntry(t, u, i, r, h)
      BY <1>3, <2>1, OneEntries
    <3> QED BY <3>1 DEF OneEntry
  <2> QED BY <2>2 DEF h
<1>6. Len(t) = Len(s) + 1 - (j + 1 - i) /\ Len(t) = Len(u) - 1 /\ Len(u) \in Nat /\ Len(t) \in Nat
  BY <1>1, <1>3, <1>5, LenProperties
<1>7. \A k \in 1 .. Len(t) :
        t[k] = IF k < i THEN s[k] ELSE IF k = i THEN r ELSE s[k - 1 - i + (j + 1)]
  <2> TAKE k \in 1 .. Len(t)
  <2>1. k \in Int /\ k \in 1 .. Len(u) /\ k + 1 \in 1 .. Len(u)
    BY <1>6
  <2>2. CASE k < i
    BY <1>1, <1>3, <1>5, <2>1, <2>2
  <2>3. CASE k = i
    BY <1>1, <1>5, <2>3
  <2>4. CASE k > i
    <3>1. t[k] = u[k - 1 - i + (i + 2)] /\ k - 1 - i + (i + 2) = k + 1
      BY <1>1, <1>5, <2>1, <2>4
    <3>2. u[k + 1] = s[k + 1 - 1 - i + j] /\ k + 1 - 1 - i + j = k - 1 - i + (j + 1)
      BY <1>1, <1>3, <2>1, <2>4
    <3> QED BY <1>1, <2>1, <2>4, <3>1, <3>2
  <2> QED BY <1>1, <2>1, <2>2, <2>3, <2>4
<1>8. IsOne(t, s, i, r, j + 1)
  <2> DEFINE h == j + 1
  <2>1. h \in i .. Len(s) + 1 /\ Len(t) = Len(s) + 1 - (h - i)
    BY <1>2, <1>6
  <2>2. \A k \in 1 .. Len(t) :
          t[k] = IF k < i THEN s[k] ELSE IF k = i THEN r ELSE s[k - 1 - i + h]
    BY <1>7
  <2>3. t \in Seq(Spans)
    BY <1>5
  <2> HIDE DEF h
  <2>4. IsOne(t, s, i, r, h)
    <3>1. OneEntry(t, s, i, r, h)
      BY <2>1, <2>2, <2>3 DEF OneEntry
    <3> QED BY <1>2, <2>1, <3>1, OneEntries
  <2> QED BY <2>4 DEF h
<1> QED BY <1>8

\* And the one before.
LEMMA OneBefore ==
    ASSUME NEW s \in Seq(Spans), NEW u, NEW r \in Spans, NEW q \in Spans,
           NEW i \in 2 .. Len(s) + 1, NEW j \in i .. Len(s) + 1, NEW t,
           IsOne(u, s, i, q, j), IsOne(t, u, i - 1, r, i + 1)
    PROVE  IsOne(t, s, i - 1, r, j)
<1>1. Len(s) \in Nat /\ i \in Int /\ j \in Int /\ i <= j /\ j <= Len(s) + 1 /\ 2 <= i
  BY LenProperties
<1>2. i \in 1 .. Len(s) + 1 /\ i - 1 \in 1 .. Len(s) + 1 /\ j \in i - 1 .. Len(s) + 1
  BY <1>1
<1>3. /\ u \in Seq(Spans) /\ Len(u) = Len(s) + 1 - (j - i)
      /\ \A k \in 1 .. Len(u) :
           u[k] = IF k < i THEN s[k] ELSE IF k = i THEN q ELSE s[k - 1 - i + j]
  <2>1. OneEntry(u, s, i, q, j)
    BY <1>2, OneEntries
  <2> QED BY <2>1 DEF OneEntry
<1>4. i - 1 \in 1 .. Len(u) + 1 /\ i + 1 \in i - 1 .. Len(u) + 1
  BY <1>1, <1>3
<1>5. /\ t \in Seq(Spans) /\ Len(t) = Len(u) + 1 - (i + 1 - (i - 1))
      /\ \A k \in 1 .. Len(t) :
           t[k] = IF k < i - 1 THEN u[k]
                  ELSE IF k = i - 1 THEN r ELSE u[k - 1 - (i - 1) + (i + 1)]
  <2> DEFINE h == i - 1
         g == i + 1
  <2>1. h \in 1 .. Len(u) + 1 /\ g \in h .. Len(u) + 1 /\ IsOne(t, u, h, r, g)
    BY <1>4
  <2> HIDE DEF h, g
  <2>2. /\ t \in Seq(Spans) /\ Len(t) = Len(u) + 1 - (g - h)
        /\ \A k \in 1 .. Len(t) :
             t[k] = IF k < h THEN u[k] ELSE IF k = h THEN r ELSE u[k - 1 - h + g]
    <3>1. OneEntry(t, u, h, r, g)
      BY <1>3, <2>1, OneEntries
    <3> QED BY <3>1 DEF OneEntry
  <2> QED BY <2>2 DEF h, g
<1>6. Len(t) = Len(s) + 1 - (j - (i - 1)) /\ Len(t) = Len(u) - 1 /\ Len(u) \in Nat /\ Len(t) \in Nat
  BY <1>1, <1>3, <1>5, LenProperties
<1>7. \A k \in 1 .. Len(t) :
        t[k] = IF k < i - 1 THEN s[k] ELSE IF k = i - 1 THEN r ELSE s[k - 1 - (i - 1) + j]
  <2> TAKE k \in 1 .. Len(t)
  <2>1. k \in Int /\ k \in 1 .. Len(u) /\ k + 1 \in 1 .. Len(u)
    BY <1>6
  <2>2. CASE k < i - 1
    BY <1>1, <1>3, <1>5, <2>1, <2>2
  <2>3. CASE k = i - 1
    BY <1>1, <1>5, <2>3
  <2>4. CASE k > i - 1
    <3>1. t[k] = u[k - 1 - (i - 1) + (i + 1)] /\ k - 1 - (i - 1) + (i + 1) = k + 1
      BY <1>1, <1>5, <2>1, <2>4
    <3>2. u[k + 1] = s[k + 1 - 1 - i + j] /\ k + 1 - 1 - i + j = k - 1 - (i - 1) + j
      BY <1>1, <1>3, <2>1, <2>4
    <3> QED BY <1>1, <2>1, <2>4, <3>1, <3>2
  <2> QED BY <1>1, <2>1, <2>2, <2>3, <2>4
<1>8. IsOne(t, s, i - 1, r, j)
  <2> DEFINE h == i - 1
  <2>1. h \in 1 .. Len(s) + 1 /\ j \in h .. Len(s) + 1
        /\ t \in Seq(Spans) /\ Len(t) = Len(s) + 1 - (j - h)
        /\ \A k \in 1 .. Len(t) :
             t[k] = IF k < h THEN s[k] ELSE IF k = h THEN r ELSE s[k - 1 - h + j]
    BY <1>2, <1>5, <1>6, <1>7
  <2> HIDE DEF h
  <2>2. IsOne(t, s, h, r, j)
    <3>1. OneEntry(t, s, h, r, j)
      BY <2>1 DEF OneEntry
    <3> QED BY <2>1, <3>1, OneEntries
  <2> QED BY <2>2 DEF h
<1> QED BY <1>8

\* The block goes where the order of the addresses has it.
LEMMA Position ==
    ASSUME NEW s \in Seq(Spans), Apart(s), NEW a \in Nat, NEW p,
           p = Cardinality({i \in DOMAIN s : s[i].address < a}) + 1
    PROVE  p \in 1 .. Len(s) + 1 /\ \A i \in DOMAIN s : s[i].address < a <=> i < p
<1> DEFINE B == {i \in DOMAIN s : s[i].address < a}
           C == DOMAIN s \ B
           n == Len(s)
<1>1. n \in Nat /\ DOMAIN s = 1 .. n
  BY LenProperties
<1>2. \A i \in DOMAIN s : s[i].address \in Nat /\ Past(s[i]) \in Nat /\ s[i].address < Past(s[i])
  BY <1>1, ElementOfSeq, SpanTypes
<1>3. \E m \in 1 .. n + 1 : B = 1 .. m - 1
  <2>1. CASE C = {}
    <3>1. B = 1 .. n + 1 - 1
      BY <1>1, <2>1
    <3> QED BY <1>1, <3>1
  <2>2. CASE C # {}
    <3> DEFINE m == Min(C)
    <3>1. C \in SUBSET Nat
      BY <1>1
    <3>2. m \in C /\ \A y \in C : m <= y
      <4> HIDE DEF C
      <4> QED BY <2>2, <3>1, LeastMember
    <3> HIDE DEF m
    <3>3. m \in 1 .. n /\ ~ (s[m].address < a)
      BY <1>1, <3>2
    <3>4. \A i \in 1 .. n : i < m => i \in B
      BY <1>1, <3>2, <3>3
    <3>5. \A i \in 1 .. n : i > m => i \notin B
      <4> SUFFICES ASSUME NEW i \in 1 .. n, i > m, i \in B PROVE FALSE
        OBVIOUS
      <4>1. Past(s[m]) < s[i].address
        BY <1>1, <3>3 DEF Apart
      <4>2. s[m].address \in Nat /\ Past(s[m]) \in Nat /\ s[m].address < Past(s[m])
            /\ s[i].address \in Nat
        BY <1>1, <1>2, <3>3
      <4> QED BY <3>3, <4>1, <4>2
    <3>6. B = 1 .. m - 1
      <4>1. \A i \in B : i \in 1 .. n /\ i < m
        BY <1>1, <3>3, <3>5
      <4>2. \A i \in 1 .. m - 1 : i \in 1 .. n /\ i < m
        BY <1>1, <3>3
      <4>3. \A i \in B : i \in 1 .. m - 1
        BY <3>3, <4>1
      <4>4. \A i \in 1 .. m - 1 : i \in B
        BY <3>4, <4>2
      <4> HIDE DEF B
      <4> QED BY <4>3, <4>4
    <3> QED BY <1>1, <3>3, <3>6
  <2> QED BY <2>1, <2>2
<1>4. PICK m \in 1 .. n + 1 : B = 1 .. m - 1
  BY <1>3
<1>5. m \in Int /\ 1 <= m /\ m <= n + 1
  BY <1>1, <1>4
<1>6. Cardinality(B) = m - 1
  <2>1. Cardinality(1 .. m - 1) = IF 1 > m - 1 THEN 0 ELSE m - 1 - 1 + 1
    BY <1>5, FS_Interval
  <2> HIDE DEF B
  <2> QED BY <1>4, <1>5, <2>1
<1>7. p = m
  BY <1>5, <1>6
<1>8. \A i \in DOMAIN s : i \in B <=> i < m
  BY <1>1, <1>4, <1>5
<1> QED BY <1>1, <1>5, <1>7, <1>8

\* Two ranges that touch become one.
Joined(r, q) == Range32(r.address, r.size + q.size)
Join(s, i) == RemoveAt([s EXCEPT ![i].size = @ + s[i + 1].size], i + 1)

LEMMA JoinedSpan ==
    ASSUME NEW r \in Spans, NEW q \in Spans, Past(r) = q.address
    PROVE  /\ Joined(r, q) \in Spans /\ Joined(r, q).address = r.address
           /\ Past(Joined(r, q)) = Past(q)
<1>1. /\ r.address \in Nat /\ r.size \in Nat \ {0} /\ q.address \in Nat /\ q.size \in Nat \ {0}
      /\ Past(r) = r.address + r.size /\ Past(q) = q.address + q.size
      /\ Start <= r.address /\ Past(q) <= End
  BY SpanTypes
<1> QED BY <1>1 DEF Joined, Range32, Spans, Past

LEMMA RemoveAtIs ==
    ASSUME NEW s, NEW i
    PROVE  RemoveAt(s, i) = SubSeq(s, 1, i - 1) \o SubSeq(s, i + 1, Len(s))
BY DEF RemoveAt

\* A join puts one range in the place of two.
LEMMA JoinIsOne ==
    ASSUME NEW s \in Seq(Spans), NEW i \in DOMAIN s, i + 1 \in DOMAIN s,
           Past(s[i]) = s[i + 1].address
    PROVE  IsOne(Join(s, i), s, i, Joined(s[i], s[i + 1]), i + 2)
<1> DEFINE u == [s EXCEPT ![i].size = @ + s[i + 1].size]
           r == Joined(s[i], s[i + 1])
           n == Len(s)
           t == Join(s, i)
<1>1. n \in Nat /\ DOMAIN s = 1 .. n /\ i \in Int /\ 1 <= i /\ i + 1 <= n
  BY LenProperties
<1>2. s[i] \in Spans /\ s[i + 1] \in Spans
  BY <1>1, ElementOfSeq
<1>3. r \in Spans
  BY <1>2, JoinedSpan
<1>4. [s[i] EXCEPT !.size = @ + s[i + 1].size] = r
  BY <1>2 DEF Spans, Joined, Range32
<1>5. u = [s EXCEPT ![i] = r]
  BY <1>4
<1>6. u \in Seq(Spans) /\ Len(u) = n /\ \A k \in 1 .. n : u[k] = IF k = i THEN r ELSE s[k]
  <2> HIDE DEF r, u
  <2>1. i \in 1 .. Len(s)
    BY <1>1
  <2> QED BY <1>3, <1>5, <2>1, ExceptSeq
<1>7. IsSplice(t, u, i + 1, <<>>, i + 2)
  <2> HIDE DEF u
  <2> DEFINE h == i + 1
             g == h + 1
             a == SubSeq(u, 1, h - 1)
             c == SubSeq(u, g, Len(u))
             e == <<>>
  <2>1. h \in 1 .. Len(u) + 1 /\ g \in h .. Len(u) + 1 /\ e \in Seq(Spans) /\ h \in Int
    BY <1>1, <1>6
  <2>2. t = RemoveAt(u, h)
    BY DEF Join, u
  <2>3. g = i + 2
    BY <1>1
  <2>4. \A k \in 1 .. h - 1 : u[k] \in Spans
    BY <1>1, <1>6, ElementOfSeq
  <2> HIDE DEF t, h
  <2>5. t = a \o c
    BY <2>2, RemoveAtIs
  <2>6. a \in Seq(Spans)
    <3>1. 1 \in Int /\ h - 1 \in Int
      BY <2>1
    <3> QED BY <2>4, <3>1, SubSeqProperties
  <2>7. a \o e = a
    <3> HIDE DEF a
    <3> QED BY <2>6, ConcatEmptySeq
  <2>8. IsSplice(a \o e \o c, u, h, e, g)
    <3> HIDE DEF g, e
    <3> QED BY <1>6, <2>1, Spliced
  <2> HIDE DEF a, c, e, g
  <2>9. IsSplice(t, u, h, e, g)
    BY <2>5, <2>7, <2>8
  <2> QED BY <2>3, <2>9 DEF h, e
<1> HIDE DEF r, u, t
<1>8. /\ t \in Seq(Spans) /\ Len(t) = n - 1
      /\ \A k \in 1 .. Len(t) : t[k] = IF k < i + 1 THEN u[k] ELSE u[k + 1]
  <2> DEFINE e == <<>>
  <2>1. Len(e) = 0
    OBVIOUS
  <2>2. IsSplice(t, u, i + 1, e, i + 2)
    BY <1>7
  <2> HIDE DEF e
  <2>3. t \in Seq(Spans) /\ Len(t) = n - 1
    BY <1>1, <1>6, <2>1, <2>2 DEF IsSplice
  <2>4. \A k \in 1 .. Len(t) :
          t[k] = IF k < i + 1 THEN u[k]
                 ELSE IF k < i + 1 + Len(e) THEN e[k - (i + 1) + 1]
                 ELSE u[k - Len(e) - (i + 1) + (i + 2)]
    BY <2>2 DEF IsSplice
  <2>5. ASSUME NEW k \in 1 .. Len(t)
        PROVE  t[k] = IF k < i + 1 THEN u[k] ELSE u[k + 1]
    <3>1. k \in Int
      BY <2>3, LenProperties
    <3>2. k - Len(e) - (i + 1) + (i + 2) = k + 1 /\ i + 1 + Len(e) = i + 1
      BY <1>1, <2>1, <3>1
    <3>3. t[k] = IF k < i + 1 THEN u[k]
                 ELSE IF k < i + 1 THEN e[k - (i + 1) + 1] ELSE u[k + 1]
      BY <2>4, <3>2
    <3> QED BY <3>3
  <2> QED BY <2>3, <2>5
<1>9. i \in 1 .. Len(s) + 1 /\ i + 2 \in i .. Len(s) + 1
  BY <1>1
<1>10. \A k \in 1 .. Len(t) :
         t[k] = IF k < i THEN s[k] ELSE IF k = i THEN r ELSE s[k + 1]
  <2> TAKE k \in 1 .. Len(t)
  <2>1. k \in Int /\ k \in 1 .. n /\ k + 1 \in 1 .. n
    BY <1>1, <1>8
  <2> QED BY <1>1, <1>6, <1>8, <2>1
<1>11. IsOne(t, s, i, r, i + 2)
  <2> DEFINE h == i + 2
  <2>1. h \in i .. Len(s) + 1 /\ Len(t) = Len(s) + 1 - (h - i)
    BY <1>1, <1>8, <1>9
  <2>2. \A k \in 1 .. Len(t) :
          t[k] = IF k < i THEN s[k] ELSE IF k = i THEN r ELSE s[k - 1 - i + h]
    <3> TAKE k \in 1 .. Len(t)
    <3>1. k \in Int
      BY <1>8, LenProperties
    <3>2. k - 1 - i + h = k + 1
      BY <1>1, <3>1
    <3> HIDE DEF h
    <3> QED BY <1>10, <3>2
  <2> HIDE DEF h
  <2>3. OneEntry(t, s, i, r, h)
    BY <1>8, <2>1, <2>2 DEF OneEntry
  <2>4. IsOne(t, s, i, r, h)
    BY <1>3, <1>9, <2>1, <2>3, OneEntries
  <2> QED BY <2>4 DEF h
<1> QED BY <1>11 DEF t, r

LEMMA InsertAtIs ==
    ASSUME NEW s, NEW i, NEW e
    PROVE  InsertAt(s, i, e) = SubSeq(s, 1, i - 1) \o <<e>> \o SubSeq(s, i, Len(s))
BY DEF InsertAt

\* An insertion puts one in the place of none.
LEMMA InsertIsOne ==
    ASSUME NEW s \in Seq(Spans), NEW r \in Spans, NEW p \in 1 .. Len(s) + 1
    PROVE  IsOne(InsertAt(s, p, r), s, p, r, p)
<1> DEFINE m == <<r>>
<1>1. m \in Seq(Spans) /\ p \in p .. Len(s) + 1
  BY LenProperties
<1>2. IsSplice(SubSeq(s, 1, p - 1) \o m \o SubSeq(s, p, Len(s)), s, p, m, p)
  <2> HIDE DEF m
  <2> QED BY <1>1, Spliced
<1>3. InsertAt(s, p, r) = SubSeq(s, 1, p - 1) \o m \o SubSeq(s, p, Len(s))
  BY InsertAtIs
<1> QED BY <1>2, <1>3 DEF IsOne

\* r covers b and the ranges of s it replaces, and what is kept is apart from it.
Fills(s, b, i, j, r) ==
    /\ i \in 1 .. Len(s) + 1 /\ j \in i .. Len(s) + 1 /\ r \in Spans
    /\ \A k \in DOMAIN s : (k < i => Past(s[k]) < r.address) /\ (k >= j => Past(r) < s[k].address)
    /\ \A x \in Nat : In(x, r) <=> In(x, b) \/ \E k \in DOMAIN s : i <= k /\ k < j /\ In(x, s[k])

\* With the next range first, if the two touch.
LEMMA NextIsOne ==
    ASSUME NEW s \in Seq(Spans), Apart(s), NEW b \in Spans, NEW p \in 1 .. Len(s) + 1,
           \A k \in DOMAIN s : k >= p => Past(b) <= s[k].address, NEW u, IsOne(u, s, p, b, p)
    PROVE  \E j \in p .. Len(s) + 1, r \in Spans :
             /\ IsOne(IF p + 1 \in DOMAIN u /\ Touch(u[p], u[p + 1]) THEN Join(u, p) ELSE u,
                      s, p, r, j)
             /\ r.address = b.address
             /\ \A k \in DOMAIN s : k >= j => Past(r) < s[k].address
             /\ \A x \in Nat : In(x, r) <=>
                  In(x, b) \/ \E k \in DOMAIN s : p <= k /\ k < j /\ In(x, s[k])
<1> DEFINE n == Len(s)
           t == IF p + 1 \in DOMAIN u /\ Touch(u[p], u[p + 1]) THEN Join(u, p) ELSE u
<1>1. n \in Nat /\ DOMAIN s = 1 .. n /\ p \in Int /\ 1 <= p /\ p <= n + 1 /\ p \in p .. n + 1
  BY LenProperties
<1>2. \A k \in DOMAIN s : s[k] \in Spans
  BY <1>1, ElementOfSeq
<1>3. \A k \in DOMAIN s : /\ s[k].address \in Nat /\ Past(s[k]) \in Nat
                          /\ s[k].address < Past(s[k])
  BY <1>2, SpanTypes
<1>4. b.address \in Nat /\ Past(b) \in Nat /\ b.address < Past(b) /\ EndOf(b) = Past(b)
  BY SpanTypes
<1>5. /\ u \in Seq(Spans) /\ Len(u) = n + 1 /\ DOMAIN u = 1 .. n + 1
      /\ \A k \in 1 .. n + 1 : u[k] = IF k < p THEN s[k] ELSE IF k = p THEN b ELSE s[k - 1 - p + p]
  <2>1. OneEntry(u, s, p, b, p)
    BY <1>1, OneEntries
  <2>2. u \in Seq(Spans) /\ Len(u) = n + 1
    BY <1>1, <2>1 DEF OneEntry
  <2>3. DOMAIN u = 1 .. n + 1
    BY <2>2, LenProperties
  <2> QED BY <2>1, <2>2, <2>3 DEF OneEntry
<1>6. /\ p \in DOMAIN u /\ u[p] = b
      /\ p <= n => p \in DOMAIN s /\ p + 1 \in DOMAIN u /\ u[p + 1] = s[p]
  <2>1. p \in DOMAIN u /\ u[p] = b
    BY <1>1, <1>5
  <2>2. ASSUME p <= n PROVE p \in DOMAIN s /\ p + 1 \in DOMAIN u /\ u[p + 1] = s[p]
    <3>1. p + 1 \in 1 .. n + 1 /\ p + 1 - 1 - p + p = p
      BY <1>1, <2>2
    <3>2. u[p + 1] = s[p + 1 - 1 - p + p]
      BY <1>1, <1>5, <3>1
    <3> QED BY <1>1, <1>5, <2>2, <3>1, <3>2
  <2> QED BY <2>1, <2>2
<1>7. CASE p <= n /\ Past(b) = s[p].address
  <2> DEFINE r == Joined(b, s[p])
  <2>1. r \in Spans /\ r.address = b.address /\ Past(r) = Past(s[p])
    BY <1>2, <1>6, <1>7, JoinedSpan
  <2>2. t = Join(u, p)
    BY <1>4, <1>6, <1>7 DEF Touch
  <2>3. IsOne(Join(u, p), u, p, r, p + 2)
    BY <1>5, <1>6, <1>7, JoinIsOne
  <2> HIDE DEF t, r
  <2>4. p \in p .. Len(s)
    BY <1>1, <1>7
  <2>5. IsOne(t, s, p, r, p + 1)
    BY <2>1, <2>2, <2>3, <2>4, OneMore
  <2>6. \A k \in DOMAIN s : k >= p + 1 => Past(r) < s[k].address
    BY <1>1, <1>6, <1>7, <2>1 DEF Apart
  <2>7. \A x \in Nat : In(x, r) <=> In(x, b) \/ In(x, s[p])
    BY <1>3, <1>4, <1>6, <1>7, <2>1 DEF In
  <2>8. \A x \in Nat : In(x, r) <=>
          In(x, b) \/ \E k \in DOMAIN s : p <= k /\ k < p + 1 /\ In(x, s[k])
    <3>1. \A k \in DOMAIN s : p <= k /\ k < p + 1 <=> k = p
      BY <1>1
    <3> QED BY <1>6, <1>7, <2>7, <3>1
  <2>9. p + 1 \in p .. Len(s) + 1
    BY <1>1, <1>7
  <2>10. PICK j \in p .. Len(s) + 1 : j = p + 1
    BY <2>9
  <2> QED BY <2>1, <2>5, <2>6, <2>8, <2>10 DEF t
<1>8. CASE ~ (p <= n /\ Past(b) = s[p].address)
  <2>1. t = u
    BY <1>1, <1>4, <1>5, <1>6, <1>8 DEF Touch
  <2>2. \A k \in DOMAIN s : k >= p => Past(b) < s[k].address
    <3> SUFFICES ASSUME NEW k \in DOMAIN s, k >= p PROVE Past(b) < s[k].address
      OBVIOUS
    <3>1. p <= n /\ p \in DOMAIN s
      BY <1>1
    <3>2. Past(b) < s[p].address
      BY <1>1, <1>3, <1>4, <1>8, <3>1
    <3>3. CASE k = p
      BY <3>2, <3>3
    <3>4. CASE k > p
      BY <1>3, <1>4, <3>1, <3>2, <3>4 DEF Apart
    <3> QED BY <1>1, <3>3, <3>4
  <2>3. \A k \in DOMAIN s : ~ (p <= k /\ k < p)
    BY <1>1
  <2> HIDE DEF t
  <2>4. \A x \in Nat : In(x, b) <=> In(x, b) \/ \E k \in DOMAIN s : p <= k /\ k < p /\ In(x, s[k])
    BY <2>3
  <2> QED BY <1>1, <2>1, <2>2, <2>4 DEF t
<1> QED BY <1>7, <1>8

\* And with the one before.
LEMMA BeforeIsOne ==
    ASSUME NEW s \in Seq(Spans), Apart(s), NEW b \in Spans, NEW p \in 1 .. Len(s) + 1,
           NEW j \in p .. Len(s) + 1, NEW q \in Spans, NEW u, IsOne(u, s, p, q, j),
           q.address = b.address,
           \A k \in DOMAIN s : k < p => Past(s[k]) <= b.address,
           \A k \in DOMAIN s : k >= j => Past(q) < s[k].address,
           \A x \in Nat : In(x, q) <=>
             In(x, b) \/ \E k \in DOMAIN s : p <= k /\ k < j /\ In(x, s[k])
    PROVE  \E i, l, r : /\ Fills(s, b, i, l, r)
                        /\ IsOne(IF p > 1 /\ Touch(u[p - 1], u[p]) THEN Join(u, p - 1) ELSE u,
                                 s, i, r, l)
<1> DEFINE n == Len(s)
           t == IF p > 1 /\ Touch(u[p - 1], u[p]) THEN Join(u, p - 1) ELSE u
<1>1. n \in Nat /\ DOMAIN s = 1 .. n /\ p \in Int /\ 1 <= p /\ p <= n + 1
      /\ j \in Int /\ p <= j /\ j <= n + 1
  BY LenProperties
<1>2. \A k \in DOMAIN s : s[k] \in Spans
  BY <1>1, ElementOfSeq
<1>3. \A k \in DOMAIN s : /\ s[k].address \in Nat /\ Past(s[k]) \in Nat
                          /\ s[k].address < Past(s[k]) /\ EndOf(s[k]) = Past(s[k])
  BY <1>2, SpanTypes
<1>4. q.address \in Nat /\ Past(q) \in Nat /\ q.address < Past(q)
  BY SpanTypes
<1>5. /\ u \in Seq(Spans) /\ Len(u) = n + 1 - (j - p) /\ DOMAIN u = 1 .. Len(u)
      /\ \A k \in 1 .. Len(u) : u[k] = IF k < p THEN s[k] ELSE IF k = p THEN q ELSE s[k - 1 - p + j]
  <2>1. OneEntry(u, s, p, q, j)
    BY OneEntries
  <2>2. u \in Seq(Spans) /\ Len(u) = n + 1 - (j - p)
    BY <1>1, <2>1 DEF OneEntry
  <2>3. DOMAIN u = 1 .. Len(u)
    BY <2>2, LenProperties
  <2> QED BY <2>1, <2>2, <2>3 DEF OneEntry
<1>6. p \in DOMAIN u /\ u[p] = q
      /\ (p > 1 => p - 1 \in DOMAIN s /\ p - 1 \in DOMAIN u /\ u[p - 1] = s[p - 1])
  BY <1>1, <1>5
<1>7. CASE p > 1 /\ Past(s[p - 1]) = q.address
  <2> DEFINE h == p - 1
             r == Joined(s[h], q)
  <2>1. h \in DOMAIN s /\ h \in DOMAIN u /\ h + 1 = p /\ h \in Int /\ u[h] = s[h]
    BY <1>1, <1>6, <1>7
  <2>2. r \in Spans /\ r.address = s[h].address /\ Past(r) = Past(q)
    BY <1>2, <1>7, <2>1, JoinedSpan
  <2>3. t = Join(u, h)
    BY <1>3, <1>6, <1>7 DEF Touch
  <2>4. IsOne(Join(u, h), u, h, r, p + 1)
    <3>1. h + 1 \in DOMAIN u /\ u[h + 1] = q /\ h + 2 = p + 1
      BY <1>1, <1>6, <2>1
    <3>2. Past(u[h]) = u[h + 1].address
      BY <1>7, <2>1, <3>1
    <3> HIDE DEF h
    <3>3. IsOne(Join(u, h), u, h, Joined(u[h], u[h + 1]), h + 2)
      BY <1>5, <2>1, <3>1, <3>2, JoinIsOne
    <3> QED BY <2>1, <3>1, <3>3
  <2> HIDE DEF t, r
  <2>5. p \in 2 .. Len(s) + 1
    BY <1>1, <1>7
  <2>6. IsOne(t, s, h, r, j)
    BY <2>2, <2>3, <2>4, <2>5, OneBefore
  <2> HIDE DEF h
  <2>7. \A k \in DOMAIN s : (k < h => Past(s[k]) < r.address) /\ (k >= j => Past(r) < s[k].address)
    BY <2>1, <2>2 DEF Apart
  <2>8. \A x \in Nat : In(x, r) <=> In(x, s[h]) \/ In(x, q)
    <3>1. Past(s[h]) = q.address
      BY <1>7 DEF h
    <3> QED BY <1>3, <1>4, <2>1, <2>2, <3>1 DEF In
  <2>9. \A x \in Nat : In(x, r) <=> In(x, b) \/ \E k \in DOMAIN s : h <= k /\ k < j /\ In(x, s[k])
    <3> TAKE x \in Nat
    <3>1. \A k \in DOMAIN s : h <= k /\ k < j <=> k = h \/ (p <= k /\ k < j)
      BY <1>1, <2>1
    <3>2. (\E k \in DOMAIN s : h <= k /\ k < j /\ In(x, s[k]))
          <=> In(x, s[h]) \/ \E k \in DOMAIN s : p <= k /\ k < j /\ In(x, s[k])
      BY <2>1, <3>1
    <3> QED BY <2>8, <3>2
  <2>10. h \in 1 .. Len(s) + 1 /\ j \in h .. Len(s) + 1
    BY <1>1, <2>1
  <2>11. Fills(s, b, h, j, r)
    BY <2>2, <2>7, <2>9, <2>10 DEF Fills
  <2> QED BY <2>6, <2>11 DEF t
<1>8. CASE ~ (p > 1 /\ Past(s[p - 1]) = q.address)
  <2>1. t = u
    BY <1>3, <1>6, <1>8 DEF Touch
  <2>2. \A k \in DOMAIN s : k < p => Past(s[k]) < q.address
    <3> SUFFICES ASSUME NEW k \in DOMAIN s, k < p PROVE Past(s[k]) < q.address
      OBVIOUS
    <3>1. p > 1 /\ p - 1 \in DOMAIN s
      BY <1>1
    <3>2. Past(s[p - 1]) < q.address
      <4>1. Past(s[p - 1]) <= q.address /\ Past(s[p - 1]) # q.address
        BY <1>1, <1>8, <3>1
      <4>2. Past(s[p - 1]) \in Nat
        BY <1>3, <3>1
      <4> QED BY <1>4, <4>1, <4>2
    <3>3. CASE k = p - 1
      BY <3>2, <3>3
    <3>4. CASE k < p - 1
      <4>1. Past(s[k]) < s[p - 1].address
        BY <3>1, <3>4 DEF Apart
      <4>2. s[p - 1].address < Past(s[p - 1]) /\ s[p - 1].address \in Nat /\ Past(s[p - 1]) \in Nat
        BY <1>3, <3>1
      <4>3. Past(s[k]) \in Nat /\ q.address \in Nat
        BY <1>3, <1>4
      <4> QED BY <3>2, <4>1, <4>2, <4>3
    <3> QED BY <1>1, <3>3, <3>4
  <2>3. Fills(s, b, p, j, q)
    BY <2>2 DEF Fills
  <2> HIDE DEF t
  <2> QED BY <2>1, <2>3 DEF t
<1> QED BY <1>7, <1>8

\* A freed block puts one range in the place of none, one or two.
LEMMA MergedIsOne ==
    ASSUME NEW s \in Seq(Spans), Apart(s), NEW b \in Spans, NEW p \in 1 .. Len(s) + 1,
           \A k \in DOMAIN s : k < p => Past(s[k]) <= b.address,
           \A k \in DOMAIN s : k >= p => Past(b) <= s[k].address
    PROVE  \E i, l, r : Fills(s, b, i, l, r) /\ IsOne(Merged(InsertAt(s, p, b), p), s, i, r, l)
<1> DEFINE u == InsertAt(s, p, b)
           v == IF p + 1 \in DOMAIN u /\ Touch(u[p], u[p + 1]) THEN Join(u, p) ELSE u
           t == IF p > 1 /\ Touch(v[p - 1], v[p]) THEN Join(v, p - 1) ELSE v
<1>1. IsOne(u, s, p, b, p)
  BY InsertIsOne
<1> HIDE DEF u
<1>2. PICK j \in p .. Len(s) + 1, q \in Spans :
         /\ IsOne(v, s, p, q, j)
         /\ q.address = b.address
         /\ \A k \in DOMAIN s : k >= j => Past(q) < s[k].address
         /\ \A x \in Nat : In(x, q) <=>
              In(x, b) \/ \E k \in DOMAIN s : p <= k /\ k < j /\ In(x, s[k])
  BY <1>1, NextIsOne
<1> HIDE DEF v
<1>3. \E i, l, r : Fills(s, b, i, l, r) /\ IsOne(t, s, i, r, l)
  BY <1>2, BeforeIsOne
<1>4. Merged(u, p) = t
  <2>1. p \in Int /\ p - 1 + 1 = p
    BY LenProperties
  <2>2. Join(v, p - 1) = RemoveAt([v EXCEPT ![p - 1].size = @ + v[p].size], p)
    BY <2>1 DEF Join
  <2>3. v = IF p + 1 \in DOMAIN u /\ Touch(u[p], u[p + 1])
            THEN RemoveAt([u EXCEPT ![p].size = @ + u[p + 1].size], p + 1) ELSE u
    BY DEF v, Join
  <2> QED BY <2>2, <2>3 DEF Merged
<1> QED BY <1>3, <1>4 DEF u

\* The block is free again and the ranges stay apart.
LEMMA FreeBlockKeeps ==
    ASSUME MemoryInv, NEW id \in Ids, FreeBlock(id)
    PROVE  MemoryInv'
<1> DEFINE b == blocks[id]
           p == Cardinality({i \in DOMAIN free : free[i].address < b.address}) + 1
<1>1. id \in DOMAIN blocks /\ free' = Merged(InsertAt(free, p, b), p)
      /\ blocks' = [k \in DOMAIN blocks \ {id} |-> blocks[k]]
  BY DEF FreeBlock
<1>2. free \in Seq(Spans) /\ Apart(free) /\ b \in Spans
  BY <1>1 DEF MemoryInv
<1>3. Len(free) \in Nat /\ DOMAIN free = 1 .. Len(free)
  BY <1>2, LenProperties
<1>4. \A k \in DOMAIN free : /\ free[k].address \in Nat /\ Past(free[k]) \in Nat
                             /\ Start <= free[k].address /\ Past(free[k]) <= End
                             /\ free[k].address < Past(free[k])
  BY <1>2, <1>3, ElementOfSeq, SpanTypes
<1>5. /\ b.address \in Nat /\ Past(b) \in Nat /\ Start <= b.address /\ Past(b) <= End
      /\ b.address < Past(b)
  BY <1>2, SpanTypes
<1> HIDE DEF p
<1>6. p \in 1 .. Len(free) + 1 /\ \A k \in DOMAIN free : free[k].address < b.address <=> k < p
  <2> HIDE DEF b
  <2> QED BY <1>2, <1>5, Position DEF p
<1> HIDE DEF b
<1>7. User = Start .. End - 1 /\ User \subseteq Nat
  BY MemoryAssumption DEF User
<1>8. \A x \in User : ~ (Holds(free, x) /\ In(x, b))
  BY <1>1 DEF MemoryInv, Taken, b
<1>9. ASSUME NEW k \in DOMAIN free PROVE Past(free[k]) <= b.address \/ Past(b) <= free[k].address
  <2>1. CASE free[k].address <= b.address
    <3>1. b.address \in User
      BY <1>5, <1>7, MemoryAssumption
    <3>2. ~ In(b.address, free[k])
      BY <1>5, <1>8, <3>1 DEF Holds, In
    <3> QED BY <1>4, <1>5, <2>1, <3>2 DEF In
  <2>2. CASE b.address <= free[k].address
    <3>1. free[k].address \in User
      BY <1>4, <1>7, MemoryAssumption
    <3>2. ~ In(free[k].address, b)
      BY <1>4, <1>8, <3>1 DEF Holds, In
    <3> QED BY <1>4, <1>5, <2>2, <3>2 DEF In
  <2> QED BY <1>4, <1>5, <2>1, <2>2
<1>10. \A k \in DOMAIN free : k < p => Past(free[k]) <= b.address
  BY <1>4, <1>5, <1>6, <1>9
<1>11. \A k \in DOMAIN free : k >= p => Past(b) <= free[k].address
  BY <1>3, <1>4, <1>5, <1>6, <1>9
<1>12. PICK i, l, r : Fills(free, b, i, l, r) /\ IsOne(free', free, i, r, l)
  BY <1>1, <1>2, <1>6, <1>10, <1>11, MergedIsOne DEF b
<1> DEFINE m == <<r>>
<1>13. /\ i \in 1 .. Len(free) + 1 /\ l \in i .. Len(free) + 1 /\ r \in Spans
       /\ IsSplice(free', free, i, m, l)
  BY <1>12 DEF Fills, IsOne
<1>14. m \in Seq(Spans) /\ DOMAIN m = {1} /\ m[1] = r
  BY <1>13
<1> HIDE DEF m
<1>15. Apart(m) /\ \A x : Holds(m, x) <=> In(x, r)
  BY <1>14 DEF Apart, Holds
<1>16. Apart(free')
  <2>1. \A k \in DOMAIN free, q \in DOMAIN m :
          /\ k < i => Past(free[k]) < m[q].address
          /\ k >= l => Past(m[q]) < free[k].address
    BY <1>12, <1>14 DEF Fills
  <2> QED BY <1>2, <1>13, <1>14, <1>15, <2>1, SpliceApart
<1>17. free' \in Seq(Spans)
  BY <1>13 DEF IsSplice
<1>18. \A x \in Nat : Holds(free', x) <=> Holds(free, x) \/ In(x, b)
  <2> TAKE x \in Nat
  <2>1. Holds(free', x) <=> In(x, r) \/ Kept(free, i, l, x)
    BY <1>2, <1>13, <1>14, <1>15, SpliceHolds
  <2>2. In(x, r) <=> In(x, b) \/ \E k \in DOMAIN free : i <= k /\ k < l /\ In(x, free[k])
    BY <1>12 DEF Fills
  <2>3. \A k \in DOMAIN free : k < i \/ k >= l \/ (i <= k /\ k < l)
    BY <1>3, <1>13
  <2> QED BY <2>1, <2>2, <2>3 DEF Holds, Kept
<1>19. DOMAIN blocks' = DOMAIN blocks \ {id} /\ \A k \in DOMAIN blocks' : blocks'[k] = blocks[k]
  BY <1>1
<1>20. \A x \in User : Taken(x)' <=> ~ Holds(free', x)
  <2> TAKE x \in User
  <2>1. Taken(x) <=> Taken(x)' \/ In(x, b)
    BY <1>1, <1>19 DEF Taken, b
  <2>2. ~ (Taken(x)' /\ In(x, b))
    BY <1>1, <1>19 DEF MemoryInv, Taken, b
  <2>3. Holds(free', x) <=> Holds(free, x) \/ In(x, b)
    BY <1>7, <1>18
  <2> QED BY <2>1, <2>2, <2>3 DEF MemoryInv
<1>21. \A k \in DOMAIN blocks' : blocks'[k] \in Spans
  BY <1>19 DEF MemoryInv
<1>22. \A k, other \in DOMAIN blocks' : \A x \in User :
         In(x, blocks'[k]) /\ In(x, blocks'[other]) => k = other
  BY <1>19 DEF MemoryInv
<1> QED BY <1>16, <1>17, <1>20, <1>21, <1>22 DEF MemoryInv

-----------------------------------------------------------------------------
(* Where a request is granted, it fits. *)

\* FitsLow, and FitsHigh below, find a place in the range.
LEMMA LowFits ==
    ASSUME MemoryInv, NoWrap, NEW n \in Sizes, NEW al \in Alignments, NEW i \in DOMAIN free
    PROVE  LET a == AlignUp(free[i].address, al) IN
           /\ a \in Nat /\ free[i].address <= a /\ a < free[i].address + al /\ a + n < Width
           /\ FitsLow(free[i], n, al) <=> a + n <= Past(free[i])
<1> DEFINE r == free[i]
           a == AlignUp(r.address, al)
<1>1. r \in Spans
  BY LenProperties, ElementOfSeq DEF MemoryInv
<1> HIDE DEF r
<1>2. /\ r.address \in Nat /\ Past(r) \in Nat /\ r.address < Past(r) /\ Past(r) <= End
      /\ EndOf(r) = Past(r)
  BY <1>1, SpanTypes
<1>3. n \in Nat \ {0} /\ al \in Nat \ {0} /\ End + al + n <= Width /\ End \in Nat /\ Width \in Nat
  BY MemoryAssumption DEF NoWrap
<1>4. r.address + al < Width
  BY <1>2, <1>3
<1>5. a \in Nat /\ a >= r.address /\ a < r.address + al
  BY <1>2, <1>3, <1>4, AlignedUp
<1> HIDE DEF a
<1>6. a + n < Width /\ a + n \in Nat
  BY <1>2, <1>3, <1>5
<1>7. FitsLow(r, n, al) <=> a + n <= Past(r)
  BY <1>2, <1>6, WrapSmall DEF FitsLow, a
<1> QED BY <1>5, <1>6, <1>7 DEF a, r

LEMMA HighFits ==
    ASSUME MemoryInv, NEW n \in Sizes, NEW al \in Alignments, NEW i \in DOMAIN free,
           FitsHigh(free[i], n, al)
    PROVE  LET a == AlignDown(free[i].address + free[i].size - n, al) IN
           a \in Nat /\ free[i].address <= a /\ a + n <= Past(free[i]) /\ a + n < Width
<1> DEFINE r == free[i]
           a == AlignDown(r.address + r.size - n, al)
<1>1. r \in Spans
  BY LenProperties, ElementOfSeq DEF MemoryInv
<1> HIDE DEF r
<1>2. /\ r.address \in Nat /\ Past(r) \in Nat /\ Past(r) <= End /\ Past(r) = r.address + r.size
  BY <1>1, SpanTypes
<1>3. n \in Nat \ {0} /\ al \in Nat \ {0} /\ End < Width /\ End \in Nat /\ Width \in Nat
  BY MemoryAssumption
<1>4. Past(r) >= n /\ a >= r.address
  <2>1. FitsHigh(r, n, al)
    BY DEF r
  <2>2. r.address + r.size >= n /\ AlignDown(r.address + r.size - n, al) >= r.address
    BY <2>1 DEF FitsHigh
  <2> QED BY <1>2, <2>2
<1>5. a \in Nat /\ a <= Past(r) - n
  <2> DEFINE e == r.address + r.size - n
  <2>1. e \in Nat /\ e = Past(r) - n
    BY <1>1, <1>2, <1>3, <1>4, SpanTypes
  <2> HIDE DEF e
  <2>2. AlignDown(e, al) \in Nat /\ AlignDown(e, al) <= e
    BY <1>3, <2>1, AlignedDown
  <2> QED BY <2>1, <2>2 DEF e
<1> HIDE DEF a
<1> QED BY <1>2, <1>3, <1>4, <1>5 DEF a, r

\* In every list of free ranges the requests find, the block is taken out.
LEMMA RequestsKeep ==
    ASSUME MemoryInv, NoWrap, NEW n \in Sizes
    PROVE  /\ \A al \in Alignments : AllocateLow(n, al) \/ AllocateHigh(n, al) => MemoryInv'
           /\ \A a \in Addresses : AllocateAt(n, a) => MemoryInv'
<1>1. n \in Nat \ {0} /\ Addresses \subseteq Nat /\ Alignments \subseteq Nat \ {0}
  BY MemoryAssumption
<1>2. Len(free) \in Nat /\ DOMAIN free = 1 .. Len(free)
  BY LenProperties DEF MemoryInv
<1>3. NoMemory => MemoryInv'
  BY DEF NoMemory, MemoryInv, Taken
<1>4. ASSUME NEW al \in Alignments, AllocateLow(n, al), ~ NoMemory PROVE MemoryInv'
  <2> DEFINE fits == {i \in DOMAIN free : FitsLow(free[i], n, al)}
             i == Min(fits)
             a == AlignUp(free[i].address, al)
  <2>1. fits # {} /\ Granted(a, n)
    BY <1>4 DEF AllocateLow
  <2>2. fits \in SUBSET Nat
    BY <1>2
  <2>3. i \in fits
    <3> HIDE DEF fits
    <3> QED BY <2>1, <2>2, LeastMember
  <2>4. i \in DOMAIN free /\ FitsLow(free[i], n, al)
    BY <2>3
  <2> HIDE DEF i
  <2>5. /\ a \in Nat /\ free[i].address <= a /\ a + n < Width
        /\ a + n <= Past(free[i])
    BY <2>4, LowFits
  <2> HIDE DEF a
  <2>6. Holding(a, n) # {}
    BY <1>1, <2>4, <2>5, HoldingFits
  <2> QED BY <1>1, <2>1, <2>5, <2>6, GrantedKeeps
<1>5. ASSUME NEW al \in Alignments, AllocateHigh(n, al), ~ NoMemory PROVE MemoryInv'
  <2> DEFINE fits == {i \in DOMAIN free : FitsHigh(free[i], n, al)}
             i == Max(fits)
             a == AlignDown(free[i].address + free[i].size - n, al)
  <2>1. fits # {} /\ Granted(a, n)
    BY <1>5 DEF AllocateHigh
  <2>2. fits \in SUBSET (0 .. Len(free))
    BY <1>2
  <2>3. i \in fits
    <3> HIDE DEF fits
    <3> QED BY <1>2, <2>1, <2>2, GreatestMember
  <2>4. i \in DOMAIN free /\ FitsHigh(free[i], n, al)
    BY <2>3
  <2> HIDE DEF i
  <2>5. /\ a \in Nat /\ free[i].address <= a /\ a + n < Width
        /\ a + n <= Past(free[i])
    BY <2>4, HighFits
  <2> HIDE DEF a
  <2>6. Holding(a, n) # {}
    BY <1>1, <2>4, <2>5, HoldingFits
  <2> QED BY <1>1, <2>1, <2>5, <2>6, GrantedKeeps
<1>6. ASSUME NEW a \in Addresses, AllocateAt(n, a), ~ NoMemory PROVE MemoryInv'
  <2>1. Holding(a, n) # {} /\ Granted(a, n)
    BY <1>6 DEF AllocateAt
  <2>2. a \in Nat /\ a + n < Width
    BY <1>1 DEF NoWrap
  <2> QED BY <1>1, <2>1, <2>2, GrantedKeeps
<1> QED BY <1>3, <1>4, <1>5, <1>6

\* The invariant holds at the start, and always.
LEMMA MemoryStarts == Init => MemoryInv
<1> SUFFICES ASSUME Init PROVE MemoryInv
  OBVIOUS
<1> DEFINE r == Range32(Start, End - Start)
<1>1. free = <<r>> /\ blocks = <<>>
  BY DEF Init
<1>2. r \in Spans /\ \A x \in User : In(x, r)
  BY MemoryAssumption DEF Spans, Range32, Past, In, User
<1> HIDE DEF r
<1>3. free \in Seq(Spans) /\ DOMAIN free = {1} /\ free[1] = r
  BY <1>1, <1>2
<1>4. DOMAIN blocks = {}
  BY <1>1
<1>5. Apart(free)
  BY <1>3 DEF Apart
<1>6. \A x \in User : Holds(free, x) /\ ~ Taken(x)
  BY <1>2, <1>3, <1>4 DEF Holds, Taken
<1> QED BY <1>3, <1>4, <1>5, <1>6 DEF MemoryInv

LEMMA MemoryAlways == NoWrap => (Spec => []MemoryInv)
<1> SUFFICES ASSUME NoWrap PROVE Spec => []MemoryInv
  OBVIOUS
<1>1. MemoryInv /\ [Next]_vars => MemoryInv'
  <2> SUFFICES ASSUME MemoryInv, [Next]_vars PROVE MemoryInv'
    OBVIOUS
  <2>1. CASE UNCHANGED vars
    BY <2>1 DEF vars, MemoryInv, Taken
  <2> QED BY <2>1, RequestsKeep, FreeBlockKeeps DEF Next
<1> QED BY <1>1, MemoryStarts, PTL DEF Spec

\* Where no request wraps round, the free ranges are the memory no block covers,
\* each as long as it can be, whatever was requested and released before.
THEOREM MemoryFreeIsTheRest == NoWrap => (Spec => []FreeIsTheRest)
<1>1. MemoryInv => FreeIsTheRest
  <2> SUFFICES ASSUME MemoryInv PROVE FreeIsTheRest
    OBVIOUS
  <2>1. Len(free) \in Nat /\ DOMAIN free = 1 .. Len(free)
    BY LenProperties DEF MemoryInv
  <2>2. ASSUME NEW r \in Spans
        PROVE  r.size > 0 /\ Area(r) = {x \in User : In(x, r)}
    <3>1. /\ r.address \in Nat /\ r.size \in Nat \ {0} /\ Past(r) = r.address + r.size
          /\ Start <= r.address /\ Past(r) <= End /\ Start \in Nat /\ End \in Nat
      BY SpanTypes, MemoryAssumption
    <3>2. Area(r) = r.address .. Past(r) - 1 /\ User = Start .. End - 1
      BY <3>1 DEF Area, User
    <3>3. Past(r) \in Nat
      BY <3>1
    <3>4. \A x \in User : In(x, r) <=> x \in r.address .. Past(r) - 1
      BY <3>1, <3>2, <3>3 DEF In
    <3>5. r.address .. Past(r) - 1 \subseteq User
      BY <3>1, <3>2, <3>3
    <3> QED BY <3>1, <3>2, <3>4, <3>5
  <2>3. \A i \in DOMAIN free : free[i] \in Spans
    BY <2>1, ElementOfSeq DEF MemoryInv
  <2>4. \A id \in DOMAIN blocks : blocks[id] \in Spans
    BY DEF MemoryInv
  <2>5. Covered({free[i] : i \in DOMAIN free}) = {x \in User : Holds(free, x)}
    <3>1. \A i \in DOMAIN free : Area(free[i]) = {x \in User : In(x, free[i])}
      BY <2>2, <2>3
    <3> QED BY <3>1 DEF Covered, Holds
  <2>6. Covered({blocks[id] : id \in DOMAIN blocks}) = {x \in User : Taken(x)}
    <3>1. \A id \in DOMAIN blocks : Area(blocks[id]) = {x \in User : In(x, blocks[id])}
      BY <2>2, <2>4
    <3> QED BY <3>1 DEF Covered, Taken
  <2>7. Covered({free[i] : i \in DOMAIN free})
        = User \ Covered({blocks[id] : id \in DOMAIN blocks})
    BY <2>5, <2>6 DEF MemoryInv
  <2>8. \A i \in DOMAIN free : free[i].size > 0
    BY <2>2, <2>3
  <2>9. \A i \in 2 .. Len(free) : free[i - 1].address + free[i - 1].size < free[i].address
    <3> TAKE i \in 2 .. Len(free)
    <3>1. i - 1 \in DOMAIN free /\ i \in DOMAIN free /\ i - 1 < i
      BY <2>1
    <3> QED BY <3>1 DEF MemoryInv, Apart, Past
  <2>10. \A id, other \in DOMAIN blocks :
           id # other => Area(blocks[id]) \intersect Area(blocks[other]) = {}
    BY <2>2, <2>4 DEF MemoryInv
  <2>11. \A id \in DOMAIN blocks : Area(blocks[id]) \subseteq User
    BY <2>2, <2>4
  <2> QED BY <2>7, <2>8, <2>9, <2>10, <2>11 DEF FreeIsTheRest
<1> QED BY <1>1, MemoryAlways, PTL

-----------------------------------------------------------------------------
(* The list answers as the abstract partition does. *)

\* Ranges that are apart hold a whole stretch in one of them.
LEMMA HeldInOne ==
    ASSUME MemoryInv, NEW a \in Nat, NEW n \in Nat \ {0},
           \A x \in a .. a + n - 1 : Holds(free, x)
    PROVE  \E i \in DOMAIN free : free[i].address <= a /\ a + n <= Past(free[i])
<1>1. Len(free) \in Nat /\ DOMAIN free = 1 .. Len(free) /\ Apart(free)
  BY LenProperties DEF MemoryInv
<1>2. \A k \in DOMAIN free : /\ free[k].address \in Nat /\ Past(free[k]) \in Nat
                             /\ free[k].address < Past(free[k])
  BY <1>1, ElementOfSeq, SpanTypes DEF MemoryInv
<1>3. a \in a .. a + n - 1
  OBVIOUS
<1>4. PICK i \in DOMAIN free : free[i].address <= a /\ a < Past(free[i])
  BY <1>3 DEF Holds, In
<1>5. ASSUME Past(free[i]) < a + n PROVE FALSE
  <2> DEFINE y == Past(free[i])
  <2>1. y \in Nat /\ y \in a .. a + n - 1 /\ free[i].address \in Nat
    BY <1>2, <1>4, <1>5
  <2>2. PICK j \in DOMAIN free : free[j].address <= y /\ y < Past(free[j])
    BY <2>1 DEF Holds, In
  <2>3. j = i \/ i < j \/ j < i
    BY <1>1
  <2>4. free[j].address \in Nat /\ Past(free[j]) \in Nat
    BY <1>2
  <2>5. i < j => y < free[j].address
    BY <1>1 DEF Apart
  <2>6. j < i => Past(free[j]) < free[i].address
    BY <1>1 DEF Apart
  <2>7. free[i].address <= a /\ a < y
    BY <1>4
  <2>8. j = i => FALSE
    BY <2>1, <2>2
  <2> HIDE DEF y
  <2> QED BY <2>1, <2>2, <2>3, <2>4, <2>5, <2>6, <2>7, <2>8
<1> QED BY <1>2, <1>4, <1>5

\* Where a request fits between the blocks is where a free range holds it.
LEMMA RoomIs ==
    ASSUME MemoryInv, NEW a, NEW n \in Nat \ {0}, NEW al
    PROVE  a \in Abstract!Room(n, al) <=>
             /\ a \in Nat /\ a % al = 0
             /\ \E i \in DOMAIN free : free[i].address <= a /\ a + n <= Past(free[i])
<1> DEFINE Fit == \E i \in DOMAIN free : free[i].address <= a /\ a + n <= Past(free[i])
<1>1. User = Start .. End - 1 /\ Start \in Nat /\ End \in Nat /\ User \subseteq Nat
  BY MemoryAssumption DEF User
<1>2. \A k \in DOMAIN free : /\ free[k].address \in Nat /\ Past(free[k]) \in Nat
                             /\ free[k].address < Past(free[k])
                             /\ Start <= free[k].address /\ Past(free[k]) <= End
  BY LenProperties, ElementOfSeq, SpanTypes DEF MemoryInv
<1>3. User \ Abstract!InUse = {x \in User : Holds(free, x)}
  <2>1. \A id \in DOMAIN blocks : Abstract!Area(blocks[id]) = {x \in User : In(x, blocks[id])}
    <3> TAKE id \in DOMAIN blocks
    <3> DEFINE r == blocks[id]
    <3>1. r \in Spans
      BY DEF MemoryInv
    <3> HIDE DEF r
    <3>2. /\ r.address \in Nat /\ r.size \in Nat \ {0} /\ Past(r) = r.address + r.size
          /\ Start <= r.address /\ Past(r) <= End /\ Past(r) \in Nat
      BY <3>1, SpanTypes
    <3>3. Abstract!Area(r) = r.address .. Past(r) - 1
      BY <3>2 DEF Abstract!Area
    <3>4. \A x \in User : In(x, r) <=> x \in r.address .. Past(r) - 1
      BY <1>1, <3>2 DEF In
    <3>5. r.address .. Past(r) - 1 \subseteq User
      BY <1>1, <3>2
    <3>6. Abstract!Area(r) = {x \in User : In(x, r)}
      BY <3>3, <3>4, <3>5
    <3> QED BY <3>6 DEF r
  <2>2. Abstract!InUse = {x \in User : Taken(x)}
    BY <2>1 DEF Abstract!InUse, Taken
  <2> QED BY <2>2 DEF MemoryInv
<1>4. ASSUME a \in Nat
      PROVE  /\ Abstract!Area([address |-> a, size |-> n]) = a .. a + n - 1
             /\ a \in a .. a + n - 1
  BY <1>4 DEF Abstract!Area
<1>5. a \in Abstract!Room(n, al) <=>
        a \in User /\ a % al = 0 /\ a .. a + n - 1 \subseteq {x \in User : Holds(free, x)}
  <2>1. a \in Abstract!Room(n, al) <=>
          /\ a \in User /\ a % al = 0
          /\ Abstract!Area([address |-> a, size |-> n]) \subseteq User \ Abstract!InUse
    BY DEF Abstract!Room
  <2> QED BY <1>1, <1>3, <1>4, <2>1
<1>6. ASSUME a \in Nat, Fit
      PROVE  a \in User /\ a .. a + n - 1 \subseteq {x \in User : Holds(free, x)}
  <2>1. PICK i \in DOMAIN free : free[i].address <= a /\ a + n <= Past(free[i])
    BY <1>6
  <2>2. /\ free[i].address \in Nat /\ Past(free[i]) \in Nat
        /\ Start <= free[i].address /\ Past(free[i]) <= End
    BY <1>2
  <2>3. \A x \in a .. a + n - 1 : x \in User /\ In(x, free[i])
    BY <1>1, <1>6, <2>1, <2>2 DEF In
  <2> QED BY <1>4, <1>6, <2>3 DEF Holds
<1>7. ASSUME a \in User, a .. a + n - 1 \subseteq {x \in User : Holds(free, x)}
      PROVE  Fit
  <2>1. a \in Nat /\ \A x \in a .. a + n - 1 : Holds(free, x)
    BY <1>1, <1>7
  <2> QED BY <2>1, HeldInOne
<1> QED BY <1>1, <1>5, <1>6, <1>7

\* What is aligned up is the least aligned address that is not lower.
LEMMA AlignedUpLeast ==
    ASSUME NEW a \in Nat, NEW al \in Nat \ {0}, a + al < Width
    PROVE  /\ AlignUp(a, al) % al = 0
           /\ \A c \in Nat : c % al = 0 /\ c >= a => AlignUp(a, al) <= c
<1> DEFINE q == (a + al - 1) \div al
           p == q * al
<1>1. q \in Nat /\ p \in Nat /\ p <= a + al - 1 /\ a + al - 1 < p + al
  OBVIOUS
<1>2. AlignUp(a, al) = p
  BY <1>1, MemoryAssumption, WrapSmall DEF AlignUp
<1>3. p % al = 0
  <2> HIDE DEF q
  <2> QED BY <1>1
<1>4. ASSUME NEW c \in Nat, c % al = 0, c >= a PROVE p <= c
  <2> DEFINE k == c \div al
  <2>1. k \in Nat /\ c = k * al
    BY <1>4
  <2> HIDE DEF q, k
  <2>2. q <= k
    <3>1. SUFFICES ASSUME q >= k + 1 PROVE FALSE
      BY <1>1, <2>1
    <3>2. q * al >= (k + 1) * al
      BY <1>1, <2>1, <3>1
    <3>3. (k + 1) * al = k * al + al
      BY <2>1
    <3> QED BY <1>1, <1>4, <2>1, <3>2, <3>3
  <2>3. q * al <= k * al
    BY <1>1, <2>1, <2>2
  <2> QED BY <2>1, <2>3
<1> QED BY <1>2, <1>3, <1>4

\* What is aligned down is the greatest that is not higher.
LEMMA AlignedDownGreatest ==
    ASSUME NEW a \in Nat, NEW al \in Nat \ {0}
    PROVE  /\ AlignDown(a, al) % al = 0
           /\ \A c \in Nat : c % al = 0 /\ c <= a => c <= AlignDown(a, al)
<1> DEFINE q == a \div al
           p == q * al
<1>1. q \in Nat /\ p \in Nat /\ p <= a /\ a < p + al
  OBVIOUS
<1>2. AlignDown(a, al) = p
  BY DEF AlignDown
<1>3. p % al = 0
  <2> HIDE DEF q
  <2> QED BY <1>1
<1>4. ASSUME NEW c \in Nat, c % al = 0, c <= a PROVE c <= p
  <2> DEFINE k == c \div al
  <2>1. k \in Nat /\ c = k * al
    BY <1>4
  <2> HIDE DEF q, k
  <2>2. k <= q
    <3>1. SUFFICES ASSUME k >= q + 1 PROVE FALSE
      BY <1>1, <2>1
    <3>2. k * al >= (q + 1) * al
      BY <1>1, <2>1, <3>1
    <3>3. (q + 1) * al = q * al + al
      BY <1>1
    <3> QED BY <1>1, <1>4, <2>1, <3>2, <3>3
  <2>3. k * al <= q * al
    BY <1>1, <2>1, <2>2
  <2> QED BY <2>1, <2>3
<1> QED BY <1>2, <1>3, <1>4

\* The choice among the places is the one the partition makes.
LEMMA LeastIs ==
    ASSUME NEW S \in SUBSET Nat, NEW a \in S, \A c \in S : a <= c
    PROVE  Abstract!Min(S) = a
<1>1. \A b \in S : (\A c \in S : b <= c) => b = a
  OBVIOUS
<1> QED BY <1>1 DEF Abstract!Min

LEMMA GreatestIs ==
    ASSUME NEW S \in SUBSET Nat, NEW a \in S, \A c \in S : c <= a
    PROVE  Abstract!Max(S) = a
<1>1. \A b \in S : (\A c \in S : b >= c) => b = a
  OBVIOUS
<1> QED BY <1>1 DEF Abstract!Max

\* What the free ranges are.
LEMMA RangesOf ==
    ASSUME MemoryInv
    PROVE  /\ Len(free) \in Nat /\ DOMAIN free = 1 .. Len(free) /\ Apart(free)
           /\ \A k \in DOMAIN free :
                /\ free[k].address \in Nat /\ free[k].size \in Nat /\ Past(free[k]) \in Nat
                /\ Past(free[k]) = free[k].address + free[k].size
                /\ free[k].address < Past(free[k]) /\ Past(free[k]) <= End
<1>1. Len(free) \in Nat /\ DOMAIN free = 1 .. Len(free) /\ Apart(free)
  BY LenProperties DEF MemoryInv
<1> QED BY <1>1, ElementOfSeq, SpanTypes DEF MemoryInv

\* Each request is one of the abstract partition.
LEMMA LowImplements ==
    ASSUME MemoryInv, NoWrap, NEW n \in Sizes, NEW al \in Alignments, AllocateLow(n, al)
    PROVE  Abstract!Low(n, al)
<1> DEFINE fits == {i \in DOMAIN free : FitsLow(free[i], n, al)}
           room == Abstract!Room(n, al)
           at(i) == AlignUp(free[i].address, al)
<1>1. n \in Nat \ {0} /\ al \in Nat \ {0}
  BY MemoryAssumption
<1>2. /\ Len(free) \in Nat /\ DOMAIN free = 1 .. Len(free) /\ Apart(free)
      /\ \A k \in DOMAIN free : /\ free[k].address \in Nat /\ Past(free[k]) \in Nat
                                /\ free[k].address < Past(free[k]) /\ Past(free[k]) <= End
  BY RangesOf
<1>3. \A a : a \in room <=>
         /\ a \in Nat /\ a % al = 0
         /\ \E i \in DOMAIN free : free[i].address <= a /\ a + n <= Past(free[i])
  BY <1>1, RoomIs
<1>4. ASSUME NEW i \in DOMAIN free
      PROVE  /\ at(i) \in Nat /\ free[i].address <= at(i) /\ at(i) % al = 0
             /\ \A c \in Nat : c % al = 0 /\ c >= free[i].address => at(i) <= c
             /\ i \in fits <=> at(i) + n <= Past(free[i])
  <2>1. free[i].address + al < Width
    BY <1>1, <1>2, MemoryAssumption DEF NoWrap
  <2>2. at(i) % al = 0 /\ \A c \in Nat : c % al = 0 /\ c >= free[i].address => at(i) <= c
    BY <1>1, <1>2, <2>1, AlignedUpLeast
  <2>3. at(i) \in Nat /\ free[i].address <= at(i)
        /\ (FitsLow(free[i], n, al) <=> at(i) + n <= Past(free[i]))
    BY LowFits
  <2> QED BY <2>2, <2>3
<1> HIDE DEF room, at
<1>5. ASSUME NEW c \in room
      PROVE  \E j \in fits : at(j) <= c /\ free[j].address <= c
  <2>1. PICK j \in DOMAIN free : free[j].address <= c /\ c + n <= Past(free[j])
    BY <1>3
  <2>2. c \in Nat /\ c % al = 0
    BY <1>3
  <2>3. at(j) <= c /\ at(j) \in Nat
    BY <1>2, <1>4, <2>1, <2>2
  <2>4. at(j) + n <= Past(free[j])
    BY <1>1, <1>2, <2>1, <2>2, <2>3
  <2> QED BY <1>4, <2>1, <2>3, <2>4
<1>6. CASE fits = {}
  <2>1. room = {}
    BY <1>5, <1>6
  <2>2. refused' = TRUE /\ UNCHANGED blocks
    BY <1>6 DEF AllocateLow, NoMemory
  <2> QED BY <2>1, <2>2 DEF Abstract!Low, Abstract!Grant, room
<1>7. CASE fits # {}
  <2> DEFINE i == Min(fits)
             a == at(i)
  <2>1. fits \in SUBSET Nat
    BY <1>2
  <2>2. i \in fits /\ \A y \in fits : i <= y
    <3> HIDE DEF fits
    <3> QED BY <1>7, <2>1, LeastMember
  <2>3. Granted(a, n)
    BY <1>7 DEF AllocateLow, at
  <2> HIDE DEF i
  <2>4. i \in DOMAIN free
    BY <2>2
  <2>5. /\ a \in Nat /\ free[i].address <= a /\ a % al = 0 /\ a + n <= Past(free[i])
        /\ \A c \in Nat : c % al = 0 /\ c >= free[i].address => a <= c
    BY <1>4, <2>2, <2>4
  <2> HIDE DEF a
  <2>6. a \in room
    BY <1>3, <2>4, <2>5
  <2>7. \A c \in room : a <= c
    <3> TAKE c \in room
    <3>1. PICK j \in fits : at(j) <= c /\ free[j].address <= c
      BY <1>5
    <3>2. j \in DOMAIN free /\ i <= j /\ c \in Nat /\ c % al = 0
      BY <1>3, <2>2, <3>1
    <3>3. CASE j = i
      BY <2>5, <3>1, <3>2, <3>3
    <3>4. CASE i < j
      <4>1. Past(free[i]) < free[j].address
        BY <1>2, <2>4, <3>2, <3>4 DEF Apart
      <4> QED BY <1>1, <1>2, <2>4, <2>5, <3>1, <3>2, <4>1
    <3> QED BY <1>2, <2>4, <3>2, <3>3, <3>4
  <2>8. room \in SUBSET Nat
    BY <1>3
  <2>9. Abstract!Min(room) = a
    BY <2>6, <2>7, <2>8, LeastIs
  <2>10. refused' = FALSE /\ \E id \in Ids \ DOMAIN blocks :
           blocks' = [k \in DOMAIN blocks \union {id} |->
                        IF k = id THEN [address |-> a, size |-> n] ELSE blocks[k]]
    BY <2>3 DEF Granted, Range32
  <2>11. room # {}
    BY <2>6
  <2> QED BY <2>9, <2>10, <2>11 DEF Abstract!Low, Abstract!Grant, room
<1> QED BY <1>6, <1>7

LEMMA HighImplements ==
    ASSUME MemoryInv, NoWrap, NEW n \in Sizes, NEW al \in Alignments, AllocateHigh(n, al)
    PROVE  Abstract!High(n, al)
<1> DEFINE fits == {i \in DOMAIN free : FitsHigh(free[i], n, al)}
           room == Abstract!Room(n, al)
           at(i) == AlignDown(free[i].address + free[i].size - n, al)
<1>1. n \in Nat \ {0} /\ al \in Nat \ {0}
  BY MemoryAssumption
<1>2. /\ Len(free) \in Nat /\ DOMAIN free = 1 .. Len(free) /\ Apart(free)
      /\ \A k \in DOMAIN free : /\ free[k].address \in Nat /\ Past(free[k]) \in Nat
                                /\ free[k].size \in Nat
                                /\ Past(free[k]) = free[k].address + free[k].size
                                /\ free[k].address < Past(free[k]) /\ Past(free[k]) <= End
  BY RangesOf
<1>3. \A a : a \in room <=>
         /\ a \in Nat /\ a % al = 0
         /\ \E i \in DOMAIN free : free[i].address <= a /\ a + n <= Past(free[i])
  BY <1>1, RoomIs
<1>4. ASSUME NEW i \in DOMAIN free, free[i].address + free[i].size >= n
      PROVE  /\ at(i) \in Nat /\ at(i) + n <= Past(free[i]) /\ at(i) % al = 0
             /\ \A c \in Nat : c % al = 0 /\ c + n <= Past(free[i]) => c <= at(i)
             /\ i \in fits <=> free[i].address <= at(i)
  <2> DEFINE e == free[i].address + free[i].size - n
  <2>1. e \in Nat /\ e = Past(free[i]) - n
    BY <1>1, <1>2, <1>4
  <2> HIDE DEF e
  <2>2. /\ AlignDown(e, al) \in Nat /\ AlignDown(e, al) <= e /\ AlignDown(e, al) % al = 0
        /\ \A c \in Nat : c % al = 0 /\ c <= e => c <= AlignDown(e, al)
    BY <1>1, <2>1, AlignedDown, AlignedDownGreatest
  <2>3. at(i) = AlignDown(e, al)
    BY DEF e
  <2>4. i \in fits <=> free[i].address <= at(i)
    <3>1. FitsHigh(free[i], n, al) <=>
            free[i].address + free[i].size >= n
            /\ AlignDown(free[i].address + free[i].size - n, al) >= free[i].address
      BY DEF FitsHigh
    <3>2. free[i].address \in Nat /\ at(i) \in Nat
      BY <1>2, <2>2, <2>3
    <3> QED BY <1>4, <3>1, <3>2
  <2> HIDE DEF at
  <2>5. at(i) \in Nat /\ at(i) + n <= Past(free[i]) /\ at(i) % al = 0
    BY <1>1, <1>2, <2>1, <2>2, <2>3
  <2>6. \A c \in Nat : c % al = 0 /\ c + n <= Past(free[i]) => c <= at(i)
    BY <1>1, <1>2, <2>1, <2>2, <2>3
  <2> QED BY <2>4, <2>5, <2>6
<1>5. \A i \in fits : i \in DOMAIN free /\ free[i].address + free[i].size >= n
  BY DEF FitsHigh
<1> HIDE DEF room, at
<1>6. ASSUME NEW c \in room
      PROVE  \E j \in fits : c <= at(j) /\ c + n <= Past(free[j])
  <2>1. PICK j \in DOMAIN free : free[j].address <= c /\ c + n <= Past(free[j])
    BY <1>3
  <2>2. c \in Nat /\ c % al = 0
    BY <1>3
  <2>3. free[j].address + free[j].size >= n
    BY <1>1, <1>2, <2>1, <2>2
  <2>4. c <= at(j) /\ at(j) \in Nat
    BY <1>4, <2>1, <2>2, <2>3
  <2>5. free[j].address <= at(j)
    BY <1>2, <2>1, <2>2, <2>4
  <2> QED BY <1>4, <2>1, <2>3, <2>4, <2>5
<1>7. CASE fits = {}
  <2>1. room = {}
    BY <1>6, <1>7
  <2>2. refused' = TRUE /\ UNCHANGED blocks
    BY <1>7 DEF AllocateHigh, NoMemory
  <2> QED BY <2>1, <2>2 DEF Abstract!High, Abstract!Grant, room
<1>8. CASE fits # {}
  <2> DEFINE i == Max(fits)
             a == at(i)
  <2>1. fits \in SUBSET (0 .. Len(free))
    BY <1>2
  <2>2. i \in fits /\ \A y \in fits : y <= i
    <3> HIDE DEF fits
    <3> QED BY <1>2, <1>8, <2>1, GreatestMember
  <2>3. Granted(a, n)
    BY <1>8 DEF AllocateHigh, at
  <2> HIDE DEF i
  <2>4. i \in DOMAIN free /\ free[i].address + free[i].size >= n
    BY <1>5, <2>2
  <2>5. /\ a \in Nat /\ free[i].address <= a /\ a % al = 0 /\ a + n <= Past(free[i])
        /\ \A c \in Nat : c % al = 0 /\ c + n <= Past(free[i]) => c <= a
    BY <1>4, <2>2, <2>4
  <2> HIDE DEF a
  <2>6. a \in room
    BY <1>3, <2>4, <2>5
  <2>7. \A c \in room : c <= a
    <3> TAKE c \in room
    <3>1. PICK j \in fits : c <= at(j) /\ c + n <= Past(free[j])
      BY <1>6
    <3>2. j \in DOMAIN free /\ j <= i /\ c \in Nat /\ c % al = 0
      BY <1>3, <1>5, <2>2, <3>1
    <3>3. CASE j = i
      BY <2>5, <3>1, <3>2, <3>3
    <3>4. CASE j < i
      <4>1. Past(free[j]) < free[i].address
        BY <1>2, <2>4, <3>2, <3>4 DEF Apart
      <4>2. c < Past(free[j])
        BY <1>1, <1>2, <3>1, <3>2
      <4> QED BY <1>2, <2>4, <2>5, <3>2, <4>1, <4>2
    <3> QED BY <1>2, <2>4, <3>2, <3>3, <3>4
  <2>8. room \in SUBSET Nat
    BY <1>3
  <2>9. Abstract!Max(room) = a
    BY <2>6, <2>7, <2>8, GreatestIs
  <2>10. refused' = FALSE /\ \E id \in Ids \ DOMAIN blocks :
           blocks' = [k \in DOMAIN blocks \union {id} |->
                        IF k = id THEN [address |-> a, size |-> n] ELSE blocks[k]]
    BY <2>3 DEF Granted, Range32
  <2>11. room # {}
    BY <2>6
  <2> QED BY <2>9, <2>10, <2>11 DEF Abstract!High, Abstract!Grant, room
<1> QED BY <1>7, <1>8

LEMMA AtImplements ==
    ASSUME MemoryInv, NoWrap, NEW n \in Sizes, NEW a \in Addresses, AllocateAt(n, a)
    PROVE  Abstract!At(n, a)
<1> DEFINE room == Abstract!Room(n, 1) \intersect {a}
<1>1. n \in Nat \ {0} /\ a \in Nat /\ a + n < Width
  BY MemoryAssumption DEF NoWrap
<1>2. a % 1 = 0
  BY <1>1
<1>3. a \in Abstract!Room(n, 1) <=>
        \E i \in DOMAIN free : free[i].address <= a /\ a + n <= Past(free[i])
  BY <1>1, <1>2, RoomIs
<1>4. Holding(a, n) = {i \in DOMAIN free : free[i].address <= a /\ a + n <= Past(free[i])}
  BY <1>1, HoldingFits
<1>5. room = IF Holding(a, n) = {} THEN {} ELSE {a}
  BY <1>3, <1>4
<1> HIDE DEF room
<1>6. CASE Holding(a, n) = {}
  <2>1. refused' = TRUE /\ UNCHANGED blocks
    BY <1>6 DEF AllocateAt, NoMemory
  <2> QED BY <1>5, <1>6, <2>1 DEF Abstract!At, Abstract!Grant, room
<1>7. CASE Holding(a, n) # {}
  <2>1. Granted(a, n)
    BY <1>7 DEF AllocateAt
  <2>2. room \in SUBSET Nat /\ a \in room /\ \A c \in room : a <= c
    BY <1>1, <1>5, <1>7
  <2>3. Abstract!Min(room) = a /\ room # {}
    BY <2>2, LeastIs
  <2>4. refused' = FALSE /\ \E id \in Ids \ DOMAIN blocks :
           blocks' = [k \in DOMAIN blocks \union {id} |->
                        IF k = id THEN [address |-> a, size |-> n] ELSE blocks[k]]
    BY <2>1 DEF Granted, Range32
  <2> QED BY <2>3, <2>4 DEF Abstract!At, Abstract!Grant, room
<1> QED BY <1>6, <1>7

\* Where no request wraps round, every one is granted at the lowest, highest or
\* named place there is between the blocks, and refused only when there is none.
THEOREM MemoryImplementsPartition == NoWrap => (Spec => PartitionSpec)
<1> SUFFICES ASSUME NoWrap PROVE Spec => PartitionSpec
  OBVIOUS
<1>1. Init => Abstract!Init
  BY DEF Init, Abstract!Init
<1>2. MemoryInv /\ [Next]_vars => [Abstract!Next]_(Abstract!vars)
  <2> SUFFICES ASSUME MemoryInv, [Next]_vars PROVE Abstract!Next \/ UNCHANGED Abstract!vars
    OBVIOUS
  <2>1. CASE UNCHANGED vars
    BY <2>1 DEF vars, Abstract!vars
  <2>2. ASSUME NEW id \in Ids, FreeBlock(id) PROVE Abstract!Free(id)
    BY <2>2 DEF FreeBlock, Abstract!Free
  <2> QED BY <2>1, <2>2, LowImplements, HighImplements, AtImplements DEF Next, Abstract!Next
<1> QED BY <1>1, <1>2, MemoryAlways, PTL DEF Spec, PartitionSpec, Abstract!Spec
=============================================================================
