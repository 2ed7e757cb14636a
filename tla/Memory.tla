------------------------------- MODULE Memory -------------------------------
(***************************************************************************)
(* The user memory partition (kernel.cpp): the blocks of the guest's own   *)
(* requests, of thread stacks, pools and loaded modules, and the list of   *)
(* the ranges between them.  An address is a number of granules of         *)
(* kMemoryGranularity, and `Width' of them are what 32 bits can name.      *)
(***************************************************************************)
EXTENDS Integers, Sequences, SequencesExt, FiniteSetsExt

CONSTANTS
    Start, End,  \* the user partition: user_start and kUserMemoryEnd
    Width,       \* 2^32, in granules
    Sizes,       \* what is asked for, rounded up to granules
    Alignments,  \* in granules, powers of two
    Addresses,   \* what is asked for by address, in granules
    Ids          \* bound: the uids of blocks in use at one time

ASSUME MemoryAssumption ==
    /\ Start \in Nat /\ End \in Nat /\ Width \in Nat /\ Start < End /\ End < Width
    /\ Sizes \subseteq 1 .. Width - 1 /\ Addresses \subseteq 0 .. Width - 1
    /\ Alignments \subseteq Nat \ {0} /\ 1 \in Alignments

VARIABLES
    free,     \* free_ranges_: [address, size], in the order of addresses
    blocks,   \* blocks_: uid -> [address, size]
    refused   \* allocate_block answered kNoMemory

vars == <<free, blocks, refused>>

Range32(a, n) == [address |-> a, size |-> n]
Wrap(n) == n % Width
EndOf(r) == Wrap(r.address + r.size)
AlignUp(a, al) == Wrap(((a + al - 1) \div al) * al)
AlignDown(a, al) == (a \div al) * al

-----------------------------------------------------------------------------
(* Where a request fits in a free range, and the range it is given.        *)

FitsLow(r, n, al) == Wrap(AlignUp(r.address, al) + n) <= EndOf(r)

(* X_Mutant, before the definition X, is X as a plausible mistake in the   *)
(* code would have it: the runs' properties must tell the two apart.       *)
FitsHigh_Mutant(r, n, al) ==
    r.address + r.size > n /\ AlignDown(r.address + r.size - n, al) > r.address

(* Computed in 64 bits. *)
FitsHigh(r, n, al) ==
    r.address + r.size >= n /\ AlignDown(r.address + r.size - n, al) >= r.address

FitsAt(r, n, a) == a >= r.address /\ Wrap(a + n) <= EndOf(r)

(* The free range is split around what is taken out of it, an empty part   *)
(* is not put back.                                                        *)
Piece(a, n) == IF n = 0 THEN <<>> ELSE <<Range32(a, n)>>
Holding(a, n) == {i \in DOMAIN free : FitsAt(free[i], n, a)}
Carved(a, n) ==
    LET i == Min(Holding(a, n))
        r == free[i]
        before == Piece(r.address, a - r.address)
        after == Piece(Wrap(a + n), EndOf(r) - Wrap(a + n))
    IN  IF Holding(a, n) = {} THEN free
        ELSE SubSeq(free, 1, i - 1) \o (before \o after) \o SubSeq(free, i + 1, Len(free))

Granted(a, n) ==
    /\ refused' = FALSE
    /\ free' = Carved(a, n)
    /\ \E id \in Ids \ DOMAIN blocks :
         blocks' = [i \in DOMAIN blocks \union {id} |-> IF i = id THEN Range32(a, n) ELSE blocks[i]]
NoMemory == refused' = TRUE /\ UNCHANGED <<free, blocks>>

(* allocate_block, types 0 and 3: the first range it fits in. *)
AllocateLow(n, al) ==
    LET fits == {i \in DOMAIN free : FitsLow(free[i], n, al)}
    IN  IF fits = {} THEN NoMemory ELSE Granted(AlignUp(free[Min(fits)].address, al), n)

(* Types 1 and 4: the last. *)
AllocateHigh(n, al) ==
    LET fits == {i \in DOMAIN free : FitsHigh(free[i], n, al)}
    IN  IF fits = {} THEN NoMemory
        ELSE Granted(AlignDown(free[Max(fits)].address + free[Max(fits)].size - n, al), n)

(* Type 2: the address asked for. *)
AllocateAt(n, a) == IF Holding(a, n) = {} THEN NoMemory ELSE Granted(a, n)

-----------------------------------------------------------------------------
(* Two ranges that touch become one. *)
Touch(r, s) == EndOf(r) = s.address
Merged_Mutant(ranges, i) ==
    IF i + 1 \in DOMAIN ranges /\ Touch(ranges[i], ranges[i + 1])
    THEN RemoveAt([ranges EXCEPT ![i].size = @ + ranges[i + 1].size], i + 1) ELSE ranges

(* With the next first, then with the one before. *)
Merged(ranges, i) ==
    LET next == IF i + 1 \in DOMAIN ranges /\ Touch(ranges[i], ranges[i + 1])
                THEN RemoveAt([ranges EXCEPT ![i].size = @ + ranges[i + 1].size], i + 1) ELSE ranges
    IN  IF i > 1 /\ Touch(next[i - 1], next[i])
        THEN RemoveAt([next EXCEPT ![i - 1].size = @ + next[i].size], i) ELSE next

FreeBlock(id) ==
    /\ id \in DOMAIN blocks
    /\ LET freed == blocks[id]
           position == Cardinality({i \in DOMAIN free : free[i].address < freed.address}) + 1
       IN  free' = Merged(InsertAt(free, position, freed), position)
    /\ blocks' = [i \in DOMAIN blocks \ {id} |-> blocks[i]]
    /\ UNCHANGED refused

(* kernel.reset, before the loader thread gets its stack. *)
Init ==
    /\ free = <<Range32(Start, End - Start)>>
    /\ blocks = <<>> /\ refused = FALSE

Next ==
    \/ \E n \in Sizes, al \in Alignments : AllocateLow(n, al) \/ AllocateHigh(n, al)
    \/ \E n \in Sizes, a \in Addresses : AllocateAt(n, a)
    \/ \E id \in Ids : FreeBlock(id)

Spec == Init /\ [][Next]_vars

-----------------------------------------------------------------------------
User == Start .. End - 1
Area(r) == r.address .. r.address + r.size - 1
Covered(ranges) == UNION {Area(r) : r \in ranges}

(* The free ranges are the memory no block covers, each as long as it can  *)
(* be, none empty and in the order of their addresses, and no two blocks   *)
(* overlap, after any sequence of requests and releases at either end.     *)
FreeIsTheRest ==
    /\ Covered({free[i] : i \in DOMAIN free}) = User \ Covered({blocks[id] : id \in DOMAIN blocks})
    /\ \A i \in DOMAIN free : free[i].size > 0
    /\ \A i \in 2 .. Len(free) : free[i - 1].address + free[i - 1].size < free[i].address
    /\ \A id, other \in DOMAIN blocks : id # other => Area(blocks[id]) \intersect Area(blocks[other]) = {}
    /\ \A id \in DOMAIN blocks : Area(blocks[id]) \subseteq User

(* The list answers every request as the abstract partition does: at the   *)
(* lowest or highest place there is, and never "no memory" when there is.  *)
Abstract == INSTANCE Partition
PartitionSpec == Abstract!Spec
=============================================================================
