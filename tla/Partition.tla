----------------------------- MODULE Partition -----------------------------
(***************************************************************************)
(* What the kernel promises of its memory: a request is granted at the     *)
(* lowest, the highest or the named address at which it fits between the   *)
(* blocks in use, and refused only when there is none.  Memory, with its   *)
(* list of free ranges, implements it.                                     *)
(***************************************************************************)
EXTENDS Integers, FiniteSetsExt

CONSTANTS
    User,        \* the granules of the partition
    Ids,         \* the uids of blocks
    Sizes,       \* what is asked for, in granules
    Alignments,
    Addresses    \* the addresses asked for by name

VARIABLES
    blocks,   \* uid -> [address, size]
    refused   \* the last request found no memory

vars == <<blocks, refused>>

Area(b) == b.address .. b.address + b.size - 1
InUse == UNION {Area(blocks[id]) : id \in DOMAIN blocks}

(* Where a request fits. *)
Room(n, al) ==
    {a \in User : a % al = 0 /\ Area([address |-> a, size |-> n]) \subseteq User \ InUse}

(* It is granted at the place `Choice' picks among them. *)
Grant(places, n, Choice(_)) ==
    IF places = {} THEN refused' = TRUE /\ UNCHANGED blocks
    ELSE /\ refused' = FALSE
         /\ \E id \in Ids \ DOMAIN blocks :
              LET b == [address |-> Choice(places), size |-> n] IN
              blocks' = [i \in DOMAIN blocks \union {id} |-> IF i = id THEN b ELSE blocks[i]]

Low(n, al) == Grant(Room(n, al), n, Min)
High(n, al) == Grant(Room(n, al), n, Max)
At(n, a) == Grant(Room(n, 1) \intersect {a}, n, Min)

Free(id) ==
    /\ id \in DOMAIN blocks
    /\ blocks' = [i \in DOMAIN blocks \ {id} |-> blocks[i]]
    /\ UNCHANGED refused

Init == blocks = <<>> /\ refused = FALSE
Next ==
    \/ \E n \in Sizes : \E al \in Alignments : Low(n, al) \/ High(n, al)
    \/ \E n \in Sizes : \E a \in Addresses : At(n, a)
    \/ \E id \in Ids : Free(id)
Spec == Init /\ [][Next]_vars
=============================================================================
