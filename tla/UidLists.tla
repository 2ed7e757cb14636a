------------------------------ MODULE UidLists ------------------------------
(***************************************************************************)
(* Lists of uids as the kernel keeps and walks them.  A std::map is walked *)
(* in increasing uid order and a waiter deque loses entries from its       *)
(* middle.  Both are stated through the k-th least member of a finite set  *)
(* of naturals and not through SelectSeq, whose recursive definition is    *)
(* outside the reach of the proofs in KernelProofs.                        *)
(***************************************************************************)
EXTENDS Integers, Sequences, FiniteSetsExt

\* The k-th least member of S, a finite set of naturals.
KthLeast(S, k) == CHOOSE i \in S : Cardinality({j \in S : j <= i}) = k

\* The members of S in increasing order: the order in which a std::map keyed
\* by uid is walked.
InUidOrder(S) == [k \in 1..Cardinality(S) |-> KthLeast(S, k)]

\* q with every entry in S taken out, the others in their order.
Without(q, S) ==
    LET kept == {i \in 1..Len(q) : q[i] \notin S}
    IN  [k \in 1..Cardinality(kept) |-> q[KthLeast(kept, k)]]
=============================================================================
