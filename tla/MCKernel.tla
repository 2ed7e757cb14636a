------------------------------- MODULE MCKernel -------------------------------
(* The kernel with the wait conditions TLC tries on an event flag. *)
EXTENDS Kernel, TLC

\* One bit, which its match leaves or clears, and all of them, met by any or by
\* all, which clear themselves or the whole pattern.
SomeConditions ==
    {[bits |-> {b}, mode |-> [any |-> FALSE, clear |-> c]] : b \in Bits, c \in {"none", "bits"}}
    \cup {[bits |-> Bits, mode |-> [any |-> a, clear |-> c]] :
              a \in BOOLEAN, c \in {"bits", "all"}}

\* No step tells one bit from another.
BitSymmetry == Permutations(Bits)
=============================================================================
