------------------------------ MODULE MCAdhoc ------------------------------
(* Adhoc for TLC. *)
EXTENDS Adhoc

CONSTANTS a, b, g1, g2
=============================================================================
