------------------------------ MODULE MCRelay ------------------------------
(* RelayStreams for TLC. *)
EXTENDS RelayStreams

CONSTANTS o, l

(* Each socket name is that of a console of its own. *)
ItsOwnMac == [n \in {o, l} |-> n]
=============================================================================
