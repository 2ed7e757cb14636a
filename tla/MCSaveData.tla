----------------------------- MODULE MCSaveData -----------------------------
(* SaveData for TLC. *)
EXTENDS SaveData, TLC

CONSTANTS v1, v2, e1

VersionSymmetry == Permutations(Written)
=============================================================================
