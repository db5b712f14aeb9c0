------------------------------ MODULE MCShmRing ------------------------------
(* Small instances of ShmRing for TLC. *)
EXTENDS ShmRing, TLC

ThreadSymmetry == Permutations(Producers) \cup Permutations(Consumers)
==============================================================================
