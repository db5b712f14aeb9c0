------------------------------ MODULE MCKvHash ------------------------------
(* Small instances of KvHash for TLC. *)
EXTENDS KvHash, TLC

WorkerSymmetry == Permutations(Workers)
=============================================================================
