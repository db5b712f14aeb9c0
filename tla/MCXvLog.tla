------------------------------ MODULE MCXvLog ------------------------------
(* Small instances of XvLog for TLC. *)
EXTENDS XvLog
=============================================================================
