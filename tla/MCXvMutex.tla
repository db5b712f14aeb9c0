----------------------------- MODULE MCXvMutex -----------------------------
(* Small instances of XvMutex for TLC.  Nice values are -2..0. *)
EXTENDS XvMutex, TLC

CONSTANTS m1, m2

MCRank == (m1 :> 1) @@ (m2 :> 2)
NiceMin == -2
AllNices == {-2, -1, 0}
\* nesting and nice; one mutex at a time, with threads being killed
MCUses == { [held |-> 2, steps |-> {-1}, kills |-> FALSE],
            [held |-> 1, steps |-> {}, kills |-> TRUE] }
============================================================================
