------------------------------- MODULE MCWMap -------------------------------
(* Instances of WMap for TLC. *)
EXTENDS WMap

PA == {"PRIVATE", "ANONYMOUS"}
SA == {"SHARED", "ANONYMOUS"}
PF == {"PRIVATE"}
SF == {"SHARED"}
Class(kinds, lengths, maps, pages, fk, calls) ==
    [kinds |-> kinds, lengths |-> lengths, maps |-> maps, pages |-> pages,
     forks |-> fk # "alone", childMaps |-> fk = "childMaps", calls |-> calls]

\* Programs the mappings serve: private or shared memory with a child, one
\* mapping of the file, more pages than there is memory, and a process alone
\* that places and resizes mappings.
ServedPrograms ==
    {Class({PA}, {1}, 2, 2, "childMaps", {}),
     Class({SA}, {2}, 2, 2, "forks", {}),
     Class({SF}, {2, 4}, 1, 2, "alone", {}),
     Class({PF}, {2, 4}, 1, 2, "forks", {}),
     Class({SA}, {6}, 2, 6, "alone", {}),
     Class({PA}, {2, 4}, 2, 3, "alone", {"fixed", "remap"})}
=============================================================================
