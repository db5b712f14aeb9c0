------------------------------ MODULE FileTree ------------------------------
(***************************************************************************)
(* What a user of the file system of cs537/P7 sees: a tree of directories  *)
(* and regular files (instructions.md, "Filesystem Details").  The tree is *)
(* the set of its files, each with a path, a kind and data, a sequence of  *)
(* units.  A call may fail for want of space: a creation then changes      *)
(* nothing, and a write has grown the file but stored only a first part;   *)
(* what it did not store is a hole.                                        *)
(*                                                                         *)
(* The operations are relations between the tree before and after.         *)
(***************************************************************************)
EXTENDS Integers, Sequences, SequencesExt

CONSTANTS Paths, Values

Eio == -1         \* reading it is an error
SuperBlock == -2  \* reading it yields bytes that are no file's
Hole == {Eio, SuperBlock}

VARIABLE files

Root == [path |-> <<>>, kind |-> "dir", data |-> <<>>]

Init == files = {Root}

Create(old, new, p) ==
    /\ \A x \in old : x.path # p
    /\ \E d \in old : d.path = Front(p) /\ d.kind = "dir"
    /\ \E kind \in {"dir", "file"} :
          new = old \cup {[path |-> p, kind |-> kind, data |-> <<>>]}

Delete(old, new) ==
    \E x \in old \ {Root} :
        /\ \A y \in old \ {Root} : Front(y.path) # x.path
        /\ new = old \ {x}

\* The k units from offset become v.  What lies beyond the old end and was not
\* stored is a hole; a hole may become zeros when its block is allocated.
Stores(was, is, offset, k, v) ==
    \A i \in 1..Len(is) :
        IF i > offset /\ i <= offset + k THEN is[i] = v
        ELSE IF i > Len(was) THEN is[i] \in Hole
        ELSE is[i] = was[i] \/ (was[i] \in Hole /\ is[i] \in Hole \cup {0})

Write(old, new) ==
    \E x \in old \ new, y \in new \ old :
        /\ x.kind = "file" /\ y = [x EXCEPT !.data = y.data]
        /\ new = (old \ {x}) \cup {y}
        /\ Len(x.data) <= Len(y.data)
        /\ \E offset \in 0..Len(x.data), v \in Values :
              \E k \in 0..(Len(y.data) - offset) : Stores(x.data, y.data, offset, k, v)

Step(old, new) == Delete(old, new) \/ Write(old, new) \/ \E p \in Paths : Create(old, new, p)

Next == \E old \in {files}, new \in {files'} : Step(old, new)

Spec == Init /\ [][Next]_files
=============================================================================
