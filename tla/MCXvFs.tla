------------------------------- MODULE MCXvFs -------------------------------
(* XvFs with two processes, and classes of programs for them. *)
EXTENDS XvFs

CONSTANTS p1, p2

open(path) == [c |-> "open", path |-> path, rdonly |-> path = <<"d">>]
openrw(path) == [c |-> "open", path |-> path, rdonly |-> FALSE]
create(path) == [c |-> "create", path |-> path]
mkdir(path) == [c |-> "mkdir", path |-> path]
unlink(path) == [c |-> "unlink", path |-> path]
link(path, new) == [c |-> "link", path |-> path, new |-> new]
fd(c, n) == [c |-> c, fd |-> n, n |-> 1]
again(call) == [c |-> call.c, fd |-> call.fd, n |-> 1, again |-> TRUE]
fdn(c, n, len) == [c |-> c, fd |-> n, n |-> len]

Program(calls1, calls2, atOnce, crashes) ==
    [todo |-> [p \in {p1, p2} |-> IF p = p1 THEN calls1 ELSE calls2],
     atOnce |-> atOnce, crashes |-> crashes]

a == <<"a">>
b == <<"b">>
d == <<"d">>
da == <<"d", "a">>
db == <<"d", "b">>

MCFirstFiles == [n \in {"a"} |-> 2]

\* Both processes make, link and write files, and remove none.
Making == Program({create(b), link(a, d), fd("write", 1), fd("close", 1)},
                  {create(b), fd("write", 1), fd("read", 1), fd("close", 1)}, 2, 1)
\* A file is removed while the other process opens, links and writes it.
Removing == Program({unlink(a), open(a)},
                    {link(a, b), unlink(a), open(a), fd("write", 1), fd("close", 1)}, 2, 1)
\* A directory is made while the other process makes files in it.
Directories == Program({mkdir(d), create(db)},
                       {mkdir(d), link(a, da), openrw(d)}, 2, 1)
\* One call at a time, of files ...
Files1 == Program({create(b), link(a, b), unlink(a), unlink(b), fd("close", 1)},
                  {open(a), fd("dup", 1), fd("write", 1), fd("write", 2), again(fd("write", 1))}, 1, 1)
\* ... and of directories.
Dirs1 == Program({mkdir(d), create(db), link(d, b), unlink(d), unlink(db)},
                 {open(d), mkdir(db), unlink(db), fd("close", 1)}, 1, 1)
\* A pipe between the two processes, with both ends open in both of them.
Piping == Program({[c |-> "pipe", nth |-> 1], [c |-> "pipe", nth |-> 2], [c |-> "fork"], fd("close", 1),
                   fdn("write", 2, 3), fdn("write", 2, 1), fd("close", 2)},
                  {fdn("read", 1, 2), fdn("read", 1, 1), fdn("read", 1, 3), fd("close", 1), fd("close", 2)}, 2, 0)
MCPrograms == {Piping, Making, Removing, Directories, Files1, Dirs1}
=============================================================================
