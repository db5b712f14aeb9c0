-------------------------------- MODULE XvFs --------------------------------
(***************************************************************************)
(* The file system of cs537/P5/xv6 above the log: inodes with their        *)
(* reference counts, link counts and sleep locks (fs.c), the file table    *)
(* (file.c), pipes (pipe.c) and the system calls on paths and descriptors  *)
(* (sysfile.c).                                                            *)
(*                                                                         *)
(* The log is what AtomicDisk says and XvLog implements: the changes of    *)
(* the calls that run at the same time become durable when the last of     *)
(* them ends.                                                              *)
(*                                                                         *)
(* A step goes from one acquisition of an inode's sleep lock to the next:  *)
(* what a process does while it holds one inode, and waits for no other,   *)
(* is one step.  A path is a sequence of names from the root.  A           *)
(* directory's contents are its entries besides "." and ".."; a file's     *)
(* contents are its blocks.  What is done under a pipe's lock is one step. *)
(***************************************************************************)
EXTENDS Integers, Sequences, FiniteSets

CONSTANTS Procs, Names,
          NInodes, NBlocks,
          NFILE, NOFILE, MAXFILE, PIPESIZE,
          FirstFiles,      \* name -> number: the empty files mkfs puts in the root
          Programs         \* bound: [todo, atOnce, crashes], the calls each process
                           \* makes, in any order, how many at once, and the crashes

ROOTINO == 1
Inums == 1..NInodes
None == 0
NoProc == "no process"
Files == 1..NFILE

\* What a program may ask for: the calls there are, paths with a name, descriptors in
\* range
IsPath(path) == path \in Seq(Names) /\ path # <<>>
WellFormed(call) ==
    /\ call.c \in {"open", "create", "mkdir", "unlink", "link", "dup", "close", "read", "write", "pipe", "fork"}
    /\ call.c \in {"open", "create", "mkdir", "unlink", "link"} => IsPath(call.path)
    /\ call.c = "open" => call.rdonly \in BOOLEAN
    /\ call.c = "link" => IsPath(call.new)
    /\ call.c \in {"dup", "close", "read", "write"} => call.fd \in 1..NOFILE
    /\ call.c \in {"read", "write"} => call.n \in Nat

ASSUME FsAssumption ==
    /\ IsFiniteSet(Procs) /\ NoProc \notin Procs
    /\ NInodes \in Nat \ {0} /\ NBlocks \in Nat \ {0} /\ PIPESIZE \in Nat \ {0}
    /\ NFILE \in Nat /\ NOFILE \in Nat /\ MAXFILE \in Nat
    /\ DOMAIN FirstFiles \subseteq Names
    /\ \A n \in DOMAIN FirstFiles : FirstFiles[n] \in Inums \ {ROOTINO}
    /\ \A g \in Programs : /\ DOMAIN g.todo = Procs
                           /\ \A p \in Procs : \A call \in g.todo[p] : WellFormed(call)

VARIABLES prog,     \* the program of this run
          todo,     \* process -> the calls it has still to make
          crashed,  \* crashes so far
          fs,       \* the disk as the calls see it: [di, used]
          durable,  \* the disk as a crash leaves it
          active,   \* processes between begin_op and end_op
          ic,       \* the inode cache: inum -> [ref, valid, owner]
          ftable,   \* the open files: [ref, type, ip, off, writable]
          ofile,    \* process -> descriptor -> file, or None
          pr,       \* process -> where it is in its call, and its variables
          pipe,     \* the page for a pipe, and what was read from it
          panic

vars == <<prog, todo, crashed, fs, durable, active, ic, ftable, ofile, pr, pipe, panic>>

Idle == [pc |-> "idle", call |-> [c |-> "none"], cur |-> None, rest |-> <<>>, next |-> None,
         ip |-> None, dp |-> None, put |-> None, after |-> "", file |-> None, n |-> 0]

FreeInode == [type |-> "free", nlink |-> 0, ents |-> [n \in Names |-> None], blks |-> <<>>]
NoEntry == [ref |-> 0, valid |-> FALSE, owner |-> NoProc]
NoFile == [ref |-> 0, type |-> "NONE", ip |-> None, off |-> 0, writable |-> FALSE]
NoPipe == [used |-> FALSE, readopen |-> FALSE, writeopen |-> FALSE, nread |-> 0, nwrite |-> 0,
           data |-> [k \in 0..(PIPESIZE - 1) |-> 0], got |-> <<>>]

\* mkfs: the root, with its block, and the first files
MadeByMkfs ==
    [di |-> [i \in Inums |->
               CASE i = ROOTINO ->
                      [FreeInode EXCEPT !.type = "DIR", !.nlink = 1, !.blks = <<1>>,
                        !.ents = [n \in Names |-> IF n \in DOMAIN FirstFiles
                                                  THEN FirstFiles[n] ELSE None]]
                 [] \E n \in DOMAIN FirstFiles : FirstFiles[n] = i ->
                      [FreeInode EXCEPT !.type = "FILE", !.nlink = 1]
                 [] OTHER -> FreeInode],
     used |-> {1}]

\* Memory when the machine starts
NoCache == [i \in Inums |-> NoEntry]
NoFtable == [f \in Files |-> NoFile]
NoOfile == [p \in Procs |-> [d \in 1..NOFILE |-> None]]
AllIdle == [p \in Procs |-> Idle]

Init ==
    /\ prog \in Programs /\ todo = prog.todo /\ crashed = 0
    /\ fs = MadeByMkfs /\ durable = fs
    /\ active = {} /\ ic = NoCache /\ ftable = NoFtable /\ ofile = NoOfile
    /\ pr = AllIdle /\ pipe = NoPipe /\ panic = "none"

\* Power is lost: memory goes, the disk is what the log recovers.
Crash ==
    /\ crashed < prog.crashes /\ crashed' = crashed + 1
    /\ fs' = durable
    /\ active' = {} /\ ic' = NoCache /\ ftable' = NoFtable /\ ofile' = NoOfile
    /\ pr' = AllIdle /\ pipe' = NoPipe /\ panic' = "none"
    /\ UNCHANGED <<prog, todo, durable>>

-----------------------------------------------------------------------------
(* Steps *)

At(p, pc) == panic = "none" /\ pr[p].pc = pc

With(r, s) == [x \in DOMAIN r |-> IF x \in DOMAIN s THEN s[x] ELSE r[x]]
Goto(p, s) == pr' = [pr EXCEPT ![p] = With(@, s)]

\* A step of a call leaves the program of the run alone, and most also the pipe.
Going == UNCHANGED <<prog, todo, crashed>>
Same == Going /\ UNCHANGED pipe
Panic(what) == panic' = what /\ UNCHANGED <<fs, durable, active, ic, ftable, ofile, pr>>
OnlyInodes == UNCHANGED <<durable, active, ftable, ofile, panic>>

-----------------------------------------------------------------------------
(* fs.c: inodes *)

\* A recycled entry of the cache is not valid.
iget(f, i) == [f EXCEPT ![i].ref = @ + 1, ![i].valid = @ /\ f[i].ref > 0]

\* ilock by p: nobody has the lock; an entry that is not valid is read.
Free(i) == ic[i].owner = NoProc
NoType(i) == ~ic[i].valid /\ fs.di[i].type = "free"
Visited(f, i) == [f EXCEPT ![i].valid = TRUE]
Locked(f, i, p) == [f EXCEPT ![i].valid = TRUE, ![i].owner = p]
Unlocked(f, i) == [f EXCEPT ![i].owner = NoProc]

\* ilock(i), or panic for an inode that is free on disk; then act.
ilock(i, act) == Free(i) /\ IF NoType(i) THEN Panic("ilock: no type") ELSE act

BlocksOf(d, i) == {d.di[i].blks[k] : k \in DOMAIN d.di[i].blks}

\* bfree of every block
itrunc(f, i) == [f EXCEPT !.used = @ \ BlocksOf(f, i), !.di[i].blks = <<>>]

\* Variant: other references are not looked at.
MustFreeEager(i) == ic[i].valid /\ fs.di[i].nlink = 0

\* iput: under the inode's lock, free an inode without links that nobody else
\* refers to ...
MustFree(i) == ic[i].valid /\ fs.di[i].nlink = 0 /\ ic[i].ref = 1

iput(p) ==
    LET i == pr[p].put
    IN  /\ At(p, "iput") /\ Free(i)
        /\ Same
        /\ IF MustFree(i) /\ ~(BlocksOf(fs, i) \subseteq fs.used)
           THEN Panic("freeing free block")
           ELSE /\ IF MustFree(i)
                   THEN /\ fs' = [itrunc(fs, i) EXCEPT !.di[i] = FreeInode]
                        /\ ic' = [ic EXCEPT ![i].valid = FALSE]
                   ELSE UNCHANGED <<fs, ic>>
                /\ Goto(p, [pc |-> "drop"])
                /\ OnlyInodes

\* ... and drop the reference once the lock is released.
Drop(p) ==
    /\ At(p, "drop")
    /\ ic' = [ic EXCEPT ![pr[p].put].ref = @ - 1]
    /\ Goto(p, [pc |-> pr[p].after, put |-> None])
    /\ Same /\ OnlyInodes /\ UNCHANGED fs

\* balloc: the first free block
FreeBlocks(f) == (1..NBlocks) \ f.used
balloc(f) == CHOOSE b \in FreeBlocks(f) : \A c \in FreeBlocks(f) : b <= c

\* bmap: the block appended to inode i
WithBlock(f, i) == [f EXCEPT !.used = @ \cup {balloc(f)}, !.di[i].blks = Append(@, balloc(f))]

\* ialloc: the first free inode
FreeInums(f) == {i \in Inums : f.di[i].type = "free"}
ialloc(f) == CHOOSE i \in FreeInums(f) : \A j \in FreeInums(f) : i <= j

\* dirlink of a name that is not there
dirlink(f, dp, name, i) == [f EXCEPT !.di[dp].ents[name] = i]

-----------------------------------------------------------------------------
(* fs.c: paths *)

Last(path) == path[Len(path)]

\* Calls whose walk stops at the parent directory
ToParent == {"create", "mkdir", "unlink", "link2"}

\* What a call does with the inode its walk has found.
Arrive == [open |-> "open", create |-> "create", mkdir |-> "create",
           unlink |-> "unlink", link |-> "link", link2 |-> "enter"]
Stage(p) == IF pr[p].call.c = "link" /\ pr[p].ip # None THEN "link2" ELSE pr[p].call.c

\* namex, one name: ilock, dirlookup and iunlock, then iput of the old inode.
WalkStep(p) ==
    LET cur == pr[p].cur
        rest == pr[p].rest
        dir == fs.di[cur].type = "DIR"
        next == IF dir THEN fs.di[cur].ents[Head(rest)] ELSE None
    IN  /\ At(p, "walk") /\ rest # <<>> /\ Same
        /\ ilock(cur,
             /\ IF dir /\ Stage(p) \in ToParent /\ Len(rest) = 1
                THEN /\ ic' = Visited(ic, cur)
                     /\ Goto(p, [pc |-> Arrive[Stage(p)], cur |-> None, dp |-> cur])
                ELSE /\ ic' = IF next = None THEN Visited(ic, cur) ELSE iget(Visited(ic, cur), next)
                     /\ Goto(p, [pc |-> "iput", put |-> cur, cur |-> None, next |-> next,
                                 after |-> IF next = None THEN "notfound" ELSE "walked"])
             /\ OnlyInodes /\ UNCHANGED fs)

Walked(p) ==
    /\ At(p, "walked")
    /\ Goto(p, IF Len(pr[p].rest) > 1
               THEN [pc |-> "walk", cur |-> pr[p].next, rest |-> Tail(pr[p].rest), next |-> None]
               ELSE [pc |-> Arrive[Stage(p)], ip |-> pr[p].next, next |-> None])
    /\ Same /\ OnlyInodes /\ UNCHANGED <<fs, ic>>

\* A path that leads nowhere ends the call; link takes its count back first.
NotFound(p) ==
    /\ At(p, "notfound")
    /\ Goto(p, [pc |-> IF Stage(p) = "link2" THEN "bad" ELSE "end"])
    /\ Same /\ OnlyInodes /\ UNCHANGED <<fs, ic>>

-----------------------------------------------------------------------------
(* sysfile.c: calls on paths *)

\* begin_op, and iget of the root for the walk
StartPath(p, call) ==
    /\ call.c \in DOMAIN Arrive
    /\ active' = active \cup {p}
    /\ ic' = iget(ic, ROOTINO)
    /\ Goto(p, [pc |-> "walk", cur |-> ROOTINO, rest |-> call.path, call |-> call])
    /\ UNCHANGED <<fs, durable, ftable, ofile, panic>>

\* open without O_CREATE: ilock; a directory is opened for reading only.
Open(p) ==
    LET ip == pr[p].ip
    IN  /\ At(p, "open") /\ Same
        /\ ilock(ip,
             /\ IF fs.di[ip].type = "DIR" /\ ~pr[p].call.rdonly
                THEN /\ ic' = Visited(ic, ip)
                     /\ Goto(p, [pc |-> "iput", put |-> ip, ip |-> None, after |-> "end"])
                ELSE ic' = Locked(ic, ip, p) /\ Goto(p, [pc |-> "fdalloc"])
             /\ OnlyInodes /\ UNCHANGED fs)

\* The new inode of create, with its link count and, for a directory, the
\* block for "." and "..", entered in dp.
Made(dp, type, name) ==
    LET i == ialloc(fs)
        made == [fs EXCEPT !.di[i].type = type, !.di[i].nlink = 1]
        dots == IF type = "DIR" THEN WithBlock([made EXCEPT !.di[dp].nlink = @ + 1], i) ELSE made
    IN  dirlink(dots, dp, name, i)

\* create, under the lock of the parent: the name is there, or is made.  The new
\* inode stays locked while the parent is put back.
Create(p) ==
    LET dp == pr[p].dp
        name == Last(pr[p].call.path)
        type == IF pr[p].call.c = "mkdir" THEN "DIR" ELSE "FILE"
        i == fs.di[dp].ents[name]
        n == ialloc(fs)
    IN  /\ At(p, "create") /\ Same
        /\ ilock(dp,
             IF i # None
             THEN /\ ic' = iget(Visited(ic, dp), i)
                  /\ Goto(p, [pc |-> "iput", put |-> dp, dp |-> None, ip |-> i, after |-> "exists"])
                  /\ OnlyInodes /\ UNCHANGED fs
             ELSE IF FreeInums(fs) = {} THEN Panic("ialloc: no inodes")
             ELSE IF type = "DIR" /\ FreeBlocks(fs) = {} THEN Panic("balloc: out of blocks")
             ELSE /\ Free(n)
                  /\ fs' = Made(dp, type, name)
                  /\ ic' = Locked(iget(Visited(ic, dp), n), n, p)
                  /\ Goto(p, [pc |-> "iput", put |-> dp, dp |-> None, ip |-> n,
                              after |-> IF type = "DIR" THEN "unlockput" ELSE "fdalloc"])
                  /\ OnlyInodes)

\* create of a name that exists: for open it must be a file.
Exists(p) ==
    LET ip == pr[p].ip
    IN  /\ At(p, "exists") /\ Same
        /\ ilock(ip,
             /\ ic' = Locked(ic, ip, p)
             /\ Goto(p, [pc |-> IF pr[p].call.c = "create" /\ fs.di[ip].type = "FILE"
                                THEN "fdalloc" ELSE "unlockput"])
             /\ OnlyInodes /\ UNCHANGED fs)

\* iunlockput(ip) and the end of the call
UnlockPut(p) ==
    /\ At(p, "unlockput")
    /\ ic' = Unlocked(ic, pr[p].ip)
    /\ Goto(p, [pc |-> "iput", put |-> pr[p].ip, ip |-> None, after |-> "end"])
    /\ Same /\ OnlyInodes /\ UNCHANGED fs

\* filealloc and fdalloc: the first free file and the first free descriptor
NoFiles == {f \in Files : ftable[f].ref = 0}
NoFds(p) == {d \in 1..NOFILE : ofile[p][d] = None}
First(S) == CHOOSE x \in S : \A y \in S : x <= y

fdalloc(p) ==
    /\ At(p, "fdalloc")
    /\ IF NoFiles = {} \/ NoFds(p) = {}
       THEN Goto(p, [pc |-> "unlockput"]) /\ UNCHANGED <<ic, ftable, ofile>>
       ELSE /\ ftable' = [ftable EXCEPT ![First(NoFiles)].ref = 1]
            /\ ofile' = [ofile EXCEPT ![p][First(NoFds(p))] = First(NoFiles)]
            /\ ic' = Unlocked(ic, pr[p].ip)
            /\ Goto(p, [pc |-> "end", file |-> First(NoFiles)])
    /\ Same /\ UNCHANGED <<fs, durable, active, panic>>

\* end_op: the last call to end makes the changes durable.  open fills in its file
\* only afterwards.
EndOp(p) ==
    /\ At(p, "end")
    /\ active' = active \ {p}
    /\ durable' = IF active' = {} THEN fs ELSE durable
    /\ ftable' = IF pr[p].file = None THEN ftable
                 ELSE [ftable EXCEPT ![pr[p].file] =
                         [@ EXCEPT !.type = "INODE", !.ip = pr[p].ip, !.off = 0,
                                   !.writable = pr[p].call.c = "create" \/ ~pr[p].call.rdonly]]
    /\ pr' = [pr EXCEPT ![p] = Idle]
    /\ Same /\ UNCHANGED <<fs, ic, ofile, panic>>

-----------------------------------------------------------------------------
(* sys_unlink and sys_link *)

UnlinkUnlocked(p) ==
    LET dp == pr[p].dp
        i == fs.di[dp].ents[Last(pr[p].call.path)]
    IN  /\ At(p, "unlink") /\ Same
        /\ ilock(dp,
             /\ IF i = None
                THEN /\ ic' = Visited(ic, dp)
                     /\ Goto(p, [pc |-> "iput", put |-> dp, dp |-> None, after |-> "end"])
                ELSE ic' = iget(Visited(ic, dp), i) /\ Goto(p, [pc |-> "remove", ip |-> i])
             /\ OnlyInodes /\ UNCHANGED fs)

\* unlink: lock the parent and look the name up, keeping the parent locked.
Unlink(p) ==
    LET dp == pr[p].dp
        i == fs.di[dp].ents[Last(pr[p].call.path)]
    IN  /\ At(p, "unlink") /\ Same
        /\ ilock(dp,
             /\ IF i = None
                THEN /\ ic' = Visited(ic, dp)
                     /\ Goto(p, [pc |-> "iput", put |-> dp, dp |-> None, after |-> "end"])
                ELSE ic' = iget(Locked(ic, dp, p), i) /\ Goto(p, [pc |-> "remove", ip |-> i])
             /\ OnlyInodes /\ UNCHANGED fs)

IsDirEmpty(i) == \A n \in Names : fs.di[i].ents[n] = None

\* The entry removed from dp; the ".." of a directory no longer counts.
Removed(dp, ip, name) ==
    LET gone == [fs EXCEPT !.di[dp].ents[name] = None]
    IN  IF fs.di[ip].type = "DIR" THEN [gone EXCEPT !.di[dp].nlink = @ - 1] ELSE gone

\* Lock the inode too.  A directory in use stays; otherwise the entry goes and
\* the parent is put back while the inode is still locked.
Remove(p) ==
    LET ip == pr[p].ip
        dp == pr[p].dp
    IN  /\ At(p, "remove") /\ Same
        /\ ilock(ip,
             IF fs.di[ip].nlink < 1 THEN Panic("unlink: nlink < 1")
             ELSE IF fs.di[ip].type = "DIR" /\ ~IsDirEmpty(ip)
             THEN /\ ic' = Visited(ic, ip)
                  /\ Goto(p, [pc |-> "iput", put |-> ip, ip |-> None, after |-> "unlinkbad"])
                  /\ OnlyInodes /\ UNCHANGED fs
             ELSE /\ fs' = Removed(dp, ip, Last(pr[p].call.path))
                  /\ ic' = Unlocked(Locked(ic, ip, p), dp)
                  /\ Goto(p, [pc |-> "iput", put |-> dp, dp |-> None, after |-> "uncount"])
                  /\ OnlyInodes)

UnlinkBadLocked(p) ==
    /\ At(p, "unlinkbad")
    /\ Goto(p, [pc |-> "iput", put |-> pr[p].dp, dp |-> None, after |-> "end"])
    /\ Same /\ OnlyInodes /\ UNCHANGED <<fs, ic>>

UnlinkBad(p) ==
    /\ At(p, "unlinkbad")
    /\ ic' = Unlocked(ic, pr[p].dp)
    /\ Goto(p, [pc |-> "iput", put |-> pr[p].dp, dp |-> None, after |-> "end"])
    /\ Same /\ OnlyInodes /\ UNCHANGED fs

\* The inode loses its link, and is put back.
Uncount(p) ==
    /\ At(p, "uncount")
    /\ fs' = [fs EXCEPT !.di[pr[p].ip].nlink = @ - 1]
    /\ Goto(p, [pc |-> "unlockput"])
    /\ Same /\ OnlyInodes /\ UNCHANGED ic

\* link: one more link for a file, and the walk to the new name's directory.
Link(p) ==
    LET ip == pr[p].ip
    IN  /\ At(p, "link") /\ Same
        /\ ilock(ip,
             /\ IF fs.di[ip].type = "DIR"
                THEN /\ ic' = Visited(ic, ip) /\ UNCHANGED fs
                     /\ Goto(p, [pc |-> "iput", put |-> ip, ip |-> None, after |-> "end"])
                ELSE /\ fs' = [fs EXCEPT !.di[ip].nlink = @ + 1]
                     /\ ic' = iget(Visited(ic, ip), ROOTINO)
                     /\ Goto(p, [pc |-> "walk", cur |-> ROOTINO, rest |-> pr[p].call.new])
             /\ OnlyInodes)

\* dirlink under the lock of the new directory; a name that exists is put back
\* while the directory is locked, and spoils the call.
Enter(p) ==
    LET dp == pr[p].dp
        ip == pr[p].ip
        name == Last(pr[p].call.new)
        old == fs.di[dp].ents[name]
    IN  /\ At(p, "enter") /\ Same
        /\ ilock(dp,
             /\ IF old # None
                THEN /\ ic' = iget(Locked(ic, dp, p), old) /\ UNCHANGED fs
                     /\ Goto(p, [pc |-> "iput", put |-> old, after |-> "enterbad"])
                ELSE /\ fs' = dirlink(fs, dp, name, ip)
                     /\ ic' = Visited(ic, dp)
                     /\ Goto(p, [pc |-> "iput", put |-> dp, dp |-> None, after |-> "linked"])
             /\ OnlyInodes)

EnterBad(p) ==
    /\ At(p, "enterbad")
    /\ ic' = Unlocked(ic, pr[p].dp)
    /\ Goto(p, [pc |-> "iput", put |-> pr[p].dp, dp |-> None, after |-> "bad"])
    /\ Same /\ OnlyInodes /\ UNCHANGED fs

Linked(p) ==
    /\ At(p, "linked")
    /\ Goto(p, [pc |-> "iput", put |-> pr[p].ip, ip |-> None, after |-> "end"])
    /\ Same /\ OnlyInodes /\ UNCHANGED <<fs, ic>>

BadKeepsLink(p) ==
    LET ip == pr[p].ip
    IN  /\ At(p, "bad") /\ Same
        /\ ilock(ip,
             /\ ic' = Visited(ic, ip)
             /\ Goto(p, [pc |-> "iput", put |-> ip, ip |-> None, after |-> "end"])
             /\ OnlyInodes /\ UNCHANGED fs)

\* bad: the link is taken back.
Bad(p) ==
    LET ip == pr[p].ip
    IN  /\ At(p, "bad") /\ Same
        /\ ilock(ip,
             /\ fs' = [fs EXCEPT !.di[ip].nlink = @ - 1]
             /\ ic' = Visited(ic, ip)
             /\ Goto(p, [pc |-> "iput", put |-> ip, ip |-> None, after |-> "end"])
             /\ OnlyInodes)

-----------------------------------------------------------------------------
(* Calls on descriptors *)

DupUncounted(p, call) ==
    /\ call.c = "dup" /\ ofile[p][call.fd] # None /\ NoFds(p) # {}
    /\ ofile' = [ofile EXCEPT ![p][First(NoFds(p))] = ofile[p][call.fd]]
    /\ UNCHANGED <<fs, durable, active, ic, ftable, pr, panic>>

Dup(p, call) ==
    /\ call.c = "dup" /\ ofile[p][call.fd] # None /\ NoFds(p) # {}
    /\ ofile' = [ofile EXCEPT ![p][First(NoFds(p))] = ofile[p][call.fd]]
    /\ ftable' = [ftable EXCEPT ![ofile[p][call.fd]].ref = @ + 1]
    /\ UNCHANGED <<fs, durable, active, ic, pr, panic>>

\* fileclose: one reference less, and a file without any is cleared.
Unref(file) == IF file.ref > 1 THEN [file EXCEPT !.ref = @ - 1] ELSE NoFile

\* The descriptor goes; the last one of the file also puts the inode back, or
\* closes its end of the pipe.
Close(p, call) ==
    LET f == ofile[p][call.fd]
    IN  /\ call.c = "close" /\ f # None
        /\ ofile' = [ofile EXCEPT ![p][call.fd] = None]
        /\ ftable' = [ftable EXCEPT ![f] = Unref(@)]
        /\ IF ftable[f].ref > 1
           THEN UNCHANGED <<pr, active>>
           ELSE IF ftable[f].type = "PIPE"
           THEN /\ Goto(p, [pc |-> "pipeclose", call |-> call,
                            after |-> IF ftable[f].writable THEN "writeopen" ELSE "readopen"])
                /\ UNCHANGED active
           ELSE /\ active' = active \cup {p}
                /\ Goto(p, [pc |-> "iput", put |-> ftable[f].ip, call |-> call, after |-> "end"])
        /\ UNCHANGED <<fs, durable, ic, panic>>

\* read of one block: the offset moves when there is one.
StartRead(p, call) ==
    /\ call.c = "read" /\ ofile[p][call.fd] # None
    /\ LET f == ftable[ofile[p][call.fd]]
       IN  IF f.type = "PIPE" THEN ~f.writable /\ Goto(p, [pc |-> "piperead", call |-> call])
           ELSE Goto(p, [pc |-> "read", call |-> call])
    /\ UNCHANGED <<fs, durable, active, ic, ftable, ofile, panic>>

Read(p) ==
    LET f == ofile[p][pr[p].call.fd]
        ip == ftable[f].ip
    IN  /\ At(p, "read") /\ Same
        /\ ilock(ip,
             /\ ic' = Visited(ic, ip)
             /\ ftable' = [ftable EXCEPT ![f].off = IF @ < Len(fs.di[ip].blks) THEN @ + 1 ELSE @]
             /\ pr' = [pr EXCEPT ![p] = Idle]
             /\ UNCHANGED <<fs, durable, active, ofile, panic>>)

\* write of one block: past the end the file grows, up to MAXFILE.
Fits(off) == off < MAXFILE

StartWrite(p, call) ==
    /\ call.c = "write" /\ ofile[p][call.fd] # None /\ ftable[ofile[p][call.fd]].writable
    /\ IF ftable[ofile[p][call.fd]].type = "PIPE"
       THEN Goto(p, [pc |-> "pipewrite", call |-> call]) /\ UNCHANGED active
       ELSE Goto(p, [pc |-> "write", call |-> call]) /\ active' = active \cup {p}
    /\ UNCHANGED <<fs, durable, ic, ftable, ofile, panic>>

Write(p) ==
    LET f == ofile[p][pr[p].call.fd]
        ip == ftable[f].ip
        off == ftable[f].off
        grows == Fits(off) /\ off = Len(fs.di[ip].blks)
    IN  /\ At(p, "write") /\ Same
        /\ ilock(ip,
             IF grows /\ FreeBlocks(fs) = {} THEN Panic("balloc: out of blocks")
             ELSE /\ fs' = IF grows THEN WithBlock(fs, ip) ELSE fs
                  /\ ic' = Visited(ic, ip)
                  /\ ftable' = IF Fits(off) THEN [ftable EXCEPT ![f].off = @ + 1] ELSE ftable
                  /\ Goto(p, [pc |-> "end"])
                  /\ UNCHANGED <<durable, active, ofile, panic>>)

-----------------------------------------------------------------------------
(* Pipes.  There is one page for them; a byte is its place in what was written. *)

OnlyPipe == UNCHANGED <<fs, durable, active, ic, ftable, ofile, panic>>
Woken(r, from, to) == [q \in Procs |-> IF r[q].pc = from THEN [r[q] EXCEPT !.pc = to] ELSE r[q]]
WakeReaders(r) == Woken(r, "readsleep", "piperead")
WakeWriters(r) == Woken(r, "writesleep", "pipewrite")
Return(p) == [pr EXCEPT ![p] = Idle]

\* pipealloc and the two descriptors, or nothing of it
Pipe(p, call) ==
    /\ call.c = "pipe"
    /\ IF Cardinality(NoFiles) < 2 \/ Cardinality(NoFds(p)) < 2 \/ pipe.used
       THEN UNCHANGED <<ftable, ofile, pipe>>
       ELSE LET rf == First(NoFiles)
                wf == First(NoFiles \ {rf})
                fd0 == First(NoFds(p))
                fd1 == First(NoFds(p) \ {fd0})
            IN  /\ ftable' = [ftable EXCEPT ![rf] = [NoFile EXCEPT !.ref = 1, !.type = "PIPE"],
                                           ![wf] = [NoFile EXCEPT !.ref = 1, !.type = "PIPE", !.writable = TRUE]]
                /\ ofile' = [ofile EXCEPT ![p][fd0] = rf, ![p][fd1] = wf]
                /\ pipe' = [NoPipe EXCEPT !.used = TRUE, !.readopen = TRUE, !.writeopen = TRUE]
    /\ UNCHANGED <<fs, durable, active, ic, pr, panic>>

\* fork: a process that has not started yet gets the descriptors.
Fork(p, call) ==
    /\ call.c = "fork"
    /\ \E q \in Procs \ {p} :
         /\ pr[q] = Idle /\ ofile[q] = NoOfile[q]
         /\ ofile' = [ofile EXCEPT ![q] = ofile[p]]
         /\ ftable' = [f \in Files |-> [ftable[f] EXCEPT !.ref =
                         @ + Cardinality({d \in 1..NOFILE : ofile[p][d] = f})]]
    /\ UNCHANGED <<fs, durable, active, ic, pr, pipe, panic>>

\* Variant: one byte more than the buffer holds.
RoomOver == pipe.nread + PIPESIZE + 1 - pipe.nwrite

Room == pipe.nread + PIPESIZE - pipe.nwrite

\* pipewrite, from acquire to the sleep on a full buffer or to the end
pipewrite(p) ==
    LET left == pr[p].call.n - pr[p].n
        m == IF left <= Room THEN left ELSE Room
        at(k) == pipe.nwrite + ((k - pipe.nwrite) % PIPESIZE)  \* the next place of cell k
    IN  /\ At(p, "pipewrite") /\ Going /\ OnlyPipe
        /\ pipe' = [pipe EXCEPT !.nwrite = @ + m,
                       !.data = [k \in DOMAIN @ |-> IF at(k) < pipe.nwrite + m THEN at(k) + 1 ELSE @[k]]]
        /\ pr' = IF m = left THEN WakeReaders(Return(p))
                 ELSE IF ~pipe.readopen THEN Return(p)
                 ELSE WakeReaders([pr EXCEPT ![p].pc = "writesleep", ![p].n = @ + m])

\* piperead, from acquire to the sleep on an empty buffer or to the end
piperead(p) ==
    LET stored == pipe.nwrite - pipe.nread
        m == IF pr[p].call.n <= stored THEN pr[p].call.n ELSE stored
    IN  /\ At(p, "piperead") /\ Going /\ OnlyPipe
        /\ IF stored = 0 /\ pipe.writeopen
           THEN pr' = [pr EXCEPT ![p].pc = "readsleep"] /\ UNCHANGED pipe
           ELSE /\ pr' = WakeWriters(Return(p))
                /\ pipe' = [pipe EXCEPT !.nread = @ + m,
                     !.got = @ \o [i \in 1..m |-> pipe.data[(pipe.nread + i - 1) % PIPESIZE]]]

pipeclose(p) ==
    LET closed == [pipe EXCEPT ![pr[p].after] = FALSE]
    IN  /\ At(p, "pipeclose") /\ Going /\ OnlyPipe
        /\ pipe' = [closed EXCEPT !.used = closed.readopen \/ closed.writeopen]
        /\ pr' = IF pr[p].after = "writeopen" THEN WakeReaders(Return(p)) ELSE WakeWriters(Return(p))

-----------------------------------------------------------------------------
(* The system *)

Busy == {p \in Procs : pr[p].pc # "idle"}

\* A process makes its next call.
Call(p, call) ==
    /\ At(p, "idle") /\ Cardinality(Busy) < prog.atOnce
    /\ todo' = [todo EXCEPT ![p] = @ \ {call}] /\ UNCHANGED <<prog, crashed>>
    /\ \/ /\ \/ StartPath(p, call) \/ Dup(p, call) \/ Close(p, call)
             \/ StartRead(p, call) \/ StartWrite(p, call)
          /\ UNCHANGED pipe
       \/ Pipe(p, call) \/ Fork(p, call)

Step(p) ==
    \/ iput(p) \/ Drop(p) \/ WalkStep(p) \/ Walked(p) \/ NotFound(p)
    \/ Open(p) \/ Create(p) \/ Exists(p) \/ UnlockPut(p) \/ fdalloc(p) \/ EndOp(p)
    \/ Unlink(p) \/ Remove(p) \/ UnlinkBad(p) \/ Uncount(p)
    \/ Link(p) \/ Enter(p) \/ EnterBad(p) \/ Linked(p) \/ Bad(p)
    \/ Read(p) \/ Write(p) \/ pipewrite(p) \/ piperead(p) \/ pipeclose(p)

Next == Crash \/ \E p \in Procs : Step(p) \/ \E call \in todo[p] : Call(p, call)

\* A process that can go on does: it runs, or is woken when a lock is released.
Fairness == \A p \in Procs : WF_vars(Step(p))
Spec == Init /\ [][Next]_vars /\ Fairness

-----------------------------------------------------------------------------
(* Properties *)

TypeOK ==
    /\ prog \in Programs /\ crashed \in 0..prog.crashes
    /\ \A p \in Procs : todo[p] \subseteq prog.todo[p]
    /\ \A d \in {fs, durable} :
         /\ d.used \subseteq 1..NBlocks
         /\ \A i \in Inums : /\ d.di[i].type \in {"free", "FILE", "DIR"} /\ d.di[i].nlink \in Nat
                             /\ d.di[i].blks \in Seq(1..NBlocks) /\ Len(d.di[i].blks) <= MAXFILE
                             /\ d.di[i].ents \in [Names -> Inums \cup {None}]
    /\ active \subseteq Procs
    /\ ic \in [Inums -> [ref : Nat, valid : BOOLEAN, owner : Procs \cup {NoProc}]]
    /\ ftable \in [Files -> [ref : Nat, type : {"NONE", "INODE", "PIPE"}, ip : Inums \cup {None}, off : 0..MAXFILE, writable : BOOLEAN]]
    /\ ofile \in [Procs -> [1..NOFILE -> Files \cup {None}]]

\* No step reaches a panic of fs.c or sysfile.c: no inode that is free on disk is
\* locked, and no link is removed from an inode without links.
NoPanic == panic = "none"

\* The disk a crash leaves is a tree whose link counts are right: every entry
\* names an inode in use, whose link count is the number of entries that name it
\* and, for a directory, of the directories in it (their "..").  The calls change
\* the two in different steps, under different locks.
EntriesOf(d, i) == {e \in Inums \X Names : d.di[e[1]].ents[e[2]] = i}
Subdirs(d, i) == {n \in Names : d.di[i].ents[n] # None /\ d.di[d.di[i].ents[n]].type = "DIR"}
LinksMatch ==
    \A i \in Inums :
        IF durable.di[i].type = "free" THEN EntriesOf(durable, i) = {}
        ELSE durable.di[i].nlink = Cardinality(EntriesOf(durable, i)) + Cardinality(Subdirs(durable, i))
                                   + (IF i = ROOTINO THEN 1 ELSE 0)

\* The blocks marked in the bitmap are those of the inodes in use, each in one
\* inode and there once: balloc and itrunc together lose none and share none.
BlocksMatch ==
    /\ durable.used = UNION {BlocksOf(durable, i) : i \in Inums}
    /\ \A i, j \in Inums : i # j => BlocksOf(durable, i) \cap BlocksOf(durable, j) = {}
    /\ \A i \in Inums : Cardinality(BlocksOf(durable, i)) = Len(durable.di[i].blks)

\* An inode's reference count is the number of pointers to it, those of open
\* files and those in the variables of the calls; and a file's is the number of
\* its descriptors.
Holds(i) ==
    Cardinality({f \in Files : ftable[f].ref > 0 /\ ftable[f].ip = i})
    + Cardinality({v \in Procs \X {"cur", "next", "ip", "dp", "put"} : pr[v[1]][v[2]] = i})
RefsMatch ==
    panic = "none" =>
        /\ \A i \in Inums : ic[i].ref = Holds(i)
        /\ \A f \in Files : ftable[f].ref
              = Cardinality({d \in Procs \X (1..NOFILE) : ofile[d[1]][d[2]] = f})

\* An inode that an open file or a call refers to is not freed under it, with or
\* without links: only the call that frees it still counts, and drops it next.
KeptWhileUsed ==
    \A i \in Inums : fs.di[i].type = "free" =>
        /\ \A f \in Files : ftable[f].ref > 0 => ftable[f].ip # i
        /\ \A p \in Procs, v \in {"cur", "next", "ip", "dp", "put"} :
              pr[p][v] = i => v = "put" /\ pr[p].pc = "drop"

\* With no call going on, an inode without links that no file refers to is free:
\* iput "frees if the reference and link counts have fallen to zero".  Calls that
\* run at the same time may miss it, so it is checked for one call at a time; and
\* a crash leaves open inodes without links behind.
FreedWhenUnused ==
    prog.atOnce = 1 /\ crashed = 0 /\ Busy = {} =>
        \A i \in Inums : fs.di[i].type # "free" => fs.di[i].nlink > 0 \/ ic[i].ref > 0

\* What goes through a pipe comes out once, in order, whatever closes or sleeps in
\* between; the page of the pipe is kept while an end of it is open, and an end
\* counts as open while a file refers to it.
End(writable) == \E f \in Files : ftable[f].type = "PIPE" /\ ftable[f].writable = writable
PipeDelivers ==
    /\ pipe.nwrite - pipe.nread \in 0..PIPESIZE
    /\ pipe.got = [i \in 1..pipe.nread |-> i]
    /\ \A k \in pipe.nread..(pipe.nwrite - 1) : pipe.data[k % PIPESIZE] = k + 1
    /\ End(TRUE) => pipe.used /\ pipe.writeopen
    /\ End(FALSE) => pipe.used /\ pipe.readopen

\* Every call ends: nobody waits for an inode's lock for ever, and at a pipe only
\* while it is empty or full and the other end is open.
Blocked(p) ==
    \/ pr[p].pc = "readsleep" /\ pipe.nread = pipe.nwrite /\ pipe.writeopen
    \/ pr[p].pc = "writesleep" /\ Room = 0 /\ pipe.readopen
CallEnds ==
    \A p \in Procs : (pr[p].pc # "idle") ~> (pr[p].pc = "idle" \/ panic # "none" \/ Blocked(p))

\* The kernel's tables keep their types and no call panics.
KernelSafe == TypeOK /\ NoPanic

\* Whatever moment a crash picks, the disk is consistent: the directory tree with
\* its link counts, and the bitmap with the blocks of the inodes.
DiskConsistent == LinksMatch /\ BlocksMatch

\* An inode is freed with its last use: neither before it nor never.
FreedWithLastUse == KeptWhileUsed /\ FreedWhenUnused
=============================================================================
