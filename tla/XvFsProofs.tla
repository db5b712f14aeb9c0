----------------------------- MODULE XvFsProofs -----------------------------
(***************************************************************************)
(* Proofs about XvFs, for any number of processes, inodes, files and       *)
(* blocks and for any programs: reference counts are exact, the bitmap     *)
(* agrees with the inodes on every disk a crash leaves, and pipes deliver. *)
(***************************************************************************)
EXTENDS XvFs, FiniteSetTheorems, FunctionTheorems, TLAPS

-----------------------------------------------------------------------------
(* The inductive invariant: types *)

Refs == Inums \cup {None}
PathCalls == {"open", "create", "mkdir", "unlink", "link"}

Inodes == [type : {"free", "FILE", "DIR"}, nlink : Int, ents : [Names -> Refs], blks : Seq(1..NBlocks)]
Disks == [di : [Inums -> Inodes], used : SUBSET (1..NBlocks)]
Entries == [ref : Int, valid : BOOLEAN, owner : Procs \cup {NoProc}]
OpenFiles == [ref : Int, type : {"NONE", "INODE", "PIPE"}, ip : Refs, off : Int, writable : BOOLEAN]
Pipes == [used : BOOLEAN, readopen : BOOLEAN, writeopen : BOOLEAN, nread : Nat, nwrite : Nat,
          data : [0..(PIPESIZE - 1) -> Nat], got : Seq(Nat)]

\* Where a call goes on after iput
Afters == {"walked", "notfound", "exists", "fdalloc", "unlockput", "end", "unlinkbad", "uncount",
           "enterbad", "linked", "bad", "readopen", "writeopen", ""}
InPipe == {"piperead", "pipewrite", "readsleep", "writesleep", "pipeclose"}
Pcs == {"idle", "walk", "walked", "notfound", "iput", "drop", "open", "create", "exists", "unlockput",
        "fdalloc", "end", "unlink", "remove", "unlinkbad", "uncount", "link", "enter", "enterbad",
        "linked", "bad", "read", "write"} \cup InPipe

Calls == {call \in {Idle.call} \cup UNION {UNION {g.todo[p] : p \in Procs} : g \in Programs} :
            call = Idle.call \/ WellFormed(call)}
Threads == [pc : Pcs, call : Calls, cur : Refs, rest : Seq(Names), next : Refs, ip : Refs, dp : Refs,
            put : Refs, after : Afters, file : Files \cup {None}, n : Int]

Types ==
    /\ prog \in Programs /\ DOMAIN todo = Procs
    /\ \A p \in Procs : todo[p] \subseteq prog.todo[p]
    /\ fs \in Disks /\ durable \in Disks
    /\ ic \in [Inums -> Entries] /\ ftable \in [Files -> OpenFiles]
    /\ ofile \in [Procs -> [1..NOFILE -> Files \cup {None}]]
    /\ pr \in [Procs -> Threads] /\ pipe \in Pipes

-----------------------------------------------------------------------------
(* The inductive invariant: pointers *)

\* Where a process is in its call, apart from iput
Place(r) == IF r.pc \in {"iput", "drop"} THEN r.after ELSE r.pc

Walking == {"walk", "walked", "notfound"}
WithParent == {"create", "unlink", "remove", "unlinkbad", "enter", "enterbad"}
WithInode == {"open", "link", "enter", "exists", "fdalloc", "unlockput", "remove", "uncount", "linked", "enterbad", "bad"}
OfLink == {"link", "enter", "enterbad", "linked", "bad"}

\* Which of its pointers a process has at which place, and in which call
Placed(r) ==
    /\ r.pc \in {"iput", "drop"} <=> r.put # None
    /\ Place(r) = "walk" <=> r.cur # None
    /\ Place(r) = "walked" <=> r.next # None
    /\ Place(r) \in WithParent <=> r.dp # None
    /\ Place(r) \in WithInode => r.ip # None
    /\ r.ip # None => \/ Place(r) \in WithInode
                      \/ Place(r) \in Walking /\ r.call.c = "link"
                      \/ Place(r) = "end" /\ r.file # None
    /\ r.file # None => r.pc = "end" /\ r.ip # None
    /\ Place(r) \in Walking \cup WithParent \cup WithInode => r.call.c \in PathCalls
    /\ Place(r) \in OfLink => r.call.c = "link"
    /\ Place(r) \in {"create", "exists"} => r.call.c \in {"create", "mkdir"}
    /\ Place(r) \in {"walk", "walked"} => r.rest # <<>>
    /\ Place(r) = "walked" /\ Len(r.rest) = 1 => r.ip = None /\ r.call.c \in {"open", "link"}
    /\ r.pc \in {"read", "write", "piperead", "pipewrite", "readsleep", "writesleep"} =>
         r.call.c \in {"read", "write"}
    /\ r.pc \in {"iput", "drop"} => r.after \notin {"readopen", "writeopen", ""}
    /\ r.pc = "pipeclose" => r.after \in {"readopen", "writeopen"}
    /\ r.pc \in {"pipewrite", "writesleep"} => r.n <= r.call.n
    /\ r.pc \notin {"pipewrite", "writesleep"} => r.n = 0

\* How many pointers to i a process has
One(c) == IF c THEN 1 ELSE 0
Count(r, i) == One(r.cur = i) + One(r.next = i) + One(r.ip = i) + One(r.dp = i) + One(r.put = i)

Five == {"cur", "next", "ip", "dp", "put"}
Pointers(i) == {v \in Procs \X Five : pr[v[1]][v[2]] = i}
FilesOf(i) == {f \in Files : ftable[f].ref > 0 /\ ftable[f].ip = i}
Fds == Procs \X (1..NOFILE)
FdsOf(f) == {d \in Fds : ofile[d[1]][d[2]] = f}

Exact ==
    /\ \A i \in Inums : ic[i].ref = Cardinality(FilesOf(i)) + Cardinality(Pointers(i))
    /\ \A f \in Files : ftable[f].ref = Cardinality(FdsOf(f))

\* A file that open has allocated belongs to the call alone until it is filled in.
Tables ==
    /\ \A f \in Files :
         /\ ftable[f].ref = 0 => ftable[f] = NoFile
         /\ ftable[f].type = "INODE" <=> ftable[f].ip # None
         /\ (ftable[f].ref # 0 /\ ftable[f].type = "NONE") => \E p \in Procs : pr[p].file = f
    /\ \A p \in Procs : pr[p].file # None =>
         /\ ftable[pr[p].file].type = "NONE" /\ ftable[pr[p].file].ref # 0
         /\ \A q \in Procs : \A d \in 1..NOFILE : ofile[q][d] = pr[p].file => q = p
    /\ \A p, q \in Procs : pr[p].file # None /\ pr[p].file = pr[q].file => p = q
    /\ \A p \in Procs : pr[p].pc \in {"read", "write"} =>
         ofile[p][pr[p].call.fd] # None /\ ftable[ofile[p][pr[p].call.fd]].type = "INODE"

Pointing == (\A p \in Procs : Placed(pr[p])) /\ Exact /\ Tables

-----------------------------------------------------------------------------
(* The inductive invariant: blocks and pipes *)

\* The bitmap of a disk is right.
Bitmap(d) ==
    /\ d.used = UNION {BlocksOf(d, i) : i \in Inums}
    /\ \A i, j \in Inums : i # j => BlocksOf(d, i) \cap BlocksOf(d, j) = {}
    /\ \A i \in Inums : \A k, l \in 1..Len(d.di[i].blks) : d.di[i].blks[k] = d.di[i].blks[l] => k = l

Closing(end) == {p \in Procs : pr[p].pc = "pipeclose" /\ pr[p].after = end}
EndOpen(end) == IF end = "writeopen" THEN pipe.writeopen ELSE pipe.readopen
IsEnd(f, end) == ftable[f].type = "PIPE" /\ ftable[f].writable = (end = "writeopen")

Piped ==
    /\ pipe.nread <= pipe.nwrite /\ pipe.nwrite - pipe.nread <= PIPESIZE
    /\ pipe.got = [i \in 1..pipe.nread |-> i]
    /\ \A k \in Nat : (pipe.nread <= k /\ k < pipe.nwrite) => pipe.data[k % PIPESIZE] = k + 1
    /\ pipe.used <=> pipe.readopen \/ pipe.writeopen
    /\ \A end \in {"readopen", "writeopen"} :
         /\ \A f \in Files : IsEnd(f, end) => EndOpen(end) /\ Closing(end) = {}
         /\ \A p \in Closing(end) : EndOpen(end)
         /\ \A f, g \in Files : IsEnd(f, end) /\ IsEnd(g, end) => f = g
         /\ \A p, q \in Closing(end) : p = q

Inv == Types /\ Pointing /\ Bitmap(fs) /\ Bitmap(durable) /\ Piped
-----------------------------------------------------------------------------
(* Numbers *)

\* A set of numbers that is not empty has a smallest one.
LEMMA SmallestNat ==
    ASSUME NEW S, S \subseteq Nat, S # {}
    PROVE  \E x \in S : \A y \in S : x <= y
  <1> DEFINE R == {ss \in Nat \X Nat : ss[1] < ss[2]}
  <1>1. IsWellFoundedOn(R, Nat)
    <2>1. R = OpToRel(<, Nat)
      BY DEF OpToRel
    <2>. QED
      BY <2>1, NatLessThanWellFounded
  <1>. HIDE DEF R
  <1>2. \E x \in S : \A y \in S : ~(<<y, x>> \in R)
    BY <1>1, WFMin
  <1>3. PICK x \in S : \A y \in S : ~(<<y, x>> \in R)
    BY <1>2
  <1>4. \A y \in S : ~(y < x)
    BY <1>3 DEF R
  <1>. QED
    BY <1>4
-----------------------------------------------------------------------------
(* The operations on a disk *)

\* The numbers of inodes
LEMMA Numbers ==
    /\ ROOTINO \in Inums /\ None \notin Inums /\ Inums \subseteq Refs /\ None \in Refs
    /\ Inums \subseteq Nat /\ IsFiniteSet(Inums) /\ IsFiniteSet(Files) /\ None \notin Files /\ Files \subseteq Nat
    /\ 1 \in 1..NBlocks
  BY FsAssumption, FS_Interval DEF ROOTINO, Inums, None, Refs, Files

\* An inode of a disk replaced by another one
Put(d, i, x) == [d EXCEPT !.di[i] = x]

\* A change of one inode leaves a disk a disk.
LEMMA PutType ==
    ASSUME NEW d \in Disks, NEW i \in Inums, NEW x \in Inodes
    PROVE  /\ Put(d, i, x) \in Disks
           /\ Put(d, i, x).used = d.used /\ Put(d, i, x).di[i] = x
           /\ \A j \in Inums \ {i} : Put(d, i, x).di[j] = d.di[j]
  BY DEF Put, Disks

\* Two disks with the same blocks
SameBlocks(d, e) == d.used = e.used /\ \A i \in Inums : d.di[i].blks = e.di[i].blks

\* The bitmap is right for a disk with the same blocks.
LEMMA BitmapSame ==
    ASSUME NEW d, NEW e, Bitmap(d), SameBlocks(d, e)
    PROVE  Bitmap(e)
  <1>1. \A i \in Inums : BlocksOf(d, i) = BlocksOf(e, i)
    BY DEF SameBlocks, BlocksOf
  <1>2. UNION {BlocksOf(d, i) : i \in Inums} = UNION {BlocksOf(e, i) : i \in Inums}
    BY <1>1
  <1>. QED
    BY <1>1, <1>2 DEF Bitmap, SameBlocks

\* Changes of link counts, types and entries keep type and blocks.
LEMMA PutLink ==
    ASSUME NEW d \in Disks, NEW i \in Inums, NEW n \in Int
    PROVE  /\ [d EXCEPT !.di[i].nlink = n] \in Disks /\ SameBlocks(d, [d EXCEPT !.di[i].nlink = n])
           /\ \A j \in Inums : [d EXCEPT !.di[i].nlink = n].di[j].type = d.di[j].type
  <1> DEFINE x == [d.di[i] EXCEPT !.nlink = n]
  <1>1. d.di[i] \in Inodes
    BY DEF Disks
  <1>2. x \in Inodes /\ x.blks = d.di[i].blks /\ x.type = d.di[i].type
    BY <1>1 DEF Inodes
  <1>3. [d EXCEPT !.di[i].nlink = n] = Put(d, i, x)
    BY DEF Put
  <1>. HIDE DEF x
  <1>. QED
    BY <1>2, <1>3, PutType DEF SameBlocks

\* A change of an entry of a directory moves no block.
LEMMA PutEntry ==
    ASSUME NEW d \in Disks, NEW i \in Inums, NEW n \in Names, NEW k \in Refs
    PROVE  [d EXCEPT !.di[i].ents[n] = k] \in Disks /\ SameBlocks(d, [d EXCEPT !.di[i].ents[n] = k])
  <1> DEFINE x == [d.di[i] EXCEPT !.ents[n] = k]
  <1>1. d.di[i] \in Inodes
    BY DEF Disks
  <1>2. x \in Inodes /\ x.blks = d.di[i].blks
    BY <1>1 DEF Inodes
  <1>3. [d EXCEPT !.di[i].ents[n] = k] = Put(d, i, x)
    BY DEF Put
  <1>. HIDE DEF x
  <1>. QED
    BY <1>2, <1>3, PutType DEF SameBlocks

\* A new inode has no blocks yet.
LEMMA PutNew ==
    ASSUME NEW d \in Disks, NEW i \in Inums, NEW t \in {"FILE", "DIR"}
    PROVE  /\ [d EXCEPT !.di[i].type = t, !.di[i].nlink = 1] \in Disks
           /\ SameBlocks(d, [d EXCEPT !.di[i].type = t, !.di[i].nlink = 1])
  <1> DEFINE x == [d.di[i] EXCEPT !.type = t, !.nlink = 1]
  <1>1. d.di[i] \in Inodes
    BY DEF Disks
  <1>2. x \in Inodes /\ x.blks = d.di[i].blks
    <2>1. t \in {"free", "FILE", "DIR"} /\ 1 \in Int
      OBVIOUS
    <2>. QED
      BY <1>1, <2>1 DEF Inodes
  <1> DEFINE e == [d EXCEPT !.di[i].type = t, !.di[i].nlink = 1]
  <1>. SUFFICES e \in Disks /\ SameBlocks(d, e)
    OBVIOUS
  <1>3. e = Put(d, i, x)
    BY DEF Put, Disks
  <1>. HIDE DEF x, e
  <1>. QED
    BY <1>2, <1>3, PutType DEF SameBlocks

\* balloc finds a free block.
LEMMA BallocIsFree ==
    ASSUME NEW d \in Disks, FreeBlocks(d) # {}
    PROVE  balloc(d) \in 1..NBlocks /\ balloc(d) \notin d.used
  <1> DEFINE P(b) == b \in FreeBlocks(d) /\ \A c \in FreeBlocks(d) : b <= c
  <1>1. FreeBlocks(d) \subseteq Nat
    BY DEF FreeBlocks
  <1>2. \E b \in FreeBlocks(d) : \A c \in FreeBlocks(d) : b <= c
    BY <1>1, SmallestNat
  <1>3. balloc(d) \in FreeBlocks(d)
    BY <1>2 DEF balloc
  <1>. QED
    BY <1>3 DEF FreeBlocks

\* A block added to an inode
LEMMA WithBlockKeeps ==
    ASSUME NEW d \in Disks, NEW i \in Inums, Bitmap(d), FreeBlocks(d) # {}
    PROVE  WithBlock(d, i) \in Disks /\ Bitmap(WithBlock(d, i))
  <1> DEFINE b == balloc(d)
             s == d.di[i].blks
             x == [d.di[i] EXCEPT !.blks = Append(s, b)]
             e == WithBlock(d, i)
  <1>1. b \in 1..NBlocks /\ b \notin d.used
    BY BallocIsFree
  <1>2. d.di[i] \in Inodes /\ s \in Seq(1..NBlocks) /\ d.used \subseteq 1..NBlocks
    BY DEF Disks, Inodes
  <1>. HIDE DEF b, s
  <1>3. /\ Append(s, b) \in Seq(1..NBlocks) /\ Len(Append(s, b)) = Len(s) + 1 /\ Len(s) \in Nat
        /\ \A k \in 1..Len(s) : Append(s, b)[k] = s[k]
        /\ Append(s, b)[Len(s) + 1] = b
    BY <1>1, <1>2
  <1>4. x \in Inodes /\ x.blks = Append(s, b)
    BY <1>2, <1>3 DEF Inodes
  <1>. HIDE DEF x
  <1>5. e = [Put(d, i, x) EXCEPT !.used = @ \cup {b}]
    BY DEF WithBlock, Put, b, s, x, Disks
  <1>6. /\ Put(d, i, x) \in Disks
        /\ Put(d, i, x).used = d.used /\ Put(d, i, x).di[i] = x
        /\ \A j \in Inums \ {i} : Put(d, i, x).di[j] = d.di[j]
    BY <1>4, PutType
  <1>. HIDE DEF e
  <1>7. /\ e \in Disks /\ e.used = d.used \cup {b} /\ e.di[i] = x
        /\ \A j \in Inums \ {i} : e.di[j] = d.di[j]
    <2>1. d.used \cup {b} \in SUBSET (1..NBlocks)
      BY <1>1, <1>2
    <2>. QED
      BY <1>5, <1>6, <2>1 DEF Disks
  <1>8. BlocksOf(e, i) = BlocksOf(d, i) \cup {b}
    <2>1. BlocksOf(d, i) = {s[k] : k \in 1..Len(s)}
      BY <1>2 DEF BlocksOf, s
    <2>2. BlocksOf(e, i) = {Append(s, b)[k] : k \in 1..(Len(s) + 1)}
      BY <1>3, <1>4, <1>7 DEF BlocksOf
    <2>3. \A k \in 1..(Len(s) + 1) : k \in 1..Len(s) \/ k = Len(s) + 1
      BY <1>3
    <2>4. \A k \in 1..Len(s) : k \in 1..(Len(s) + 1)
      BY <1>3
    <2>5. Len(s) + 1 \in 1..(Len(s) + 1)
      BY <1>3
    <2>. QED
      BY <1>3, <2>1, <2>2, <2>3, <2>4, <2>5
  <1>9. \A j \in Inums \ {i} : BlocksOf(e, j) = BlocksOf(d, j)
    BY <1>7 DEF BlocksOf
  <1>10. \A j \in Inums : b \notin BlocksOf(d, j)
    BY <1>1 DEF Bitmap
  <1>11. e.used = UNION {BlocksOf(e, j) : j \in Inums}
    <2>1. d.used = UNION {BlocksOf(d, j) : j \in Inums}
      BY DEF Bitmap
    <2>2. ASSUME NEW c \in e.used PROVE \E j \in Inums : c \in BlocksOf(e, j)
      BY <1>7, <1>8, <1>9, <2>1, <2>2
    <2>3. ASSUME NEW j \in Inums, NEW c \in BlocksOf(e, j) PROVE c \in e.used
      BY <1>7, <1>8, <1>9, <2>1, <2>3
    <2>. QED
      BY <2>2, <2>3
  <1>12. \A j, k \in Inums : j # k => BlocksOf(e, j) \cap BlocksOf(e, k) = {}
    BY <1>8, <1>9, <1>10 DEF Bitmap
  <1>13. ASSUME NEW j \in Inums, NEW k \in 1..Len(e.di[j].blks), NEW l \in 1..Len(e.di[j].blks),
                e.di[j].blks[k] = e.di[j].blks[l]
         PROVE  k = l
    <2>1. CASE j # i
      BY <1>7, <1>13, <2>1 DEF Bitmap
    <2>2. CASE j = i
      <3>1. \A m \in 1..Len(s) : s[m] \in BlocksOf(d, i) /\ s[m] # b
        BY <1>2, <1>10 DEF BlocksOf, s
      <3>2. \A m, o \in 1..Len(s) : s[m] = s[o] => m = o
        BY DEF Bitmap, s
      <3>3. \A m \in 1..(Len(s) + 1) : m \in 1..Len(s) \/ m = Len(s) + 1
        BY <1>3
      <3>4. k \in 1..(Len(s) + 1) /\ l \in 1..(Len(s) + 1) /\ Append(s, b)[k] = Append(s, b)[l]
        BY <1>3, <1>4, <1>7, <1>13, <2>2
      <3>. QED
        BY <1>3, <3>1, <3>2, <3>3, <3>4
    <2>. QED
      BY <2>1, <2>2
  <1>14. Bitmap(e)
    BY <1>11, <1>12, <1>13 DEF Bitmap
  <1>. QED
    BY <1>7, <1>14 DEF e

\* The inode that is free
LEMMA FreeInodeType ==
    FreeInode \in Inodes /\ FreeInode.blks = <<>> /\ FreeInode.type = "free"
  <1>1. <<>> \in Seq(1..NBlocks) /\ 0 \in Int
    OBVIOUS
  <1>2. [n \in Names |-> None] \in [Names -> Refs]
    BY Numbers
  <1>. QED
    BY <1>1, <1>2 DEF Inodes, FreeInode

\* An inode freed with its blocks
LEMMA FreedKeeps ==
    ASSUME NEW d \in Disks, NEW i \in Inums, Bitmap(d)
    PROVE  LET e == [itrunc(d, i) EXCEPT !.di[i] = FreeInode]
           IN  e \in Disks /\ Bitmap(e)
  <1> DEFINE e == [itrunc(d, i) EXCEPT !.di[i] = FreeInode]
             x == [d.di[i] EXCEPT !.blks = <<>>]
  <1>1. d.di[i] \in Inodes /\ d.used \subseteq 1..NBlocks
    BY DEF Disks
  <1>2. x \in Inodes /\ FreeInode \in Inodes /\ FreeInode.blks = <<>>
    <2>1. <<>> \in Seq(1..NBlocks)
      OBVIOUS
    <2>2. x \in Inodes
      BY <1>1, <2>1 DEF Inodes
    <2>. QED
      BY <2>2, FreeInodeType
  <1>3. itrunc(d, i) = [Put(d, i, x) EXCEPT !.used = @ \ BlocksOf(d, i)]
    BY DEF itrunc, Put, Disks
  <1>. HIDE DEF x
  <1>4. /\ Put(d, i, x) \in Disks /\ Put(d, i, x).used = d.used
        /\ \A j \in Inums \ {i} : Put(d, i, x).di[j] = d.di[j]
    BY <1>2, PutType
  <1>5. /\ itrunc(d, i) \in Disks /\ itrunc(d, i).used = d.used \ BlocksOf(d, i)
        /\ \A j \in Inums \ {i} : itrunc(d, i).di[j] = d.di[j]
    <2>1. d.used \ BlocksOf(d, i) \in SUBSET (1..NBlocks)
      BY <1>1
    <2>. QED
      BY <1>3, <1>4, <2>1 DEF Disks
  <1>6. e = Put(itrunc(d, i), i, FreeInode)
    BY DEF Put
  <1>. HIDE DEF e
  <1>7. /\ e \in Disks /\ e.used = d.used \ BlocksOf(d, i) /\ e.di[i] = FreeInode
        /\ \A j \in Inums \ {i} : e.di[j] = d.di[j]
    BY <1>2, <1>5, <1>6, PutType
  <1>8. BlocksOf(e, i) = {}
    BY <1>2, <1>7 DEF BlocksOf
  <1>9. \A j \in Inums \ {i} : BlocksOf(e, j) = BlocksOf(d, j)
    BY <1>7 DEF BlocksOf
  <1>10. e.used = UNION {BlocksOf(e, j) : j \in Inums}
    <2>1. d.used = UNION {BlocksOf(d, j) : j \in Inums} /\ \A j \in Inums : j # i => BlocksOf(d, i) \cap BlocksOf(d, j) = {}
      BY DEF Bitmap
    <2>2. ASSUME NEW c \in e.used PROVE \E j \in Inums : c \in BlocksOf(e, j)
      BY <1>7, <1>8, <1>9, <2>1, <2>2
    <2>3. ASSUME NEW j \in Inums, NEW c \in BlocksOf(e, j) PROVE c \in e.used
      BY <1>7, <1>8, <1>9, <2>1, <2>3
    <2>. QED
      BY <2>2, <2>3
  <1>11. \A j, k \in Inums : j # k => BlocksOf(e, j) \cap BlocksOf(e, k) = {}
    BY <1>8, <1>9 DEF Bitmap
  <1>12. \A j \in Inums : \A k, l \in 1..Len(e.di[j].blks) : e.di[j].blks[k] = e.di[j].blks[l] => k = l
    <2> SUFFICES ASSUME NEW j \in Inums PROVE \A k, l \in 1..Len(e.di[j].blks) : e.di[j].blks[k] = e.di[j].blks[l] => k = l
      OBVIOUS
    <2>1. CASE j = i
      BY <1>2, <1>7, <2>1
    <2>2. CASE j # i
      BY <1>7, <2>2 DEF Bitmap
    <2>. QED
      BY <2>1, <2>2
  <1>13. Bitmap(e)
    BY <1>10, <1>11, <1>12 DEF Bitmap
  <1>. QED
    BY <1>7, <1>13 DEF e

\* First picks an element.
LEMMA FirstIn ==
    ASSUME NEW S, S \subseteq Nat, S # {}
    PROVE  First(S) \in S
  <1>1. \E x \in S : \A y \in S : x <= y
    BY SmallestNat
  <1>. QED
    BY <1>1 DEF First

\* ialloc finds a free inode.
LEMMA IallocIsFree ==
    ASSUME NEW d \in Disks, FreeInums(d) # {}
    PROVE  ialloc(d) \in Inums
  <1>1. FreeInums(d) \subseteq Nat
    BY Numbers DEF FreeInums
  <1>2. \E b \in FreeInums(d) : \A c \in FreeInums(d) : b <= c
    BY <1>1, SmallestNat
  <1>3. ialloc(d) \in FreeInums(d)
    BY <1>2 DEF ialloc
  <1>. QED
    BY <1>3 DEF FreeInums

\* A disk with its bitmap right
Good(d) == d \in Disks /\ Bitmap(d)

\* dirlink keeps the disk right.
LEMMA DirlinkKeeps ==
    ASSUME NEW d, Good(d), NEW dp \in Inums, NEW n \in Names, NEW i \in Refs
    PROVE  Good(dirlink(d, dp, n, i))
  <1>1. d \in Disks /\ Bitmap(d)
    BY DEF Good
  <1>2. dirlink(d, dp, n, i) \in Disks /\ SameBlocks(d, dirlink(d, dp, n, i))
    BY <1>1, PutEntry DEF dirlink
  <1>. QED
    BY <1>1, <1>2, BitmapSame DEF Good

\* A change of a link count keeps it right too.
LEMMA NlinkKeeps ==
    ASSUME NEW d, Good(d), NEW i \in Inums
    PROVE  /\ Good([d EXCEPT !.di[i].nlink = @ + 1]) /\ Good([d EXCEPT !.di[i].nlink = @ - 1])
           /\ [d EXCEPT !.di[i].nlink = @ + 1].used = d.used
           /\ d.di[i].nlink \in Int
  <1> DEFINE up == [d EXCEPT !.di[i].nlink = @ + 1]
             dn == [d EXCEPT !.di[i].nlink = @ - 1]
             k == d.di[i].nlink
  <1>1. d \in Disks /\ Bitmap(d)
    BY DEF Good
  <1>2. k \in Int
    BY <1>1 DEF Disks, Inodes
  <1>3. up = [d EXCEPT !.di[i].nlink = k + 1] /\ dn = [d EXCEPT !.di[i].nlink = k - 1]
    OBVIOUS
  <1>. SUFFICES Good(up) /\ Good(dn) /\ up.used = d.used /\ k \in Int
    OBVIOUS
  <1>. HIDE DEF up, dn, k
  <1>4. k + 1 \in Int /\ k - 1 \in Int
    BY <1>2
  <1>5. up \in Disks /\ SameBlocks(d, up) /\ dn \in Disks /\ SameBlocks(d, dn)
    BY <1>1, <1>3, <1>4, PutLink
  <1>. QED
    BY <1>1, <1>2, <1>5, BitmapSame DEF Good, SameBlocks

\* What create writes keeps the disk right, given the room it has checked for.
LEMMA MadeKeeps ==
    ASSUME Good(fs), NEW dp \in Inums, NEW t \in {"FILE", "DIR"}, NEW n \in Names,
           FreeInums(fs) # {}, t = "DIR" => FreeBlocks(fs) # {}
    PROVE  Good(Made(dp, t, n))
  <1> DEFINE i == ialloc(fs)
             made == [fs EXCEPT !.di[i].type = t, !.di[i].nlink = 1]
             up == [made EXCEPT !.di[dp].nlink = @ + 1]
             dots == IF t = "DIR" THEN WithBlock(up, i) ELSE made
  <1>1. fs \in Disks /\ Bitmap(fs) /\ i \in Inums /\ i \in Refs
    BY IallocIsFree, Numbers DEF Good
  <1>2. Made(dp, t, n) = dirlink(dots, dp, n, i)
    BY DEF Made
  <1>. HIDE DEF i
  <1>3. made \in Disks /\ SameBlocks(fs, made)
    BY <1>1, PutNew
  <1>. HIDE DEF made
  <1>4. Good(made) /\ made.used = fs.used
    BY <1>1, <1>3, BitmapSame DEF Good, SameBlocks
  <1>5. Good(up) /\ up.used = made.used
    BY <1>4, NlinkKeeps
  <1>. HIDE DEF up
  <1>6. t = "DIR" => FreeBlocks(up) # {}
    BY <1>4, <1>5 DEF FreeBlocks
  <1>7. Good(dots)
    BY <1>1, <1>4, <1>5, <1>6, WithBlockKeeps DEF Good
  <1>. HIDE DEF dots
  <1>. QED
    BY <1>1, <1>2, <1>7, DirlinkKeeps

\* So does what unlink writes.
LEMMA RemovedKeeps ==
    ASSUME Good(fs), NEW dp \in Inums, NEW ip, NEW n \in Names
    PROVE  Good(Removed(dp, ip, n))
  <1> DEFINE gone == [fs EXCEPT !.di[dp].ents[n] = None]
             dn == [gone EXCEPT !.di[dp].nlink = @ - 1]
  <1>1. Good(gone)
    BY Numbers, DirlinkKeeps DEF dirlink
  <1>2. Removed(dp, ip, n) = IF fs.di[ip].type = "DIR" THEN dn ELSE gone
    BY DEF Removed
  <1>. HIDE DEF gone
  <1>3. Good(dn)
    BY <1>1, NlinkKeeps
  <1>. HIDE DEF dn
  <1>. QED
    BY <1>1, <1>2, <1>3

\* The inodes mkfs makes from free ones
RootOf(x, e, b) == [x EXCEPT !.type = "DIR", !.nlink = 1, !.blks = b, !.ents = e]
FileOf(x) == [x EXCEPT !.type = "FILE", !.nlink = 1]

\* They are inodes.
LEMMA FirstInode ==
    ASSUME NEW x \in Inodes, NEW e \in [Names -> Refs], NEW b \in Seq(1..NBlocks)
    PROVE  /\ RootOf(x, e, b) \in Inodes /\ RootOf(x, e, b).blks = b
           /\ FileOf(x) \in Inodes /\ FileOf(x).blks = x.blks
  <1>1. "DIR" \in {"free", "FILE", "DIR"} /\ "FILE" \in {"free", "FILE", "DIR"} /\ 1 \in Int
    OBVIOUS
  <1>. DEFINE T == {"free", "FILE", "DIR"}
              B == Seq(1..NBlocks)
              E == [Names -> Refs]
  <1>2. Inodes = [type : T, nlink : Int, ents : E, blks : B]
    BY DEF Inodes
  <1>3. "DIR" \in T /\ "FILE" \in T /\ 1 \in Int /\ e \in E /\ b \in B
    BY <1>1
  <1>. HIDE DEF T, B, E
  <1>4. [x EXCEPT !.type = "FILE", !.nlink = 1] \in Inodes
    BY <1>2, <1>3
  <1>5. [x EXCEPT !.type = "FILE", !.nlink = 1].blks = x.blks
    BY <1>2, <1>3
  <1>6. [x EXCEPT !.type = "DIR", !.nlink = 1, !.blks = b, !.ents = e] \in Inodes
    BY <1>2, <1>3
  <1>7. [x EXCEPT !.type = "DIR", !.nlink = 1, !.blks = b, !.ents = e].blks = b
    BY <1>2, <1>3
  <1>. QED
    BY <1>4, <1>5, <1>6, <1>7 DEF RootOf, FileOf

\* What mkfs writes is right.
LEMMA MkfsGood == Good(MadeByMkfs)
  <1> DEFINE d == MadeByMkfs
             e == [n \in Names |-> IF n \in DOMAIN FirstFiles THEN FirstFiles[n] ELSE None]
             root == [FreeInode EXCEPT !.type = "DIR", !.nlink = 1, !.blks = <<1>>, !.ents = e]
             file == [FreeInode EXCEPT !.type = "FILE", !.nlink = 1]
             isfile(i) == \E n \in DOMAIN FirstFiles : FirstFiles[n] = i
             di == [i \in Inums |-> CASE i = ROOTINO -> root [] isfile(i) -> file [] OTHER -> FreeInode]
  <1>1. e \in [Names -> Refs]
    BY FsAssumption, Numbers
  <1>2. <<1>> \in Seq(1..NBlocks) /\ Len(<<1>>) = 1 /\ <<1>>[1] = 1 /\ DOMAIN <<1>> = {1}
    BY Numbers
  <1>3. root \in Inodes /\ root.blks = <<1>>
    <2>. HIDE DEF e
    <2>1. root = RootOf(FreeInode, e, <<1>>)
      BY DEF RootOf
    <2>. HIDE DEF root
    <2>. QED
      BY <1>1, <1>2, <2>1, FreeInodeType, FirstInode DEF e
  <1>4. file \in Inodes /\ file.blks = <<>>
    <2>1. file = FileOf(FreeInode)
      BY DEF FileOf
    <2>2. <<>> \in Seq(1..NBlocks)
      OBVIOUS
    <2>. HIDE DEF file
    <2>. QED
      BY <1>1, <2>1, <2>2, FreeInodeType, FirstInode
  <1>5. d.di = di /\ d.used = {1} /\ d = [di |-> di, used |-> {1}]
    BY DEF MadeByMkfs
  <1>. HIDE DEF root, file, e, isfile
  <1>6. \A i \in Inums : /\ i = ROOTINO => di[i] = root
                         /\ i # ROOTINO => (di[i] = file \/ di[i] = FreeInode)
    <2>. TAKE i \in Inums
    <2>1. di[i] = CASE i = ROOTINO -> root [] isfile(i) -> file [] OTHER -> FreeInode
      OBVIOUS
    <2>2. \A n \in DOMAIN FirstFiles : FirstFiles[n] # ROOTINO
      BY FsAssumption
    <2>3. isfile(ROOTINO) => FALSE
      BY <2>2 DEF isfile
    <2>. HIDE DEF di
    <2>. QED
      BY <2>1, <2>3
  <1>7. di \in [Inums -> Inodes]
    <2>1. \A i \in Inums : di[i] \in Inodes
      BY <1>3, <1>4, <1>6, FreeInodeType
    <2>. QED
      BY <2>1
  <1>. HIDE DEF d, di
  <1>8. d \in Disks
    <2>1. {1} \in SUBSET (1..NBlocks)
      BY Numbers
    <2>. QED
      BY <1>5, <1>7, <2>1 DEF Disks
  <1>9. BlocksOf(d, ROOTINO) = {1}
    BY <1>2, <1>3, <1>5, <1>6, Numbers DEF BlocksOf
  <1>10. \A i \in Inums : i # ROOTINO => d.di[i].blks = <<>> /\ BlocksOf(d, i) = {}
    BY <1>4, <1>5, <1>6, FreeInodeType DEF BlocksOf
  <1>11. d.used = UNION {BlocksOf(d, i) : i \in Inums}
    <2>1. ROOTINO \in Inums
      BY Numbers
    <2>2. \A c : c \in UNION {BlocksOf(d, i) : i \in Inums} <=> \E i \in Inums : c \in BlocksOf(d, i)
      OBVIOUS
    <2>3. \A c : (\E i \in Inums : c \in BlocksOf(d, i)) <=> c = 1
      BY <1>9, <1>10, <2>1
    <2>. QED
      BY <1>5, <2>2, <2>3
  <1>12. \A i, j \in Inums : i # j => BlocksOf(d, i) \cap BlocksOf(d, j) = {}
    BY <1>9, <1>10
  <1>13. \A i \in Inums : \A k, l \in 1..Len(d.di[i].blks) : d.di[i].blks[k] = d.di[i].blks[l] => k = l
    BY <1>2, <1>3, <1>5, <1>6, <1>10
  <1>. QED
    BY <1>8, <1>11, <1>12, <1>13 DEF Good, Bitmap, d
-----------------------------------------------------------------------------
(* Counting *)

\* A finite set without one element
LEMMA CardSplit ==
    ASSUME NEW A, NEW v, IsFiniteSet(A)
    PROVE  /\ IsFiniteSet(A \ {v}) /\ Cardinality(A) \in Nat /\ Cardinality(A \ {v}) \in Nat
           /\ Cardinality(A) = Cardinality(A \ {v}) + One(v \in A)
  <1>1. IsFiniteSet(A \ {v}) /\ Cardinality(A \ {v}) = IF v \in A THEN Cardinality(A) - 1 ELSE Cardinality(A)
    BY FS_RemoveElement
  <1>2. Cardinality(A) \in Nat /\ Cardinality(A \ {v}) \in Nat
    BY <1>1, FS_CardinalityType
  <1> DEFINE n == Cardinality(A \ {v})
             m == Cardinality(A)
  <1>. HIDE DEF n, m
  <1>3. m = n + One(v \in A)
    BY <1>1, <1>2 DEF One, n, m
  <1>. QED
    BY <1>1, <1>2, <1>3 DEF n, m

\* Two finite sets that differ in one element at most
LEMMA OneApart ==
    ASSUME NEW A, NEW B, NEW v, IsFiniteSet(A), IsFiniteSet(B), A \ {v} = B \ {v}
    PROVE  /\ Cardinality(A) \in Nat /\ Cardinality(B) \in Nat
           /\ Cardinality(B) = Cardinality(A) - One(v \in A) + One(v \in B)
  <1>1. /\ Cardinality(A) \in Nat /\ Cardinality(A \ {v}) \in Nat
        /\ Cardinality(A) = Cardinality(A \ {v}) + One(v \in A)
    BY CardSplit
  <1>2. /\ Cardinality(B) \in Nat
        /\ Cardinality(B) = Cardinality(B \ {v}) + One(v \in B)
    BY CardSplit
  <1>3. One(v \in A) \in Int /\ One(v \in B) \in Int
    BY DEF One
  <1>4. Cardinality(A \ {v}) = Cardinality(B \ {v})
    OBVIOUS
  <1>. QED
    BY <1>1, <1>2, <1>3, <1>4

\* The sets that are counted are finite.
LEMMA Finite ==
    /\ IsFiniteSet(Procs \X Five) /\ IsFiniteSet(Fds) /\ IsFiniteSet(1..NOFILE)
    /\ \A i : IsFiniteSet(Pointers(i)) /\ IsFiniteSet(FilesOf(i)) /\ IsFiniteSet(FdsOf(i))
  <1>1. IsFiniteSet(Procs) /\ NOFILE \in Nat
    BY FsAssumption
  <1>2. IsFiniteSet(Five)
    <2>1. IsFiniteSet({})
      BY FS_EmptySet
    <2>2. IsFiniteSet({} \cup {"cur"})
      BY <2>1, FS_AddElement
    <2>3. IsFiniteSet(({} \cup {"cur"}) \cup {"next"})
      BY <2>2, FS_AddElement
    <2>4. IsFiniteSet((({} \cup {"cur"}) \cup {"next"}) \cup {"ip"})
      BY <2>3, FS_AddElement
    <2>5. IsFiniteSet(((({} \cup {"cur"}) \cup {"next"}) \cup {"ip"}) \cup {"dp"})
      BY <2>4, FS_AddElement
    <2>6. IsFiniteSet((((({} \cup {"cur"}) \cup {"next"}) \cup {"ip"}) \cup {"dp"}) \cup {"put"})
      BY <2>5, FS_AddElement
    <2>7. Five = (((({} \cup {"cur"}) \cup {"next"}) \cup {"ip"}) \cup {"dp"}) \cup {"put"}
      BY DEF Five
    <2>. QED
      BY <2>6, <2>7
  <1>3. IsFiniteSet(1..NOFILE)
    BY <1>1, FS_Interval
  <1>4. IsFiniteSet(Procs \X Five) /\ IsFiniteSet(Fds)
    BY <1>1, <1>2, <1>3, FS_Product DEF Fds
  <1>5. \A i : Pointers(i) \in SUBSET (Procs \X Five) /\ FilesOf(i) \in SUBSET Files /\ FdsOf(i) \in SUBSET Fds
    BY DEF Pointers, FilesOf, FdsOf
  <1>6. IsFiniteSet(Files)
    BY Numbers
  <1>. QED
    BY <1>3, <1>4, <1>5, <1>6, FS_Subset

\* The pointers of one process among all
LEMMA Tally ==
    ASSUME NEW A, NEW p, IsFiniteSet(A)
    PROVE  LET c(x) == One(<<p, x>> \in A)
               B == A \ {<<p, x>> : x \in Five}
           IN  /\ Cardinality(A) \in Nat /\ Cardinality(B) \in Nat
               /\ Cardinality(A) = Cardinality(B) + (c("cur") + c("next") + c("ip") + c("dp") + c("put"))
  <1> DEFINE A1 == A \ {<<p, "cur">>}
             A2 == A1 \ {<<p, "next">>}
             A3 == A2 \ {<<p, "ip">>}
             A4 == A3 \ {<<p, "dp">>}
             A5 == A4 \ {<<p, "put">>}
             c(x) == One(<<p, x>> \in A)
  <1>1. /\ <<p, "next">> \in A1 <=> <<p, "next">> \in A
        /\ <<p, "ip">> \in A2 <=> <<p, "ip">> \in A
        /\ <<p, "dp">> \in A3 <=> <<p, "dp">> \in A
        /\ <<p, "put">> \in A4 <=> <<p, "put">> \in A
    OBVIOUS
  <1>2. A5 = A \ {<<p, x>> : x \in Five}
    <2>1. {<<p, x>> : x \in Five} = {<<p, "cur">>, <<p, "next">>, <<p, "ip">>, <<p, "dp">>, <<p, "put">>}
      BY DEF Five
    <2>. QED
      BY <2>1
  <1>3. /\ IsFiniteSet(A1) /\ Cardinality(A) \in Nat /\ Cardinality(A1) \in Nat
        /\ Cardinality(A) = Cardinality(A1) + One(<<p, "cur">> \in A)
    BY CardSplit
  <1>. HIDE DEF A1
  <1>4. IsFiniteSet(A2) /\ Cardinality(A2) \in Nat /\ Cardinality(A1) = Cardinality(A2) + One(<<p, "next">> \in A1)
    BY <1>3, CardSplit
  <1>. HIDE DEF A2
  <1>5. IsFiniteSet(A3) /\ Cardinality(A3) \in Nat /\ Cardinality(A2) = Cardinality(A3) + One(<<p, "ip">> \in A2)
    BY <1>4, CardSplit
  <1>. HIDE DEF A3
  <1>6. IsFiniteSet(A4) /\ Cardinality(A4) \in Nat /\ Cardinality(A3) = Cardinality(A4) + One(<<p, "dp">> \in A3)
    BY <1>5, CardSplit
  <1>. HIDE DEF A4
  <1>7. IsFiniteSet(A5) /\ Cardinality(A5) \in Nat /\ Cardinality(A4) = Cardinality(A5) + One(<<p, "put">> \in A4)
    BY <1>6, CardSplit
  <1>. HIDE DEF A5
  <1>8. /\ One(<<p, "next">> \in A1) = c("next") /\ One(<<p, "ip">> \in A2) = c("ip")
        /\ One(<<p, "dp">> \in A3) = c("dp") /\ One(<<p, "put">> \in A4) = c("put")
    BY <1>1 DEF One
  <1>9. c("cur") \in Int /\ c("next") \in Int /\ c("ip") \in Int /\ c("dp") \in Int /\ c("put") \in Int
    BY DEF One
  <1>10. One(<<p, "cur">> \in A) = c("cur")
    OBVIOUS
  <1>11. Cardinality(A) = Cardinality(A5) + (c("cur") + c("next") + c("ip") + c("dp") + c("put"))
    <2>. HIDE DEF c
    <2>. QED
      BY <1>3, <1>4, <1>5, <1>6, <1>7, <1>8, <1>9, <1>10
  <1>. QED
    BY <1>2, <1>3, <1>7, <1>11

\* When one process moves, the pointers change by those it had and has.
LEMMA PointersMove ==
    ASSUME NEW p \in Procs, NEW i,
           \A q \in Procs \ {p} : pr'[q] = pr[q]
    PROVE  /\ Cardinality(Pointers(i)) \in Nat /\ Cardinality(Pointers(i)') \in Nat
           /\ Cardinality(Pointers(i)') = Cardinality(Pointers(i)) - Count(pr[p], i) + Count(pr'[p], i)
  <1> DEFINE A == Pointers(i)
             A1 == {v \in Procs \X Five : pr'[v[1]][v[2]] = i}
             V == {<<p, x>> : x \in Five}
             s == pr[p]
             t == pr'[p]
  <1>1. IsFiniteSet(A) /\ IsFiniteSet(A1)
    <2>1. A1 \in SUBSET (Procs \X Five)
      OBVIOUS
    <2>. QED
      BY <2>1, Finite, FS_Subset
  <1>2. A \ V = A1 \ V
    <2>1. \A v \in (Procs \X Five) \ V : v[1] \in Procs \ {p}
      OBVIOUS
    <2>. QED
      BY <2>1 DEF Pointers
  <1>3. \A x \in Five : (<<p, x>> \in A <=> s[x] = i) /\ (<<p, x>> \in A1 <=> t[x] = i)
    BY DEF Pointers
  <1>4. /\ Cardinality(A) \in Nat /\ Cardinality(A \ V) \in Nat
        /\ Cardinality(A) = Cardinality(A \ V) + (One(<<p, "cur">> \in A) + One(<<p, "next">> \in A)
              + One(<<p, "ip">> \in A) + One(<<p, "dp">> \in A) + One(<<p, "put">> \in A))
    BY <1>1, Tally
  <1>5. /\ Cardinality(A1) \in Nat /\ Cardinality(A1 \ V) \in Nat
        /\ Cardinality(A1) = Cardinality(A1 \ V) + (One(<<p, "cur">> \in A1) + One(<<p, "next">> \in A1)
              + One(<<p, "ip">> \in A1) + One(<<p, "dp">> \in A1) + One(<<p, "put">> \in A1))
    BY <1>1, Tally
  <1>6. "cur" \in Five /\ "next" \in Five /\ "ip" \in Five /\ "dp" \in Five /\ "put" \in Five
    BY DEF Five
  <1>. HIDE DEF A, A1, V, s, t
  <1>7. /\ One(<<p, "cur">> \in A) + One(<<p, "next">> \in A)
              + One(<<p, "ip">> \in A) + One(<<p, "dp">> \in A) + One(<<p, "put">> \in A) = Count(s, i)
        /\ Count(s, i) \in Int
    BY <1>3, <1>6 DEF Count, One
  <1>8. /\ One(<<p, "cur">> \in A1) + One(<<p, "next">> \in A1)
              + One(<<p, "ip">> \in A1) + One(<<p, "dp">> \in A1) + One(<<p, "put">> \in A1) = Count(t, i)
        /\ Count(t, i) \in Int
    BY <1>3, <1>6 DEF Count, One
  <1>9. Cardinality(A1) = Cardinality(A) - Count(s, i) + Count(t, i)
    <2>1. Cardinality(A \ V) = Cardinality(A1 \ V)
      BY <1>2
    <2>. QED
      BY <1>4, <1>5, <1>7, <1>8, <2>1
  <1>10. A1 = Pointers(i)'
    BY DEF A1, Pointers
  <1>. QED
    BY <1>4, <1>5, <1>9, <1>10 DEF A, s, t
-----------------------------------------------------------------------------
(* The operations on the cache, and on a process *)

\* iget counts one more; the locks count nothing.
LEMMA CacheOps ==
    ASSUME NEW f \in [Inums -> Entries], NEW i \in Inums, NEW p \in Procs
    PROVE  /\ iget(f, i) \in [Inums -> Entries] /\ Visited(f, i) \in [Inums -> Entries]
           /\ Locked(f, i, p) \in [Inums -> Entries] /\ Unlocked(f, i) \in [Inums -> Entries]
           /\ \A j \in Inums : /\ iget(f, i)[j].ref = f[j].ref + One(j = i)
                               /\ Visited(f, i)[j].ref = f[j].ref
                               /\ Locked(f, i, p)[j].ref = f[j].ref
                               /\ Unlocked(f, i)[j].ref = f[j].ref
                               /\ f[j].ref \in Int
  <1> DEFINE x == [f[i] EXCEPT !.ref = @ + 1, !.valid = @ /\ f[i].ref > 0]
             y == [f[i] EXCEPT !.valid = TRUE]
             z == [f[i] EXCEPT !.valid = TRUE, !.owner = p]
             w == [f[i] EXCEPT !.owner = NoProc]
             O == Procs \cup {NoProc}
  <1>1. f[i] \in Entries /\ f[i].ref \in Int /\ \A j \in Inums : f[j] \in Entries /\ f[j].ref \in Int
    BY DEF Entries
  <1>2. Entries = [ref : Int, valid : BOOLEAN, owner : O] /\ p \in O /\ NoProc \in O
    BY DEF Entries
  <1>. HIDE DEF O
  <1>3. x \in Entries /\ x.ref = f[i].ref + 1
    <2>1. f[i].ref + 1 \in Int /\ (f[i].valid /\ f[i].ref > 0) \in BOOLEAN
      BY <1>1
    <2>. QED
      BY <1>1, <1>2, <2>1
  <1>4. y \in Entries /\ y.ref = f[i].ref
    BY <1>1, <1>2
  <1>5. z \in Entries /\ z.ref = f[i].ref
    BY <1>1, <1>2
  <1>6. w \in Entries /\ w.ref = f[i].ref
    BY <1>1, <1>2
  <1>7. /\ iget(f, i) = [f EXCEPT ![i] = x] /\ Visited(f, i) = [f EXCEPT ![i] = y]
        /\ Locked(f, i, p) = [f EXCEPT ![i] = z] /\ Unlocked(f, i) = [f EXCEPT ![i] = w]
    BY DEF iget, Visited, Locked, Unlocked
  <1>. HIDE DEF x, y, z, w
  <1>8. ASSUME NEW e \in Entries PROVE /\ [f EXCEPT ![i] = e] \in [Inums -> Entries]
                                       /\ \A j \in Inums : [f EXCEPT ![i] = e][j] = IF j = i THEN e ELSE f[j]
    BY <1>8
  <1>9. iget(f, i) \in [Inums -> Entries] /\ \A j \in Inums : iget(f, i)[j].ref = f[j].ref + One(j = i)
    <2>1. \A j \in Inums : iget(f, i)[j] = IF j = i THEN x ELSE f[j]
      BY <1>3, <1>7, <1>8
    <2>2. \A j \in Inums : iget(f, i)[j].ref = f[j].ref + One(j = i)
      BY <1>1, <1>3, <2>1 DEF One
    <2>. QED
      BY <1>3, <1>7, <1>8, <2>2
  <1>10. Visited(f, i) \in [Inums -> Entries] /\ \A j \in Inums : Visited(f, i)[j].ref = f[j].ref
    BY <1>4, <1>7, <1>8
  <1>11. Locked(f, i, p) \in [Inums -> Entries] /\ \A j \in Inums : Locked(f, i, p)[j].ref = f[j].ref
    BY <1>5, <1>7, <1>8
  <1>12. Unlocked(f, i) \in [Inums -> Entries] /\ \A j \in Inums : Unlocked(f, i)[j].ref = f[j].ref
    BY <1>6, <1>7, <1>8
  <1>. QED
    BY <1>1, <1>9, <1>10, <1>11, <1>12

\* The variables of a process
Fields == {"pc", "call", "cur", "rest", "next", "ip", "dp", "put", "after", "file", "n"}

\* A record of them
LEMMA ThreadFields ==
    ASSUME NEW r
    PROVE  r \in Threads <=> /\ r = [x \in Fields |-> r[x]]
                             /\ r.pc \in Pcs /\ r.call \in Calls /\ r.cur \in Refs /\ r.rest \in Seq(Names)
                             /\ r.next \in Refs /\ r.ip \in Refs /\ r.dp \in Refs /\ r.put \in Refs
                             /\ r.after \in Afters /\ r.file \in Files \cup {None} /\ r.n \in Int
  <1> DEFINE F == Files \cup {None}
             S == Seq(Names)
  <1>. HIDE DEF F, S
  <1>1. Threads = [pc : Pcs, call : Calls, cur : Refs, rest : S, next : Refs, ip : Refs, dp : Refs,
                   put : Refs, after : Afters, file : F, n : Int]
    BY DEF Threads, F, S
  <1>2. ASSUME r \in Threads
        PROVE  /\ r = [x \in Fields |-> r[x]]
               /\ r.pc \in Pcs /\ r.call \in Calls /\ r.cur \in Refs /\ r.rest \in S
               /\ r.next \in Refs /\ r.ip \in Refs /\ r.dp \in Refs /\ r.put \in Refs
               /\ r.after \in Afters /\ r.file \in F /\ r.n \in Int
    BY <1>1, <1>2 DEF Fields
  <1>3. ASSUME /\ r = [x \in Fields |-> r[x]]
               /\ r.pc \in Pcs /\ r.call \in Calls /\ r.cur \in Refs /\ r.rest \in S
               /\ r.next \in Refs /\ r.ip \in Refs /\ r.dp \in Refs /\ r.put \in Refs
               /\ r.after \in Afters /\ r.file \in F /\ r.n \in Int
        PROVE  r \in Threads
    BY <1>1, <1>3 DEF Fields
  <1>. QED
    BY <1>2, <1>3 DEF F, S

\* The value of a variable after With
LEMMA WithFields ==
    ASSUME NEW r \in Threads, NEW s
    PROVE  LET new(x) == IF x \in DOMAIN s THEN s[x] ELSE r[x]
           IN  /\ With(r, s) = [x \in Fields |-> With(r, s)[x]]
               /\ \A x \in Fields : With(r, s)[x] = new(x)
  <1>1. DOMAIN r = Fields
    BY ThreadFields DEF Fields
  <1>. QED
    BY <1>1 DEF With

\* What Goto does
LEMMA Goes ==
    ASSUME pr \in [Procs -> Threads], NEW p \in Procs, NEW s, Goto(p, s)
    PROVE  /\ \A q \in Procs \ {p} : pr'[q] = pr[q]
           /\ pr'[p] = [x \in Fields |-> pr'[p][x]]
           /\ \A x \in Fields : pr'[p][x] = IF x \in DOMAIN s THEN s[x] ELSE pr[p][x]
           /\ pr'[p] \in Threads => pr' \in [Procs -> Threads]
  <1>1. pr' = [pr EXCEPT ![p] = With(pr[p], s)] /\ pr[p] \in Threads
    BY DEF Goto
  <1>2. pr'[p] = With(pr[p], s)
    BY <1>1
  <1>3. /\ With(pr[p], s) = [x \in Fields |-> With(pr[p], s)[x]]
        /\ \A x \in Fields : With(pr[p], s)[x] = IF x \in DOMAIN s THEN s[x] ELSE pr[p][x]
    BY <1>1, WithFields
  <1>4. \A q \in Procs \ {p} : pr'[q] = pr[q]
    BY <1>1
  <1>5. pr'[p] \in Threads => pr' \in [Procs -> Threads]
    BY <1>1
  <1>. QED
    BY <1>2, <1>3, <1>4, <1>5

\* The variables of a call, apart from the call itself and what it does at files
Vars(r, pc, cur, rest, next, ip, dp, put, after) ==
    /\ r.pc = pc /\ r.cur = cur /\ r.rest = rest /\ r.next = next
    /\ r.ip = ip /\ r.dp = dp /\ r.put = put /\ r.after = after

\* A process goes on in its call.
Moves(p) ==
    /\ pr' \in [Procs -> Threads] /\ \A q \in Procs \ {p} : pr'[q] = pr[q]
    /\ Placed(pr'[p])

\* Its variables are what they should be.
LEMMA Moved ==
    ASSUME pr \in [Procs -> Threads], NEW p \in Procs, NEW s, Goto(p, s), DOMAIN s \cap {"file", "n", "call"} = {},
           NEW pc \in Pcs, NEW cur \in Refs, NEW rest \in Seq(Names), NEW next \in Refs, NEW ip \in Refs,
           NEW dp \in Refs, NEW put \in Refs, NEW after \in Afters,
           Vars(pr'[p], pc, cur, rest, next, ip, dp, put, after)
    PROVE  /\ pr' \in [Procs -> Threads] /\ \A q \in Procs \ {p} : pr'[q] = pr[q]
           /\ pr'[p].call = pr[p].call /\ pr'[p].file = pr[p].file /\ pr'[p].n = pr[p].n
  <1>1. pr[p] \in Threads
    OBVIOUS
  <1>2. /\ pr'[p] = [x \in Fields |-> pr'[p][x]]
        /\ \A x \in Fields : pr'[p][x] = IF x \in DOMAIN s THEN s[x] ELSE pr[p][x]
        /\ \A q \in Procs \ {p} : pr'[q] = pr[q]
        /\ pr'[p] \in Threads => pr' \in [Procs -> Threads]
    BY Goes
  <1>3. "file" \in Fields /\ "n" \in Fields /\ "call" \in Fields
    BY DEF Fields
  <1>4. pr'[p].call = pr[p].call /\ pr'[p].file = pr[p].file /\ pr'[p].n = pr[p].n
    BY <1>2, <1>3
  <1>5. pr[p].call \in Calls /\ pr[p].file \in Files \cup {None} /\ pr[p].n \in Int
    BY <1>1, ThreadFields
  <1>6. pr'[p] \in Threads
    BY <1>2, <1>4, <1>5, ThreadFields DEF Vars
  <1>. QED
    BY <1>2, <1>4, <1>6

\* A step of a call that leaves the files, the pipe and the durable disk alone:
\* the references change with the pointers of the process.
InodeStep(p) ==
    /\ Moves(p)
    /\ pr[p].file = None /\ pr'[p].file = None
    /\ pr[p].pc \notin {"pipeclose", "read", "write"} /\ pr'[p].pc \notin {"pipeclose", "read", "write"}
    /\ ic' \in [Inums -> Entries]
    /\ \A i \in Inums : ic'[i].ref = ic[i].ref - Count(pr[p], i) + Count(pr'[p], i)
    /\ Good(fs')
    /\ DOMAIN todo' = Procs /\ \A q \in Procs : todo'[q] \subseteq prog.todo[q]
    /\ UNCHANGED <<prog, durable, ftable, ofile, pipe>>

\* The names a call gives
LEMMA CallNames ==
    ASSUME NEW call \in Calls
    PROVE  /\ call.c \in PathCalls => call.path \in Seq(Names) /\ call.path # <<>> /\ Last(call.path) \in Names
           /\ call.c = "link" => call.new \in Seq(Names) /\ call.new # <<>> /\ Last(call.new) \in Names
           /\ call.c \in {"dup", "close", "read", "write"} => call.fd \in 1..NOFILE
           /\ call.c \in {"read", "write"} => call.n \in Nat
  <1>1. \A s \in Seq(Names) : s # <<>> => Last(s) \in Names
    BY DEF Last
  <1>2. call = Idle.call \/ WellFormed(call)
    BY DEF Calls
  <1>3. Idle.call.c = "none"
    BY DEF Idle
  <1>. QED
    BY <1>1, <1>2, <1>3 DEF WellFormed, PathCalls, IsPath

\* A step of a call that may move the offset of a file, too, and start a read or
\* a write
SameFiles ==
    /\ ftable' \in [Files -> OpenFiles]
    /\ \A f \in Files : /\ ftable'[f].ref = ftable[f].ref /\ ftable'[f].type = ftable[f].type
                        /\ ftable'[f].ip = ftable[f].ip /\ ftable'[f].writable = ftable[f].writable
                        /\ ftable[f].ref = 0 => ftable'[f] = ftable[f]
AtFile(r, q) ==
    r.pc \in {"read", "write"} => ofile[q][r.call.fd] # None /\ ftable[ofile[q][r.call.fd]].type = "INODE"
CallStep(p) ==
    /\ Moves(p)
    /\ pr[p].file = None /\ pr'[p].file = None
    /\ pr[p].pc # "pipeclose" /\ pr'[p].pc # "pipeclose" /\ AtFile(pr'[p], p)
    /\ ic' \in [Inums -> Entries]
    /\ \A i \in Inums : ic'[i].ref = ic[i].ref - Count(pr[p], i) + Count(pr'[p], i)
    /\ Good(fs') /\ SameFiles
    /\ DOMAIN todo' = Procs /\ \A q \in Procs : todo'[q] \subseteq prog.todo[q]
    /\ durable' \in {durable, fs}
    /\ UNCHANGED <<prog, ofile, pipe>>

\* A process that reads or writes has its file, at every step.
LEMMA Reading ==
    ASSUME Inv, NEW q \in Procs
    PROVE  /\ AtFile(pr[q], q)
           /\ pr[q].pc \in {"read", "write"} =>
                /\ pr[q].call.fd \in 1..NOFILE /\ ofile[q][pr[q].call.fd] \in Files
                /\ ftable[ofile[q][pr[q].call.fd]].type = "INODE"
                /\ ftable[ofile[q][pr[q].call.fd]].ip \in Inums
                /\ ftable[ofile[q][pr[q].call.fd]].ref # 0
  <1>1. AtFile(pr[q], q)
    BY DEF Inv, Pointing, Tables, AtFile
  <1>2. ASSUME pr[q].pc \in {"read", "write"}
        PROVE  /\ pr[q].call.fd \in 1..NOFILE /\ ofile[q][pr[q].call.fd] \in Files
               /\ ftable[ofile[q][pr[q].call.fd]].type = "INODE"
               /\ ftable[ofile[q][pr[q].call.fd]].ip \in Inums
               /\ ftable[ofile[q][pr[q].call.fd]].ref # 0
    <2>1. pr[q].call \in Calls /\ Placed(pr[q])
      BY DEF Inv, Types, Pointing, Threads
    <2>2. pr[q].call.c \in {"read", "write"}
      BY <1>2, <2>1 DEF Placed
    <2>3. pr[q].call.fd \in 1..NOFILE
      BY <2>1, <2>2, CallNames
    <2> DEFINE f == ofile[q][pr[q].call.fd]
    <2>4. f \in Files /\ ftable[f].type = "INODE"
      <3>1. f \in Files \cup {None}
        BY <2>3 DEF Inv, Types
      <3>. QED
        BY <1>1, <1>2, <3>1 DEF AtFile
    <2>5. ftable[f].ip # None /\ ftable[f].ip \in Refs /\ (ftable[f].ref = 0 => ftable[f] = NoFile)
      BY <2>4 DEF Inv, Types, OpenFiles, Pointing, Tables
    <2>6. NoFile.type # "INODE"
      BY DEF NoFile
    <2>. QED
      BY <2>3, <2>4, <2>5, <2>6 DEF Refs
  <1>. QED
    BY <1>1, <1>2

\* Such a step keeps the invariant.
LEMMA CallStepKeeps ==
    ASSUME Inv, NEW p \in Procs, CallStep(p)
    PROVE  Inv'
  <1>1. Types'
    BY DEF Inv, Types, CallStep, Moves, Good, SameFiles
  <1>2. (\A q \in Procs : Placed(pr[q]))'
    BY DEF Inv, Pointing, CallStep, Moves
  <1>3. Exact'
    <2>1. ASSUME NEW i \in Inums PROVE ic'[i].ref = Cardinality(FilesOf(i)') + Cardinality(Pointers(i)')
      <3>1. FilesOf(i)' = FilesOf(i)
        BY DEF FilesOf, CallStep, SameFiles
      <3>2. /\ Cardinality(Pointers(i)) \in Nat /\ Cardinality(Pointers(i)') \in Nat
            /\ Cardinality(Pointers(i)') = Cardinality(Pointers(i)) - Count(pr[p], i) + Count(pr'[p], i)
        BY PointersMove DEF CallStep, Moves
      <3>3. Count(pr[p], i) \in Int /\ Count(pr'[p], i) \in Int
        BY DEF Count, One
      <3>4. IsFiniteSet(FilesOf(i))
        BY Finite
      <3>5. Cardinality(FilesOf(i)) \in Nat
        BY <3>4, FS_CardinalityType
      <3>6. ic[i].ref = Cardinality(FilesOf(i)) + Cardinality(Pointers(i))
        BY DEF Inv, Pointing, Exact
      <3>7. ic'[i].ref = ic[i].ref - Count(pr[p], i) + Count(pr'[p], i)
        BY DEF CallStep
      <3>8. ic'[i].ref = Cardinality(FilesOf(i)) + Cardinality(Pointers(i)')
        BY <3>2, <3>3, <3>5, <3>6, <3>7
      <3>. QED
        BY <3>1, <3>8
    <2>2. ASSUME NEW f \in Files PROVE ftable'[f].ref = Cardinality(FdsOf(f)')
      <3>1. FdsOf(f)' = FdsOf(f) /\ ftable'[f].ref = ftable[f].ref
        BY DEF FdsOf, CallStep, SameFiles
      <3>2. ftable[f].ref = Cardinality(FdsOf(f))
        BY DEF Inv, Pointing, Exact
      <3>. QED
        BY <3>1, <3>2
    <2>. QED
      BY <2>1, <2>2 DEF Exact
  <1>4. \A q \in Procs : pr'[q].file = pr[q].file
    BY DEF CallStep, Moves
  <1>5. Tables'
    <2>1. Tables /\ SameFiles /\ ofile' = ofile
      BY DEF Inv, Pointing, CallStep
    <2>2. ASSUME NEW f \in Files
          PROVE  /\ ftable'[f].ref = 0 => ftable'[f] = NoFile
                 /\ ftable'[f].type = "INODE" <=> ftable'[f].ip # None
                 /\ (ftable'[f].ref # 0 /\ ftable'[f].type = "NONE") => \E q \in Procs : pr'[q].file = f
      BY <1>4, <2>1 DEF Tables, SameFiles
    <2>3. \A q \in Procs : pr[q].file \in Files \cup {None}
      BY DEF Inv, Types, Threads
    <2>4. ASSUME NEW q \in Procs, pr'[q].file # None
          PROVE  /\ ftable'[pr'[q].file].type = "NONE" /\ ftable'[pr'[q].file].ref # 0
                 /\ \A o \in Procs : \A d \in 1..NOFILE : ofile'[o][d] = pr'[q].file => o = q
      BY <1>4, <2>1, <2>3, <2>4 DEF Tables, SameFiles
    <2>5. \A q, o \in Procs : pr'[q].file # None /\ pr'[q].file = pr'[o].file => q = o
      BY <1>4, <2>1 DEF Tables
    <2>6. ASSUME NEW q \in Procs, pr'[q].pc \in {"read", "write"}
          PROVE  ofile'[q][pr'[q].call.fd] # None /\ ftable'[ofile'[q][pr'[q].call.fd]].type = "INODE"
      <3>1. AtFile(pr'[q], q)
        BY Reading DEF CallStep, Moves
      <3>2. pr'[q] \in Threads /\ Placed(pr'[q])
        BY <1>2 DEF CallStep, Moves
      <3>3. pr'[q].call.fd \in 1..NOFILE
        <4>1. pr'[q].call.c \in {"read", "write"} /\ pr'[q].call \in Calls
          BY <2>6, <3>2, ThreadFields DEF Placed
        <4>. QED
          BY <4>1, CallNames
      <3>4. ofile[q][pr'[q].call.fd] \in Files
        <4>1. ofile[q] \in [1..NOFILE -> Files \cup {None}]
          BY DEF Inv, Types
        <4>2. ofile[q][pr'[q].call.fd] \in Files \cup {None}
          BY <3>3, <4>1
        <4>. QED
          BY <2>6, <3>1, <4>2 DEF AtFile
      <3>. QED
        BY <2>1, <2>6, <3>1, <3>4 DEF AtFile, SameFiles
    <2>. QED
      BY <2>2, <2>4, <2>5, <2>6 DEF Tables
  <1>6. \A end : Closing(end)' = Closing(end)
    BY DEF Closing, CallStep, Moves
  <1>7. Piped'
    <2>1. Piped /\ SameFiles /\ pipe' = pipe
      BY DEF Inv, CallStep
    <2>2. \A f \in Files, e \in {"readopen", "writeopen"} : IsEnd(f, e)' = IsEnd(f, e)
      BY <2>1 DEF IsEnd, SameFiles
    <2>3. \A e : EndOpen(e)' = EndOpen(e)
      BY <2>1 DEF EndOpen
    <2>. QED
      BY <1>6, <2>1, <2>2, <2>3 DEF Piped
  <1>8. Bitmap(fs') /\ Bitmap(durable')
    BY DEF Inv, CallStep, Good
  <1>. QED
    BY <1>1, <1>2, <1>3, <1>5, <1>7, <1>8 DEF Inv, Pointing

\* The first kind of step is one of the second.
LEMMA InodeStepIsCallStep ==
    ASSUME Inv, NEW p \in Procs, InodeStep(p)
    PROVE  CallStep(p)
  <1>1. SameFiles
    BY DEF Inv, Types, InodeStep, SameFiles
  <1>2. AtFile(pr'[p], p)
    BY DEF InodeStep, AtFile
  <1>. QED
    BY <1>1, <1>2 DEF InodeStep, CallStep
-----------------------------------------------------------------------------
(* The steps of the calls on paths *)

\* What the invariant says of one process
LEMMA Facts ==
    ASSUME Inv, NEW p \in Procs
    PROVE  /\ pr \in [Procs -> Threads] /\ pr[p] \in Threads /\ Placed(pr[p])
           /\ pr[p].cur \in Refs /\ pr[p].next \in Refs /\ pr[p].ip \in Refs
           /\ pr[p].dp \in Refs /\ pr[p].put \in Refs /\ pr[p].rest \in Seq(Names)
           /\ pr[p].after \in Afters /\ pr[p].pc \in Pcs /\ pr[p].call \in Calls
           /\ pr[p].file \in Files \cup {None} /\ pr[p].n \in Int
           /\ ic \in [Inums -> Entries] /\ Good(fs) /\ fs \in Disks
           /\ DOMAIN todo = Procs /\ \A q \in Procs : todo[q] \subseteq prog.todo[q]
           /\ \A i \in Inums : ic[i].ref \in Int
  <1>1. pr \in [Procs -> Threads] /\ pr[p] \in Threads
    BY DEF Inv, Types
  <1>2. /\ pr[p].cur \in Refs /\ pr[p].next \in Refs /\ pr[p].ip \in Refs
        /\ pr[p].dp \in Refs /\ pr[p].put \in Refs /\ pr[p].rest \in Seq(Names)
        /\ pr[p].after \in Afters /\ pr[p].pc \in Pcs /\ pr[p].call \in Calls
        /\ pr[p].file \in Files \cup {None} /\ pr[p].n \in Int
    BY <1>1, ThreadFields
  <1>3. ic \in [Inums -> Entries] /\ \A i \in Inums : ic[i].ref \in Int
    BY DEF Inv, Types, Entries
  <1>. QED
    BY <1>1, <1>2, <1>3 DEF Inv, Types, Pointing, Good

\* Paths
LEMMA Paths ==
    ASSUME NEW s \in Seq(Names), s # <<>>
    PROVE  /\ Head(s) \in Names
           /\ Len(s) > 1 => Tail(s) \in Seq(Names) /\ Tail(s) # <<>>
           /\ ~(Len(s) > 1) => Len(s) = 1
  <1>1. Len(s) \in Nat /\ Len(s) # 0 /\ Head(s) \in Names
    OBVIOUS
  <1>2. Tail(s) \in Seq(Names) /\ Len(Tail(s)) = Len(s) - 1
    OBVIOUS
  <1>3. Len(s) > 1 => Len(Tail(s)) # 0
    BY <1>1, <1>2
  <1>4. Len(<<>>) = 0
    OBVIOUS
  <1>5. Len(s) > 1 => Tail(s) # <<>>
    BY <1>3, <1>4
  <1>. QED
    BY <1>1, <1>2, <1>5

\* A reference dropped
LEMMA DropOp ==
    ASSUME NEW f \in [Inums -> Entries], NEW i \in Inums
    PROVE  /\ [f EXCEPT ![i].ref = @ - 1] \in [Inums -> Entries]
           /\ \A j \in Inums : [f EXCEPT ![i].ref = @ - 1][j].ref = f[j].ref - One(j = i)
  <1> DEFINE x == [f[i] EXCEPT !.ref = @ - 1]
             g == [f EXCEPT ![i].ref = @ - 1]
             O == Procs \cup {NoProc}
  <1>1. f[i] \in Entries /\ \A j \in Inums : f[j] \in Entries /\ f[j].ref \in Int
    BY DEF Entries
  <1>2. Entries = [ref : Int, valid : BOOLEAN, owner : O]
    BY DEF Entries
  <1>. HIDE DEF O
  <1>3. x \in Entries /\ x.ref = f[i].ref - 1
    <2>1. f[i].ref - 1 \in Int
      BY <1>1
    <2>. QED
      BY <1>1, <1>2, <2>1
  <1>4. g = [f EXCEPT ![i] = x]
    OBVIOUS
  <1>. HIDE DEF x
  <1>5. g \in [Inums -> Entries] /\ \A j \in Inums : g[j] = IF j = i THEN x ELSE f[j]
    BY <1>3, <1>4
  <1>6. \A j \in Inums : g[j].ref = f[j].ref - One(j = i)
    BY <1>1, <1>3, <1>5 DEF One
  <1>. QED
    BY <1>5, <1>6

\* A step that stops with a panic
Stopped == UNCHANGED <<prog, todo, fs, durable, ic, ftable, ofile, pr, pipe>>

\* It changes nothing the invariant is about.
LEMMA StoppedKeeps == Inv /\ Stopped => Inv'
  <1>. SUFFICES ASSUME Inv, Stopped PROVE Inv'
    OBVIOUS
  <1>1. /\ prog' = prog /\ todo' = todo /\ fs' = fs /\ durable' = durable /\ ic' = ic /\ ftable' = ftable
        /\ ofile' = ofile /\ pr' = pr /\ pipe' = pipe
    BY DEF Stopped
  <1>2. Types'
    BY <1>1 DEF Inv, Types
  <1>3. Bitmap(fs') /\ Bitmap(durable')
    BY <1>1 DEF Inv
  <1>4. Exact' /\ Tables'
    <2>1. \A i : FilesOf(i)' = FilesOf(i) /\ Pointers(i)' = Pointers(i) /\ FdsOf(i)' = FdsOf(i)
      BY <1>1 DEF FilesOf, Pointers, FdsOf
    <2>2. Exact'
      BY <1>1, <2>1 DEF Inv, Pointing, Exact
    <2>3. Tables'
      BY <1>1 DEF Inv, Pointing, Tables
    <2>. QED
      BY <2>2, <2>3
  <1>5. Piped'
    <2>1. \A e : Closing(e)' = Closing(e) /\ EndOpen(e)' = EndOpen(e) /\ \A f : IsEnd(f, e)' = IsEnd(f, e)
      BY <1>1 DEF Closing, EndOpen, IsEnd
    <2>. QED
      BY <1>1, <2>1 DEF Inv, Piped
  <1>. QED
    BY <1>1, <1>2, <1>3, <1>4, <1>5 DEF Inv, Pointing

\* What Goto makes of each variable
LEMMA GoesTo ==
    ASSUME pr \in [Procs -> Threads], NEW p \in Procs, NEW s, Goto(p, s)
    PROVE  LET new(x) == IF x \in DOMAIN s THEN s[x] ELSE pr[p][x]
           IN  /\ Vars(pr'[p], new("pc"), new("cur"), new("rest"), new("next"), new("ip"), new("dp"), new("put"), new("after"))
               /\ pr'[p].call = new("call") /\ pr'[p].file = new("file") /\ pr'[p].n = new("n")
  <1>1. \A x \in Fields : pr'[p][x] = IF x \in DOMAIN s THEN s[x] ELSE pr[p][x]
    BY Goes
  <1>. QED
    BY <1>1 DEF Fields, Vars

\* iput
LEMMA iputKeeps ==
    ASSUME Inv, NEW p \in Procs, iput(p)
    PROVE  InodeStep(p) \/ Stopped
  <1> DEFINE i == pr[p].put
             r == pr[p]
             t == pr'[p]
  <1>1. CASE MustFree(i) /\ ~(BlocksOf(fs, i) \subseteq fs.used)
    BY <1>1 DEF iput, Panic, Stopped, Same, Going
  <1>2. CASE ~(MustFree(i) /\ ~(BlocksOf(fs, i) \subseteq fs.used))
    <2>1. /\ Goto(p, [pc |-> "drop"]) /\ OnlyInodes /\ Same /\ r.pc = "iput"
          /\ IF MustFree(i)
             THEN /\ fs' = [itrunc(fs, i) EXCEPT !.di[i] = FreeInode]
                  /\ ic' = [ic EXCEPT ![i].valid = FALSE]
             ELSE UNCHANGED <<fs, ic>>
      BY <1>2 DEF iput, At
    <2>2. Vars(t, "drop", r.cur, r.rest, r.next, r.ip, r.dp, r.put, r.after)
      BY <2>1, Facts, GoesTo
    <2>3. Moves(p) /\ t.call = r.call /\ t.file = r.file /\ t.n = r.n /\ r.file = None
      <3>1. "drop" \in Pcs /\ DOMAIN [pc |-> "drop"] \cap {"file", "n", "call"} = {}
        BY DEF Pcs
      <3>2. /\ pr' \in [Procs -> Threads] /\ \A q \in Procs \ {p} : pr'[q] = pr[q]
            /\ t.call = r.call /\ t.file = r.file /\ t.n = r.n
        BY <2>1, <2>2, <3>1, Facts, Moved
      <3>3. Placed(r)
        BY Facts
      <3>. HIDE DEF r, t
      <3>4. Placed(t)
        BY <2>1, <2>2, <3>2, <3>3 DEF Placed, Place, Vars
      <3>5. r.file = None
        BY <2>1, <3>3 DEF Placed
      <3>. QED
        BY <3>2, <3>4, <3>5 DEF Moves, t, r
    <2>4. i \in Inums
      BY <2>1, Facts DEF Placed, Refs
    <2>5. ic' \in [Inums -> Entries] /\ \A j \in Inums : ic'[j].ref = ic[j].ref
      <3>1. ic \in [Inums -> Entries]
        BY Facts
      <3>2. CASE MustFree(i)
        <4>1. ic' = [ic EXCEPT ![i].valid = FALSE]
          BY <2>1, <3>2
        <4>. HIDE DEF i
        <4>. QED
          BY <2>4, <3>1, <4>1 DEF Entries
      <3>3. CASE ~MustFree(i)
        BY <2>1, <3>1, <3>3
      <3>. QED
        BY <3>2, <3>3
    <2>6. Good(fs')
      BY <2>1, <2>4, Facts, FreedKeeps DEF Good
    <2>7. \A j : Count(t, j) = Count(r, j)
      BY <2>2 DEF Count, Vars
    <2>8. \A j \in Inums : ic'[j].ref = ic[j].ref - Count(r, j) + Count(t, j)
      <3>1. \A j : Count(r, j) \in Int
        BY DEF Count, One
      <3>. QED
        BY <2>5, <2>7, <3>1, Facts
    <2>. QED
      BY <2>1, <2>2, <2>3, <2>5, <2>6, <2>8, Facts DEF InodeStep, OnlyInodes, Same, Going, Vars
  <1>. QED
    BY <1>1, <1>2

\* iunlockput
LEMMA UnlockPutKeeps ==
    ASSUME Inv, NEW p \in Procs, UnlockPut(p)
    PROVE  InodeStep(p) \/ Stopped
  <1> DEFINE r == pr[p]
             t == pr'[p]
  <1>1. /\ r.pc = "unlockput" /\ Goto(p, [pc |-> "iput", put |-> r.ip, ip |-> None, after |-> "end"])
        /\ ic' = Unlocked(ic, r.ip) /\ fs' = fs /\ OnlyInodes /\ Same
    BY DEF UnlockPut, At
  <1>2. Vars(t, "iput", r.cur, r.rest, r.next, None, r.dp, r.ip, "end")
    BY <1>1, Facts, GoesTo
  <1>3. /\ r.file = None /\ r.n = 0 /\ Placed(r) /\ r.call \in Calls /\ r.after \in Afters
        /\ r.ip \in Inums
        /\ r.put = None
    <2>1. r.pc = "unlockput" /\ Placed(r) /\ r.call \in Calls /\ r.cur \in Refs /\ r.next \in Refs /\ r.ip \in Refs /\ r.dp \in Refs /\ r.put \in Refs /\ r.after \in Afters
      BY <1>1, Facts
    <2>. HIDE DEF r
    <2>. QED
      BY <2>1 DEF Placed, Place, Refs, Walking, WithParent, WithInode, OfLink
  <1>4. /\ pr' \in [Procs -> Threads] /\ \A q \in Procs \ {p} : pr'[q] = pr[q]
        /\ t.call = r.call /\ t.file = r.file /\ t.n = r.n
    <2>1. "iput" \in Pcs /\ None \in Refs /\ r.ip \in Refs /\ "end" \in Afters
      BY <1>1, <1>3, Facts, Numbers DEF Pcs, Afters, InPipe
    <2>2. DOMAIN [pc |-> "iput", put |-> r.ip, ip |-> None, after |-> "end"] \cap {"file", "n", "call"} = {}
      OBVIOUS
    <2>. QED
      BY <1>1, <1>2, <2>1, <2>2, Facts, Moved
  <1>5. Placed(t) /\ t.pc \notin {"pipeclose", "read", "write"}
    <2>. HIDE DEF r, t
    <2>. QED
      BY <1>1, <1>2, <1>3, <1>4, Numbers DEF Placed, Place, Vars, Walking, WithParent, WithInode, OfLink, PathCalls, Afters
  <1>6. ic' \in [Inums -> Entries] /\ \A j \in Inums : ic'[j].ref = ic[j].ref
    BY <1>1, <1>3, Facts, CacheOps
  <1>7. \A j \in Inums : ic'[j].ref = ic[j].ref - Count(r, j) + Count(t, j)
    <2>1. \A j \in Inums : ic[j].ref \in Int /\ j # None
      BY Facts, Numbers
    <2>. HIDE DEF r, t
    <2>. QED
      BY <1>2, <1>3, <1>6, <2>1 DEF Count, One, Vars
  <1>8. Good(fs')
    BY <1>1, <1>3, Facts
  <1>. QED
    BY <1>1, <1>2, <1>3, <1>4, <1>5, <1>6, <1>7, <1>8, Facts DEF InodeStep, Moves, OnlyInodes, Same, Going, Vars


\* link, once its name is entered
LEMMA LinkedKeeps ==
    ASSUME Inv, NEW p \in Procs, Linked(p)
    PROVE  InodeStep(p) \/ Stopped
  <1> DEFINE r == pr[p]
             t == pr'[p]
  <1>1. /\ r.pc = "linked" /\ Goto(p, [pc |-> "iput", put |-> r.ip, ip |-> None, after |-> "end"])
        /\ ic' = ic /\ fs' = fs /\ OnlyInodes /\ Same
    BY DEF Linked, At
  <1>2. Vars(t, "iput", r.cur, r.rest, r.next, None, r.dp, r.ip, "end")
    BY <1>1, Facts, GoesTo
  <1>3. /\ r.file = None /\ r.n = 0 /\ Placed(r) /\ r.call \in Calls /\ r.after \in Afters
        /\ r.ip \in Inums
        /\ r.put = None
    <2>1. r.pc = "linked" /\ Placed(r) /\ r.call \in Calls /\ r.cur \in Refs /\ r.next \in Refs /\ r.ip \in Refs /\ r.dp \in Refs /\ r.put \in Refs /\ r.after \in Afters
      BY <1>1, Facts
    <2>. HIDE DEF r
    <2>. QED
      BY <2>1 DEF Placed, Place, Refs, Walking, WithParent, WithInode, OfLink
  <1>4. /\ pr' \in [Procs -> Threads] /\ \A q \in Procs \ {p} : pr'[q] = pr[q]
        /\ t.call = r.call /\ t.file = r.file /\ t.n = r.n
    <2>1. "iput" \in Pcs /\ None \in Refs /\ r.ip \in Refs /\ "end" \in Afters
      BY <1>1, <1>3, Facts, Numbers DEF Pcs, Afters, InPipe
    <2>2. DOMAIN [pc |-> "iput", put |-> r.ip, ip |-> None, after |-> "end"] \cap {"file", "n", "call"} = {}
      OBVIOUS
    <2>. QED
      BY <1>1, <1>2, <2>1, <2>2, Facts, Moved
  <1>5. Placed(t) /\ t.pc \notin {"pipeclose", "read", "write"}
    <2>. HIDE DEF r, t
    <2>. QED
      BY <1>1, <1>2, <1>3, <1>4, Numbers DEF Placed, Place, Vars, Walking, WithParent, WithInode, OfLink, PathCalls, Afters
  <1>6. ic' \in [Inums -> Entries] /\ \A j \in Inums : ic'[j].ref = ic[j].ref
    BY <1>1, Facts
  <1>7. \A j \in Inums : ic'[j].ref = ic[j].ref - Count(r, j) + Count(t, j)
    <2>1. \A j \in Inums : ic[j].ref \in Int /\ j # None
      BY Facts, Numbers
    <2>. HIDE DEF r, t
    <2>. QED
      BY <1>2, <1>3, <1>6, <2>1 DEF Count, One, Vars
  <1>8. Good(fs')
    BY <1>1, <1>3, Facts
  <1>. QED
    BY <1>1, <1>2, <1>3, <1>4, <1>5, <1>6, <1>7, <1>8, Facts DEF InodeStep, Moves, OnlyInodes, Same, Going, Vars


\* link, back out of the directory
LEMMA EnterBadKeeps ==
    ASSUME Inv, NEW p \in Procs, EnterBad(p)
    PROVE  InodeStep(p) \/ Stopped
  <1> DEFINE r == pr[p]
             t == pr'[p]
  <1>1. /\ r.pc = "enterbad" /\ Goto(p, [pc |-> "iput", put |-> r.dp, dp |-> None, after |-> "bad"])
        /\ ic' = Unlocked(ic, r.dp) /\ fs' = fs /\ OnlyInodes /\ Same
    BY DEF EnterBad, At
  <1>2. Vars(t, "iput", r.cur, r.rest, r.next, r.ip, None, r.dp, "bad")
    BY <1>1, Facts, GoesTo
  <1>3. /\ r.file = None /\ r.n = 0 /\ Placed(r) /\ r.call \in Calls /\ r.after \in Afters
        /\ r.dp \in Inums
        /\ r.put = None
    <2>1. r.pc = "enterbad" /\ Placed(r) /\ r.call \in Calls /\ r.cur \in Refs /\ r.next \in Refs /\ r.ip \in Refs /\ r.dp \in Refs /\ r.put \in Refs /\ r.after \in Afters
      BY <1>1, Facts
    <2>. HIDE DEF r
    <2>. QED
      BY <2>1 DEF Placed, Place, Refs, Walking, WithParent, WithInode, OfLink
  <1>4. /\ pr' \in [Procs -> Threads] /\ \A q \in Procs \ {p} : pr'[q] = pr[q]
        /\ t.call = r.call /\ t.file = r.file /\ t.n = r.n
    <2>1. "iput" \in Pcs /\ None \in Refs /\ r.dp \in Refs /\ "bad" \in Afters
      BY <1>1, <1>3, Facts, Numbers DEF Pcs, Afters, InPipe
    <2>2. DOMAIN [pc |-> "iput", put |-> r.dp, dp |-> None, after |-> "bad"] \cap {"file", "n", "call"} = {}
      OBVIOUS
    <2>. QED
      BY <1>1, <1>2, <2>1, <2>2, Facts, Moved
  <1>5. Placed(t) /\ t.pc \notin {"pipeclose", "read", "write"}
    <2>. HIDE DEF r, t
    <2>. QED
      BY <1>1, <1>2, <1>3, <1>4, Numbers DEF Placed, Place, Vars, Walking, WithParent, WithInode, OfLink, PathCalls, Afters
  <1>6. ic' \in [Inums -> Entries] /\ \A j \in Inums : ic'[j].ref = ic[j].ref
    BY <1>1, <1>3, Facts, CacheOps
  <1>7. \A j \in Inums : ic'[j].ref = ic[j].ref - Count(r, j) + Count(t, j)
    <2>1. \A j \in Inums : ic[j].ref \in Int /\ j # None
      BY Facts, Numbers
    <2>. HIDE DEF r, t
    <2>. QED
      BY <1>2, <1>3, <1>6, <2>1 DEF Count, One, Vars
  <1>8. Good(fs')
    BY <1>1, <1>3, Facts
  <1>. QED
    BY <1>1, <1>2, <1>3, <1>4, <1>5, <1>6, <1>7, <1>8, Facts DEF InodeStep, Moves, OnlyInodes, Same, Going, Vars


\* unlink of a directory in use
LEMMA UnlinkBadKeeps ==
    ASSUME Inv, NEW p \in Procs, UnlinkBad(p)
    PROVE  InodeStep(p) \/ Stopped
  <1> DEFINE r == pr[p]
             t == pr'[p]
  <1>1. /\ r.pc = "unlinkbad" /\ Goto(p, [pc |-> "iput", put |-> r.dp, dp |-> None, after |-> "end"])
        /\ ic' = Unlocked(ic, r.dp) /\ fs' = fs /\ OnlyInodes /\ Same
    BY DEF UnlinkBad, At
  <1>2. Vars(t, "iput", r.cur, r.rest, r.next, r.ip, None, r.dp, "end")
    BY <1>1, Facts, GoesTo
  <1>3. /\ r.file = None /\ r.n = 0 /\ Placed(r) /\ r.call \in Calls /\ r.after \in Afters
        /\ r.dp \in Inums
        /\ r.put = None
    <2>1. r.pc = "unlinkbad" /\ Placed(r) /\ r.call \in Calls /\ r.cur \in Refs /\ r.next \in Refs /\ r.ip \in Refs /\ r.dp \in Refs /\ r.put \in Refs /\ r.after \in Afters
      BY <1>1, Facts
    <2>. HIDE DEF r
    <2>. QED
      BY <2>1 DEF Placed, Place, Refs, Walking, WithParent, WithInode, OfLink
  <1>4. /\ pr' \in [Procs -> Threads] /\ \A q \in Procs \ {p} : pr'[q] = pr[q]
        /\ t.call = r.call /\ t.file = r.file /\ t.n = r.n
    <2>1. "iput" \in Pcs /\ None \in Refs /\ r.dp \in Refs /\ "end" \in Afters
      BY <1>1, <1>3, Facts, Numbers DEF Pcs, Afters, InPipe
    <2>2. DOMAIN [pc |-> "iput", put |-> r.dp, dp |-> None, after |-> "end"] \cap {"file", "n", "call"} = {}
      OBVIOUS
    <2>. QED
      BY <1>1, <1>2, <2>1, <2>2, Facts, Moved
  <1>5. Placed(t) /\ t.pc \notin {"pipeclose", "read", "write"}
    <2>. HIDE DEF r, t
    <2>. QED
      BY <1>1, <1>2, <1>3, <1>4, Numbers DEF Placed, Place, Vars, Walking, WithParent, WithInode, OfLink, PathCalls, Afters
  <1>6. ic' \in [Inums -> Entries] /\ \A j \in Inums : ic'[j].ref = ic[j].ref
    BY <1>1, <1>3, Facts, CacheOps
  <1>7. \A j \in Inums : ic'[j].ref = ic[j].ref - Count(r, j) + Count(t, j)
    <2>1. \A j \in Inums : ic[j].ref \in Int /\ j # None
      BY Facts, Numbers
    <2>. HIDE DEF r, t
    <2>. QED
      BY <1>2, <1>3, <1>6, <2>1 DEF Count, One, Vars
  <1>8. Good(fs')
    BY <1>1, <1>3, Facts
  <1>. QED
    BY <1>1, <1>2, <1>3, <1>4, <1>5, <1>6, <1>7, <1>8, Facts DEF InodeStep, Moves, OnlyInodes, Same, Going, Vars


\* unlink, with the inode's link taken
LEMMA UncountKeeps ==
    ASSUME Inv, NEW p \in Procs, Uncount(p)
    PROVE  InodeStep(p) \/ Stopped
  <1> DEFINE r == pr[p]
             t == pr'[p]
  <1>1. /\ r.pc = "uncount" /\ Goto(p, [pc |-> "unlockput"])
        /\ ic' = ic /\ fs' = [fs EXCEPT !.di[r.ip].nlink = @ - 1] /\ OnlyInodes /\ Same
    BY DEF Uncount, At
  <1>2. Vars(t, "unlockput", r.cur, r.rest, r.next, r.ip, r.dp, r.put, r.after)
    BY <1>1, Facts, GoesTo
  <1>3. /\ r.file = None /\ r.n = 0 /\ Placed(r) /\ r.call \in Calls /\ r.after \in Afters
        /\ r.ip \in Inums
        /\ r.put = None
    <2>1. r.pc = "uncount" /\ Placed(r) /\ r.call \in Calls /\ r.cur \in Refs /\ r.next \in Refs /\ r.ip \in Refs /\ r.dp \in Refs /\ r.put \in Refs /\ r.after \in Afters
      BY <1>1, Facts
    <2>. HIDE DEF r
    <2>. QED
      BY <2>1 DEF Placed, Place, Refs, Walking, WithParent, WithInode, OfLink
  <1>4. /\ pr' \in [Procs -> Threads] /\ \A q \in Procs \ {p} : pr'[q] = pr[q]
        /\ t.call = r.call /\ t.file = r.file /\ t.n = r.n
    <2>1. "unlockput" \in Pcs
      BY <1>1, <1>3, Facts, Numbers DEF Pcs, Afters, InPipe
    <2>2. DOMAIN [pc |-> "unlockput"] \cap {"file", "n", "call"} = {}
      OBVIOUS
    <2>. QED
      BY <1>1, <1>2, <2>1, <2>2, Facts, Moved
  <1>5. Placed(t) /\ t.pc \notin {"pipeclose", "read", "write"}
    <2>. HIDE DEF r, t
    <2>. QED
      BY <1>1, <1>2, <1>3, <1>4, Numbers DEF Placed, Place, Vars, Walking, WithParent, WithInode, OfLink, PathCalls, Afters
  <1>6. ic' \in [Inums -> Entries] /\ \A j \in Inums : ic'[j].ref = ic[j].ref
    BY <1>1, Facts
  <1>7. \A j \in Inums : ic'[j].ref = ic[j].ref - Count(r, j) + Count(t, j)
    <2>1. \A j \in Inums : ic[j].ref \in Int /\ j # None
      BY Facts, Numbers
    <2>. HIDE DEF r, t
    <2>. QED
      BY <1>2, <1>3, <1>6, <2>1 DEF Count, One, Vars
  <1>8. Good(fs')
    BY <1>1, <1>3, Facts, NlinkKeeps
  <1>. QED
    BY <1>1, <1>2, <1>3, <1>4, <1>5, <1>6, <1>7, <1>8, Facts DEF InodeStep, Moves, OnlyInodes, Same, Going, Vars


\* link, with its count taken back
LEMMA BadKeeps ==
    ASSUME Inv, NEW p \in Procs, Bad(p)
    PROVE  InodeStep(p) \/ Stopped
  <1> DEFINE r == pr[p]
             t == pr'[p]
  <1>1. CASE NoType(r.ip)
    BY <1>1 DEF Bad, ilock, Panic, Stopped, Same, Going
  <1>2. CASE ~NoType(r.ip)
    <2>1. /\ r.pc = "bad" /\ Goto(p, [pc |-> "iput", put |-> r.ip, ip |-> None, after |-> "end"])
          /\ ic' = Visited(ic, r.ip) /\ fs' = [fs EXCEPT !.di[r.ip].nlink = @ - 1] /\ OnlyInodes /\ Same
      BY <1>2 DEF Bad, At, ilock
    <2>2. Vars(t, "iput", r.cur, r.rest, r.next, None, r.dp, r.ip, "end")
      BY <2>1, Facts, GoesTo
    <2>3. /\ r.file = None /\ r.n = 0 /\ Placed(r) /\ r.call \in Calls /\ r.after \in Afters
          /\ r.ip \in Inums
          /\ r.put = None
      <3>1. r.pc = "bad" /\ Placed(r) /\ r.call \in Calls /\ r.cur \in Refs /\ r.next \in Refs /\ r.ip \in Refs /\ r.dp \in Refs /\ r.put \in Refs /\ r.after \in Afters
        BY <2>1, Facts
      <3>. HIDE DEF r
      <3>. QED
        BY <3>1 DEF Placed, Place, Refs, Walking, WithParent, WithInode, OfLink
    <2>4. /\ pr' \in [Procs -> Threads] /\ \A q \in Procs \ {p} : pr'[q] = pr[q]
          /\ t.call = r.call /\ t.file = r.file /\ t.n = r.n
      <3>1. "iput" \in Pcs /\ None \in Refs /\ r.ip \in Refs /\ "end" \in Afters
        BY <2>1, <2>3, Facts, Numbers DEF Pcs, Afters, InPipe
      <3>2. DOMAIN [pc |-> "iput", put |-> r.ip, ip |-> None, after |-> "end"] \cap {"file", "n", "call"} = {}
        OBVIOUS
      <3>. QED
        BY <2>1, <2>2, <3>1, <3>2, Facts, Moved
    <2>5. Placed(t) /\ t.pc \notin {"pipeclose", "read", "write"}
      <3>. HIDE DEF r, t
      <3>. QED
        BY <2>1, <2>2, <2>3, <2>4, Numbers DEF Placed, Place, Vars, Walking, WithParent, WithInode, OfLink, PathCalls, Afters
    <2>6. ic' \in [Inums -> Entries] /\ \A j \in Inums : ic'[j].ref = ic[j].ref
      BY <2>1, <2>3, Facts, CacheOps
    <2>7. \A j \in Inums : ic'[j].ref = ic[j].ref - Count(r, j) + Count(t, j)
      <3>1. \A j \in Inums : ic[j].ref \in Int /\ j # None
        BY Facts, Numbers
      <3>. HIDE DEF r, t
      <3>. QED
        BY <2>2, <2>3, <2>6, <3>1 DEF Count, One, Vars
    <2>8. Good(fs')
      BY <2>1, <2>3, Facts, NlinkKeeps
    <2>. QED
      BY <2>1, <2>2, <2>3, <2>4, <2>5, <2>6, <2>7, <2>8, Facts DEF InodeStep, Moves, OnlyInodes, Same, Going, Vars
  <1>. QED
    BY <1>1, <1>2

\* open without O_CREATE
LEMMA OpenKeeps ==
    ASSUME Inv, NEW p \in Procs, Open(p)
    PROVE  InodeStep(p) \/ Stopped
  <1> DEFINE r == pr[p]
             t == pr'[p]
             ip == r.ip
  <1>1. CASE NoType(ip)
    BY <1>1 DEF Open, ilock, Panic, Stopped, Same, Going
  <1>2. CASE ~NoType(ip) /\ (fs.di[ip].type = "DIR" /\ ~r.call.rdonly)
    <2>1. /\ r.pc = "open" /\ Goto(p, [pc |-> "iput", put |-> ip, ip |-> None, after |-> "end"])
          /\ ic' = Visited(ic, ip) /\ fs' = fs /\ OnlyInodes /\ Same
      BY <1>2 DEF Open, At, ilock
    <2>2. Vars(t, "iput", r.cur, r.rest, r.next, None, r.dp, ip, "end")
      <3>. HIDE DEF ip
      <3>. QED
        BY <2>1, Facts, GoesTo
    <2>3. /\ r.file = None /\ r.n = 0 /\ Placed(r) /\ r.call \in Calls /\ r.after \in Afters
          /\ ip \in Inums
          /\ r.put = None
      <3>1. r.pc = "open" /\ Placed(r) /\ r.call \in Calls /\ r.cur \in Refs /\ r.next \in Refs /\ r.ip \in Refs /\ r.dp \in Refs /\ r.put \in Refs /\ r.after \in Afters
        BY <2>1, Facts
      <3>. HIDE DEF r
      <3>. QED
        BY <3>1 DEF Placed, Place, Refs, Walking, WithParent, WithInode, OfLink
    <2>4. /\ pr' \in [Procs -> Threads] /\ \A q \in Procs \ {p} : pr'[q] = pr[q]
          /\ t.call = r.call /\ t.file = r.file /\ t.n = r.n
      <3>1. "iput" \in Pcs /\ None \in Refs /\ ip \in Refs /\ "end" \in Afters
        BY <2>1, <2>3, Facts, Numbers DEF Pcs, Afters, InPipe
      <3>2. DOMAIN [pc |-> "iput", put |-> ip, ip |-> None, after |-> "end"] \cap {"file", "n", "call"} = {}
        OBVIOUS
      <3>. QED
        BY <2>1, <2>2, <3>1, <3>2, Facts, Moved
    <2>5. Placed(t) /\ t.pc \notin {"pipeclose", "read", "write"}
      <3>. HIDE DEF r, t
      <3>. QED
        BY <2>1, <2>2, <2>3, <2>4, Numbers DEF Placed, Place, Vars, Walking, WithParent, WithInode, OfLink, PathCalls, Afters
    <2>6. ic' \in [Inums -> Entries] /\ \A j \in Inums : ic'[j].ref = ic[j].ref
      BY <2>1, <2>3, Facts, CacheOps
    <2>7. \A j \in Inums : ic'[j].ref = ic[j].ref - Count(r, j) + Count(t, j)
      <3>1. \A j \in Inums : ic[j].ref \in Int /\ j # None
        BY Facts, Numbers
      <3>. HIDE DEF r, t
      <3>. QED
        BY <2>2, <2>3, <2>6, <3>1 DEF Count, One, Vars
    <2>8. Good(fs')
      BY <2>1, <2>3, Facts
    <2>. QED
      BY <2>1, <2>2, <2>3, <2>4, <2>5, <2>6, <2>7, <2>8, Facts DEF InodeStep, Moves, OnlyInodes, Same, Going, Vars
  <1>3. CASE ~NoType(ip) /\ ~(fs.di[ip].type = "DIR" /\ ~r.call.rdonly)
    <2>1. /\ r.pc = "open" /\ Goto(p, [pc |-> "fdalloc"])
          /\ ic' = Locked(ic, ip, p) /\ fs' = fs /\ OnlyInodes /\ Same
      BY <1>3 DEF Open, At, ilock
    <2>2. Vars(t, "fdalloc", r.cur, r.rest, r.next, r.ip, r.dp, r.put, r.after)
      <3>. HIDE DEF ip
      <3>. QED
        BY <2>1, Facts, GoesTo
    <2>3. /\ r.file = None /\ r.n = 0 /\ Placed(r) /\ r.call \in Calls /\ r.after \in Afters
          /\ ip \in Inums
          /\ r.put = None
      <3>1. r.pc = "open" /\ Placed(r) /\ r.call \in Calls /\ r.cur \in Refs /\ r.next \in Refs /\ r.ip \in Refs /\ r.dp \in Refs /\ r.put \in Refs /\ r.after \in Afters
        BY <2>1, Facts
      <3>. HIDE DEF r
      <3>. QED
        BY <3>1 DEF Placed, Place, Refs, Walking, WithParent, WithInode, OfLink
    <2>4. /\ pr' \in [Procs -> Threads] /\ \A q \in Procs \ {p} : pr'[q] = pr[q]
          /\ t.call = r.call /\ t.file = r.file /\ t.n = r.n
      <3>1. "fdalloc" \in Pcs
        BY <2>1, <2>3, Facts, Numbers DEF Pcs, Afters, InPipe
      <3>2. DOMAIN [pc |-> "fdalloc"] \cap {"file", "n", "call"} = {}
        OBVIOUS
      <3>. QED
        BY <2>1, <2>2, <3>1, <3>2, Facts, Moved
    <2>5. Placed(t) /\ t.pc \notin {"pipeclose", "read", "write"}
      <3>. HIDE DEF r, t
      <3>. QED
        BY <2>1, <2>2, <2>3, <2>4, Numbers DEF Placed, Place, Vars, Walking, WithParent, WithInode, OfLink, PathCalls, Afters
    <2>6. ic' \in [Inums -> Entries] /\ \A j \in Inums : ic'[j].ref = ic[j].ref
      BY <2>1, <2>3, Facts, CacheOps
    <2>7. \A j \in Inums : ic'[j].ref = ic[j].ref - Count(r, j) + Count(t, j)
      <3>1. \A j \in Inums : ic[j].ref \in Int /\ j # None
        BY Facts, Numbers
      <3>. HIDE DEF r, t
      <3>. QED
        BY <2>2, <2>3, <2>6, <3>1 DEF Count, One, Vars
    <2>8. Good(fs')
      BY <2>1, <2>3, Facts
    <2>. QED
      BY <2>1, <2>2, <2>3, <2>4, <2>5, <2>6, <2>7, <2>8, Facts DEF InodeStep, Moves, OnlyInodes, Same, Going, Vars
  <1>. QED
    BY <1>1, <1>2, <1>3


\* create of a name that exists
LEMMA ExistsKeeps ==
    ASSUME Inv, NEW p \in Procs, Exists(p)
    PROVE  InodeStep(p) \/ Stopped
  <1> DEFINE r == pr[p]
             t == pr'[p]
             ip == r.ip
  <1>1. CASE NoType(ip)
    BY <1>1 DEF Exists, ilock, Panic, Stopped, Same, Going
  <1>2. CASE ~NoType(ip) /\ r.call.c = "create" /\ fs.di[ip].type = "FILE"
    <2>1. /\ r.pc = "exists" /\ Goto(p, [pc |-> "fdalloc"])
          /\ ic' = Locked(ic, ip, p) /\ fs' = fs /\ OnlyInodes /\ Same
      BY <1>2 DEF Exists, At, ilock
    <2>2. Vars(t, "fdalloc", r.cur, r.rest, r.next, r.ip, r.dp, r.put, r.after)
      <3>. HIDE DEF ip
      <3>. QED
        BY <2>1, Facts, GoesTo
    <2>3. /\ r.file = None /\ r.n = 0 /\ Placed(r) /\ r.call \in Calls /\ r.after \in Afters
          /\ ip \in Inums
          /\ r.put = None
      <3>1. r.pc = "exists" /\ Placed(r) /\ r.call \in Calls /\ r.cur \in Refs /\ r.next \in Refs /\ r.ip \in Refs /\ r.dp \in Refs /\ r.put \in Refs /\ r.after \in Afters
        BY <2>1, Facts
      <3>. HIDE DEF r
      <3>. QED
        BY <3>1 DEF Placed, Place, Refs, Walking, WithParent, WithInode, OfLink
    <2>4. /\ pr' \in [Procs -> Threads] /\ \A q \in Procs \ {p} : pr'[q] = pr[q]
          /\ t.call = r.call /\ t.file = r.file /\ t.n = r.n
      <3>1. "fdalloc" \in Pcs
        BY <2>1, <2>3, Facts, Numbers DEF Pcs, Afters, InPipe
      <3>2. DOMAIN [pc |-> "fdalloc"] \cap {"file", "n", "call"} = {}
        OBVIOUS
      <3>. QED
        BY <2>1, <2>2, <3>1, <3>2, Facts, Moved
    <2>5. Placed(t) /\ t.pc \notin {"pipeclose", "read", "write"}
      <3>. HIDE DEF r, t
      <3>. QED
        BY <2>1, <2>2, <2>3, <2>4, Numbers DEF Placed, Place, Vars, Walking, WithParent, WithInode, OfLink, PathCalls, Afters
    <2>6. ic' \in [Inums -> Entries] /\ \A j \in Inums : ic'[j].ref = ic[j].ref
      BY <2>1, <2>3, Facts, CacheOps
    <2>7. \A j \in Inums : ic'[j].ref = ic[j].ref - Count(r, j) + Count(t, j)
      <3>1. \A j \in Inums : ic[j].ref \in Int /\ j # None
        BY Facts, Numbers
      <3>. HIDE DEF r, t
      <3>. QED
        BY <2>2, <2>3, <2>6, <3>1 DEF Count, One, Vars
    <2>8. Good(fs')
      BY <2>1, <2>3, Facts
    <2>. QED
      BY <2>1, <2>2, <2>3, <2>4, <2>5, <2>6, <2>7, <2>8, Facts DEF InodeStep, Moves, OnlyInodes, Same, Going, Vars
  <1>3. CASE ~NoType(ip) /\ ~(r.call.c = "create" /\ fs.di[ip].type = "FILE")
    <2>1. /\ r.pc = "exists" /\ Goto(p, [pc |-> "unlockput"])
          /\ ic' = Locked(ic, ip, p) /\ fs' = fs /\ OnlyInodes /\ Same
      BY <1>3 DEF Exists, At, ilock
    <2>2. Vars(t, "unlockput", r.cur, r.rest, r.next, r.ip, r.dp, r.put, r.after)
      <3>. HIDE DEF ip
      <3>. QED
        BY <2>1, Facts, GoesTo
    <2>3. /\ r.file = None /\ r.n = 0 /\ Placed(r) /\ r.call \in Calls /\ r.after \in Afters
          /\ ip \in Inums
          /\ r.put = None
      <3>1. r.pc = "exists" /\ Placed(r) /\ r.call \in Calls /\ r.cur \in Refs /\ r.next \in Refs /\ r.ip \in Refs /\ r.dp \in Refs /\ r.put \in Refs /\ r.after \in Afters
        BY <2>1, Facts
      <3>. HIDE DEF r
      <3>. QED
        BY <3>1 DEF Placed, Place, Refs, Walking, WithParent, WithInode, OfLink
    <2>4. /\ pr' \in [Procs -> Threads] /\ \A q \in Procs \ {p} : pr'[q] = pr[q]
          /\ t.call = r.call /\ t.file = r.file /\ t.n = r.n
      <3>1. "unlockput" \in Pcs
        BY <2>1, <2>3, Facts, Numbers DEF Pcs, Afters, InPipe
      <3>2. DOMAIN [pc |-> "unlockput"] \cap {"file", "n", "call"} = {}
        OBVIOUS
      <3>. QED
        BY <2>1, <2>2, <3>1, <3>2, Facts, Moved
    <2>5. Placed(t) /\ t.pc \notin {"pipeclose", "read", "write"}
      <3>. HIDE DEF r, t
      <3>. QED
        BY <2>1, <2>2, <2>3, <2>4, Numbers DEF Placed, Place, Vars, Walking, WithParent, WithInode, OfLink, PathCalls, Afters
    <2>6. ic' \in [Inums -> Entries] /\ \A j \in Inums : ic'[j].ref = ic[j].ref
      BY <2>1, <2>3, Facts, CacheOps
    <2>7. \A j \in Inums : ic'[j].ref = ic[j].ref - Count(r, j) + Count(t, j)
      <3>1. \A j \in Inums : ic[j].ref \in Int /\ j # None
        BY Facts, Numbers
      <3>. HIDE DEF r, t
      <3>. QED
        BY <2>2, <2>3, <2>6, <3>1 DEF Count, One, Vars
    <2>8. Good(fs')
      BY <2>1, <2>3, Facts
    <2>. QED
      BY <2>1, <2>2, <2>3, <2>4, <2>5, <2>6, <2>7, <2>8, Facts DEF InodeStep, Moves, OnlyInodes, Same, Going, Vars
  <1>. QED
    BY <1>1, <1>2, <1>3


\* unlink, at the parent
LEMMA UnlinkKeeps ==
    ASSUME Inv, NEW p \in Procs, Unlink(p)
    PROVE  InodeStep(p) \/ Stopped
  <1> DEFINE r == pr[p]
             t == pr'[p]
             dp == r.dp
             i == fs.di[dp].ents[Last(r.call.path)]
  <1>1. CASE NoType(dp)
    BY <1>1 DEF Unlink, ilock, Panic, Stopped, Same, Going
  <1>2. CASE ~NoType(dp) /\ i = None
    <2>1. /\ r.pc = "unlink" /\ Goto(p, [pc |-> "iput", put |-> dp, dp |-> None, after |-> "end"])
          /\ ic' = Visited(ic, dp) /\ fs' = fs /\ OnlyInodes /\ Same
      BY <1>2 DEF Unlink, At, ilock
    <2>2. Vars(t, "iput", r.cur, r.rest, r.next, r.ip, None, dp, "end")
      <3>. HIDE DEF dp, i
      <3>. QED
        BY <2>1, Facts, GoesTo
    <2>3. /\ r.file = None /\ r.n = 0 /\ Placed(r) /\ r.call \in Calls /\ r.after \in Afters
          /\ dp \in Inums
          /\ r.put = None
      <3>1. r.pc = "unlink" /\ Placed(r) /\ r.call \in Calls /\ r.cur \in Refs /\ r.next \in Refs /\ r.ip \in Refs /\ r.dp \in Refs /\ r.put \in Refs /\ r.after \in Afters
        BY <2>1, Facts
      <3>. HIDE DEF r
      <3>. QED
        BY <3>1 DEF Placed, Place, Refs, Walking, WithParent, WithInode, OfLink
    <2>4. /\ pr' \in [Procs -> Threads] /\ \A q \in Procs \ {p} : pr'[q] = pr[q]
          /\ t.call = r.call /\ t.file = r.file /\ t.n = r.n
      <3>1. "iput" \in Pcs /\ None \in Refs /\ dp \in Refs /\ "end" \in Afters
        BY <2>1, <2>3, Facts, Numbers DEF Pcs, Afters, InPipe
      <3>2. DOMAIN [pc |-> "iput", put |-> dp, dp |-> None, after |-> "end"] \cap {"file", "n", "call"} = {}
        OBVIOUS
      <3>. QED
        BY <2>1, <2>2, <3>1, <3>2, Facts, Moved
    <2>5. Placed(t) /\ t.pc \notin {"pipeclose", "read", "write"}
      <3>. HIDE DEF r, t
      <3>. QED
        BY <2>1, <2>2, <2>3, <2>4, Numbers DEF Placed, Place, Vars, Walking, WithParent, WithInode, OfLink, PathCalls, Afters
    <2>6. ic' \in [Inums -> Entries] /\ \A j \in Inums : ic'[j].ref = ic[j].ref
      BY <2>1, <2>3, Facts, CacheOps
    <2>7. \A j \in Inums : ic'[j].ref = ic[j].ref - Count(r, j) + Count(t, j)
      <3>1. \A j \in Inums : ic[j].ref \in Int /\ j # None
        BY Facts, Numbers
      <3>. HIDE DEF r, t
      <3>. QED
        BY <2>2, <2>3, <2>6, <3>1 DEF Count, One, Vars
    <2>8. Good(fs')
      BY <2>1, <2>3, Facts
    <2>. QED
      BY <2>1, <2>2, <2>3, <2>4, <2>5, <2>6, <2>7, <2>8, Facts DEF InodeStep, Moves, OnlyInodes, Same, Going, Vars
  <1>3. CASE ~NoType(dp) /\ i # None
    <2>1. /\ r.pc = "unlink" /\ Goto(p, [pc |-> "remove", ip |-> i])
          /\ ic' = iget(Locked(ic, dp, p), i) /\ fs' = fs /\ OnlyInodes /\ Same
      BY <1>3 DEF Unlink, At, ilock
    <2>2. Vars(t, "remove", r.cur, r.rest, r.next, i, r.dp, r.put, r.after)
      <3>. HIDE DEF dp, i
      <3>. QED
        BY <2>1, Facts, GoesTo
    <2>3. /\ r.file = None /\ r.n = 0 /\ Placed(r) /\ r.call \in Calls /\ r.after \in Afters
          /\ dp \in Inums
          /\ r.put = None
          /\ r.ip = None
          /\ r.call.c \in PathCalls
      <3>1. r.pc = "unlink" /\ Placed(r) /\ r.call \in Calls /\ r.cur \in Refs /\ r.next \in Refs /\ r.ip \in Refs /\ r.dp \in Refs /\ r.put \in Refs /\ r.after \in Afters
        BY <2>1, Facts
      <3>. HIDE DEF r
      <3>. QED
        BY <3>1 DEF Placed, Place, Refs, Walking, WithParent, WithInode, OfLink
    <2>4. i \in Inums /\ i # None
      <3>1. i \in Refs
        BY <2>3, Facts, CallNames DEF Disks, Inodes
      <3>. QED
        BY <1>3, <3>1 DEF Refs
    <2>5. /\ pr' \in [Procs -> Threads] /\ \A q \in Procs \ {p} : pr'[q] = pr[q]
          /\ t.call = r.call /\ t.file = r.file /\ t.n = r.n
      <3>1. "remove" \in Pcs /\ i \in Refs
        BY <2>4, <2>1, <2>3, Facts, Numbers DEF Pcs, Afters, InPipe
      <3>2. DOMAIN [pc |-> "remove", ip |-> i] \cap {"file", "n", "call"} = {}
        OBVIOUS
      <3>. QED
        BY <2>1, <2>2, <3>1, <3>2, Facts, Moved
    <2>6. Placed(t) /\ t.pc \notin {"pipeclose", "read", "write"}
      <3>. HIDE DEF r, t
      <3>. QED
        BY <2>4, <2>1, <2>2, <2>3, <2>5, Numbers DEF Placed, Place, Vars, Walking, WithParent, WithInode, OfLink, PathCalls, Afters
    <2>7. ic' \in [Inums -> Entries] /\ \A j \in Inums : ic'[j].ref = ic[j].ref + One(j = i)
      <3>. HIDE DEF r, dp, i
      <3>1. Locked(ic, dp, p) \in [Inums -> Entries] /\ \A j \in Inums : Locked(ic, dp, p)[j].ref = ic[j].ref
        BY <2>4, <2>3, Facts, CacheOps
      <3>2. iget(Locked(ic, dp, p), i) \in [Inums -> Entries] /\ \A j \in Inums : iget(Locked(ic, dp, p), i)[j].ref = ic[j].ref + One(j = i)
        BY <2>4, <2>3, <3>1, Facts, CacheOps
      <3>. QED
        BY <2>1, <3>2
    <2>8. \A j \in Inums : ic'[j].ref = ic[j].ref - Count(r, j) + Count(t, j)
      <3>1. \A j \in Inums : ic[j].ref \in Int /\ j # None
        BY Facts, Numbers
      <3>. HIDE DEF r, t
      <3>. QED
        BY <2>4, <2>2, <2>3, <2>7, <3>1 DEF Count, One, Vars
    <2>9. Good(fs')
      BY <2>4, <2>1, <2>3, Facts
    <2>. QED
      BY <2>1, <2>2, <2>3, <2>5, <2>6, <2>7, <2>8, <2>9, Facts DEF InodeStep, Moves, OnlyInodes, Same, Going, Vars
  <1>. QED
    BY <1>1, <1>2, <1>3


\* unlink, with the inode locked
LEMMA RemoveKeeps ==
    ASSUME Inv, NEW p \in Procs, Remove(p)
    PROVE  InodeStep(p) \/ Stopped
  <1> DEFINE r == pr[p]
             t == pr'[p]
             dp == r.dp
             ip == r.ip
  <1>1. CASE NoType(ip)
    BY <1>1 DEF Remove, ilock, Panic, Stopped, Same, Going
  <1>2. CASE ~NoType(ip) /\ fs.di[ip].nlink < 1
    BY <1>2 DEF Remove, ilock, Panic, Stopped, Same, Going
  <1>3. CASE ~NoType(ip) /\ ~(fs.di[ip].nlink < 1) /\ (fs.di[ip].type = "DIR" /\ ~IsDirEmpty(ip))
    <2>1. /\ r.pc = "remove" /\ Goto(p, [pc |-> "iput", put |-> ip, ip |-> None, after |-> "unlinkbad"])
          /\ ic' = Visited(ic, ip) /\ fs' = fs /\ OnlyInodes /\ Same
      BY <1>3 DEF Remove, At, ilock
    <2>2. Vars(t, "iput", r.cur, r.rest, r.next, None, r.dp, ip, "unlinkbad")
      <3>. HIDE DEF dp, ip
      <3>. QED
        BY <2>1, Facts, GoesTo
    <2>3. /\ r.file = None /\ r.n = 0 /\ Placed(r) /\ r.call \in Calls /\ r.after \in Afters
          /\ ip \in Inums
          /\ dp \in Inums
          /\ r.put = None
      <3>1. r.pc = "remove" /\ Placed(r) /\ r.call \in Calls /\ r.cur \in Refs /\ r.next \in Refs /\ r.ip \in Refs /\ r.dp \in Refs /\ r.put \in Refs /\ r.after \in Afters
        BY <2>1, Facts
      <3>. HIDE DEF r
      <3>. QED
        BY <3>1 DEF Placed, Place, Refs, Walking, WithParent, WithInode, OfLink
    <2>4. /\ pr' \in [Procs -> Threads] /\ \A q \in Procs \ {p} : pr'[q] = pr[q]
          /\ t.call = r.call /\ t.file = r.file /\ t.n = r.n
      <3>1. "iput" \in Pcs /\ None \in Refs /\ ip \in Refs /\ "unlinkbad" \in Afters
        BY <2>1, <2>3, Facts, Numbers DEF Pcs, Afters, InPipe
      <3>2. DOMAIN [pc |-> "iput", put |-> ip, ip |-> None, after |-> "unlinkbad"] \cap {"file", "n", "call"} = {}
        OBVIOUS
      <3>. QED
        BY <2>1, <2>2, <3>1, <3>2, Facts, Moved
    <2>5. Placed(t) /\ t.pc \notin {"pipeclose", "read", "write"}
      <3>. HIDE DEF r, t
      <3>. QED
        BY <2>1, <2>2, <2>3, <2>4, Numbers DEF Placed, Place, Vars, Walking, WithParent, WithInode, OfLink, PathCalls, Afters
    <2>6. ic' \in [Inums -> Entries] /\ \A j \in Inums : ic'[j].ref = ic[j].ref
      BY <2>1, <2>3, Facts, CacheOps
    <2>7. \A j \in Inums : ic'[j].ref = ic[j].ref - Count(r, j) + Count(t, j)
      <3>1. \A j \in Inums : ic[j].ref \in Int /\ j # None
        BY Facts, Numbers
      <3>. HIDE DEF r, t
      <3>. QED
        BY <2>2, <2>3, <2>6, <3>1 DEF Count, One, Vars
    <2>8. Good(fs')
      BY <2>1, <2>3, Facts
    <2>. QED
      BY <2>1, <2>2, <2>3, <2>4, <2>5, <2>6, <2>7, <2>8, Facts DEF InodeStep, Moves, OnlyInodes, Same, Going, Vars
  <1>4. CASE ~NoType(ip) /\ ~(fs.di[ip].nlink < 1) /\ ~(fs.di[ip].type = "DIR" /\ ~IsDirEmpty(ip))
    <2>1. /\ r.pc = "remove" /\ Goto(p, [pc |-> "iput", put |-> dp, dp |-> None, after |-> "uncount"])
          /\ ic' = Unlocked(Locked(ic, ip, p), dp) /\ fs' = Removed(dp, ip, Last(r.call.path)) /\ OnlyInodes /\ Same
      BY <1>4 DEF Remove, At, ilock
    <2>2. Vars(t, "iput", r.cur, r.rest, r.next, r.ip, None, dp, "uncount")
      <3>. HIDE DEF dp, ip
      <3>. QED
        BY <2>1, Facts, GoesTo
    <2>3. /\ r.file = None /\ r.n = 0 /\ Placed(r) /\ r.call \in Calls /\ r.after \in Afters
          /\ ip \in Inums
          /\ dp \in Inums
          /\ r.put = None
          /\ r.call.c \in PathCalls
      <3>1. r.pc = "remove" /\ Placed(r) /\ r.call \in Calls /\ r.cur \in Refs /\ r.next \in Refs /\ r.ip \in Refs /\ r.dp \in Refs /\ r.put \in Refs /\ r.after \in Afters
        BY <2>1, Facts
      <3>. HIDE DEF r
      <3>. QED
        BY <3>1 DEF Placed, Place, Refs, Walking, WithParent, WithInode, OfLink
    <2>4. /\ pr' \in [Procs -> Threads] /\ \A q \in Procs \ {p} : pr'[q] = pr[q]
          /\ t.call = r.call /\ t.file = r.file /\ t.n = r.n
      <3>1. "iput" \in Pcs /\ None \in Refs /\ dp \in Refs /\ "uncount" \in Afters
        BY <2>1, <2>3, Facts, Numbers DEF Pcs, Afters, InPipe
      <3>2. DOMAIN [pc |-> "iput", put |-> dp, dp |-> None, after |-> "uncount"] \cap {"file", "n", "call"} = {}
        OBVIOUS
      <3>. QED
        BY <2>1, <2>2, <3>1, <3>2, Facts, Moved
    <2>5. Placed(t) /\ t.pc \notin {"pipeclose", "read", "write"}
      <3>. HIDE DEF r, t
      <3>. QED
        BY <2>1, <2>2, <2>3, <2>4, Numbers DEF Placed, Place, Vars, Walking, WithParent, WithInode, OfLink, PathCalls, Afters
    <2>6. ic' \in [Inums -> Entries] /\ \A j \in Inums : ic'[j].ref = ic[j].ref
      <3>. HIDE DEF r, dp, ip
      <3>1. Locked(ic, ip, p) \in [Inums -> Entries] /\ \A j \in Inums : Locked(ic, ip, p)[j].ref = ic[j].ref
        BY <2>3, Facts, CacheOps
      <3>2. Unlocked(Locked(ic, ip, p), dp) \in [Inums -> Entries] /\ \A j \in Inums : Unlocked(Locked(ic, ip, p), dp)[j].ref = ic[j].ref
        BY <2>3, <3>1, Facts, CacheOps
      <3>. QED
        BY <2>1, <3>2
    <2>7. \A j \in Inums : ic'[j].ref = ic[j].ref - Count(r, j) + Count(t, j)
      <3>1. \A j \in Inums : ic[j].ref \in Int /\ j # None
        BY Facts, Numbers
      <3>. HIDE DEF r, t
      <3>. QED
        BY <2>2, <2>3, <2>6, <3>1 DEF Count, One, Vars
    <2>8. Good(fs')
      BY <2>1, <2>3, Facts, CallNames, RemovedKeeps
    <2>. QED
      BY <2>1, <2>2, <2>3, <2>4, <2>5, <2>6, <2>7, <2>8, Facts DEF InodeStep, Moves, OnlyInodes, Same, Going, Vars
  <1>. QED
    BY <1>1, <1>2, <1>3, <1>4


\* link, at the inode
LEMMA LinkKeeps ==
    ASSUME Inv, NEW p \in Procs, Link(p)
    PROVE  InodeStep(p) \/ Stopped
  <1> DEFINE r == pr[p]
             t == pr'[p]
             ip == r.ip
  <1>1. CASE NoType(ip)
    BY <1>1 DEF Link, ilock, Panic, Stopped, Same, Going
  <1>2. CASE ~NoType(ip) /\ fs.di[ip].type = "DIR"
    <2>1. /\ r.pc = "link" /\ Goto(p, [pc |-> "iput", put |-> ip, ip |-> None, after |-> "end"])
          /\ ic' = Visited(ic, ip) /\ fs' = fs /\ OnlyInodes /\ Same
      BY <1>2 DEF Link, At, ilock
    <2>2. Vars(t, "iput", r.cur, r.rest, r.next, None, r.dp, ip, "end")
      <3>. HIDE DEF ip
      <3>. QED
        BY <2>1, Facts, GoesTo
    <2>3. /\ r.file = None /\ r.n = 0 /\ Placed(r) /\ r.call \in Calls /\ r.after \in Afters
          /\ ip \in Inums
          /\ r.put = None
      <3>1. r.pc = "link" /\ Placed(r) /\ r.call \in Calls /\ r.cur \in Refs /\ r.next \in Refs /\ r.ip \in Refs /\ r.dp \in Refs /\ r.put \in Refs /\ r.after \in Afters
        BY <2>1, Facts
      <3>. HIDE DEF r
      <3>. QED
        BY <3>1 DEF Placed, Place, Refs, Walking, WithParent, WithInode, OfLink
    <2>4. /\ pr' \in [Procs -> Threads] /\ \A q \in Procs \ {p} : pr'[q] = pr[q]
          /\ t.call = r.call /\ t.file = r.file /\ t.n = r.n
      <3>1. "iput" \in Pcs /\ None \in Refs /\ ip \in Refs /\ "end" \in Afters
        BY <2>1, <2>3, Facts, Numbers DEF Pcs, Afters, InPipe
      <3>2. DOMAIN [pc |-> "iput", put |-> ip, ip |-> None, after |-> "end"] \cap {"file", "n", "call"} = {}
        OBVIOUS
      <3>. QED
        BY <2>1, <2>2, <3>1, <3>2, Facts, Moved
    <2>5. Placed(t) /\ t.pc \notin {"pipeclose", "read", "write"}
      <3>. HIDE DEF r, t
      <3>. QED
        BY <2>1, <2>2, <2>3, <2>4, Numbers DEF Placed, Place, Vars, Walking, WithParent, WithInode, OfLink, PathCalls, Afters
    <2>6. ic' \in [Inums -> Entries] /\ \A j \in Inums : ic'[j].ref = ic[j].ref
      BY <2>1, <2>3, Facts, CacheOps
    <2>7. \A j \in Inums : ic'[j].ref = ic[j].ref - Count(r, j) + Count(t, j)
      <3>1. \A j \in Inums : ic[j].ref \in Int /\ j # None
        BY Facts, Numbers
      <3>. HIDE DEF r, t
      <3>. QED
        BY <2>2, <2>3, <2>6, <3>1 DEF Count, One, Vars
    <2>8. Good(fs')
      BY <2>1, <2>3, Facts
    <2>. QED
      BY <2>1, <2>2, <2>3, <2>4, <2>5, <2>6, <2>7, <2>8, Facts DEF InodeStep, Moves, OnlyInodes, Same, Going, Vars
  <1>3. CASE ~NoType(ip) /\ fs.di[ip].type # "DIR"
    <2>1. /\ r.pc = "link" /\ Goto(p, [pc |-> "walk", cur |-> ROOTINO, rest |-> r.call.new])
          /\ ic' = iget(Visited(ic, ip), ROOTINO) /\ fs' = [fs EXCEPT !.di[ip].nlink = @ + 1] /\ OnlyInodes /\ Same
      BY <1>3 DEF Link, At, ilock
    <2>2. Vars(t, "walk", ROOTINO, r.call.new, r.next, r.ip, r.dp, r.put, r.after)
      <3>. HIDE DEF ip
      <3>. QED
        BY <2>1, Facts, GoesTo
    <2>3. /\ r.file = None /\ r.n = 0 /\ Placed(r) /\ r.call \in Calls /\ r.after \in Afters
          /\ ip \in Inums
          /\ r.put = None
          /\ r.cur = None
          /\ r.call.c = "link"
      <3>1. r.pc = "link" /\ Placed(r) /\ r.call \in Calls /\ r.cur \in Refs /\ r.next \in Refs /\ r.ip \in Refs /\ r.dp \in Refs /\ r.put \in Refs /\ r.after \in Afters
        BY <2>1, Facts
      <3>. HIDE DEF r
      <3>. QED
        BY <3>1 DEF Placed, Place, Refs, Walking, WithParent, WithInode, OfLink
    <2>4. r.call.new \in Seq(Names) /\ r.call.new # <<>> /\ ROOTINO \in Inums
      BY <2>3, CallNames, Numbers
    <2>5. /\ pr' \in [Procs -> Threads] /\ \A q \in Procs \ {p} : pr'[q] = pr[q]
          /\ t.call = r.call /\ t.file = r.file /\ t.n = r.n
      <3>1. "walk" \in Pcs /\ ROOTINO \in Refs /\ r.call.new \in Seq(Names)
        BY <2>4, <2>1, <2>3, Facts, Numbers DEF Pcs, Afters, InPipe
      <3>2. DOMAIN [pc |-> "walk", cur |-> ROOTINO, rest |-> r.call.new] \cap {"file", "n", "call"} = {}
        OBVIOUS
      <3>. QED
        BY <2>1, <2>2, <3>1, <3>2, Facts, Moved
    <2>6. Placed(t) /\ t.pc \notin {"pipeclose", "read", "write"}
      <3>. HIDE DEF r, t
      <3>. QED
        BY <2>4, <2>1, <2>2, <2>3, <2>5, Numbers DEF Placed, Place, Vars, Walking, WithParent, WithInode, OfLink, PathCalls, Afters
    <2>7. ic' \in [Inums -> Entries] /\ \A j \in Inums : ic'[j].ref = ic[j].ref + One(j = ROOTINO)
      <3>. HIDE DEF r, ip
      <3>1. Visited(ic, ip) \in [Inums -> Entries] /\ \A j \in Inums : Visited(ic, ip)[j].ref = ic[j].ref
        BY <2>4, <2>3, Facts, CacheOps
      <3>2. iget(Visited(ic, ip), ROOTINO) \in [Inums -> Entries] /\ \A j \in Inums : iget(Visited(ic, ip), ROOTINO)[j].ref = ic[j].ref + One(j = ROOTINO)
        BY <2>4, <2>3, <3>1, Facts, CacheOps
      <3>. QED
        BY <2>1, <3>2
    <2>8. \A j \in Inums : ic'[j].ref = ic[j].ref - Count(r, j) + Count(t, j)
      <3>1. \A j \in Inums : ic[j].ref \in Int /\ j # None
        BY Facts, Numbers
      <3>. HIDE DEF r, t
      <3>. QED
        BY <2>4, <2>2, <2>3, <2>7, <3>1 DEF Count, One, Vars
    <2>9. Good(fs')
      BY <2>4, <2>1, <2>3, Facts, NlinkKeeps
    <2>. QED
      BY <2>1, <2>2, <2>3, <2>5, <2>6, <2>7, <2>8, <2>9, Facts DEF InodeStep, Moves, OnlyInodes, Same, Going, Vars
  <1>. QED
    BY <1>1, <1>2, <1>3


\* link, at the new directory
LEMMA EnterKeeps ==
    ASSUME Inv, NEW p \in Procs, Enter(p)
    PROVE  InodeStep(p) \/ Stopped
  <1> DEFINE r == pr[p]
             t == pr'[p]
             dp == r.dp
             ip == r.ip
             old == fs.di[dp].ents[Last(r.call.new)]
  <1>1. CASE NoType(dp)
    BY <1>1 DEF Enter, ilock, Panic, Stopped, Same, Going
  <1>2. CASE ~NoType(dp) /\ old # None
    <2>1. /\ r.pc = "enter" /\ Goto(p, [pc |-> "iput", put |-> old, after |-> "enterbad"])
          /\ ic' = iget(Locked(ic, dp, p), old) /\ fs' = fs /\ OnlyInodes /\ Same
      BY <1>2 DEF Enter, At, ilock
    <2>2. Vars(t, "iput", r.cur, r.rest, r.next, r.ip, r.dp, old, "enterbad")
      <3>. HIDE DEF dp, ip, old
      <3>. QED
        BY <2>1, Facts, GoesTo
    <2>3. /\ r.file = None /\ r.n = 0 /\ Placed(r) /\ r.call \in Calls /\ r.after \in Afters
          /\ dp \in Inums
          /\ ip \in Inums
          /\ r.put = None
          /\ r.call.c = "link"
      <3>1. r.pc = "enter" /\ Placed(r) /\ r.call \in Calls /\ r.cur \in Refs /\ r.next \in Refs /\ r.ip \in Refs /\ r.dp \in Refs /\ r.put \in Refs /\ r.after \in Afters
        BY <2>1, Facts
      <3>. HIDE DEF r
      <3>. QED
        BY <3>1 DEF Placed, Place, Refs, Walking, WithParent, WithInode, OfLink
    <2>4. old \in Inums /\ old # None
      <3>1. old \in Refs
        BY <2>3, Facts, CallNames DEF Disks, Inodes
      <3>. QED
        BY <1>2, <3>1 DEF Refs
    <2>5. /\ pr' \in [Procs -> Threads] /\ \A q \in Procs \ {p} : pr'[q] = pr[q]
          /\ t.call = r.call /\ t.file = r.file /\ t.n = r.n
      <3>1. "iput" \in Pcs /\ old \in Refs /\ "enterbad" \in Afters
        BY <2>4, <2>1, <2>3, Facts, Numbers DEF Pcs, Afters, InPipe
      <3>2. DOMAIN [pc |-> "iput", put |-> old, after |-> "enterbad"] \cap {"file", "n", "call"} = {}
        OBVIOUS
      <3>. QED
        BY <2>1, <2>2, <3>1, <3>2, Facts, Moved
    <2>6. Placed(t) /\ t.pc \notin {"pipeclose", "read", "write"}
      <3>. HIDE DEF r, t
      <3>. QED
        BY <2>4, <2>1, <2>2, <2>3, <2>5, Numbers DEF Placed, Place, Vars, Walking, WithParent, WithInode, OfLink, PathCalls, Afters
    <2>7. ic' \in [Inums -> Entries] /\ \A j \in Inums : ic'[j].ref = ic[j].ref + One(j = old)
      <3>. HIDE DEF r, dp, ip, old
      <3>1. Locked(ic, dp, p) \in [Inums -> Entries] /\ \A j \in Inums : Locked(ic, dp, p)[j].ref = ic[j].ref
        BY <2>4, <2>3, Facts, CacheOps
      <3>2. iget(Locked(ic, dp, p), old) \in [Inums -> Entries] /\ \A j \in Inums : iget(Locked(ic, dp, p), old)[j].ref = ic[j].ref + One(j = old)
        BY <2>4, <2>3, <3>1, Facts, CacheOps
      <3>. QED
        BY <2>1, <3>2
    <2>8. \A j \in Inums : ic'[j].ref = ic[j].ref - Count(r, j) + Count(t, j)
      <3>1. \A j \in Inums : ic[j].ref \in Int /\ j # None
        BY Facts, Numbers
      <3>. HIDE DEF r, t
      <3>. QED
        BY <2>4, <2>2, <2>3, <2>7, <3>1 DEF Count, One, Vars
    <2>9. Good(fs')
      BY <2>4, <2>1, <2>3, Facts
    <2>. QED
      BY <2>1, <2>2, <2>3, <2>5, <2>6, <2>7, <2>8, <2>9, Facts DEF InodeStep, Moves, OnlyInodes, Same, Going, Vars
  <1>3. CASE ~NoType(dp) /\ old = None
    <2>1. /\ r.pc = "enter" /\ Goto(p, [pc |-> "iput", put |-> dp, dp |-> None, after |-> "linked"])
          /\ ic' = Visited(ic, dp) /\ fs' = dirlink(fs, dp, Last(r.call.new), ip) /\ OnlyInodes /\ Same
      BY <1>3 DEF Enter, At, ilock
    <2>2. Vars(t, "iput", r.cur, r.rest, r.next, r.ip, None, dp, "linked")
      <3>. HIDE DEF dp, ip, old
      <3>. QED
        BY <2>1, Facts, GoesTo
    <2>3. /\ r.file = None /\ r.n = 0 /\ Placed(r) /\ r.call \in Calls /\ r.after \in Afters
          /\ dp \in Inums
          /\ ip \in Inums
          /\ r.put = None
          /\ r.call.c = "link"
      <3>1. r.pc = "enter" /\ Placed(r) /\ r.call \in Calls /\ r.cur \in Refs /\ r.next \in Refs /\ r.ip \in Refs /\ r.dp \in Refs /\ r.put \in Refs /\ r.after \in Afters
        BY <2>1, Facts
      <3>. HIDE DEF r
      <3>. QED
        BY <3>1 DEF Placed, Place, Refs, Walking, WithParent, WithInode, OfLink
    <2>4. /\ pr' \in [Procs -> Threads] /\ \A q \in Procs \ {p} : pr'[q] = pr[q]
          /\ t.call = r.call /\ t.file = r.file /\ t.n = r.n
      <3>1. "iput" \in Pcs /\ None \in Refs /\ dp \in Refs /\ "linked" \in Afters
        BY <2>1, <2>3, Facts, Numbers DEF Pcs, Afters, InPipe
      <3>2. DOMAIN [pc |-> "iput", put |-> dp, dp |-> None, after |-> "linked"] \cap {"file", "n", "call"} = {}
        OBVIOUS
      <3>. QED
        BY <2>1, <2>2, <3>1, <3>2, Facts, Moved
    <2>5. Placed(t) /\ t.pc \notin {"pipeclose", "read", "write"}
      <3>. HIDE DEF r, t
      <3>. QED
        BY <2>1, <2>2, <2>3, <2>4, Numbers DEF Placed, Place, Vars, Walking, WithParent, WithInode, OfLink, PathCalls, Afters
    <2>6. ic' \in [Inums -> Entries] /\ \A j \in Inums : ic'[j].ref = ic[j].ref
      BY <2>1, <2>3, Facts, CacheOps
    <2>7. \A j \in Inums : ic'[j].ref = ic[j].ref - Count(r, j) + Count(t, j)
      <3>1. \A j \in Inums : ic[j].ref \in Int /\ j # None
        BY Facts, Numbers
      <3>. HIDE DEF r, t
      <3>. QED
        BY <2>2, <2>3, <2>6, <3>1 DEF Count, One, Vars
    <2>8. Good(fs')
      BY <2>1, <2>3, Facts, CallNames, DirlinkKeeps, Numbers
    <2>. QED
      BY <2>1, <2>2, <2>3, <2>4, <2>5, <2>6, <2>7, <2>8, Facts DEF InodeStep, Moves, OnlyInodes, Same, Going, Vars
  <1>. QED
    BY <1>1, <1>2, <1>3

\* iput, the reference dropped
LEMMA DropKeeps ==
    ASSUME Inv, NEW p \in Procs, Drop(p)
    PROVE  InodeStep(p) \/ Stopped
  <1> DEFINE r == pr[p]
             t == pr'[p]
  <1>1. /\ r.pc = "drop" /\ Goto(p, [pc |-> r.after, put |-> None])
        /\ ic' = [ic EXCEPT ![r.put].ref = @ - 1] /\ fs' = fs /\ OnlyInodes /\ Same
    BY DEF Drop, At
  <1>2. Vars(t, r.after, r.cur, r.rest, r.next, r.ip, r.dp, None, r.after)
    BY <1>1, Facts, GoesTo
  <1>3. /\ r.file = None /\ r.n = 0 /\ Placed(r) /\ r.call \in Calls /\ r.after \in Afters
        /\ r.put \in Inums
        /\ r.after \notin {"readopen", "writeopen", ""}
    <2>1. r.pc = "drop" /\ Placed(r) /\ r.call \in Calls /\ r.cur \in Refs /\ r.next \in Refs /\ r.ip \in Refs /\ r.dp \in Refs /\ r.put \in Refs /\ r.after \in Afters
      BY <1>1, Facts
    <2>. HIDE DEF r
    <2>. QED
      BY <2>1 DEF Placed, Place, Refs, Walking, WithParent, WithInode, OfLink
  <1>4. /\ pr' \in [Procs -> Threads] /\ \A q \in Procs \ {p} : pr'[q] = pr[q]
        /\ t.call = r.call /\ t.file = r.file /\ t.n = r.n
    <2>1. r.after \in Pcs /\ None \in Refs
      BY <1>1, <1>3, Facts, Numbers DEF Pcs, Afters, InPipe
    <2>2. DOMAIN [pc |-> r.after, put |-> None] \cap {"file", "n", "call"} = {}
      OBVIOUS
    <2>. QED
      BY <1>1, <1>2, <2>1, <2>2, Facts, Moved
  <1>5. Placed(t) /\ t.pc \notin {"pipeclose", "read", "write"}
    <2>. HIDE DEF r, t
    <2>. QED
      BY <1>1, <1>2, <1>3, <1>4, Numbers DEF Placed, Place, Vars, Walking, WithParent, WithInode, OfLink, PathCalls, Afters
  <1>6. ic' \in [Inums -> Entries] /\ \A j \in Inums : ic'[j].ref = ic[j].ref - One(j = r.put)
    <2>1. ic \in [Inums -> Entries]
      BY Facts
    <2>. HIDE DEF r
    <2>. QED
      BY <1>1, <1>3, <2>1, DropOp
  <1>7. \A j \in Inums : ic'[j].ref = ic[j].ref - Count(r, j) + Count(t, j)
    <2>. HIDE DEF r, t
    <2>1. ASSUME NEW j \in Inums PROVE One(None = j) = 0 /\ One(r.put = j) = One(j = r.put) /\ ic[j].ref \in Int
      BY Facts, Numbers DEF One
    <2>2. \A x : One(x) \in Int
      BY DEF One
    <2>3. ASSUME NEW j \in Inums PROVE Count(t, j) = Count(r, j) - One(r.put = j) /\ Count(r, j) \in Int
      BY <1>2, <2>1, <2>2 DEF Count, Vars
    <2>. QED
      BY <1>6, <2>1, <2>2, <2>3
  <1>8. Good(fs')
    BY <1>1, <1>3, Facts
  <1>. QED
    BY <1>1, <1>2, <1>3, <1>4, <1>5, <1>6, <1>7, <1>8, Facts DEF InodeStep, Moves, OnlyInodes, Same, Going, Vars


\* One name of a path
LEMMA WalkStepKeeps ==
    ASSUME Inv, NEW p \in Procs, WalkStep(p)
    PROVE  InodeStep(p) \/ Stopped
  <1> DEFINE r == pr[p]
             t == pr'[p]
             cur == r.cur
             rest == r.rest
             dir == fs.di[cur].type = "DIR"
             next == IF dir THEN fs.di[cur].ents[Head(rest)] ELSE None
             arr == Arrive[Stage(p)]
  <1>1. CASE NoType(cur)
    BY <1>1 DEF WalkStep, ilock, Panic, Stopped, Same, Going
  <1>2. CASE ~NoType(cur) /\ (dir /\ Stage(p) \in ToParent /\ Len(rest) = 1)
    <2>1. /\ r.pc = "walk" /\ Goto(p, [pc |-> arr, cur |-> None, dp |-> cur])
          /\ ic' = Visited(ic, cur) /\ fs' = fs /\ OnlyInodes /\ Same
      BY <1>2 DEF WalkStep, At, ilock
    <2>2. Vars(t, arr, None, r.rest, r.next, r.ip, cur, r.put, r.after)
      <3>. HIDE DEF cur, rest, dir, next, arr
      <3>. QED
        BY <2>1, Facts, GoesTo
    <2>3. /\ r.file = None /\ r.n = 0 /\ Placed(r) /\ r.call \in Calls /\ r.after \in Afters
          /\ cur \in Inums
          /\ r.put = None
          /\ r.next = None
          /\ r.dp = None
          /\ r.rest # <<>>
          /\ r.call.c \in PathCalls
          /\ r.ip # None => r.call.c = "link"
      <3>1. r.pc = "walk" /\ Placed(r) /\ r.call \in Calls /\ r.cur \in Refs /\ r.next \in Refs /\ r.ip \in Refs /\ r.dp \in Refs /\ r.put \in Refs /\ r.after \in Afters
        BY <2>1, Facts
      <3>. HIDE DEF r
      <3>. QED
        BY <3>1 DEF Placed, Place, Refs, Walking, WithParent, WithInode, OfLink
    <2>4. /\ arr \in {"create", "unlink", "enter"} /\ (arr = "create" => r.call.c \in {"create", "mkdir"})
          /\ (arr = "enter" => r.call.c = "link" /\ r.ip # None) /\ (arr # "enter" => r.ip = None)
      BY <1>2, <2>3 DEF Stage, Arrive, ToParent, PathCalls
    <2>5. /\ pr' \in [Procs -> Threads] /\ \A q \in Procs \ {p} : pr'[q] = pr[q]
          /\ t.call = r.call /\ t.file = r.file /\ t.n = r.n
      <3>1. arr \in Pcs /\ None \in Refs /\ cur \in Refs
        BY <2>4, <2>1, <2>3, Facts, Numbers DEF Pcs, Afters, InPipe
      <3>2. DOMAIN [pc |-> arr, cur |-> None, dp |-> cur] \cap {"file", "n", "call"} = {}
        OBVIOUS
      <3>. QED
        BY <2>1, <2>2, <3>1, <3>2, Facts, Moved
    <2>6. Placed(t) /\ t.pc \notin {"pipeclose", "read", "write"}
      <3>. HIDE DEF r, t
      <3>. QED
        BY <2>4, <2>1, <2>2, <2>3, <2>5, Numbers DEF Placed, Place, Vars, Walking, WithParent, WithInode, OfLink, PathCalls, Afters
    <2>7. ic' \in [Inums -> Entries] /\ \A j \in Inums : ic'[j].ref = ic[j].ref
      BY <2>4, <2>1, <2>3, Facts, CacheOps
    <2>8. \A j \in Inums : ic'[j].ref = ic[j].ref - Count(r, j) + Count(t, j)
      <3>1. \A j \in Inums : ic[j].ref \in Int /\ j # None
        BY Facts, Numbers
      <3>. HIDE DEF r, t
      <3>. QED
        BY <2>4, <2>2, <2>3, <2>7, <3>1 DEF Count, One, Vars
    <2>9. Good(fs')
      BY <2>4, <2>1, <2>3, Facts
    <2>. QED
      BY <2>1, <2>2, <2>3, <2>5, <2>6, <2>7, <2>8, <2>9, Facts DEF InodeStep, Moves, OnlyInodes, Same, Going, Vars
  <1>3. CASE ~NoType(cur) /\ ~(dir /\ Stage(p) \in ToParent /\ Len(rest) = 1) /\ next = None
    <2>1. /\ r.pc = "walk" /\ Goto(p, [pc |-> "iput", put |-> cur, cur |-> None, next |-> next, after |-> "notfound"])
          /\ ic' = Visited(ic, cur) /\ fs' = fs /\ OnlyInodes /\ Same
      BY <1>3 DEF WalkStep, At, ilock
    <2>2. Vars(t, "iput", None, r.rest, next, r.ip, r.dp, cur, "notfound")
      <3>. HIDE DEF cur, rest, dir, next, arr
      <3>. QED
        BY <2>1, Facts, GoesTo
    <2>3. /\ r.file = None /\ r.n = 0 /\ Placed(r) /\ r.call \in Calls /\ r.after \in Afters
          /\ cur \in Inums
          /\ r.put = None
          /\ r.next = None
          /\ r.dp = None
          /\ r.rest # <<>>
          /\ r.call.c \in PathCalls
          /\ r.ip # None => r.call.c = "link"
      <3>1. r.pc = "walk" /\ Placed(r) /\ r.call \in Calls /\ r.cur \in Refs /\ r.next \in Refs /\ r.ip \in Refs /\ r.dp \in Refs /\ r.put \in Refs /\ r.after \in Afters
        BY <2>1, Facts
      <3>. HIDE DEF r
      <3>. QED
        BY <3>1 DEF Placed, Place, Refs, Walking, WithParent, WithInode, OfLink
    <2>4. next = None
      BY <1>3
    <2>5. /\ pr' \in [Procs -> Threads] /\ \A q \in Procs \ {p} : pr'[q] = pr[q]
          /\ t.call = r.call /\ t.file = r.file /\ t.n = r.n
      <3>1. "iput" \in Pcs /\ None \in Refs /\ next \in Refs /\ cur \in Refs /\ "notfound" \in Afters
        BY <2>4, <2>1, <2>3, Facts, Numbers DEF Pcs, Afters, InPipe
      <3>2. DOMAIN [pc |-> "iput", put |-> cur, cur |-> None, next |-> next, after |-> "notfound"] \cap {"file", "n", "call"} = {}
        OBVIOUS
      <3>. QED
        BY <2>1, <2>2, <3>1, <3>2, Facts, Moved
    <2>6. Placed(t) /\ t.pc \notin {"pipeclose", "read", "write"}
      <3>. HIDE DEF r, t
      <3>. QED
        BY <2>4, <2>1, <2>2, <2>3, <2>5, Numbers DEF Placed, Place, Vars, Walking, WithParent, WithInode, OfLink, PathCalls, Afters
    <2>7. ic' \in [Inums -> Entries] /\ \A j \in Inums : ic'[j].ref = ic[j].ref
      BY <2>4, <2>1, <2>3, Facts, CacheOps
    <2>8. \A j \in Inums : ic'[j].ref = ic[j].ref - Count(r, j) + Count(t, j)
      <3>1. \A j \in Inums : ic[j].ref \in Int /\ j # None
        BY Facts, Numbers
      <3>. HIDE DEF r, t
      <3>. QED
        BY <2>4, <2>2, <2>3, <2>7, <3>1 DEF Count, One, Vars
    <2>9. Good(fs')
      BY <2>4, <2>1, <2>3, Facts
    <2>. QED
      BY <2>1, <2>2, <2>3, <2>5, <2>6, <2>7, <2>8, <2>9, Facts DEF InodeStep, Moves, OnlyInodes, Same, Going, Vars
  <1>4. CASE ~NoType(cur) /\ ~(dir /\ Stage(p) \in ToParent /\ Len(rest) = 1) /\ next # None
    <2>1. /\ r.pc = "walk" /\ Goto(p, [pc |-> "iput", put |-> cur, cur |-> None, next |-> next, after |-> "walked"])
          /\ ic' = iget(Visited(ic, cur), next) /\ fs' = fs /\ OnlyInodes /\ Same
      BY <1>4 DEF WalkStep, At, ilock
    <2>2. Vars(t, "iput", None, r.rest, next, r.ip, r.dp, cur, "walked")
      <3>. HIDE DEF cur, rest, dir, next, arr
      <3>. QED
        BY <2>1, Facts, GoesTo
    <2>3. /\ r.file = None /\ r.n = 0 /\ Placed(r) /\ r.call \in Calls /\ r.after \in Afters
          /\ cur \in Inums
          /\ r.put = None
          /\ r.next = None
          /\ r.dp = None
          /\ r.rest # <<>>
          /\ r.call.c \in PathCalls
          /\ r.ip # None => r.call.c = "link"
      <3>1. r.pc = "walk" /\ Placed(r) /\ r.call \in Calls /\ r.cur \in Refs /\ r.next \in Refs /\ r.ip \in Refs /\ r.dp \in Refs /\ r.put \in Refs /\ r.after \in Afters
        BY <2>1, Facts
      <3>. HIDE DEF r
      <3>. QED
        BY <3>1 DEF Placed, Place, Refs, Walking, WithParent, WithInode, OfLink
    <2>4. next \in Refs
      <3>1. Head(rest) \in Names
        BY <2>3, Facts, Paths
      <3>2. fs.di[cur].ents \in [Names -> Refs] /\ None \in Refs
        BY <2>3, Facts, Numbers DEF Disks, Inodes
      <3>3. fs.di[cur].ents[Head(rest)] \in Refs
        BY <3>1, <3>2
      <3>. QED
        BY <3>2, <3>3
    <2>5. next \in Inums
      BY <1>4, <2>4 DEF Refs
    <2>6. Len(r.rest) = 1 => r.ip = None /\ r.call.c \in {"open", "link"}
      BY <1>4, <2>3 DEF Stage, ToParent, PathCalls
    <2>7. /\ pr' \in [Procs -> Threads] /\ \A q \in Procs \ {p} : pr'[q] = pr[q]
          /\ t.call = r.call /\ t.file = r.file /\ t.n = r.n
      <3>1. "iput" \in Pcs /\ None \in Refs /\ next \in Refs /\ cur \in Refs /\ "walked" \in Afters
        BY <2>4, <2>5, <2>6, <2>1, <2>3, Facts, Numbers DEF Pcs, Afters, InPipe
      <3>2. DOMAIN [pc |-> "iput", put |-> cur, cur |-> None, next |-> next, after |-> "walked"] \cap {"file", "n", "call"} = {}
        OBVIOUS
      <3>. QED
        BY <2>1, <2>2, <3>1, <3>2, Facts, Moved
    <2>8. Placed(t) /\ t.pc \notin {"pipeclose", "read", "write"}
      <3>. HIDE DEF r, t
      <3>. QED
        BY <2>4, <2>5, <2>6, <2>1, <2>2, <2>3, <2>7, Numbers DEF Placed, Place, Vars, Walking, WithParent, WithInode, OfLink, PathCalls, Afters
    <2>9. ic' \in [Inums -> Entries] /\ \A j \in Inums : ic'[j].ref = ic[j].ref + One(j = next)
      <3>. HIDE DEF r, cur, rest, dir, next, arr
      <3>1. Visited(ic, cur) \in [Inums -> Entries] /\ \A j \in Inums : Visited(ic, cur)[j].ref = ic[j].ref
        BY <2>4, <2>5, <2>6, <2>3, Facts, CacheOps
      <3>2. iget(Visited(ic, cur), next) \in [Inums -> Entries] /\ \A j \in Inums : iget(Visited(ic, cur), next)[j].ref = ic[j].ref + One(j = next)
        BY <2>4, <2>5, <2>6, <2>3, <3>1, Facts, CacheOps
      <3>. QED
        BY <2>1, <3>2
    <2>10. \A j \in Inums : ic'[j].ref = ic[j].ref - Count(r, j) + Count(t, j)
      <3>1. \A j \in Inums : ic[j].ref \in Int /\ j # None
        BY Facts, Numbers
      <3>. HIDE DEF r, t
      <3>. QED
        BY <2>4, <2>5, <2>6, <2>2, <2>3, <2>9, <3>1 DEF Count, One, Vars
    <2>11. Good(fs')
      BY <2>4, <2>5, <2>6, <2>1, <2>3, Facts
    <2>. QED
      BY <2>1, <2>2, <2>3, <2>7, <2>8, <2>9, <2>10, <2>11, Facts DEF InodeStep, Moves, OnlyInodes, Same, Going, Vars
  <1>. QED
    BY <1>1, <1>2, <1>3, <1>4


\* The next name, or the inode the path names
LEMMA WalkedKeeps ==
    ASSUME Inv, NEW p \in Procs, Walked(p)
    PROVE  InodeStep(p) \/ Stopped
  <1> DEFINE r == pr[p]
             t == pr'[p]
             next == r.next
             rest == r.rest
             tl == Tail(rest)
             arr == Arrive[Stage(p)]
  <1>1. CASE Len(rest) > 1
    <2>1. /\ r.pc = "walked" /\ Goto(p, [pc |-> "walk", cur |-> next, rest |-> tl, next |-> None])
          /\ ic' = ic /\ fs' = fs /\ OnlyInodes /\ Same
      BY <1>1 DEF Walked, At
    <2>2. Vars(t, "walk", next, tl, None, r.ip, r.dp, r.put, r.after)
      <3>. HIDE DEF next, rest, tl, arr
      <3>. QED
        BY <2>1, Facts, GoesTo
    <2>3. /\ r.file = None /\ r.n = 0 /\ Placed(r) /\ r.call \in Calls /\ r.after \in Afters
          /\ next \in Inums
          /\ r.put = None
          /\ r.rest # <<>>
          /\ r.cur = None
          /\ r.dp = None
          /\ r.call.c \in PathCalls
          /\ r.ip # None => r.call.c = "link"
          /\ Len(r.rest) = 1 => r.ip = None /\ r.call.c \in {"open", "link"}
      <3>1. r.pc = "walked" /\ Placed(r) /\ r.call \in Calls /\ r.cur \in Refs /\ r.next \in Refs /\ r.ip \in Refs /\ r.dp \in Refs /\ r.put \in Refs /\ r.after \in Afters
        BY <2>1, Facts
      <3>. HIDE DEF r
      <3>. QED
        BY <3>1 DEF Placed, Place, Refs, Walking, WithParent, WithInode, OfLink
    <2>4. tl \in Seq(Names) /\ tl # <<>>
      BY <1>1, Facts, Paths
    <2>5. /\ pr' \in [Procs -> Threads] /\ \A q \in Procs \ {p} : pr'[q] = pr[q]
          /\ t.call = r.call /\ t.file = r.file /\ t.n = r.n
      <3>1. "walk" \in Pcs /\ next \in Refs /\ None \in Refs /\ tl \in Seq(Names)
        BY <2>4, <2>1, <2>3, Facts, Numbers DEF Pcs, Afters, InPipe
      <3>2. DOMAIN [pc |-> "walk", cur |-> next, rest |-> tl, next |-> None] \cap {"file", "n", "call"} = {}
        OBVIOUS
      <3>. QED
        BY <2>1, <2>2, <3>1, <3>2, Facts, Moved
    <2>6. Placed(t) /\ t.pc \notin {"pipeclose", "read", "write"}
      <3>. HIDE DEF r, t
      <3>. QED
        BY <2>4, <2>1, <2>2, <2>3, <2>5, Numbers DEF Placed, Place, Vars, Walking, WithParent, WithInode, OfLink, PathCalls, Afters
    <2>7. ic' \in [Inums -> Entries] /\ \A j \in Inums : ic'[j].ref = ic[j].ref
      BY <2>1, Facts
    <2>8. \A j \in Inums : ic'[j].ref = ic[j].ref - Count(r, j) + Count(t, j)
      <3>1. \A j \in Inums : ic[j].ref \in Int /\ j # None
        BY Facts, Numbers
      <3>. HIDE DEF r, t
      <3>. QED
        BY <2>4, <2>2, <2>3, <2>7, <3>1 DEF Count, One, Vars
    <2>9. Good(fs')
      BY <2>4, <2>1, <2>3, Facts
    <2>. QED
      BY <2>1, <2>2, <2>3, <2>5, <2>6, <2>7, <2>8, <2>9, Facts DEF InodeStep, Moves, OnlyInodes, Same, Going, Vars
  <1>2. CASE ~(Len(rest) > 1)
    <2>1. /\ r.pc = "walked" /\ Goto(p, [pc |-> arr, ip |-> next, next |-> None])
          /\ ic' = ic /\ fs' = fs /\ OnlyInodes /\ Same
      BY <1>2 DEF Walked, At
    <2>2. Vars(t, arr, r.cur, r.rest, None, next, r.dp, r.put, r.after)
      <3>. HIDE DEF next, rest, tl, arr
      <3>. QED
        BY <2>1, Facts, GoesTo
    <2>3. /\ r.file = None /\ r.n = 0 /\ Placed(r) /\ r.call \in Calls /\ r.after \in Afters
          /\ next \in Inums
          /\ r.put = None
          /\ r.rest # <<>>
          /\ r.cur = None
          /\ r.dp = None
          /\ r.call.c \in PathCalls
          /\ r.ip # None => r.call.c = "link"
          /\ Len(r.rest) = 1 => r.ip = None /\ r.call.c \in {"open", "link"}
      <3>1. r.pc = "walked" /\ Placed(r) /\ r.call \in Calls /\ r.cur \in Refs /\ r.next \in Refs /\ r.ip \in Refs /\ r.dp \in Refs /\ r.put \in Refs /\ r.after \in Afters
        BY <2>1, Facts
      <3>. HIDE DEF r
      <3>. QED
        BY <3>1 DEF Placed, Place, Refs, Walking, WithParent, WithInode, OfLink
    <2>4. Len(rest) = 1
      BY <1>2, <2>3, Facts, Paths
    <2>5. /\ arr \in {"open", "link"} /\ r.ip = None /\ (arr = "link" => r.call.c = "link")
      BY <2>3, <2>4 DEF Stage, Arrive
    <2>6. /\ pr' \in [Procs -> Threads] /\ \A q \in Procs \ {p} : pr'[q] = pr[q]
          /\ t.call = r.call /\ t.file = r.file /\ t.n = r.n
      <3>1. arr \in Pcs /\ None \in Refs /\ next \in Refs
        BY <2>4, <2>5, <2>1, <2>3, Facts, Numbers DEF Pcs, Afters, InPipe
      <3>2. DOMAIN [pc |-> arr, ip |-> next, next |-> None] \cap {"file", "n", "call"} = {}
        OBVIOUS
      <3>. QED
        BY <2>1, <2>2, <3>1, <3>2, Facts, Moved
    <2>7. Placed(t) /\ t.pc \notin {"pipeclose", "read", "write"}
      <3>. HIDE DEF r, t
      <3>. QED
        BY <2>4, <2>5, <2>1, <2>2, <2>3, <2>6, Numbers DEF Placed, Place, Vars, Walking, WithParent, WithInode, OfLink, PathCalls, Afters
    <2>8. ic' \in [Inums -> Entries] /\ \A j \in Inums : ic'[j].ref = ic[j].ref
      BY <2>1, Facts
    <2>9. \A j \in Inums : ic'[j].ref = ic[j].ref - Count(r, j) + Count(t, j)
      <3>1. \A j \in Inums : ic[j].ref \in Int /\ j # None
        BY Facts, Numbers
      <3>. HIDE DEF r, t
      <3>. QED
        BY <2>4, <2>5, <2>2, <2>3, <2>8, <3>1 DEF Count, One, Vars
    <2>10. Good(fs')
      BY <2>4, <2>5, <2>1, <2>3, Facts
    <2>. QED
      BY <2>1, <2>2, <2>3, <2>6, <2>7, <2>8, <2>9, <2>10, Facts DEF InodeStep, Moves, OnlyInodes, Same, Going, Vars
  <1>. QED
    BY <1>1, <1>2


\* A path that leads nowhere
LEMMA NotFoundKeeps ==
    ASSUME Inv, NEW p \in Procs, NotFound(p)
    PROVE  InodeStep(p) \/ Stopped
  <1> DEFINE r == pr[p]
             t == pr'[p]
  <1>1. CASE Stage(p) = "link2"
    <2>1. /\ r.pc = "notfound" /\ Goto(p, [pc |-> "bad"])
          /\ ic' = ic /\ fs' = fs /\ OnlyInodes /\ Same
      BY <1>1 DEF NotFound, At
    <2>2. Vars(t, "bad", r.cur, r.rest, r.next, r.ip, r.dp, r.put, r.after)
      BY <2>1, Facts, GoesTo
    <2>3. /\ r.file = None /\ r.n = 0 /\ Placed(r) /\ r.call \in Calls /\ r.after \in Afters
          /\ r.put = None
          /\ r.cur = None
          /\ r.next = None
          /\ r.dp = None
          /\ r.call.c \in PathCalls
          /\ r.ip # None => r.call.c = "link"
      <3>1. r.pc = "notfound" /\ Placed(r) /\ r.call \in Calls /\ r.cur \in Refs /\ r.next \in Refs /\ r.ip \in Refs /\ r.dp \in Refs /\ r.put \in Refs /\ r.after \in Afters
        BY <2>1, Facts
      <3>. HIDE DEF r
      <3>. QED
        BY <3>1 DEF Placed, Place, Refs, Walking, WithParent, WithInode, OfLink
    <2>4. r.ip # None /\ r.call.c = "link"
      BY <1>1, <2>3 DEF Stage, PathCalls
    <2>5. /\ pr' \in [Procs -> Threads] /\ \A q \in Procs \ {p} : pr'[q] = pr[q]
          /\ t.call = r.call /\ t.file = r.file /\ t.n = r.n
      <3>1. "bad" \in Pcs
        BY <2>4, <2>1, <2>3, Facts, Numbers DEF Pcs, Afters, InPipe
      <3>2. DOMAIN [pc |-> "bad"] \cap {"file", "n", "call"} = {}
        OBVIOUS
      <3>. QED
        BY <2>1, <2>2, <3>1, <3>2, Facts, Moved
    <2>6. Placed(t) /\ t.pc \notin {"pipeclose", "read", "write"}
      <3>. HIDE DEF r, t
      <3>. QED
        BY <2>4, <2>1, <2>2, <2>3, <2>5, Numbers DEF Placed, Place, Vars, Walking, WithParent, WithInode, OfLink, PathCalls, Afters
    <2>7. ic' \in [Inums -> Entries] /\ \A j \in Inums : ic'[j].ref = ic[j].ref
      BY <2>1, Facts
    <2>8. \A j \in Inums : ic'[j].ref = ic[j].ref - Count(r, j) + Count(t, j)
      <3>1. \A j \in Inums : ic[j].ref \in Int /\ j # None
        BY Facts, Numbers
      <3>. HIDE DEF r, t
      <3>. QED
        BY <2>4, <2>2, <2>3, <2>7, <3>1 DEF Count, One, Vars
    <2>9. Good(fs')
      BY <2>4, <2>1, <2>3, Facts
    <2>. QED
      BY <2>1, <2>2, <2>3, <2>5, <2>6, <2>7, <2>8, <2>9, Facts DEF InodeStep, Moves, OnlyInodes, Same, Going, Vars
  <1>2. CASE Stage(p) # "link2"
    <2>1. /\ r.pc = "notfound" /\ Goto(p, [pc |-> "end"])
          /\ ic' = ic /\ fs' = fs /\ OnlyInodes /\ Same
      BY <1>2 DEF NotFound, At
    <2>2. Vars(t, "end", r.cur, r.rest, r.next, r.ip, r.dp, r.put, r.after)
      BY <2>1, Facts, GoesTo
    <2>3. /\ r.file = None /\ r.n = 0 /\ Placed(r) /\ r.call \in Calls /\ r.after \in Afters
          /\ r.put = None
          /\ r.cur = None
          /\ r.next = None
          /\ r.dp = None
          /\ r.call.c \in PathCalls
          /\ r.ip # None => r.call.c = "link"
      <3>1. r.pc = "notfound" /\ Placed(r) /\ r.call \in Calls /\ r.cur \in Refs /\ r.next \in Refs /\ r.ip \in Refs /\ r.dp \in Refs /\ r.put \in Refs /\ r.after \in Afters
        BY <2>1, Facts
      <3>. HIDE DEF r
      <3>. QED
        BY <3>1 DEF Placed, Place, Refs, Walking, WithParent, WithInode, OfLink
    <2>4. r.ip = None
      BY <1>2, <2>3 DEF Stage
    <2>5. /\ pr' \in [Procs -> Threads] /\ \A q \in Procs \ {p} : pr'[q] = pr[q]
          /\ t.call = r.call /\ t.file = r.file /\ t.n = r.n
      <3>1. "end" \in Pcs
        BY <2>4, <2>1, <2>3, Facts, Numbers DEF Pcs, Afters, InPipe
      <3>2. DOMAIN [pc |-> "end"] \cap {"file", "n", "call"} = {}
        OBVIOUS
      <3>. QED
        BY <2>1, <2>2, <3>1, <3>2, Facts, Moved
    <2>6. Placed(t) /\ t.pc \notin {"pipeclose", "read", "write"}
      <3>. HIDE DEF r, t
      <3>. QED
        BY <2>4, <2>1, <2>2, <2>3, <2>5, Numbers DEF Placed, Place, Vars, Walking, WithParent, WithInode, OfLink, PathCalls, Afters
    <2>7. ic' \in [Inums -> Entries] /\ \A j \in Inums : ic'[j].ref = ic[j].ref
      BY <2>1, Facts
    <2>8. \A j \in Inums : ic'[j].ref = ic[j].ref - Count(r, j) + Count(t, j)
      <3>1. \A j \in Inums : ic[j].ref \in Int /\ j # None
        BY Facts, Numbers
      <3>. HIDE DEF r, t
      <3>. QED
        BY <2>4, <2>2, <2>3, <2>7, <3>1 DEF Count, One, Vars
    <2>9. Good(fs')
      BY <2>4, <2>1, <2>3, Facts
    <2>. QED
      BY <2>1, <2>2, <2>3, <2>5, <2>6, <2>7, <2>8, <2>9, Facts DEF InodeStep, Moves, OnlyInodes, Same, Going, Vars
  <1>. QED
    BY <1>1, <1>2


\* create, at the parent
LEMMA CreateKeeps ==
    ASSUME Inv, NEW p \in Procs, Create(p)
    PROVE  InodeStep(p) \/ Stopped
  <1> DEFINE r == pr[p]
             t == pr'[p]
             dp == r.dp
             name == Last(r.call.path)
             type == IF r.call.c = "mkdir" THEN "DIR" ELSE "FILE"
             i == fs.di[dp].ents[name]
             n == ialloc(fs)
  <1>1. CASE NoType(dp)
    BY <1>1 DEF Create, ilock, Panic, Stopped, Same, Going
  <1>2. CASE ~NoType(dp) /\ i = None /\ FreeInums(fs) = {}
    BY <1>2 DEF Create, ilock, Panic, Stopped, Same, Going
  <1>3. CASE ~NoType(dp) /\ i = None /\ FreeInums(fs) # {} /\ (type = "DIR" /\ FreeBlocks(fs) = {})
    BY <1>3 DEF Create, ilock, Panic, Stopped, Same, Going
  <1>4. CASE ~NoType(dp) /\ i # None
    <2>1. /\ r.pc = "create" /\ Goto(p, [pc |-> "iput", put |-> dp, dp |-> None, ip |-> i, after |-> "exists"])
          /\ ic' = iget(Visited(ic, dp), i) /\ fs' = fs /\ OnlyInodes /\ Same
      BY <1>4 DEF Create, At, ilock
    <2>2. Vars(t, "iput", r.cur, r.rest, r.next, i, None, dp, "exists")
      <3>. HIDE DEF dp, name, type, i, n
      <3>. QED
        BY <2>1, Facts, GoesTo
    <2>3. /\ r.file = None /\ r.n = 0 /\ Placed(r) /\ r.call \in Calls /\ r.after \in Afters
          /\ dp \in Inums
          /\ r.put = None
          /\ r.ip = None
          /\ r.cur = None
          /\ r.next = None
          /\ r.call.c \in PathCalls
          /\ r.call.c \in {"create", "mkdir"}
      <3>1. r.pc = "create" /\ Placed(r) /\ r.call \in Calls /\ r.cur \in Refs /\ r.next \in Refs /\ r.ip \in Refs /\ r.dp \in Refs /\ r.put \in Refs /\ r.after \in Afters
        BY <2>1, Facts
      <3>. HIDE DEF r
      <3>. QED
        BY <3>1 DEF Placed, Place, Refs, Walking, WithParent, WithInode, OfLink
    <2>4. i \in Inums /\ i # None
      <3>1. i \in Refs
        BY <2>3, Facts, CallNames DEF Disks, Inodes
      <3>. QED
        BY <1>4, <3>1 DEF Refs
    <2>5. /\ pr' \in [Procs -> Threads] /\ \A q \in Procs \ {p} : pr'[q] = pr[q]
          /\ t.call = r.call /\ t.file = r.file /\ t.n = r.n
      <3>1. "iput" \in Pcs /\ i \in Refs /\ None \in Refs /\ dp \in Refs /\ "exists" \in Afters
        BY <2>4, <2>1, <2>3, Facts, Numbers DEF Pcs, Afters, InPipe
      <3>2. DOMAIN [pc |-> "iput", put |-> dp, dp |-> None, ip |-> i, after |-> "exists"] \cap {"file", "n", "call"} = {}
        OBVIOUS
      <3>. QED
        BY <2>1, <2>2, <3>1, <3>2, Facts, Moved
    <2>6. Placed(t) /\ t.pc \notin {"pipeclose", "read", "write"}
      <3>. HIDE DEF r, t
      <3>. QED
        BY <2>4, <2>1, <2>2, <2>3, <2>5, Numbers DEF Placed, Place, Vars, Walking, WithParent, WithInode, OfLink, PathCalls, Afters
    <2>7. ic' \in [Inums -> Entries] /\ \A j \in Inums : ic'[j].ref = ic[j].ref + One(j = i)
      <3>. HIDE DEF r, dp, name, type, i, n
      <3>1. Visited(ic, dp) \in [Inums -> Entries] /\ \A j \in Inums : Visited(ic, dp)[j].ref = ic[j].ref
        BY <2>4, <2>3, Facts, CacheOps
      <3>2. iget(Visited(ic, dp), i) \in [Inums -> Entries] /\ \A j \in Inums : iget(Visited(ic, dp), i)[j].ref = ic[j].ref + One(j = i)
        BY <2>4, <2>3, <3>1, Facts, CacheOps
      <3>. QED
        BY <2>1, <3>2
    <2>8. \A j \in Inums : ic'[j].ref = ic[j].ref - Count(r, j) + Count(t, j)
      <3>1. \A j \in Inums : ic[j].ref \in Int /\ j # None
        BY Facts, Numbers
      <3>. HIDE DEF r, t
      <3>. QED
        BY <2>4, <2>2, <2>3, <2>7, <3>1 DEF Count, One, Vars
    <2>9. Good(fs')
      BY <2>4, <2>1, <2>3, Facts
    <2>. QED
      BY <2>1, <2>2, <2>3, <2>5, <2>6, <2>7, <2>8, <2>9, Facts DEF InodeStep, Moves, OnlyInodes, Same, Going, Vars
  <1>5. CASE ~NoType(dp) /\ i = None /\ FreeInums(fs) # {} /\ ~(type = "DIR" /\ FreeBlocks(fs) = {}) /\ type = "DIR"
    <2>1. /\ r.pc = "create" /\ Goto(p, [pc |-> "iput", put |-> dp, dp |-> None, ip |-> n, after |-> "unlockput"])
          /\ ic' = Locked(iget(Visited(ic, dp), n), n, p) /\ fs' = Made(dp, type, name) /\ OnlyInodes /\ Same
      BY <1>5 DEF Create, At, ilock
    <2>2. Vars(t, "iput", r.cur, r.rest, r.next, n, None, dp, "unlockput")
      <3>. HIDE DEF dp, name, type, i, n
      <3>. QED
        BY <2>1, Facts, GoesTo
    <2>3. /\ r.file = None /\ r.n = 0 /\ Placed(r) /\ r.call \in Calls /\ r.after \in Afters
          /\ dp \in Inums
          /\ r.put = None
          /\ r.ip = None
          /\ r.cur = None
          /\ r.next = None
          /\ r.call.c \in PathCalls
          /\ r.call.c \in {"create", "mkdir"}
      <3>1. r.pc = "create" /\ Placed(r) /\ r.call \in Calls /\ r.cur \in Refs /\ r.next \in Refs /\ r.ip \in Refs /\ r.dp \in Refs /\ r.put \in Refs /\ r.after \in Afters
        BY <2>1, Facts
      <3>. HIDE DEF r
      <3>. QED
        BY <3>1 DEF Placed, Place, Refs, Walking, WithParent, WithInode, OfLink
    <2>4. n \in Inums /\ n # None
      BY <1>5, Facts, IallocIsFree, Numbers
    <2>5. name \in Names /\ type \in {"FILE", "DIR"} /\ FreeInums(fs) # {} /\ (type = "DIR" => FreeBlocks(fs) # {})
      BY <1>5, <2>3, CallNames
    <2>6. /\ pr' \in [Procs -> Threads] /\ \A q \in Procs \ {p} : pr'[q] = pr[q]
          /\ t.call = r.call /\ t.file = r.file /\ t.n = r.n
      <3>1. "iput" \in Pcs /\ n \in Refs /\ None \in Refs /\ dp \in Refs /\ "unlockput" \in Afters
        BY <2>4, <2>5, <2>1, <2>3, Facts, Numbers DEF Pcs, Afters, InPipe
      <3>2. DOMAIN [pc |-> "iput", put |-> dp, dp |-> None, ip |-> n, after |-> "unlockput"] \cap {"file", "n", "call"} = {}
        OBVIOUS
      <3>. QED
        BY <2>1, <2>2, <3>1, <3>2, Facts, Moved
    <2>7. Placed(t) /\ t.pc \notin {"pipeclose", "read", "write"}
      <3>. HIDE DEF r, t
      <3>. QED
        BY <2>4, <2>5, <2>1, <2>2, <2>3, <2>6, Numbers DEF Placed, Place, Vars, Walking, WithParent, WithInode, OfLink, PathCalls, Afters
    <2>8. ic' \in [Inums -> Entries] /\ \A j \in Inums : ic'[j].ref = ic[j].ref + One(j = n)
      <3>. HIDE DEF r, dp, name, type, i, n
      <3>1. Visited(ic, dp) \in [Inums -> Entries] /\ \A j \in Inums : Visited(ic, dp)[j].ref = ic[j].ref
        BY <2>4, <2>5, <2>3, Facts, CacheOps
      <3>2. iget(Visited(ic, dp), n) \in [Inums -> Entries] /\ \A j \in Inums : iget(Visited(ic, dp), n)[j].ref = ic[j].ref + One(j = n)
        BY <2>4, <2>5, <2>3, <3>1, Facts, CacheOps
      <3>3. Locked(iget(Visited(ic, dp), n), n, p) \in [Inums -> Entries] /\ \A j \in Inums : Locked(iget(Visited(ic, dp), n), n, p)[j].ref = ic[j].ref + One(j = n)
        BY <2>4, <2>5, <2>3, <3>2, Facts, CacheOps
      <3>. QED
        BY <2>1, <3>3
    <2>9. \A j \in Inums : ic'[j].ref = ic[j].ref - Count(r, j) + Count(t, j)
      <3>1. \A j \in Inums : ic[j].ref \in Int /\ j # None
        BY Facts, Numbers
      <3>. HIDE DEF r, t
      <3>. QED
        BY <2>4, <2>5, <2>2, <2>3, <2>8, <3>1 DEF Count, One, Vars
    <2>10. Good(fs')
      BY <2>4, <2>5, <2>1, <2>3, Facts, MadeKeeps
    <2>. QED
      BY <2>1, <2>2, <2>3, <2>6, <2>7, <2>8, <2>9, <2>10, Facts DEF InodeStep, Moves, OnlyInodes, Same, Going, Vars
  <1>6. CASE ~NoType(dp) /\ i = None /\ FreeInums(fs) # {} /\ ~(type = "DIR" /\ FreeBlocks(fs) = {}) /\ type # "DIR"
    <2>1. /\ r.pc = "create" /\ Goto(p, [pc |-> "iput", put |-> dp, dp |-> None, ip |-> n, after |-> "fdalloc"])
          /\ ic' = Locked(iget(Visited(ic, dp), n), n, p) /\ fs' = Made(dp, type, name) /\ OnlyInodes /\ Same
      BY <1>6 DEF Create, At, ilock
    <2>2. Vars(t, "iput", r.cur, r.rest, r.next, n, None, dp, "fdalloc")
      <3>. HIDE DEF dp, name, type, i, n
      <3>. QED
        BY <2>1, Facts, GoesTo
    <2>3. /\ r.file = None /\ r.n = 0 /\ Placed(r) /\ r.call \in Calls /\ r.after \in Afters
          /\ dp \in Inums
          /\ r.put = None
          /\ r.ip = None
          /\ r.cur = None
          /\ r.next = None
          /\ r.call.c \in PathCalls
          /\ r.call.c \in {"create", "mkdir"}
      <3>1. r.pc = "create" /\ Placed(r) /\ r.call \in Calls /\ r.cur \in Refs /\ r.next \in Refs /\ r.ip \in Refs /\ r.dp \in Refs /\ r.put \in Refs /\ r.after \in Afters
        BY <2>1, Facts
      <3>. HIDE DEF r
      <3>. QED
        BY <3>1 DEF Placed, Place, Refs, Walking, WithParent, WithInode, OfLink
    <2>4. n \in Inums /\ n # None
      BY <1>6, Facts, IallocIsFree, Numbers
    <2>5. name \in Names /\ type \in {"FILE", "DIR"} /\ FreeInums(fs) # {} /\ (type = "DIR" => FreeBlocks(fs) # {})
      BY <1>6, <2>3, CallNames
    <2>6. /\ pr' \in [Procs -> Threads] /\ \A q \in Procs \ {p} : pr'[q] = pr[q]
          /\ t.call = r.call /\ t.file = r.file /\ t.n = r.n
      <3>1. "iput" \in Pcs /\ n \in Refs /\ None \in Refs /\ dp \in Refs /\ "fdalloc" \in Afters
        BY <2>4, <2>5, <2>1, <2>3, Facts, Numbers DEF Pcs, Afters, InPipe
      <3>2. DOMAIN [pc |-> "iput", put |-> dp, dp |-> None, ip |-> n, after |-> "fdalloc"] \cap {"file", "n", "call"} = {}
        OBVIOUS
      <3>. QED
        BY <2>1, <2>2, <3>1, <3>2, Facts, Moved
    <2>7. Placed(t) /\ t.pc \notin {"pipeclose", "read", "write"}
      <3>. HIDE DEF r, t
      <3>. QED
        BY <2>4, <2>5, <2>1, <2>2, <2>3, <2>6, Numbers DEF Placed, Place, Vars, Walking, WithParent, WithInode, OfLink, PathCalls, Afters
    <2>8. ic' \in [Inums -> Entries] /\ \A j \in Inums : ic'[j].ref = ic[j].ref + One(j = n)
      <3>. HIDE DEF r, dp, name, type, i, n
      <3>1. Visited(ic, dp) \in [Inums -> Entries] /\ \A j \in Inums : Visited(ic, dp)[j].ref = ic[j].ref
        BY <2>4, <2>5, <2>3, Facts, CacheOps
      <3>2. iget(Visited(ic, dp), n) \in [Inums -> Entries] /\ \A j \in Inums : iget(Visited(ic, dp), n)[j].ref = ic[j].ref + One(j = n)
        BY <2>4, <2>5, <2>3, <3>1, Facts, CacheOps
      <3>3. Locked(iget(Visited(ic, dp), n), n, p) \in [Inums -> Entries] /\ \A j \in Inums : Locked(iget(Visited(ic, dp), n), n, p)[j].ref = ic[j].ref + One(j = n)
        BY <2>4, <2>5, <2>3, <3>2, Facts, CacheOps
      <3>. QED
        BY <2>1, <3>3
    <2>9. \A j \in Inums : ic'[j].ref = ic[j].ref - Count(r, j) + Count(t, j)
      <3>1. \A j \in Inums : ic[j].ref \in Int /\ j # None
        BY Facts, Numbers
      <3>. HIDE DEF r, t
      <3>. QED
        BY <2>4, <2>5, <2>2, <2>3, <2>8, <3>1 DEF Count, One, Vars
    <2>10. Good(fs')
      BY <2>4, <2>5, <2>1, <2>3, Facts, MadeKeeps
    <2>. QED
      BY <2>1, <2>2, <2>3, <2>6, <2>7, <2>8, <2>9, <2>10, Facts DEF InodeStep, Moves, OnlyInodes, Same, Going, Vars
  <1>. QED
    BY <1>1, <1>2, <1>3, <1>4, <1>5, <1>6
-----------------------------------------------------------------------------
(* Calls start, and steps that read and write *)

\* What is known of a process between calls
LEMMA IdleFacts ==
    ASSUME Inv, NEW p \in Procs, pr[p].pc = "idle"
    PROVE  /\ pr[p].cur = None /\ pr[p].next = None /\ pr[p].ip = None /\ pr[p].dp = None /\ pr[p].put = None
           /\ pr[p].file = None /\ pr[p].n = 0 /\ pr \in [Procs -> Threads]
           /\ pr[p].rest \in Seq(Names) /\ pr[p].after \in Afters
  <1>1. Placed(pr[p])
    BY Facts
  <1>2. pr[p].rest \in Seq(Names) /\ pr[p].after \in Afters /\ pr \in [Procs -> Threads]
    BY Facts
  <1>. QED
    BY <1>1, <1>2 DEF Placed, Place, WithParent, WithInode, Walking

\* A call that starts is one of the program.
LEMMA CallIsKnown ==
    ASSUME Inv, NEW p \in Procs, NEW call \in todo[p]
    PROVE  call \in Calls
  <1>1. prog \in Programs /\ call \in prog.todo[p]
    BY DEF Inv, Types
  <1>2. WellFormed(call)
    BY <1>1, FsAssumption
  <1>. QED
    BY <1>1, <1>2 DEF Calls

\* What is left to do
LEMMA CallTodo ==
    ASSUME Inv, NEW p \in Procs, NEW call, Call(p, call)
    PROVE  DOMAIN todo' = Procs /\ (\A q \in Procs : todo'[q] \subseteq prog.todo[q]) /\ prog' = prog
  BY DEF Inv, Types, Call

\* A process enters a call.
LEMMA Begins ==
    ASSUME Inv, NEW p \in Procs, pr[p].pc = "idle", NEW call \in Calls,
           NEW s, Goto(p, s), DOMAIN s \cap {"file", "n"} = {}, "call" \in DOMAIN s, s.call = call,
           NEW pc \in Pcs, NEW cur \in Refs, NEW rest \in Seq(Names), NEW next \in Refs, NEW ip \in Refs,
           NEW dp \in Refs, NEW put \in Refs, NEW after \in Afters,
           Vars(pr'[p], pc, cur, rest, next, ip, dp, put, after)
    PROVE  /\ pr' \in [Procs -> Threads] /\ \A q \in Procs \ {p} : pr'[q] = pr[q]
           /\ pr'[p].call = call /\ pr'[p].file = None /\ pr'[p].n = 0
  <1>1. pr \in [Procs -> Threads] /\ pr[p].file = None /\ pr[p].n = 0
    BY IdleFacts
  <1>2. /\ pr'[p] = [x \in Fields |-> pr'[p][x]]
        /\ \A x \in Fields : pr'[p][x] = IF x \in DOMAIN s THEN s[x] ELSE pr[p][x]
        /\ \A q \in Procs \ {p} : pr'[q] = pr[q]
        /\ pr'[p] \in Threads => pr' \in [Procs -> Threads]
    BY <1>1, Goes
  <1>3. "file" \in Fields /\ "n" \in Fields /\ "call" \in Fields
    BY DEF Fields
  <1>4. pr'[p].call = call /\ pr'[p].file = None /\ pr'[p].n = 0
    BY <1>1, <1>2, <1>3
  <1>5. pr'[p] \in Threads
    BY <1>2, <1>4, ThreadFields DEF Vars
  <1>. QED
    BY <1>2, <1>4, <1>5

\* The calls on paths
LEMMA StartPathKeeps ==
    ASSUME Inv, NEW p \in Procs, NEW call \in todo[p], Call(p, call), StartPath(p, call), UNCHANGED pipe
    PROVE  CallStep(p)
  <1> DEFINE r == pr[p]
             t == pr'[p]
             path == call.path
  <1>1. r.pc = "idle" /\ call \in Calls
    BY CallIsKnown DEF Call, At
  <1>2. /\ Goto(p, [pc |-> "walk", cur |-> ROOTINO, rest |-> path, call |-> call])
        /\ call.c \in DOMAIN Arrive /\ ic' = iget(ic, ROOTINO)
        /\ UNCHANGED <<fs, durable, ftable, ofile>>
    BY DEF StartPath
  <1>3. call.c \in PathCalls
    <2>1. DOMAIN Arrive = {"open", "create", "mkdir", "unlink", "link", "link2"}
      BY DEF Arrive
    <2>2. call.c = "none" \/ WellFormed(call)
      BY <1>1 DEF Calls, Idle
    <2>3. call.c # "link2"
      BY <2>2 DEF WellFormed
    <2>4. call.c # "none"
      BY <1>2, <2>1
    <2>. QED
      BY <1>2, <2>1, <2>3, <2>4 DEF PathCalls
  <1>4. path \in Seq(Names) /\ path # <<>> /\ ROOTINO \in Inums /\ ROOTINO # None /\ ROOTINO \in Refs
    BY <1>1, <1>3, CallNames, Numbers
  <1>5. /\ Vars(t, "walk", ROOTINO, path, r.next, r.ip, r.dp, r.put, r.after)
    <2>. HIDE DEF path
    <2>. QED
      BY <1>2, IdleFacts, <1>1, GoesTo
  <1>6. /\ r.cur = None /\ r.next = None /\ r.ip = None /\ r.dp = None /\ r.put = None
        /\ r.file = None /\ r.n = 0 /\ r.after \in Afters
    BY <1>1, IdleFacts
  <1>7. /\ pr' \in [Procs -> Threads] /\ \A q \in Procs \ {p} : pr'[q] = pr[q]
        /\ t.call = call /\ t.file = None /\ t.n = 0
    <2>1. "walk" \in Pcs /\ None \in Refs
      BY Numbers DEF Pcs
    <2> DEFINE s == [pc |-> "walk", cur |-> ROOTINO, rest |-> path, call |-> call]
    <2>2. DOMAIN s \cap {"file", "n"} = {} /\ "call" \in DOMAIN s /\ s.call = call
      OBVIOUS
    <2>3. Goto(p, s)
      BY <1>2
    <2>4. r.next \in Refs /\ r.ip \in Refs /\ r.dp \in Refs /\ r.put \in Refs /\ r.after \in Afters /\ ROOTINO \in Refs
      BY <1>4, Facts
    <2>. HIDE DEF s, path
    <2>. QED
      BY <1>1, <1>4, <1>5, <2>1, <2>2, <2>3, <2>4, Begins
  <1>8. Placed(t) /\ t.pc = "walk"
    <2>. HIDE DEF r, t
    <2>. QED
      BY <1>3, <1>4, <1>5, <1>6, <1>7 DEF Placed, Place, Vars, Walking, WithParent, WithInode, OfLink
  <1>9. ic' \in [Inums -> Entries] /\ \A j \in Inums : ic'[j].ref = ic[j].ref + One(j = ROOTINO) /\ ic[j].ref \in Int
    BY <1>2, <1>4, Facts, CacheOps
  <1>10. \A j \in Inums : ic'[j].ref = ic[j].ref - Count(r, j) + Count(t, j)
    <2>1. \A j \in Inums : j # None
      BY Numbers
    <2>. HIDE DEF r, t
    <2>. QED
      BY <1>5, <1>6, <1>9, <2>1 DEF Count, One, Vars
  <1>11. DOMAIN todo' = Procs /\ \A q \in Procs : todo'[q] \subseteq prog.todo[q]
    BY CallTodo
  <1>12. SameFiles /\ Good(fs') /\ UNCHANGED <<prog, durable, ofile, pipe>>
    BY <1>2, Facts DEF Inv, Types, SameFiles, Call
  <1>. QED
    BY <1>1, <1>6, <1>7, <1>8, <1>9, <1>10, <1>11, <1>12 DEF CallStep, Moves, AtFile

\* A descriptor that is not free, of a process that is not just opening a file,
\* stands for a file that has been filled in.
LEMMA OpenFile ==
    ASSUME Inv, NEW p \in Procs, pr[p].file = None, NEW d \in 1..NOFILE, ofile[p][d] # None
    PROVE  LET f == ofile[p][d]
           IN  /\ f \in Files /\ ftable[f] \in OpenFiles /\ ftable[f].ref \in Nat \ {0}
               /\ ftable[f].type \in {"INODE", "PIPE"}
               /\ ftable[f].type = "INODE" => ftable[f].ip \in Inums
               /\ ftable[f].type = "PIPE" => ftable[f].ip = None
               /\ \A q \in Procs : pr[q].file # f
  <1> DEFINE f == ofile[p][d]
  <1>1. f \in Files
    <2>1. ofile[p] \in [1..NOFILE -> Files \cup {None}]
      BY DEF Inv, Types
    <2>. QED
      BY <2>1
  <1>2. ftable[f] \in OpenFiles /\ ftable[f].ip \in Refs /\ ftable[f].type \in {"NONE", "INODE", "PIPE"}
    <2>1. ftable[f] \in OpenFiles
      BY <1>1 DEF Inv, Types
    <2>. QED
      BY <2>1 DEF OpenFiles
  <1>3. ftable[f].ref \in Nat \ {0}
    <2>1. ftable[f].ref = Cardinality(FdsOf(f))
      BY <1>1 DEF Inv, Pointing, Exact
    <2>2. <<p, d>> \in FdsOf(f)
      BY DEF FdsOf, Fds
    <2>3. IsFiniteSet(FdsOf(f)) /\ FdsOf(f) # {}
      BY <2>2, Finite
    <2>. QED
      BY <2>1, <2>3, FS_EmptySet, FS_CardinalityType
  <1>4. \A q \in Procs : pr[q].file # f
    <2>1. f # None
      OBVIOUS
    <2>2. \A q \in Procs : pr[q].file # None =>
             \A o \in Procs : \A e \in 1..NOFILE : ofile[o][e] = pr[q].file => o = q
      BY DEF Inv, Pointing, Tables
    <2>. QED
      BY <2>1, <2>2
  <1>5. ftable[f].type # "NONE"
    BY <1>1, <1>3, <1>4 DEF Inv, Pointing, Tables
  <1>6. ftable[f].type = "INODE" <=> ftable[f].ip # None
    BY <1>1 DEF Inv, Pointing, Tables
  <1>. QED
    BY <1>1, <1>2, <1>3, <1>4, <1>5, <1>6 DEF Refs

\* read and write start.
LEMMA StartIo ==
    ASSUME Inv, NEW p \in Procs, pr[p].pc = "idle", NEW call \in Calls, call.c \in {"read", "write"},
           NEW io \in {"read", "write", "piperead", "pipewrite"}, Goto(p, [pc |-> io, call |-> call])
    PROVE  /\ Moves(p) /\ pr'[p].file = None /\ pr[p].file = None /\ pr'[p].pc = io /\ pr'[p].call = call
           /\ \A j \in Inums : ic[j].ref = ic[j].ref - Count(pr[p], j) + Count(pr'[p], j)
  <1> DEFINE r == pr[p]
             t == pr'[p]
  <1>1. Vars(t, io, r.cur, r.rest, r.next, r.ip, r.dp, r.put, r.after)
    BY IdleFacts, GoesTo
  <1>2. /\ r.cur = None /\ r.next = None /\ r.ip = None /\ r.dp = None /\ r.put = None
        /\ r.file = None /\ r.n = 0 /\ r.after \in Afters
    BY IdleFacts
  <1>3. /\ pr' \in [Procs -> Threads] /\ \A q \in Procs \ {p} : pr'[q] = pr[q]
        /\ t.call = call /\ t.file = None /\ t.n = 0
    <2>1. io \in Pcs
      BY DEF Pcs, InPipe
    <2> DEFINE s == [pc |-> io, call |-> call]
    <2>2. DOMAIN s \cap {"file", "n"} = {} /\ "call" \in DOMAIN s /\ s.call = call
      OBVIOUS
    <2>3. Goto(p, s)
      OBVIOUS
    <2>4. r.cur \in Refs /\ r.next \in Refs /\ r.ip \in Refs /\ r.dp \in Refs /\ r.put \in Refs
          /\ r.after \in Afters /\ r.rest \in Seq(Names)
      BY Facts
    <2>. HIDE DEF s
    <2>. QED
      BY <1>1, <2>1, <2>2, <2>3, <2>4, Begins
  <1>4. call.n \in Nat
    BY CallNames
  <1>5. Placed(t)
    <2>. HIDE DEF r, t
    <2>1. t.n <= t.call.n
      BY <1>3, <1>4
    <2>. QED
      BY <1>1, <1>2, <1>3, <2>1 DEF Placed, Place, Vars, Walking, WithParent, WithInode, OfLink
  <1>6. \A j \in Inums : ic[j].ref \in Int
    BY Facts
  <1>7. \A j \in Inums : ic[j].ref = ic[j].ref - Count(r, j) + Count(t, j)
    <2>1. \A j : Count(t, j) = Count(r, j) /\ Count(r, j) \in Int
      BY <1>1 DEF Count, One, Vars
    <2>. QED
      BY <1>6, <2>1
  <1>. QED
    BY <1>1, <1>2, <1>3, <1>5, <1>7 DEF Moves, Vars

\* read
LEMMA StartReadKeeps ==
    ASSUME Inv, NEW p \in Procs, NEW call \in todo[p], Call(p, call), StartRead(p, call), UNCHANGED pipe
    PROVE  CallStep(p)
  <1>1. pr[p].pc = "idle" /\ call \in Calls /\ call.c = "read" /\ call.fd \in 1..NOFILE
    BY CallIsKnown, CallNames DEF Call, At, StartRead
  <1> DEFINE f == ofile[p][call.fd]
  <1>2. f # None /\ pr[p].file = None
    BY <1>1, IdleFacts DEF StartRead
  <1>3. ftable[f].type \in {"INODE", "PIPE"}
    BY <1>1, <1>2, OpenFile
  <1>4. \/ Goto(p, [pc |-> "piperead", call |-> call])
        \/ Goto(p, [pc |-> "read", call |-> call]) /\ ftable[f].type # "PIPE"
    BY DEF StartRead
  <1>5. /\ Moves(p) /\ pr'[p].file = None /\ pr'[p].pc \in {"read", "piperead"} /\ pr'[p].call = call
        /\ (pr'[p].pc = "read" => ftable[f].type # "PIPE")
        /\ \A j \in Inums : ic[j].ref = ic[j].ref - Count(pr[p], j) + Count(pr'[p], j)
    <2>1. CASE Goto(p, [pc |-> "piperead", call |-> call])
      BY <1>1, <2>1, StartIo
    <2>2. CASE Goto(p, [pc |-> "read", call |-> call]) /\ ftable[f].type # "PIPE"
      BY <1>1, <2>2, StartIo
    <2>. QED
      BY <1>4, <2>1, <2>2
  <1>6. AtFile(pr'[p], p)
    BY <1>2, <1>3, <1>5 DEF AtFile
  <1>7. DOMAIN todo' = Procs /\ (\A q \in Procs : todo'[q] \subseteq prog.todo[q]) /\ prog' = prog
    BY CallTodo
  <1>8. SameFiles /\ Good(fs') /\ ic' = ic /\ UNCHANGED <<durable, ofile, pipe>>
    BY Facts DEF Inv, Types, SameFiles, StartRead
  <1>. QED
    BY <1>1, <1>2, <1>5, <1>6, <1>7, <1>8, Facts DEF CallStep

\* write
LEMMA StartWriteKeeps ==
    ASSUME Inv, NEW p \in Procs, NEW call \in todo[p], Call(p, call), StartWrite(p, call), UNCHANGED pipe
    PROVE  CallStep(p)
  <1>1. pr[p].pc = "idle" /\ call \in Calls /\ call.c = "write" /\ call.fd \in 1..NOFILE
    BY CallIsKnown, CallNames DEF Call, At, StartWrite
  <1> DEFINE f == ofile[p][call.fd]
  <1>2. f # None /\ pr[p].file = None
    BY <1>1, IdleFacts DEF StartWrite
  <1>3. ftable[f].type \in {"INODE", "PIPE"}
    BY <1>1, <1>2, OpenFile
  <1>4. \/ Goto(p, [pc |-> "pipewrite", call |-> call])
        \/ Goto(p, [pc |-> "write", call |-> call]) /\ ftable[f].type # "PIPE"
    BY DEF StartWrite
  <1>5. /\ Moves(p) /\ pr'[p].file = None /\ pr'[p].pc \in {"write", "pipewrite"} /\ pr'[p].call = call
        /\ (pr'[p].pc = "write" => ftable[f].type # "PIPE")
        /\ \A j \in Inums : ic[j].ref = ic[j].ref - Count(pr[p], j) + Count(pr'[p], j)
    <2>1. CASE Goto(p, [pc |-> "pipewrite", call |-> call])
      BY <1>1, <2>1, StartIo
    <2>2. CASE Goto(p, [pc |-> "write", call |-> call]) /\ ftable[f].type # "PIPE"
      BY <1>1, <2>2, StartIo
    <2>. QED
      BY <1>4, <2>1, <2>2
  <1>6. AtFile(pr'[p], p)
    BY <1>2, <1>3, <1>5 DEF AtFile
  <1>7. DOMAIN todo' = Procs /\ (\A q \in Procs : todo'[q] \subseteq prog.todo[q]) /\ prog' = prog
    BY CallTodo
  <1>8. SameFiles /\ Good(fs') /\ ic' = ic /\ UNCHANGED <<durable, ofile, pipe>>
    BY Facts DEF Inv, Types, SameFiles, StartWrite
  <1>. QED
    BY <1>1, <1>2, <1>5, <1>6, <1>7, <1>8, Facts DEF CallStep

\* A process that is idle
LEMMA IdleType == Idle \in Threads /\ Placed(Idle) /\ \A j \in Inums : Count(Idle, j) = 0
  <1>1. /\ Idle.pc = "idle" /\ Idle.call = [c |-> "none"] /\ Idle.cur = None /\ Idle.rest = <<>>
        /\ Idle.next = None /\ Idle.ip = None /\ Idle.dp = None /\ Idle.put = None /\ Idle.after = ""
        /\ Idle.file = None /\ Idle.n = 0
    BY DEF Idle
  <1>2. Idle = [x \in Fields |-> Idle[x]]
    BY DEF Idle, Fields
  <1>3. Idle.call \in Calls
    BY DEF Calls
  <1>4. "idle" \in Pcs /\ "" \in Afters /\ None \in Refs /\ <<>> \in Seq(Names) /\ 0 \in Int
    BY Numbers DEF Pcs, Afters
  <1>5. Idle \in Threads
    BY <1>1, <1>2, <1>3, <1>4, ThreadFields
  <1>6. Placed(Idle)
    BY <1>1 DEF Placed, Place, Walking, WithParent, WithInode, OfLink
  <1>7. \A j \in Inums : Count(Idle, j) = 0
    <2>1. \A j \in Inums : None # j
      BY Numbers
    <2> DEFINE r == Idle
    <2>2. r.cur = None /\ r.next = None /\ r.ip = None /\ r.dp = None /\ r.put = None
      BY <1>1
    <2>. HIDE DEF r
    <2>3. \A j \in Inums : Count(r, j) = 0
      BY <2>1, <2>2 DEF Count, One
    <2>. QED
      BY <2>3 DEF r
  <1>. QED
    BY <1>5, <1>6, <1>7

\* A call returns.
LEMMA Returns ==
    ASSUME Inv, NEW p \in Procs, pr' = [pr EXCEPT ![p] = Idle]
    PROVE  Moves(p) /\ pr'[p] = Idle /\ pr'[p].file = None /\ pr'[p].pc = "idle"
           /\ \A j \in Inums : Count(pr'[p], j) = 0
  <1>1. pr \in [Procs -> Threads]
    BY Facts
  <1>2. pr' \in [Procs -> Threads] /\ pr'[p] = Idle /\ \A q \in Procs \ {p} : pr'[q] = pr[q]
    BY <1>1, IdleType
  <1>3. Idle.file = None /\ Idle.pc = "idle"
    BY DEF Idle
  <1>. QED
    BY <1>2, <1>3, IdleType DEF Moves

\* A process that reads or writes has no pointer of its own.
LEMMA NoPointers ==
    ASSUME Inv, NEW p \in Procs,
           pr[p].pc \in {"read", "write", "piperead", "pipewrite", "readsleep", "writesleep", "pipeclose", "idle"}
    PROVE  /\ \A j \in Inums : Count(pr[p], j) = 0
           /\ pr[p].file = None
           /\ pr[p].cur = None /\ pr[p].next = None /\ pr[p].ip = None /\ pr[p].dp = None /\ pr[p].put = None
  <1> DEFINE r == pr[p]
  <1>1. Placed(r) /\ r.pc \in {"read", "write", "piperead", "pipewrite", "readsleep", "writesleep", "pipeclose", "idle"}
    BY Facts
  <1>. HIDE DEF r
  <1>2. r.cur = None /\ r.next = None /\ r.ip = None /\ r.dp = None /\ r.put = None /\ r.file = None
    BY <1>1 DEF Placed, Place, Walking, WithParent, WithInode
  <1>3. \A j \in Inums : Count(r, j) = 0
    BY <1>2, Numbers DEF Count, One
  <1>. QED
    BY <1>2, <1>3 DEF r

\* The offset of an open file moves.
LEMMA OffMoves ==
    ASSUME Inv, NEW f \in Files, ftable[f].ref # 0, NEW o \in Int, ftable' = [ftable EXCEPT ![f].off = o]
    PROVE  SameFiles
  <1> DEFINE x == [ftable[f] EXCEPT !.off = o]
  <1>1. ftable \in [Files -> OpenFiles] /\ ftable[f] \in OpenFiles
    BY DEF Inv, Types
  <1>2. /\ x \in OpenFiles /\ x.ref = ftable[f].ref /\ x.type = ftable[f].type /\ x.ip = ftable[f].ip
        /\ x.writable = ftable[f].writable
    BY <1>1 DEF OpenFiles
  <1>3. ftable' = [ftable EXCEPT ![f] = x]
    OBVIOUS
  <1>. HIDE DEF x
  <1>4. ftable' \in [Files -> OpenFiles] /\ ftable'[f] = x /\ \A g \in Files \ {f} : ftable'[g] = ftable[g]
    BY <1>1, <1>2, <1>3
  <1>. QED
    BY <1>2, <1>4 DEF SameFiles

\* read of a file
LEMMA ReadKeeps ==
    ASSUME Inv, NEW p \in Procs, Read(p)
    PROVE  CallStep(p) \/ Stopped
  <1> DEFINE f == ofile[p][pr[p].call.fd]
             ip == ftable[f].ip
             o == ftable[f].off
  <1>1. pr[p].pc = "read" /\ Same
    BY DEF Read, At
  <1>2. f \in Files /\ ip \in Inums /\ ftable[f].ref # 0
    BY <1>1, Reading
  <1>3. CASE NoType(ip)
    BY <1>3 DEF Read, ilock, Panic, Stopped, Same, Going
  <1>4. CASE ~NoType(ip)
    <2> DEFINE n == IF o < Len(fs.di[ip].blks) THEN o + 1 ELSE o
    <2>1. /\ ic' = Visited(ic, ip) /\ ftable' = [ftable EXCEPT ![f].off = n]
          /\ pr' = [pr EXCEPT ![p] = Idle] /\ UNCHANGED <<fs, durable, ofile>>
      BY <1>4 DEF Read, ilock
    <2>2. n \in Int
      <3>1. o \in Int
        BY <1>2 DEF Inv, Types, OpenFiles
      <3>. HIDE DEF o
      <3>. QED
        BY <3>1
    <2>3. SameFiles
      <3>. HIDE DEF n, f
      <3>. QED
        BY <1>2, <2>1, <2>2, OffMoves
    <2>4. ic' \in [Inums -> Entries] /\ \A j \in Inums : ic'[j].ref = ic[j].ref /\ ic[j].ref \in Int
      <3>1. ic' = Visited(ic, ip)
        BY <2>1
      <3>. HIDE DEF ip, f
      <3>. QED
        BY <1>2, <3>1, Facts, CacheOps
    <2>5. Moves(p) /\ pr'[p].file = None /\ pr'[p].pc = "idle" /\ \A j \in Inums : Count(pr'[p], j) = 0
      BY <2>1, Returns
    <2>6. pr[p].file = None /\ \A j \in Inums : Count(pr[p], j) = 0
      BY <1>1, NoPointers
    <2>7. \A j \in Inums : ic'[j].ref = ic[j].ref - Count(pr[p], j) + Count(pr'[p], j)
      BY <2>4, <2>5, <2>6
    <2>8. AtFile(pr'[p], p)
      BY <2>5 DEF AtFile
    <2>9. DOMAIN todo' = Procs /\ (\A q \in Procs : todo'[q] \subseteq prog.todo[q]) /\ Good(fs')
          /\ UNCHANGED <<prog, durable, ofile, pipe>>
      BY <1>1, <2>1, Facts DEF Same, Going
    <2>. QED
      BY <1>1, <2>3, <2>4, <2>5, <2>6, <2>7, <2>8, <2>9 DEF CallStep
  <1>. QED
    BY <1>3, <1>4

\* write of a file
LEMMA WriteKeeps ==
    ASSUME Inv, NEW p \in Procs, Write(p)
    PROVE  CallStep(p) \/ Stopped
  <1> DEFINE f == ofile[p][pr[p].call.fd]
             ip == ftable[f].ip
             off == ftable[f].off
             grows == Fits(off) /\ off = Len(fs.di[ip].blks)
             r == pr[p]
             t == pr'[p]
  <1>1. r.pc = "write" /\ Same
    BY DEF Write, At
  <1>2. f \in Files /\ ip \in Inums /\ ftable[f].ref # 0
    BY <1>1, Reading
  <1>3. CASE NoType(ip)
    BY <1>3 DEF Write, ilock, Panic, Stopped, Same, Going
  <1>4. CASE ~NoType(ip) /\ (grows /\ FreeBlocks(fs) = {})
    BY <1>4 DEF Write, ilock, Panic, Stopped, Same, Going
  <1>5. CASE ~NoType(ip) /\ ~(grows /\ FreeBlocks(fs) = {})
    <2>1. /\ fs' = IF grows THEN WithBlock(fs, ip) ELSE fs
          /\ ic' = Visited(ic, ip)
          /\ ftable' = IF Fits(off) THEN [ftable EXCEPT ![f].off = off + 1] ELSE ftable
          /\ Goto(p, [pc |-> "end"]) /\ UNCHANGED <<durable, ofile>>
      BY <1>5 DEF Write, ilock
    <2>2. SameFiles
      <3>1. off + 1 \in Int
        <4>1. off \in Int
          BY <1>2 DEF Inv, Types, OpenFiles
        <4>. HIDE DEF off
        <4>. QED
          BY <4>1
      <3>. HIDE DEF off, f
      <3>2. CASE Fits(off)
        BY <1>2, <2>1, <3>1, <3>2, OffMoves
      <3>3. CASE ~Fits(off)
        BY <2>1, <3>3 DEF SameFiles, Inv, Types
      <3>. QED
        BY <3>2, <3>3
    <2>3. ic' \in [Inums -> Entries] /\ \A j \in Inums : ic'[j].ref = ic[j].ref /\ ic[j].ref \in Int
      <3>1. ic' = Visited(ic, ip)
        BY <2>1
      <3>. HIDE DEF ip, f
      <3>. QED
        BY <1>2, <3>1, Facts, CacheOps
    <2>4. Good(fs')
      <3>. HIDE DEF grows, ip
      <3>1. CASE grows
        BY <1>2, <1>5, <2>1, <3>1, Facts, WithBlockKeeps DEF Good
      <3>2. CASE ~grows
        BY <2>1, <3>2, Facts
      <3>. QED
        BY <3>1, <3>2
    <2>5. Vars(t, "end", r.cur, r.rest, r.next, r.ip, r.dp, r.put, r.after)
      <3>1. Goto(p, [pc |-> "end"])
        BY <2>1
      <3>. QED
        BY <3>1, Facts, GoesTo
    <2>6. r.file = None /\ r.ip = None /\ r.cur = None /\ r.next = None /\ r.dp = None /\ r.put = None
      BY <1>1, NoPointers
    <2>7. /\ pr' \in [Procs -> Threads] /\ \A q \in Procs \ {p} : pr'[q] = pr[q]
          /\ t.call = r.call /\ t.file = r.file /\ t.n = r.n
      <3>1. "end" \in Pcs /\ DOMAIN [pc |-> "end"] \cap {"file", "n", "call"} = {}
        BY DEF Pcs
      <3>. QED
        BY <2>1, <2>5, <3>1, Facts, Moved
    <2>8. Placed(t) /\ t.pc = "end"
      <3>1. Placed(r)
        BY Facts
      <3>. HIDE DEF r, t
      <3>. QED
        BY <1>1, <2>5, <2>6, <2>7, <3>1 DEF Placed, Place, Vars, Walking, WithParent, WithInode, OfLink
    <2>9. \A j \in Inums : ic'[j].ref = ic[j].ref - Count(r, j) + Count(t, j)
      <3>1. \A j : Count(t, j) = Count(r, j) /\ Count(r, j) \in Int
        BY <2>5 DEF Count, One, Vars
      <3>. QED
        BY <2>3, <3>1
    <2>10. DOMAIN todo' = Procs /\ (\A q \in Procs : todo'[q] \subseteq prog.todo[q])
          /\ UNCHANGED <<prog, durable, ofile, pipe>>
      BY <1>1, <2>1, Facts DEF Same, Going
    <2>11. AtFile(t, p)
      BY <2>8 DEF AtFile
    <2>. QED
      BY <1>1, <2>2, <2>3, <2>4, <2>6, <2>7, <2>8, <2>9, <2>10, <2>11 DEF CallStep, Moves
  <1>. QED
    BY <1>3, <1>4, <1>5

\* open without a free file or descriptor
LEMMA fdallocFails ==
    ASSUME Inv, NEW p \in Procs, fdalloc(p), NoFiles = {} \/ NoFds(p) = {}
    PROVE  InodeStep(p)
  <1> DEFINE r == pr[p]
             t == pr'[p]
  <1>1. /\ r.pc = "fdalloc" /\ Goto(p, [pc |-> "unlockput"])
        /\ ic' = ic /\ fs' = fs /\ OnlyInodes /\ Same
    BY DEF fdalloc, At, OnlyInodes
  <1>2. Vars(t, "unlockput", r.cur, r.rest, r.next, r.ip, r.dp, r.put, r.after)
    BY <1>1, Facts, GoesTo
  <1>3. /\ r.file = None /\ r.n = 0 /\ Placed(r) /\ r.call \in Calls /\ r.after \in Afters
        /\ r.ip \in Inums
        /\ r.put = None
    <2>1. r.pc = "fdalloc" /\ Placed(r) /\ r.call \in Calls /\ r.cur \in Refs /\ r.next \in Refs /\ r.ip \in Refs /\ r.dp \in Refs /\ r.put \in Refs /\ r.after \in Afters
      BY <1>1, Facts
    <2>. HIDE DEF r
    <2>. QED
      BY <2>1 DEF Placed, Place, Refs, Walking, WithParent, WithInode, OfLink
  <1>4. /\ pr' \in [Procs -> Threads] /\ \A q \in Procs \ {p} : pr'[q] = pr[q]
        /\ t.call = r.call /\ t.file = r.file /\ t.n = r.n
    <2>1. "unlockput" \in Pcs
      BY <1>1, <1>3, Facts, Numbers DEF Pcs, Afters, InPipe
    <2>2. DOMAIN [pc |-> "unlockput"] \cap {"file", "n", "call"} = {}
      OBVIOUS
    <2>. QED
      BY <1>1, <1>2, <2>1, <2>2, Facts, Moved
  <1>5. Placed(t) /\ t.pc \notin {"pipeclose", "read", "write"}
    <2>. HIDE DEF r, t
    <2>. QED
      BY <1>1, <1>2, <1>3, <1>4, Numbers DEF Placed, Place, Vars, Walking, WithParent, WithInode, OfLink, PathCalls, Afters
  <1>6. ic' \in [Inums -> Entries] /\ \A j \in Inums : ic'[j].ref = ic[j].ref
    BY <1>1, Facts
  <1>7. \A j \in Inums : ic'[j].ref = ic[j].ref - Count(r, j) + Count(t, j)
    <2>1. \A j \in Inums : ic[j].ref \in Int /\ j # None
      BY Facts, Numbers
    <2>. HIDE DEF r, t
    <2>. QED
      BY <1>2, <1>3, <1>6, <2>1 DEF Count, One, Vars
  <1>8. Good(fs')
    BY <1>1, <1>3, Facts
  <1>. QED
    BY <1>1, <1>2, <1>3, <1>4, <1>5, <1>6, <1>7, <1>8, Facts DEF InodeStep, Moves, OnlyInodes, Same, Going, Vars

-----------------------------------------------------------------------------
(* Files and descriptors *)

\* When one file changes, so may the inode it refers to.
LEMMA FilesMove ==
    ASSUME NEW f \in Files, \A g \in Files \ {f} : ftable'[g] = ftable[g], NEW i
    PROVE  /\ Cardinality(FilesOf(i)) \in Nat /\ Cardinality(FilesOf(i)') \in Nat
           /\ Cardinality(FilesOf(i)') = Cardinality(FilesOf(i))
                - One(ftable[f].ref > 0 /\ ftable[f].ip = i) + One(ftable'[f].ref > 0 /\ ftable'[f].ip = i)
  <1> DEFINE A == FilesOf(i)
             B == {g \in Files : ftable'[g].ref > 0 /\ ftable'[g].ip = i}
  <1>1. IsFiniteSet(A) /\ IsFiniteSet(B)
    <2>1. B \in SUBSET Files
      OBVIOUS
    <2>. QED
      BY <2>1, Finite, Numbers, FS_Subset
  <1>2. A \ {f} = B \ {f}
    BY DEF FilesOf
  <1>3. /\ f \in A <=> ftable[f].ref > 0 /\ ftable[f].ip = i
        /\ f \in B <=> ftable'[f].ref > 0 /\ ftable'[f].ip = i
    BY DEF FilesOf
  <1>4. B = FilesOf(i)'
    BY DEF FilesOf
  <1>. HIDE DEF A, B
  <1>5. /\ Cardinality(A) \in Nat /\ Cardinality(B) \in Nat
        /\ Cardinality(B) = Cardinality(A) - One(f \in A) + One(f \in B)
    BY <1>1, <1>2, OneApart
  <1>6. /\ One(f \in A) = One(ftable[f].ref > 0 /\ ftable[f].ip = i)
        /\ One(f \in B) = One(ftable'[f].ref > 0 /\ ftable'[f].ip = i)
    BY <1>3 DEF One
  <1>. QED
    BY <1>4, <1>5, <1>6 DEF A

\* When one descriptor changes, so may the file it stands for.
LEMMA FdsMove ==
    ASSUME NEW p \in Procs, NEW d \in 1..NOFILE,
           \A q \in Procs : \A e \in 1..NOFILE : (q # p \/ e # d) => ofile'[q][e] = ofile[q][e], NEW f
    PROVE  /\ Cardinality(FdsOf(f)) \in Nat /\ Cardinality(FdsOf(f)') \in Nat
           /\ Cardinality(FdsOf(f)') = Cardinality(FdsOf(f)) - One(ofile[p][d] = f) + One(ofile'[p][d] = f)
  <1> DEFINE A == FdsOf(f)
             B == {v \in Fds : ofile'[v[1]][v[2]] = f}
             w == <<p, d>>
  <1>1. IsFiniteSet(A) /\ IsFiniteSet(B)
    <2>1. B \in SUBSET Fds
      OBVIOUS
    <2>. QED
      BY <2>1, Finite, FS_Subset
  <1>2. \A v \in Fds : v # w => ofile'[v[1]][v[2]] = ofile[v[1]][v[2]]
    BY DEF Fds
  <1>3. A \ {w} = B \ {w}
    <2>. HIDE DEF w
    <2>. QED
      BY <1>2 DEF FdsOf
  <1>4. (w \in A <=> ofile[p][d] = f) /\ (w \in B <=> ofile'[p][d] = f)
    BY DEF FdsOf, Fds
  <1>5. B = FdsOf(f)'
    BY DEF FdsOf
  <1>. HIDE DEF A, B, w
  <1>6. /\ Cardinality(A) \in Nat /\ Cardinality(B) \in Nat
        /\ Cardinality(B) = Cardinality(A) - One(w \in A) + One(w \in B)
    BY <1>1, <1>3, OneApart
  <1>7. One(w \in A) = One(ofile[p][d] = f) /\ One(w \in B) = One(ofile'[p][d] = f)
    BY <1>4 DEF One
  <1>. QED
    BY <1>5, <1>6, <1>7 DEF A

\* A file that is free: nothing refers to it.
LEMMA FreeFile ==
    ASSUME Inv, NEW f \in Files, ftable[f].ref = 0
    PROVE  /\ ftable[f] = NoFile
           /\ \A q \in Procs : pr[q].file # f
           /\ \A q \in Procs : \A e \in 1..NOFILE : ofile[q][e] # f
  <1>1. ftable[f] = NoFile
    BY DEF Inv, Pointing, Tables
  <1>2. \A q \in Procs : pr[q].file # f
    BY Numbers DEF Inv, Pointing, Tables
  <1>3. FdsOf(f) = {}
    <2>1. Cardinality(FdsOf(f)) = 0
      BY DEF Inv, Pointing, Exact
    <2>. QED
      BY <2>1, Finite, FS_EmptySet
  <1>4. ASSUME NEW q \in Procs, NEW e \in 1..NOFILE PROVE ofile[q][e] # f
    <2>1. <<q, e>> \in Fds
      BY DEF Fds
    <2>. QED
      BY <1>3, <2>1 DEF FdsOf
  <1>. QED
    BY <1>1, <1>2, <1>4

\* open allocates its file and its descriptor.
LEMMA fdallocKeeps ==
    ASSUME Inv, NEW p \in Procs, fdalloc(p), NoFiles # {}, NoFds(p) # {}
    PROVE  Inv'
  <1> DEFINE f == First(NoFiles)
             d == First(NoFds(p))
             r == pr[p]
             t == pr'[p]
  <1>1. /\ r.pc = "fdalloc" /\ ftable' = [ftable EXCEPT ![f].ref = 1]
        /\ ofile' = [ofile EXCEPT ![p][d] = f] /\ ic' = Unlocked(ic, r.ip)
        /\ Goto(p, [pc |-> "end", file |-> f])
        /\ UNCHANGED <<prog, todo, pipe, fs, durable>>
    BY DEF fdalloc, At, Same, Going
  <1>2. f \in Files /\ ftable[f].ref = 0
    <2>1. NoFiles \subseteq Nat
      BY Numbers DEF NoFiles
    <2>2. f \in NoFiles
      BY <2>1, FirstIn
    <2>. QED
      BY <2>2 DEF NoFiles
  <1>3. d \in 1..NOFILE /\ ofile[p][d] = None
    <2>1. NoFds(p) \subseteq Nat
      BY DEF NoFds
    <2>2. d \in NoFds(p)
      BY <2>1, FirstIn
    <2>. QED
      BY <2>2 DEF NoFds
  <1>. HIDE DEF f, d
  <1>4. /\ ftable[f] = NoFile /\ (\A q \in Procs : pr[q].file # f)
        /\ \A q \in Procs : \A e \in 1..NOFILE : ofile[q][e] # f
    BY <1>2, FreeFile
  <1>5. /\ ftable' \in [Files -> OpenFiles] /\ \A g \in Files \ {f} : ftable'[g] = ftable[g]
        /\ ftable'[f].ref = 1 /\ ftable'[f].type = "NONE" /\ ftable'[f].ip = None
    <2>1. ftable \in [Files -> OpenFiles]
      BY DEF Inv, Types
    <2> DEFINE x == [ftable[f] EXCEPT !.ref = 1]
    <2>2. ftable' = [ftable EXCEPT ![f] = x]
      BY <1>1
    <2>3. x \in OpenFiles /\ x.ref = 1 /\ x.type = ftable[f].type /\ x.ip = ftable[f].ip
      BY <1>2, <2>1 DEF OpenFiles
    <2>4. NoFile.type = "NONE" /\ NoFile.ip = None
      BY DEF NoFile
    <2>. HIDE DEF x
    <2>5. ftable' \in [Files -> OpenFiles] /\ ftable'[f] = x /\ \A g \in Files \ {f} : ftable'[g] = ftable[g]
      BY <1>2, <2>1, <2>2, <2>3
    <2>. QED
      BY <1>4, <2>3, <2>4, <2>5
  <1>6. /\ ofile' \in [Procs -> [1..NOFILE -> Files \cup {None}]] /\ ofile'[p][d] = f
        /\ \A q \in Procs : \A e \in 1..NOFILE : (q # p \/ e # d) => ofile'[q][e] = ofile[q][e]
    <2>1. ofile \in [Procs -> [1..NOFILE -> Files \cup {None}]]
      BY DEF Inv, Types
    <2>. QED
      BY <1>1, <1>2, <1>3, <2>1
  <1>7. Vars(t, "end", r.cur, r.rest, r.next, r.ip, r.dp, r.put, r.after) /\ t.call = r.call /\ t.file = f /\ t.n = r.n
    BY <1>1, Facts, GoesTo
  <1>8. Placed(r) /\ r.cur = None /\ r.next = None /\ r.dp = None /\ r.put = None /\ r.ip \in Inums /\ r.n = 0 /\ r.file = None
    <2>1. Placed(r) /\ r.ip \in Refs
      BY Facts
    <2>. HIDE DEF r
    <2>. QED
      BY <1>1, <2>1 DEF Placed, Place, WithParent, WithInode, Refs
  <1>9. pr' \in [Procs -> Threads] /\ \A q \in Procs \ {p} : pr'[q] = pr[q]
    <2>1. /\ t = [x \in Fields |-> t[x]] /\ (t \in Threads => pr' \in [Procs -> Threads])
          /\ \A q \in Procs \ {p} : pr'[q] = pr[q]
      BY <1>1, Facts, Goes
    <2>2. "end" \in Pcs /\ f \in Files \cup {None}
      BY <1>2 DEF Pcs
    <2>3. t \in Threads
      <3>1. /\ r.cur \in Refs /\ r.next \in Refs /\ r.ip \in Refs /\ r.dp \in Refs /\ r.put \in Refs
            /\ r.rest \in Seq(Names) /\ r.after \in Afters /\ r.call \in Calls /\ r.n \in Int
        BY Facts
      <3>. HIDE DEF r, t
      <3>. QED
        BY <1>7, <2>1, <2>2, <3>1, ThreadFields DEF Vars
    <2>. QED
      BY <2>1, <2>3
  <1>10. Placed(t)
    <2>. HIDE DEF r, t
    <2>. QED
      BY <1>1, <1>2, <1>7, <1>8, Numbers DEF Placed, Place, Vars, Walking, WithParent, WithInode, OfLink
  <1>11. ic' \in [Inums -> Entries] /\ \A j \in Inums : ic'[j].ref = ic[j].ref
    BY <1>1, <1>8, Facts, CacheOps
  <1>12. Types'
    BY <1>1, <1>5, <1>6, <1>9, <1>11 DEF Inv, Types
  <1>13. Exact'
    <2>1. ASSUME NEW i \in Inums PROVE ic'[i].ref = Cardinality(FilesOf(i)') + Cardinality(Pointers(i)')
      <3>1. Cardinality(Pointers(i)') = Cardinality(Pointers(i))
        <4>1. Count(t, i) = Count(r, i) /\ Count(r, i) \in Int
          BY <1>7 DEF Count, One, Vars
        <4>. QED
          BY <1>9, <4>1, PointersMove
      <3>2. Cardinality(FilesOf(i)') = Cardinality(FilesOf(i))
        <4>1. One(ftable[f].ref > 0 /\ ftable[f].ip = i) = 0 /\ One(ftable'[f].ref > 0 /\ ftable'[f].ip = i) = 0
          BY <1>2, <1>5, Numbers DEF One
        <4>. QED
          BY <1>2, <1>5, <4>1, FilesMove
      <3>. QED
        BY <1>11, <3>1, <3>2 DEF Inv, Pointing, Exact
    <2>2. ASSUME NEW g \in Files PROVE ftable'[g].ref = Cardinality(FdsOf(g)')
      <3>1. /\ Cardinality(FdsOf(g)) \in Nat
            /\ Cardinality(FdsOf(g)') = Cardinality(FdsOf(g)) - One(ofile[p][d] = g) + One(ofile'[p][d] = g)
        BY <1>3, <1>6, FdsMove
      <3>2. ftable[g].ref = Cardinality(FdsOf(g))
        BY DEF Inv, Pointing, Exact
      <3>3. ftable'[g].ref = ftable[g].ref - One(ofile[p][d] = g) + One(ofile'[p][d] = g)
        BY <1>2, <1>3, <1>5, <1>6, <3>1, <3>2, Numbers DEF One
      <3>. QED
        BY <3>1, <3>2, <3>3
    <2>. QED
      BY <2>1, <2>2 DEF Exact
  <1>14. Tables'
    <2>1. ASSUME NEW g \in Files
          PROVE  /\ ftable'[g].ref = 0 => ftable'[g] = NoFile
                 /\ ftable'[g].type = "INODE" <=> ftable'[g].ip # None
                 /\ (ftable'[g].ref # 0 /\ ftable'[g].type = "NONE") => \E q \in Procs : pr'[q].file = g
      <3>1. CASE g = f
        BY <1>5, <1>7, <3>1
      <3>2. CASE g # f
        BY <1>5, <1>8, <1>9, <3>2, Numbers DEF Inv, Pointing, Tables
      <3>. QED
        BY <3>1, <3>2
    <2>2. ASSUME NEW q \in Procs, pr'[q].file # None
          PROVE  /\ ftable'[pr'[q].file].type = "NONE" /\ ftable'[pr'[q].file].ref # 0
                 /\ \A o \in Procs : \A e \in 1..NOFILE : ofile'[o][e] = pr'[q].file => o = q
      <3>1. CASE q = p
        BY <1>4, <1>5, <1>6, <1>7, <3>1
      <3>2. CASE q # p
        <4>1. pr'[q] = pr[q] /\ pr[q].file \in Files /\ pr[q].file # f
          BY <1>4, <1>9, <2>2, <3>2 DEF Inv, Types, Threads
        <4>2. /\ ftable[pr[q].file].type = "NONE" /\ ftable[pr[q].file].ref # 0
              /\ \A o \in Procs : \A e \in 1..NOFILE : ofile[o][e] = pr[q].file => o = q
          BY <2>2, <4>1 DEF Inv, Pointing, Tables
        <4>. QED
          BY <1>5, <1>6, <4>1, <4>2
      <3>. QED
        BY <3>1, <3>2
    <2>3. \A q, o \in Procs : pr'[q].file # None /\ pr'[q].file = pr'[o].file => q = o
      BY <1>4, <1>7, <1>9 DEF Inv, Pointing, Tables
    <2>4. ASSUME NEW q \in Procs, pr'[q].pc \in {"read", "write"}
          PROVE  ofile'[q][pr'[q].call.fd] # None /\ ftable'[ofile'[q][pr'[q].call.fd]].type = "INODE"
      <3>1. q # p /\ pr'[q] = pr[q]
        BY <1>7, <1>9, <2>4 DEF Vars
      <3>2. /\ pr[q].call.fd \in 1..NOFILE /\ ofile[q][pr[q].call.fd] \in Files
            /\ ftable[ofile[q][pr[q].call.fd]].type = "INODE"
        BY <2>4, <3>1, Reading
      <3>. QED
        BY <1>4, <1>5, <1>6, <3>1, <3>2, Numbers
    <2>. QED
      BY <2>1, <2>2, <2>3, <2>4 DEF Tables
  <1>15. Piped'
    <2>1. \A e : Closing(e)' = Closing(e)
      BY <1>1, <1>7, <1>9 DEF Closing, Vars
    <2>2. \A g \in Files : \A e : IsEnd(g, e)' = IsEnd(g, e)
      <3>1. ftable[f].type = "NONE"
        BY <1>4 DEF NoFile
      <3>. QED
        BY <1>5, <3>1 DEF IsEnd
    <2>3. pipe' = pipe /\ \A e : EndOpen(e)' = EndOpen(e)
      BY <1>1 DEF EndOpen
    <2>. QED
      BY <2>1, <2>2, <2>3 DEF Inv, Piped
  <1>16. (\A q \in Procs : Placed(pr[q]))'
    BY <1>9, <1>10 DEF Inv, Pointing
  <1>17. Bitmap(fs') /\ Bitmap(durable')
    BY <1>1 DEF Inv
  <1>. QED
    BY <1>12, <1>13, <1>14, <1>15, <1>16, <1>17 DEF Inv, Pointing

\* end_op of a call that opens nothing
LEMMA EndOpPlain ==
    ASSUME Inv, NEW p \in Procs, EndOp(p), pr[p].file = None
    PROVE  CallStep(p)
  <1> DEFINE r == pr[p]
  <1>1. /\ r.pc = "end" /\ durable' \in {durable, fs} /\ ftable' = ftable /\ pr' = [pr EXCEPT ![p] = Idle]
        /\ UNCHANGED <<prog, todo, pipe, fs, ic, ofile>>
    BY DEF EndOp, At, Same, Going
  <1>2. Moves(p) /\ pr'[p].file = None /\ pr'[p].pc = "idle" /\ \A j \in Inums : Count(pr'[p], j) = 0
    BY <1>1, Returns
  <1>3. r.cur = None /\ r.next = None /\ r.dp = None /\ r.put = None /\ r.ip = None
    <2>1. Placed(r) /\ r.file = None
      BY Facts
    <2>. HIDE DEF r
    <2>. QED
      BY <1>1, <2>1 DEF Placed, Place, WithParent, WithInode, Walking
  <1>4. \A j \in Inums : Count(r, j) = 0
    <2>1. \A j \in Inums : None # j
      BY Numbers
    <2>. HIDE DEF r
    <2>. QED
      BY <1>3, <2>1 DEF Count, One
  <1>5. \A j \in Inums : ic[j].ref \in Int
    BY Facts
  <1>6. \A j \in Inums : ic'[j].ref = ic[j].ref - Count(r, j) + Count(pr'[p], j)
    BY <1>1, <1>2, <1>4, <1>5
  <1>7. SameFiles /\ AtFile(pr'[p], p)
    BY <1>1, <1>2 DEF SameFiles, AtFile, Inv, Types
  <1>8. ic' \in [Inums -> Entries] /\ Good(fs') /\ DOMAIN todo' = Procs /\ \A q \in Procs : todo'[q] \subseteq prog.todo[q]
    BY <1>1, Facts
  <1>. QED
    BY <1>1, <1>2, <1>6, <1>7, <1>8 DEF CallStep

\* end_op of open, which then fills in its file
LEMMA EndOpOpens ==
    ASSUME Inv, NEW p \in Procs, EndOp(p), pr[p].file # None
    PROVE  Inv'
  <1> DEFINE r == pr[p]
             f == r.file
             w == r.call.c = "create" \/ ~r.call.rdonly
             x == [ftable[f] EXCEPT !.type = "INODE", !.ip = r.ip, !.off = 0, !.writable = w]
  <1>1. /\ r.pc = "end" /\ durable' \in {durable, fs} /\ ftable' = [ftable EXCEPT ![f] = x]
        /\ pr' = [pr EXCEPT ![p] = Idle]
        /\ UNCHANGED <<prog, todo, pipe, fs, ic, ofile>>
    BY DEF EndOp, At, Same, Going
  <1>2. Moves(p) /\ pr'[p] = Idle /\ pr'[p].file = None /\ pr'[p].pc = "idle" /\ \A j \in Inums : Count(pr'[p], j) = 0
    BY <1>1, Returns
  <1>3. pr' \in [Procs -> Threads] /\ (\A q \in Procs \ {p} : pr'[q] = pr[q]) /\ Placed(pr'[p])
    BY <1>2 DEF Moves
  <1>4. r.cur = None /\ r.next = None /\ r.dp = None /\ r.put = None /\ r.ip \in Inums /\ r.ip # None
    <2>1. Placed(r) /\ r.file # None /\ r.ip \in Refs
      BY Facts
    <2>. HIDE DEF r
    <2>. QED
      BY <1>1, <2>1 DEF Placed, Place, WithParent, WithInode, Walking, Refs
  <1>5. /\ f \in Files /\ ftable[f].type = "NONE" /\ ftable[f].ref # 0 /\ ftable[f].ref \in Int
        /\ \A q \in Procs : \A e \in 1..NOFILE : ofile[q][e] = f => q = p
        /\ \A q \in Procs : pr[q].file = f => q = p
    <2>1. f \in Files
      BY Facts
    <2>2. ftable[f].ref \in Int
      BY <2>1 DEF Inv, Types, OpenFiles
    <2>. QED
      BY <2>1, <2>2 DEF Inv, Pointing, Tables
  <1>6. ftable[f].ip = None
    BY <1>5 DEF Inv, Pointing, Tables
  <1>7. ftable[f].ref > 0
    <2>1. ftable[f].ref = Cardinality(FdsOf(f))
      BY <1>5 DEF Inv, Pointing, Exact
    <2>2. Cardinality(FdsOf(f)) \in Nat
      BY Finite, FS_CardinalityType
    <2>. QED
      BY <1>5, <2>1, <2>2
  <1>8. x \in OpenFiles /\ x.ref = ftable[f].ref /\ x.type = "INODE" /\ x.ip = r.ip
    <2>1. ftable[f] \in OpenFiles
      BY <1>5 DEF Inv, Types
    <2>2. w \in BOOLEAN /\ 0 \in Int /\ r.ip \in Refs /\ "INODE" \in {"NONE", "INODE", "PIPE"}
      BY Facts
    <2>. HIDE DEF w, f, r
    <2>. QED
      BY <2>1, <2>2 DEF OpenFiles
  <1>. HIDE DEF x, f
  <1>9. ftable' \in [Files -> OpenFiles] /\ ftable'[f] = x /\ \A g \in Files \ {f} : ftable'[g] = ftable[g]
    <2>1. ftable \in [Files -> OpenFiles]
      BY DEF Inv, Types
    <2>. QED
      BY <1>1, <1>5, <1>8, <2>1
  <1>10. Types'
    BY <1>1, <1>3, <1>9 DEF Inv, Types
  <1>11. Exact'
    <2>1. ASSUME NEW i \in Inums PROVE ic'[i].ref = Cardinality(FilesOf(i)') + Cardinality(Pointers(i)')
      <3>1. /\ Cardinality(Pointers(i)) \in Nat /\ Cardinality(Pointers(i)') \in Nat
            /\ Cardinality(Pointers(i)') = Cardinality(Pointers(i)) - Count(r, i) + Count(pr'[p], i)
        BY <1>3, PointersMove
      <3>2. Count(r, i) = One(r.ip = i) /\ Count(pr'[p], i) = 0
        <4>1. None # i
          BY Numbers
        <4>2. Count(pr'[p], i) = 0
          BY <1>2
        <4>. HIDE DEF r
        <4>. QED
          BY <1>4, <4>1, <4>2 DEF Count, One
      <3>3. /\ Cardinality(FilesOf(i)) \in Nat /\ Cardinality(FilesOf(i)') \in Nat
            /\ Cardinality(FilesOf(i)') = Cardinality(FilesOf(i))
                 - One(ftable[f].ref > 0 /\ ftable[f].ip = i) + One(ftable'[f].ref > 0 /\ ftable'[f].ip = i)
        BY <1>5, <1>9, FilesMove
      <3>4. /\ One(ftable[f].ref > 0 /\ ftable[f].ip = i) = 0
            /\ One(ftable'[f].ref > 0 /\ ftable'[f].ip = i) = One(r.ip = i)
        BY <1>6, <1>7, <1>8, <1>9, Numbers DEF One
      <3>5. One(r.ip = i) \in Int
        BY DEF One
      <3>6. ic'[i].ref = Cardinality(FilesOf(i)) + Cardinality(Pointers(i))
        BY <1>1 DEF Inv, Pointing, Exact
      <3>. QED
        BY <3>1, <3>2, <3>3, <3>4, <3>5, <3>6
    <2>2. ASSUME NEW g \in Files PROVE ftable'[g].ref = Cardinality(FdsOf(g)')
      <3>1. FdsOf(g)' = FdsOf(g)
        BY <1>1 DEF FdsOf
      <3>2. ftable'[g].ref = ftable[g].ref
        BY <1>8, <1>9
      <3>3. ftable[g].ref = Cardinality(FdsOf(g))
        BY DEF Inv, Pointing, Exact
      <3>. QED
        BY <3>1, <3>2, <3>3
    <2>. QED
      BY <2>1, <2>2 DEF Exact
  <1>12. Tables'
    <2>1. ASSUME NEW g \in Files
          PROVE  /\ ftable'[g].ref = 0 => ftable'[g] = NoFile
                 /\ ftable'[g].type = "INODE" <=> ftable'[g].ip # None
                 /\ (ftable'[g].ref # 0 /\ ftable'[g].type = "NONE") => \E q \in Procs : pr'[q].file = g
      <3>1. CASE g = f
        BY <1>4, <1>5, <1>8, <1>9, <3>1
      <3>2. CASE g # f
        <4>1. ftable'[g] = ftable[g]
          BY <1>9, <3>2
        <4>2. \A q \in Procs : pr[q].file = g => q # p
          BY <3>2 DEF f
        <4>. QED
          BY <1>3, <4>1, <4>2 DEF Inv, Pointing, Tables
      <3>. QED
        BY <3>1, <3>2
    <2>2. ASSUME NEW q \in Procs, pr'[q].file # None
          PROVE  /\ ftable'[pr'[q].file].type = "NONE" /\ ftable'[pr'[q].file].ref # 0
                 /\ \A o \in Procs : \A e \in 1..NOFILE : ofile'[o][e] = pr'[q].file => o = q
      <3>1. q # p /\ pr'[q] = pr[q] /\ pr[q].file \in Files /\ pr[q].file # f
        <4>1. q # p
          BY <1>2, <2>2
        <4>2. pr[q].file \in Files \cup {None}
          BY DEF Inv, Types, Threads
        <4>. QED
          BY <1>3, <1>5, <2>2, <4>1, <4>2
      <3>2. /\ ftable[pr[q].file].type = "NONE" /\ ftable[pr[q].file].ref # 0
            /\ \A o \in Procs : \A e \in 1..NOFILE : ofile[o][e] = pr[q].file => o = q
        BY <2>2, <3>1 DEF Inv, Pointing, Tables
      <3>. QED
        BY <1>1, <1>9, <3>1, <3>2
    <2>3. \A q, o \in Procs : pr'[q].file # None /\ pr'[q].file = pr'[o].file => q = o
      BY <1>2, <1>3 DEF Inv, Pointing, Tables
    <2>4. ASSUME NEW q \in Procs, pr'[q].pc \in {"read", "write"}
          PROVE  ofile'[q][pr'[q].call.fd] # None /\ ftable'[ofile'[q][pr'[q].call.fd]].type = "INODE"
      <3>1. q # p /\ pr'[q] = pr[q]
        BY <1>2, <1>3, <2>4
      <3>2. /\ ofile[q][pr[q].call.fd] \in Files
            /\ ftable[ofile[q][pr[q].call.fd]].type = "INODE"
        BY <2>4, <3>1, Reading
      <3>. QED
        BY <1>1, <1>5, <1>9, <3>1, <3>2, Numbers
    <2>. QED
      BY <2>1, <2>2, <2>3, <2>4 DEF Tables
  <1>13. Piped'
    <2>1. \A e : Closing(e)' = Closing(e)
      BY <1>1, <1>2, <1>3 DEF Closing
    <2>2. \A g \in Files : \A e : IsEnd(g, e)' = IsEnd(g, e)
      BY <1>5, <1>8, <1>9 DEF IsEnd
    <2>3. pipe' = pipe /\ \A e : EndOpen(e)' = EndOpen(e)
      BY <1>1 DEF EndOpen
    <2>. QED
      BY <2>1, <2>2, <2>3 DEF Inv, Piped
  <1>14. (\A q \in Procs : Placed(pr[q]))'
    BY <1>3 DEF Inv, Pointing
  <1>15. Bitmap(fs') /\ Bitmap(durable')
    BY <1>1 DEF Inv
  <1>. QED
    BY <1>10, <1>11, <1>12, <1>13, <1>14, <1>15 DEF Inv, Pointing

\* A step that changes one descriptor, and the count of its file: a file whose
\* count gets to zero is cleared.
FdStep(p, d, f) ==
    /\ pr' \in [Procs -> Threads] /\ (\A q \in Procs \ {p} : pr'[q] = pr[q]) /\ Placed(pr'[p])
    /\ pr'[p].file = None /\ pr'[p].pc \notin {"read", "write"}
    /\ ofile' \in [Procs -> [1..NOFILE -> Files \cup {None}]]
    /\ \A q \in Procs : \A e \in 1..NOFILE : (q # p \/ e # d) => ofile'[q][e] = ofile[q][e]
    /\ ofile[p][d] \in {f, None} /\ ofile'[p][d] \in {f, None}
    /\ ftable' \in [Files -> OpenFiles] /\ \A g \in Files \ {f} : ftable'[g] = ftable[g]
    /\ ftable'[f].ref = ftable[f].ref - One(ofile[p][d] = f) + One(ofile'[p][d] = f)
    /\ ftable'[f].ref = 0 => ftable'[f] = NoFile
    /\ ftable'[f].ref # 0 => ftable'[f].type = ftable[f].type /\ ftable'[f].ip = ftable[f].ip
    /\ \A i \in Inums : One(ftable[f].ref > 0 /\ ftable[f].ip = i) + Count(pr[p], i)
                          = One(ftable'[f].ref > 0 /\ ftable'[f].ip = i) + Count(pr'[p], i)
    /\ DOMAIN todo' = Procs /\ \A q \in Procs : todo'[q] \subseteq prog.todo[q]
    /\ UNCHANGED <<prog, durable, fs, ic, pipe>>

\* It keeps the invariant, but for the ends of the pipe.
LEMMA FdStepKeeps ==
    ASSUME Inv, NEW p \in Procs, NEW d \in 1..NOFILE, NEW f \in Files, FdStep(p, d, f), pr[p].file = None,
           ftable[f].type \in {"INODE", "PIPE"}, \A q \in Procs : pr[q].file # f
    PROVE  Types' /\ Pointing' /\ Bitmap(fs') /\ Bitmap(durable')
  <1>1. /\ pr' \in [Procs -> Threads] /\ (\A q \in Procs \ {p} : pr'[q] = pr[q]) /\ Placed(pr'[p])
        /\ pr'[p].file = None /\ pr'[p].pc \notin {"read", "write"}
        /\ \A q \in Procs : pr'[q].file = pr[q].file
    BY DEF FdStep
  <1>2. /\ ofile' \in [Procs -> [1..NOFILE -> Files \cup {None}]]
        /\ \A q \in Procs : \A e \in 1..NOFILE : (q # p \/ e # d) => ofile'[q][e] = ofile[q][e]
        /\ ofile[p][d] \in {f, None} /\ ofile'[p][d] \in {f, None}
    BY DEF FdStep
  <1>3. ftable' \in [Files -> OpenFiles] /\ \A g \in Files \ {f} : ftable'[g] = ftable[g]
    BY DEF FdStep
  <1>4. UNCHANGED <<prog, durable, fs, ic, pipe>>
    BY DEF FdStep
  <1>5. Types'
    BY <1>1, <1>2, <1>3, <1>4 DEF FdStep, Inv, Types
  <1>6. \A g \in Files : ftable[g].ref = Cardinality(FdsOf(g))
    BY DEF Inv, Pointing, Exact
  <1>7. ASSUME NEW g \in Files PROVE ftable'[g].ref = Cardinality(FdsOf(g)')
    <2>1. /\ Cardinality(FdsOf(g)) \in Nat
          /\ Cardinality(FdsOf(g)') = Cardinality(FdsOf(g)) - One(ofile[p][d] = g) + One(ofile'[p][d] = g)
      BY <1>2, FdsMove
    <2>2. CASE g = f
      BY <1>6, <2>1, <2>2 DEF FdStep
    <2>3. CASE g # f
      <3>1. One(ofile[p][d] = g) = 0 /\ One(ofile'[p][d] = g) = 0
        BY <1>2, <2>3, Numbers DEF One
      <3>. QED
        BY <1>3, <1>6, <2>1, <2>3, <3>1
    <2>. QED
      BY <2>2, <2>3
  <1>8. ASSUME NEW i \in Inums PROVE ic'[i].ref = Cardinality(FilesOf(i)') + Cardinality(Pointers(i)')
    <2>1. /\ Cardinality(Pointers(i)) \in Nat /\ Cardinality(Pointers(i)') \in Nat
          /\ Cardinality(Pointers(i)') = Cardinality(Pointers(i)) - Count(pr[p], i) + Count(pr'[p], i)
      BY <1>1, PointersMove
    <2>2. /\ Cardinality(FilesOf(i)) \in Nat /\ Cardinality(FilesOf(i)') \in Nat
          /\ Cardinality(FilesOf(i)') = Cardinality(FilesOf(i))
               - One(ftable[f].ref > 0 /\ ftable[f].ip = i) + One(ftable'[f].ref > 0 /\ ftable'[f].ip = i)
      BY <1>3, FilesMove
    <2>3. One(ftable[f].ref > 0 /\ ftable[f].ip = i) + Count(pr[p], i)
            = One(ftable'[f].ref > 0 /\ ftable'[f].ip = i) + Count(pr'[p], i)
      BY DEF FdStep
    <2>4. /\ One(ftable[f].ref > 0 /\ ftable[f].ip = i) \in Int /\ One(ftable'[f].ref > 0 /\ ftable'[f].ip = i) \in Int
          /\ Count(pr[p], i) \in Int /\ Count(pr'[p], i) \in Int
      BY DEF One, Count
    <2>5. ic'[i].ref = Cardinality(FilesOf(i)) + Cardinality(Pointers(i))
      BY <1>4 DEF Inv, Pointing, Exact
    <2> DEFINE a == One(ftable[f].ref > 0 /\ ftable[f].ip = i)
               b == One(ftable'[f].ref > 0 /\ ftable'[f].ip = i)
    <2>. HIDE DEF a, b
    <2>6. /\ a \in Int /\ b \in Int /\ a + Count(pr[p], i) = b + Count(pr'[p], i)
          /\ Cardinality(FilesOf(i)') = Cardinality(FilesOf(i)) - a + b
      BY <2>2, <2>3, <2>4 DEF a, b
    <2>. QED
      BY <2>1, <2>2, <2>4, <2>5, <2>6
  <1>13. ASSUME NEW q \in Procs, NEW e \in 1..NOFILE, NEW g \in Files, ofile'[q][e] = g
         PROVE  ftable'[g].ref # 0
    <2> DEFINE B == {v \in Fds : ofile'[v[1]][v[2]] = g}
    <2>1. <<q, e>> \in B
      BY <1>13 DEF Fds
    <2>2. IsFiniteSet(B)
      <3>1. B \in SUBSET Fds
        OBVIOUS
      <3>. QED
        BY <3>1, Finite, FS_Subset
    <2>3. B = FdsOf(g)'
      BY DEF FdsOf
    <2>. HIDE DEF B
    <2>4. Cardinality(B) # 0
      BY <2>1, <2>2, FS_EmptySet
    <2>. QED
      BY <1>7, <2>3, <2>4
  <1>9. Tables'
    <2>1. ASSUME NEW g \in Files
          PROVE  /\ ftable'[g].ref = 0 => ftable'[g] = NoFile
                 /\ ftable'[g].type = "INODE" <=> ftable'[g].ip # None
                 /\ (ftable'[g].ref # 0 /\ ftable'[g].type = "NONE") => \E q \in Procs : pr'[q].file = g
      <3>1. CASE g = f
        <4>1. CASE ftable'[f].ref = 0
          BY <3>1, <4>1 DEF FdStep, NoFile
        <4>2. CASE ftable'[f].ref # 0
          BY <3>1, <4>2 DEF FdStep, Inv, Pointing, Tables
        <4>. QED
          BY <4>1, <4>2
      <3>2. CASE g # f
        <4>1. ftable'[g] = ftable[g]
          BY <1>3, <3>2
        <4>. QED
          BY <1>1, <4>1 DEF Inv, Pointing, Tables
      <3>. QED
        BY <3>1, <3>2
    <2>2. ASSUME NEW q \in Procs, pr'[q].file # None
          PROVE  /\ ftable'[pr'[q].file].type = "NONE" /\ ftable'[pr'[q].file].ref # 0
                 /\ \A o \in Procs : \A e \in 1..NOFILE : ofile'[o][e] = pr'[q].file => o = q
      <3>1. pr'[q].file = pr[q].file /\ pr[q].file \in Files /\ pr[q].file # f
        <4>1. pr[q].file \in Files \cup {None}
          BY DEF Inv, Types, Threads
        <4>. QED
          BY <1>1, <2>2, <4>1
      <3>2. /\ ftable[pr[q].file].type = "NONE" /\ ftable[pr[q].file].ref # 0
            /\ \A o \in Procs : \A e \in 1..NOFILE : ofile[o][e] = pr[q].file => o = q
        BY <2>2, <3>1 DEF Inv, Pointing, Tables
      <3>. QED
        BY <1>2, <1>3, <2>2, <3>1, <3>2
    <2>3. \A q, o \in Procs : pr'[q].file # None /\ pr'[q].file = pr'[o].file => q = o
      BY <1>1 DEF Inv, Pointing, Tables
    <2>4. ASSUME NEW q \in Procs, pr'[q].pc \in {"read", "write"}
          PROVE  ofile'[q][pr'[q].call.fd] # None /\ ftable'[ofile'[q][pr'[q].call.fd]].type = "INODE"
      <3> DEFINE e == pr[q].call.fd
                 g == ofile[q][e]
      <3>1. q # p /\ pr'[q] = pr[q]
        BY <1>1, <2>4
      <3>2. e \in 1..NOFILE /\ g \in Files /\ ftable[g].type = "INODE"
        BY <2>4, <3>1, Reading
      <3>3. ofile'[q][e] = g
        BY <1>2, <3>1, <3>2
      <3>4. ftable'[g].ref # 0
        BY <1>13, <3>2, <3>3
      <3>5. ftable'[g].type = "INODE"
        BY <1>3, <3>2, <3>4 DEF FdStep
      <3>. QED
        BY <3>1, <3>2, <3>3, <3>5, Numbers
    <2>. QED
      BY <2>1, <2>2, <2>3, <2>4 DEF Tables
  <1>10. Exact'
    BY <1>7, <1>8 DEF Exact
  <1>11. (\A q \in Procs : Placed(pr[q]))'
    BY <1>1 DEF Inv, Pointing
  <1>12. Bitmap(fs') /\ Bitmap(durable')
    BY <1>4 DEF Inv
  <1>. QED
    BY <1>5, <1>9, <1>10, <1>11, <1>12 DEF Pointing

\* dup
LEMMA DupKeeps ==
    ASSUME Inv, NEW p \in Procs, NEW call \in todo[p], Call(p, call), Dup(p, call), UNCHANGED pipe
    PROVE  Inv'
  <1> DEFINE d == call.fd
             f == ofile[p][d]
             n == First(NoFds(p))
             x == [ftable[f] EXCEPT !.ref = @ + 1]
  <1>1. pr[p].pc = "idle" /\ call \in Calls /\ call.c = "dup" /\ d \in 1..NOFILE
    BY CallIsKnown, CallNames DEF Call, At, Dup
  <1>2. /\ f # None /\ NoFds(p) # {} /\ ofile' = [ofile EXCEPT ![p][n] = f]
        /\ ftable' = [ftable EXCEPT ![f] = x] /\ UNCHANGED <<fs, durable, ic, pr>>
    BY DEF Dup
  <1>3. n \in 1..NOFILE /\ ofile[p][n] = None
    <2>1. NoFds(p) \subseteq Nat
      BY DEF NoFds
    <2>2. n \in NoFds(p)
      BY <1>2, <2>1, FirstIn
    <2>. QED
      BY <2>2 DEF NoFds
  <1>4. pr[p].file = None /\ pr \in [Procs -> Threads] /\ Placed(pr[p])
    BY <1>1, IdleFacts, Facts
  <1>5. /\ f \in Files /\ ftable[f] \in OpenFiles /\ ftable[f].ref \in Nat \ {0}
        /\ ftable[f].type \in {"INODE", "PIPE"} /\ \A q \in Procs : pr[q].file # f
    BY <1>1, <1>2, <1>4, OpenFile
  <1>. HIDE DEF n, d, f
  <1>6. x \in OpenFiles /\ x.ref = ftable[f].ref + 1 /\ x.type = ftable[f].type /\ x.ip = ftable[f].ip /\ x.writable = ftable[f].writable
    <2>1. ftable[f].ref + 1 \in Int
      BY <1>5
    <2>. QED
      BY <1>5, <2>1 DEF OpenFiles
  <1>. HIDE DEF x
  <1>7. ftable' \in [Files -> OpenFiles] /\ ftable'[f] = x /\ \A g \in Files \ {f} : ftable'[g] = ftable[g]
    <2>1. ftable \in [Files -> OpenFiles]
      BY DEF Inv, Types
    <2>. QED
      BY <1>2, <1>5, <1>6, <2>1
  <1>8. /\ ofile' \in [Procs -> [1..NOFILE -> Files \cup {None}]] /\ ofile'[p][n] = f
        /\ \A q \in Procs : \A e \in 1..NOFILE : (q # p \/ e # n) => ofile'[q][e] = ofile[q][e]
    <2>1. ofile \in [Procs -> [1..NOFILE -> Files \cup {None}]]
      BY DEF Inv, Types
    <2>. QED
      BY <1>2, <1>3, <1>5, <2>1
  <1>9. DOMAIN todo' = Procs /\ (\A q \in Procs : todo'[q] \subseteq prog.todo[q]) /\ prog' = prog
    BY CallTodo
  <1>10. FdStep(p, n, f)
    <2>1. ftable'[f].ref = ftable[f].ref - One(ofile[p][n] = f) + One(ofile'[p][n] = f)
      <3>1. One(ofile[p][n] = f) = 0 /\ One(ofile'[p][n] = f) = 1
        BY <1>2, <1>3, <1>8 DEF One
      <3>. QED
        BY <1>5, <1>6, <1>7, <3>1
    <2>2. ftable'[f].ref # 0 /\ ftable'[f].ref > 0 /\ ftable[f].ref > 0
      BY <1>5, <1>6, <1>7
    <2>3. \A i \in Inums : One(ftable[f].ref > 0 /\ ftable[f].ip = i) + Count(pr[p], i)
                          = One(ftable'[f].ref > 0 /\ ftable'[f].ip = i) + Count(pr'[p], i)
      BY <1>2, <1>6, <1>7, <2>2 DEF One
    <2>4. pr'[p].file = None /\ pr'[p].pc \notin {"read", "write"} /\ Placed(pr'[p]) /\ pr' \in [Procs -> Threads]
      BY <1>1, <1>2, <1>4
    <2>. QED
      BY <1>2, <1>3, <1>6, <1>7, <1>8, <1>9, <2>1, <2>2, <2>3, <2>4 DEF FdStep
  <1>11. Types' /\ Pointing' /\ Bitmap(fs') /\ Bitmap(durable')
    BY <1>3, <1>4, <1>5, <1>10, FdStepKeeps
  <1>12. Piped'
    <2>1. \A e : Closing(e)' = Closing(e)
      BY <1>2 DEF Closing
    <2>2. \A g \in Files : \A e : IsEnd(g, e)' = IsEnd(g, e)
      BY <1>6, <1>7 DEF IsEnd
    <2>3. pipe' = pipe /\ \A e : EndOpen(e)' = EndOpen(e)
      BY DEF EndOpen
    <2>. QED
      BY <2>1, <2>2, <2>3 DEF Inv, Piped
  <1>. QED
    BY <1>11, <1>12 DEF Inv

\* close of a descriptor, of any of the three kinds
LEMMA CloseFacts ==
    ASSUME Inv, NEW p \in Procs, NEW call \in todo[p], Call(p, call), Close(p, call), UNCHANGED pipe
    PROVE  LET d == call.fd
               f == ofile[p][d]
           IN  /\ pr[p].pc = "idle" /\ call \in Calls /\ call.c = "close" /\ d \in 1..NOFILE /\ pr[p].file = None
               /\ f \in Files /\ f # None /\ ftable[f].ref \in Nat \ {0} /\ ftable[f] \in OpenFiles
               /\ ftable[f].type \in {"INODE", "PIPE"} /\ \A q \in Procs : pr[q].file # f
               /\ ftable[f].type = "INODE" => ftable[f].ip \in Inums
               /\ ftable[f].type = "PIPE" => ftable[f].ip = None
               /\ ofile' \in [Procs -> [1..NOFILE -> Files \cup {None}]] /\ ofile'[p][d] = None
               /\ \A q \in Procs : \A e \in 1..NOFILE : (q # p \/ e # d) => ofile'[q][e] = ofile[q][e]
               /\ ftable' \in [Files -> OpenFiles] /\ \A g \in Files \ {f} : ftable'[g] = ftable[g]
               /\ ftable[f].ref > 1 => /\ ftable'[f].ref = ftable[f].ref - 1 /\ ftable'[f].type = ftable[f].type
                                       /\ ftable'[f].ip = ftable[f].ip /\ ftable'[f].writable = ftable[f].writable
               /\ ~(ftable[f].ref > 1) => ftable'[f] = NoFile
               /\ UNCHANGED <<fs, durable, ic>>
  <1> DEFINE d == call.fd
             f == ofile[p][d]
             y == [ftable[f] EXCEPT !.ref = @ - 1]
             x == IF ftable[f].ref > 1 THEN y ELSE NoFile
  <1>1. pr[p].pc = "idle" /\ call \in Calls /\ call.c = "close" /\ d \in 1..NOFILE
    BY CallIsKnown, CallNames DEF Call, At, Close
  <1>2. f # None /\ ofile' = [ofile EXCEPT ![p][d] = None] /\ UNCHANGED <<fs, durable, ic>>
    BY DEF Close
  <1>12. ftable' = [ftable EXCEPT ![f] = Unref(ftable[f])]
    BY DEF Close
  <1>3. pr[p].file = None
    BY <1>1, IdleFacts
  <1>4. /\ f \in Files /\ ftable[f] \in OpenFiles /\ ftable[f].ref \in Nat \ {0}
        /\ ftable[f].type \in {"INODE", "PIPE"} /\ \A q \in Procs : pr[q].file # f
        /\ ftable[f].type = "INODE" => ftable[f].ip \in Inums
        /\ ftable[f].type = "PIPE" => ftable[f].ip = None
    BY <1>1, <1>2, <1>3, OpenFile
  <1>. HIDE DEF d, f
  <1>5. NoFile \in OpenFiles
    <2>1. None \in Refs /\ 0 \in Int /\ "NONE" \in {"NONE", "INODE", "PIPE"}
      BY Numbers
    <2>. QED
      BY <2>1 DEF OpenFiles, NoFile
  <1>6. y \in OpenFiles /\ y.ref = ftable[f].ref - 1 /\ y.type = ftable[f].type /\ y.ip = ftable[f].ip /\ y.writable = ftable[f].writable
    <2>1. ftable[f].ref - 1 \in Int
      BY <1>4
    <2>. QED
      BY <1>4, <2>1 DEF OpenFiles
  <1>. HIDE DEF y
  <1>7. x \in OpenFiles
    BY <1>5, <1>6
  <1>8. ftable' \in [Files -> OpenFiles] /\ ftable'[f] = x /\ \A g \in Files \ {f} : ftable'[g] = ftable[g]
    <2>1. ftable \in [Files -> OpenFiles]
      BY DEF Inv, Types
    <2>3. ftable'[f] = x
      <3>1. ftable'[f] = Unref(ftable[f])
        BY <1>4, <1>12, <2>1
      <3>. QED
        BY <3>1 DEF y, Unref
    <2>4. DOMAIN ftable' = Files /\ ftable' = [g \in Files |-> ftable'[g]] /\ \A g \in Files \ {f} : ftable'[g] = ftable[g]
      BY <1>4, <1>12, <2>1
    <2>. HIDE DEF x
    <2>. QED
      BY <1>4, <1>7, <2>1, <2>3, <2>4
  <1>9. /\ ofile' \in [Procs -> [1..NOFILE -> Files \cup {None}]] /\ ofile'[p][d] = None
        /\ \A q \in Procs : \A e \in 1..NOFILE : (q # p \/ e # d) => ofile'[q][e] = ofile[q][e]
    <2>1. ofile \in [Procs -> [1..NOFILE -> Files \cup {None}]]
      BY DEF Inv, Types
    <2>. QED
      BY <1>1, <1>2, <2>1
  <1>10. ftable[f].ref > 1 => ftable'[f] = y
    BY <1>8
  <1>11. ~(ftable[f].ref > 1) => ftable'[f] = NoFile
    BY <1>8
  <1>. HIDE DEF x
  <1>. QED
    BY <1>1, <1>2, <1>3, <1>4, <1>6, <1>8, <1>9, <1>10, <1>11 DEF d, f

\* close where other descriptors of the file are left
LEMMA CloseOne ==
    ASSUME Inv, NEW p \in Procs, NEW call \in todo[p], Call(p, call), Close(p, call), UNCHANGED pipe,
           ftable[ofile[p][call.fd]].ref > 1
    PROVE  Inv'
  <1> DEFINE d == call.fd
             f == ofile[p][d]
  <1>1. /\ pr[p].pc = "idle" /\ d \in 1..NOFILE /\ pr[p].file = None
        /\ f \in Files /\ f # None /\ ftable[f].ref \in Nat \ {0}
        /\ ftable[f].type \in {"INODE", "PIPE"} /\ \A q \in Procs : pr[q].file # f
    BY CloseFacts
  <1>2. /\ ofile' \in [Procs -> [1..NOFILE -> Files \cup {None}]] /\ ofile'[p][d] = None
        /\ \A q \in Procs : \A e \in 1..NOFILE : (q # p \/ e # d) => ofile'[q][e] = ofile[q][e]
    BY CloseFacts
  <1>3. /\ ftable' \in [Files -> OpenFiles] /\ (\A g \in Files \ {f} : ftable'[g] = ftable[g])
        /\ UNCHANGED <<fs, durable, ic>>
    BY CloseFacts
  <1>4. /\ ftable'[f].ref = ftable[f].ref - 1 /\ ftable'[f].type = ftable[f].type
        /\ ftable'[f].ip = ftable[f].ip /\ ftable'[f].writable = ftable[f].writable
    BY CloseFacts
  <1>5. pr' = pr
    BY DEF Close
  <1>6. pr[p].file = None /\ pr \in [Procs -> Threads] /\ Placed(pr[p])
    BY <1>1, Facts
  <1>7. DOMAIN todo' = Procs /\ (\A q \in Procs : todo'[q] \subseteq prog.todo[q]) /\ prog' = prog
    BY CallTodo
  <1>14. ftable[f].ref > 1 /\ f = ofile[p][d]
    OBVIOUS
  <1>. HIDE DEF f, d
  <1>8. FdStep(p, d, f)
    <2>1. ftable'[f].ref = ftable[f].ref - One(ofile[p][d] = f) + One(ofile'[p][d] = f)
      <3>1. One(ofile[p][d] = f) = 1 /\ One(ofile'[p][d] = f) = 0
        BY <1>1, <1>2, <1>14 DEF One
      <3>. QED
        BY <1>1, <1>4, <3>1
    <2>2. ftable'[f].ref # 0 /\ ftable'[f].ref > 0 /\ ftable[f].ref > 0
      BY <1>1, <1>4, <1>14
    <2>3. \A i \in Inums : One(ftable[f].ref > 0 /\ ftable[f].ip = i) + Count(pr[p], i)
                          = One(ftable'[f].ref > 0 /\ ftable'[f].ip = i) + Count(pr'[p], i)
      BY <1>4, <1>5, <2>2 DEF One
    <2>4. pr'[p].file = None /\ pr'[p].pc \notin {"read", "write"} /\ Placed(pr'[p]) /\ pr' \in [Procs -> Threads]
      BY <1>1, <1>5, <1>6
    <2>. QED
      BY <1>2, <1>3, <1>4, <1>5, <1>7, <1>14, <2>1, <2>2, <2>3, <2>4 DEF FdStep
  <1>9. Types' /\ Pointing' /\ Bitmap(fs') /\ Bitmap(durable')
    BY <1>1, <1>8, FdStepKeeps
  <1>10. Piped'
    <2>1. \A e : Closing(e)' = Closing(e)
      BY <1>5 DEF Closing
    <2>2. \A g \in Files : \A e : IsEnd(g, e)' = IsEnd(g, e)
      BY <1>3, <1>4 DEF IsEnd
    <2>3. pipe' = pipe /\ \A e : EndOpen(e)' = EndOpen(e)
      BY DEF EndOpen
    <2>. QED
      BY <2>1, <2>2, <2>3 DEF Inv, Piped
  <1>. QED
    BY <1>9, <1>10 DEF Inv

\* close of the last descriptor of a file
LEMMA CloseLast ==
    ASSUME Inv, NEW p \in Procs, NEW call \in todo[p], Call(p, call), Close(p, call), UNCHANGED pipe,
           ~(ftable[ofile[p][call.fd]].ref > 1)
    PROVE  Inv'
  <1> DEFINE d == call.fd
             f == ofile[p][d]
             e0 == IF ftable[f].writable THEN "writeopen" ELSE "readopen"
             t == pr'[p]
  <1>1. /\ pr[p].pc = "idle" /\ d \in 1..NOFILE /\ pr[p].file = None /\ call \in Calls /\ call.c = "close"
        /\ f \in Files /\ f # None /\ ftable[f].ref \in Nat \ {0} /\ ftable[f] \in OpenFiles
        /\ ftable[f].type \in {"INODE", "PIPE"} /\ \A q \in Procs : pr[q].file # f
    BY CloseFacts
  <1>13. (ftable[f].type = "INODE" => ftable[f].ip \in Inums) /\ (ftable[f].type = "PIPE" => ftable[f].ip = None)
    BY CloseFacts
  <1>2. /\ ofile' \in [Procs -> [1..NOFILE -> Files \cup {None}]] /\ ofile'[p][d] = None
        /\ \A q \in Procs : \A e \in 1..NOFILE : (q # p \/ e # d) => ofile'[q][e] = ofile[q][e]
    BY CloseFacts
  <1>3. /\ ftable' \in [Files -> OpenFiles] /\ (\A g \in Files \ {f} : ftable'[g] = ftable[g])
        /\ UNCHANGED <<fs, durable, ic>> /\ ftable'[f] = NoFile
    BY CloseFacts
  <1>4. /\ ftable[f].type = "PIPE" => Goto(p, [pc |-> "pipeclose", call |-> call, after |-> e0])
        /\ ftable[f].type # "PIPE" => Goto(p, [pc |-> "iput", put |-> ftable[f].ip, call |-> call, after |-> "end"])
    BY DEF Close
  <1>7. DOMAIN todo' = Procs /\ (\A q \in Procs : todo'[q] \subseteq prog.todo[q]) /\ prog' = prog
    BY CallTodo
  <1>14. ftable[f].ref = 1 /\ f = ofile[p][d]
    BY <1>1
  <1>. HIDE DEF f, d
  <1>6. /\ pr[p].cur = None /\ pr[p].next = None /\ pr[p].ip = None /\ pr[p].dp = None /\ pr[p].put = None
        /\ pr[p].file = None /\ pr[p].n = 0 /\ pr \in [Procs -> Threads]
        /\ pr[p].rest \in Seq(Names) /\ pr[p].after \in Afters
    BY <1>1, IdleFacts
  <1>15. None \in Refs /\ (\A i \in Inums : None # i) /\ Inums \subseteq Refs
    BY Numbers
  <1>5. /\ pr' \in [Procs -> Threads] /\ (\A q \in Procs \ {p} : pr'[q] = pr[q]) /\ Placed(t) /\ t.file = None
        /\ t.pc \notin {"read", "write"} /\ (\A i \in Inums : Count(t, i) = One(ftable[f].ip = i))
        /\ ftable[f].type = "PIPE" => t.pc = "pipeclose" /\ t.after = e0
        /\ ftable[f].type # "PIPE" => t.pc # "pipeclose"
    <2>1. CASE ftable[f].type = "PIPE"
      <3> DEFINE s == [pc |-> "pipeclose", call |-> call, after |-> e0]
      <3>1. Goto(p, s) /\ DOMAIN s = {"pc", "call", "after"} /\ s.call = call /\ s.pc = "pipeclose" /\ s.after = e0
        BY <1>4, <2>1
      <3>. HIDE DEF s
      <3>2. Vars(t, "pipeclose", None, pr[p].rest, None, None, None, None, e0)
        BY <1>6, <3>1, GoesTo
      <3>3. "pipeclose" \in Pcs /\ e0 \in Afters /\ e0 \in {"readopen", "writeopen"}
        BY DEF Pcs, InPipe, Afters
      <3>4. "call" \in DOMAIN s /\ DOMAIN s \cap {"file", "n"} = {}
        BY <3>1
      <3>. HIDE DEF e0, t
      <3>5. /\ pr' \in [Procs -> Threads] /\ \A q \in Procs \ {p} : pr'[q] = pr[q]
            /\ t.call = call /\ t.file = None /\ t.n = 0
        BY <1>1, <1>6, <1>15, <3>1, <3>2, <3>3, <3>4, Begins DEF t
      <3>6. Placed(t)
        BY <1>1, <3>2, <3>3, <3>5 DEF Placed, Place, Vars, Walking, WithParent, WithInode, OfLink
      <3>7. \A i \in Inums : Count(t, i) = One(ftable[f].ip = i)
        BY <1>13, <1>15, <2>1, <3>2 DEF Count, One, Vars
      <3>. QED
        BY <2>1, <3>2, <3>5, <3>6, <3>7 DEF Vars, t
    <2>2. CASE ftable[f].type # "PIPE"
      <3> DEFINE i0 == ftable[f].ip
                 s == [pc |-> "iput", put |-> i0, call |-> call, after |-> "end"]
      <3>1. Goto(p, s) /\ DOMAIN s = {"pc", "put", "call", "after"} /\ s.call = call /\ s.pc = "iput" /\ s.put = i0 /\ s.after = "end"
        BY <1>4, <2>2
      <3>. HIDE DEF s
      <3>2. Vars(t, "iput", None, pr[p].rest, None, None, None, i0, "end")
        BY <1>6, <3>1, GoesTo
      <3>3. "iput" \in Pcs /\ "end" \in Afters /\ i0 \in Inums /\ i0 \in Refs /\ i0 # None
        BY <1>1, <1>13, <1>15, <2>2 DEF Pcs, Afters
      <3>4. "call" \in DOMAIN s /\ DOMAIN s \cap {"file", "n"} = {}
        BY <3>1
      <3>. HIDE DEF i0, t
      <3>5. /\ pr' \in [Procs -> Threads] /\ \A q \in Procs \ {p} : pr'[q] = pr[q]
            /\ t.call = call /\ t.file = None /\ t.n = 0
        BY <1>1, <1>6, <1>15, <3>1, <3>2, <3>3, <3>4, Begins DEF t
      <3>6. Placed(t)
        BY <1>1, <3>2, <3>3, <3>5 DEF Placed, Place, Vars, Walking, WithParent, WithInode, OfLink
      <3>7. \A i \in Inums : Count(t, i) = One(i0 = i)
        BY <1>15, <3>2 DEF Count, One, Vars
      <3>. QED
        BY <2>2, <3>2, <3>5, <3>6, <3>7 DEF Vars, t, i0
    <2>. QED
      BY <2>1, <2>2
  <1>8. FdStep(p, d, f)
    <2>1. ftable'[f].ref = ftable[f].ref - One(ofile[p][d] = f) + One(ofile'[p][d] = f)
      <3>1. One(ofile[p][d] = f) = 1 /\ One(ofile'[p][d] = f) = 0
        BY <1>1, <1>2, <1>14 DEF One
      <3>. QED
        BY <1>3, <1>14, <3>1 DEF NoFile
    <2>2. ftable'[f].ref = 0 /\ ftable[f].ref > 0
      BY <1>3, <1>14 DEF NoFile
    <2>3. ASSUME NEW i \in Inums
          PROVE  One(ftable[f].ref > 0 /\ ftable[f].ip = i) + Count(pr[p], i)
                   = One(ftable'[f].ref > 0 /\ ftable'[f].ip = i) + Count(pr'[p], i)
      <3>1. One(ftable'[f].ref > 0 /\ ftable'[f].ip = i) = 0 /\ One(ftable[f].ref > 0 /\ ftable[f].ip = i) = One(ftable[f].ip = i)
        BY <2>2 DEF One
      <3>2. Count(pr[p], i) = 0 /\ Count(pr'[p], i) = One(ftable[f].ip = i) /\ One(ftable[f].ip = i) \in Int
        BY <1>5, <1>6, <1>15 DEF Count, One
      <3>. QED
        BY <3>1, <3>2
    <2>. QED
      BY <1>2, <1>3, <1>5, <1>7, <1>14, <2>1, <2>2, <2>3 DEF FdStep
  <1>9. Types' /\ Pointing' /\ Bitmap(fs') /\ Bitmap(durable')
    BY <1>1, <1>8, FdStepKeeps
  <1>10. pipe' = pipe /\ \A e : EndOpen(e)' = EndOpen(e)
    BY DEF EndOpen
  <1>11. \A g \in Files : \A e : IsEnd(g, e)' => IsEnd(g, e) /\ g # f
    BY <1>3 DEF IsEnd, NoFile
  <1>12. Piped'
    <2>1. CASE ftable[f].type # "PIPE"
      <3>1. \A e : Closing(e)' = Closing(e)
        BY <1>1, <1>5, <2>1 DEF Closing
      <3>. QED
        BY <1>10, <1>11, <3>1 DEF Inv, Piped
    <2>2. CASE ftable[f].type = "PIPE"
      <3>1. t.pc = "pipeclose" /\ t.after = e0 /\ e0 \in {"readopen", "writeopen"}
        BY <1>5, <2>2
      <3>2. IsEnd(f, e0)
        <4>1. ftable[f].writable \in BOOLEAN
          BY <1>1 DEF OpenFiles
        <4>. QED
          BY <2>2, <4>1 DEF IsEnd
      <3>8. PICK e1 \in {"readopen", "writeopen"} : e1 = e0
        BY <3>1
      <3>. HIDE DEF e0
      <3>3. Closing(e1) = {} /\ EndOpen(e1) /\ \A g \in Files : IsEnd(g, e1) => g = f
        BY <1>1, <3>2, <3>8 DEF Inv, Piped
      <3>4. Closing(e1)' = {p}
        BY <1>5, <3>1, <3>3, <3>8 DEF Closing, t
      <3>5. \A e : e # e1 => Closing(e)' = Closing(e)
        BY <1>1, <1>5, <3>1, <3>8 DEF Closing, t
      <3>6. ASSUME NEW e \in {"readopen", "writeopen"}
            PROVE  /\ \A g \in Files : IsEnd(g, e)' => EndOpen(e)' /\ Closing(e)' = {}
                   /\ \A q \in Closing(e)' : EndOpen(e)'
                   /\ \A g, h \in Files : IsEnd(g, e)' /\ IsEnd(h, e)' => g = h
                   /\ \A q, o \in Closing(e)' : q = o
        <4>1. CASE e = e1
          BY <1>10, <1>11, <3>3, <3>4, <4>1
        <4>2. CASE e # e1
          BY <1>10, <1>11, <3>5, <4>2 DEF Inv, Piped
        <4>. QED
          BY <4>1, <4>2
      <3>7. /\ pipe.nread <= pipe.nwrite /\ pipe.nwrite - pipe.nread <= PIPESIZE
            /\ pipe.got = [i \in 1..pipe.nread |-> i]
            /\ \A k \in Nat : (pipe.nread <= k /\ k < pipe.nwrite) => pipe.data[k % PIPESIZE] = k + 1
            /\ pipe.used <=> pipe.readopen \/ pipe.writeopen
        BY DEF Inv, Piped
      <3>. QED
        BY <1>10, <3>6, <3>7 DEF Piped
    <2>. QED
      BY <2>1, <2>2
  <1>. QED
    BY <1>9, <1>12 DEF Inv

-----------------------------------------------------------------------------
(* Steps at the pipe *)

\* A process keeps its pointers.
Holding(r, t) ==
    /\ t.cur = r.cur /\ t.next = r.next /\ t.ip = r.ip /\ t.dp = r.dp /\ t.put = r.put /\ t.file = r.file
    /\ t.pc \in {"read", "write"} => t = r

\* A step that changes the pipe, and at which every process keeps its pointers
PipeStep ==
    /\ pr' \in [Procs -> Threads] /\ \A q \in Procs : Placed(pr'[q]) /\ Holding(pr[q], pr'[q])
    /\ pipe' \in Pipes
    /\ UNCHANGED <<prog, todo, fs, durable, ic, ftable, ofile>>

\* It keeps the invariant, but for the pipe itself.
LEMMA PipeStepKeeps ==
    ASSUME Inv, PipeStep
    PROVE  Types' /\ Pointing' /\ Bitmap(fs') /\ Bitmap(durable')
  <1>1. /\ pr' \in [Procs -> Threads] /\ (\A q \in Procs : Placed(pr'[q]) /\ Holding(pr[q], pr'[q]))
        /\ pipe' \in Pipes
        /\ UNCHANGED <<prog, todo, fs, durable, ic, ftable, ofile>>
    BY DEF PipeStep
  <1>2. Types'
    BY <1>1 DEF Inv, Types
  <1>3. \A q \in Procs : pr'[q].file = pr[q].file /\ (pr'[q].pc \in {"read", "write"} => pr'[q] = pr[q])
    BY <1>1 DEF Holding
  <1>4. ASSUME NEW i \in Inums PROVE ic'[i].ref = Cardinality(FilesOf(i)') + Cardinality(Pointers(i)')
    <2>1. FilesOf(i)' = FilesOf(i)
      BY <1>1 DEF FilesOf
    <2>2. \A q \in Procs : \A x \in Five : pr'[q][x] = pr[q][x]
      BY <1>1 DEF Five, Holding
    <2>3. Pointers(i)' = Pointers(i)
      BY <2>2 DEF Pointers
    <2>. QED
      BY <1>1, <2>1, <2>3 DEF Inv, Pointing, Exact
  <1>5. ASSUME NEW f \in Files PROVE ftable'[f].ref = Cardinality(FdsOf(f)')
    <2>1. FdsOf(f)' = FdsOf(f)
      BY <1>1 DEF FdsOf
    <2>. QED
      BY <1>1, <2>1 DEF Inv, Pointing, Exact
  <1>6. Exact'
    BY <1>4, <1>5 DEF Exact
  <1>7. Tables'
    BY <1>1, <1>3 DEF Inv, Pointing, Tables
  <1>8. (\A q \in Procs : Placed(pr[q]))'
    BY <1>1
  <1>9. Bitmap(fs') /\ Bitmap(durable')
    BY <1>1 DEF Inv
  <1>. QED
    BY <1>2, <1>6, <1>7, <1>8, <1>9 DEF Pointing

\* A process that is woken stays where it is in its call.
LEMMA WokenOne ==
    ASSUME NEW r \in Threads, Placed(r), NEW to,
           \/ r.pc = "readsleep" /\ to = "piperead"
           \/ r.pc = "writesleep" /\ to = "pipewrite"
    PROVE  LET t == [r EXCEPT !.pc = to]
           IN  t \in Threads /\ Placed(t) /\ Holding(r, t) /\ t.pc # "pipeclose" /\ r.pc # "pipeclose"
  <1> DEFINE t == [r EXCEPT !.pc = to]
  <1>1. to \in Pcs /\ to \in {"piperead", "pipewrite"}
    BY DEF Pcs, InPipe
  <1>2. t \in Threads
    BY <1>1 DEF Threads
  <1>3. /\ t.pc = to /\ t.call = r.call /\ t.cur = r.cur /\ t.rest = r.rest /\ t.next = r.next /\ t.ip = r.ip
        /\ t.dp = r.dp /\ t.put = r.put /\ t.after = r.after /\ t.file = r.file /\ t.n = r.n
    BY DEF Threads
  <1>. HIDE DEF t
  <1>4. Placed(t)
    BY <1>1, <1>3 DEF Placed, Place, Walking, WithParent, WithInode, OfLink
  <1>5. Holding(r, t)
    BY <1>1, <1>3 DEF Holding
  <1>. QED
    BY <1>1, <1>2, <1>3, <1>4, <1>5 DEF t

\* wakeup leaves every process its pointers.
LEMMA WokenKeeps ==
    ASSUME NEW r \in [Procs -> Threads], \A q \in Procs : Placed(r[q]), NEW from, NEW to,
           (from = "readsleep" /\ to = "piperead") \/ (from = "writesleep" /\ to = "pipewrite")
    PROVE  LET w == Woken(r, from, to)
           IN  /\ w \in [Procs -> Threads]
               /\ \A q \in Procs : /\ Placed(w[q]) /\ Holding(r[q], w[q])
                                   /\ w[q] = r[q] \/ (w[q].pc # "pipeclose" /\ r[q].pc # "pipeclose")
  <1> DEFINE w == Woken(r, from, to)
  <1>1. ASSUME NEW q \in Procs
        PROVE  /\ w[q] \in Threads /\ Placed(w[q]) /\ Holding(r[q], w[q])
               /\ w[q] = r[q] \/ (w[q].pc # "pipeclose" /\ r[q].pc # "pipeclose")
    <2>1. w[q] = IF r[q].pc = from THEN [r[q] EXCEPT !.pc = to] ELSE r[q]
      BY DEF Woken
    <2>. HIDE DEF w
    <2>2. CASE r[q].pc = from
      <3>1. w[q] = [r[q] EXCEPT !.pc = to] /\ r[q] \in Threads /\ Placed(r[q])
        BY <2>1, <2>2
      <3>. QED
        BY <2>2, <3>1, WokenOne
    <2>3. CASE r[q].pc # from
      BY <2>1, <2>3 DEF Holding
    <2>. QED
      BY <2>2, <2>3
  <1>2. w = [q \in Procs |-> w[q]]
    BY DEF Woken
  <1>. HIDE DEF w
  <1>3. w \in [Procs -> Threads]
    BY <1>1, <1>2
  <1>. QED
    BY <1>1, <1>3 DEF w

\* A call at the pipe that returns, and wakes nobody or all readers or all writers
LEMMA PipeReturns ==
    ASSUME Inv, NEW p \in Procs, pr[p].pc \in {"piperead", "pipewrite", "pipeclose"},
           pr' \in {Return(p), WakeReaders(Return(p)), WakeWriters(Return(p))}
    PROVE  /\ pr' \in [Procs -> Threads] /\ \A q \in Procs : Placed(pr'[q]) /\ Holding(pr[q], pr'[q])
           /\ \A e : Closing(e)' = Closing(e) \ {p}
  <1> DEFINE r == Return(p)
  <1>1. /\ pr \in [Procs -> Threads] /\ \A q \in Procs : Placed(pr[q])
    BY Facts DEF Inv, Pointing
  <1>2. /\ pr[p].cur = None /\ pr[p].next = None /\ pr[p].ip = None /\ pr[p].dp = None /\ pr[p].put = None
        /\ pr[p].file = None
    BY NoPointers
  <1>3. r \in [Procs -> Threads] /\ r[p] = Idle /\ \A q \in Procs \ {p} : r[q] = pr[q]
    BY <1>1, IdleType DEF Return
  <1>. HIDE DEF r
  <1>4. Holding(pr[p], Idle)
    BY <1>2 DEF Holding, Idle
  <1>5. \A q \in Procs : Placed(r[q]) /\ Holding(pr[q], r[q])
    <2>1. Placed(Idle)
      BY IdleType
    <2>2. \A q \in Procs : Holding(pr[q], pr[q])
      BY DEF Holding
    <2>. QED
      BY <1>1, <1>3, <1>4, <2>1, <2>2
  <1>6. /\ pr' \in [Procs -> Threads]
        /\ \A q \in Procs : /\ Placed(pr'[q]) /\ Holding(r[q], pr'[q])
                            /\ pr'[q] = r[q] \/ (pr'[q].pc # "pipeclose" /\ r[q].pc # "pipeclose")
    <2>1. CASE pr' = r
      BY <1>3, <1>5, <2>1 DEF Holding
    <2>2. CASE pr' = WakeReaders(r)
      BY <1>3, <1>5, <2>2, WokenKeeps DEF WakeReaders
    <2>3. CASE pr' = WakeWriters(r)
      BY <1>3, <1>5, <2>3, WokenKeeps DEF WakeWriters
    <2>. QED
      BY <2>1, <2>2, <2>3 DEF r
  <1>7. \A q \in Procs : Holding(pr[q], pr'[q])
    <2>1. \A q \in Procs : Holding(pr[q], r[q]) /\ Holding(r[q], pr'[q])
      BY <1>5, <1>6
    <2>. QED
      BY <2>1 DEF Holding
  <1>8. Idle.pc # "pipeclose"
    BY DEF Idle
  <1>9. \A e : Closing(e)' = Closing(e) \ {p}
    BY <1>3, <1>6, <1>8 DEF Closing
  <1>. QED
    BY <1>6, <1>7, <1>9

\* Multiplication distributes over addition.
LEMMA Spread ==
    ASSUME NEW a \in Int, NEW b \in Int, NEW c \in Int
    PROVE  a * b \in Int /\ a * c \in Int /\ a * (b + c) = a * b + a * c
  OBVIOUS

\* The cell of place j, seen from place w: the distance to the next place that is
\* stored in it
LEMMA Cell ==
    ASSUME NEW n \in Nat \ {0}, NEW j \in Nat, NEW w \in Nat, w - n <= j, j < w + n
    PROVE  ((j % n) - w) % n = IF j >= w THEN j - w ELSE j - w + n
  <1> DEFINE a == (j % n) - w
             q == j \div n
             z == a \div n
             r == a % n
  <1>1. q \in Int /\ j % n \in Int /\ j = n * q + (j % n)
    OBVIOUS
  <1>2. a \in Int
    BY <1>1
  <1>. HIDE DEF a
  <1>3. z \in Int /\ r \in Int /\ a = n * z + r /\ 0 <= r /\ r < n
    BY <1>2
  <1>4. a = (j % n) - w
    BY DEF a
  <1>. HIDE DEF q, z, r
  <1>5. n * q \in Int /\ n * z \in Int /\ n * (q + z) = n * q + n * z
    BY <1>1, <1>3, Spread
  <1>6. n * (q + z) = j - w - r
    BY <1>1, <1>3, <1>4, <1>5
  <1> DEFINE y == q + z
  <1>7. y \in Int /\ n * y = j - w - r
    BY <1>1, <1>3, <1>6
  <1>. HIDE DEF y
  <1>8. CASE j >= w
    <2>1. n * y < n /\ n * y > - n
      BY <1>3, <1>7, <1>8
    <2>2. y = 0
      <3>1. CASE y >= 1
        BY <1>7, <2>1, <3>1
      <3>2. CASE y <= -1
        BY <1>7, <2>1, <3>2
      <3>. QED
        BY <1>7, <3>1, <3>2
    <2>3. r = j - w
      BY <1>3, <1>7, <2>2
    <2>. QED
      BY <1>8, <2>3 DEF r, a
  <1>9. CASE ~(j >= w)
    <2>1. n * y < 0 /\ n * y > - (n + n)
      BY <1>3, <1>7, <1>9
    <2>2. y = -1
      <3>1. CASE y >= 0
        BY <1>7, <2>1, <3>1
      <3>2. CASE y <= -2
        BY <1>7, <2>1, <3>2
      <3>. QED
        BY <1>7, <3>1, <3>2
    <2>3. r = j - w + n
      BY <1>3, <1>7, <2>2
    <2>. QED
      BY <1>9, <2>3 DEF r, a
  <1>. QED
    BY <1>8, <1>9

\* What the pipe holds
Content ==
    /\ pipe.nread <= pipe.nwrite /\ pipe.nwrite - pipe.nread <= PIPESIZE
    /\ pipe.got = [i \in 1..pipe.nread |-> i]
    /\ \A k \in Nat : (pipe.nread <= k /\ k < pipe.nwrite) => pipe.data[k % PIPESIZE] = k + 1

\* and which of its ends are open
Ends ==
    /\ pipe.used <=> pipe.readopen \/ pipe.writeopen
    /\ \A end \in {"readopen", "writeopen"} :
         /\ \A f \in Files : IsEnd(f, end) => EndOpen(end) /\ Closing(end) = {}
         /\ \A p \in Closing(end) : EndOpen(end)
         /\ \A f, g \in Files : IsEnd(f, end) /\ IsEnd(g, end) => f = g
         /\ \A p, q \in Closing(end) : p = q

\* The invariant of the pipe, in these two parts
LEMMA PipedParts == Piped <=> Content /\ Ends
  BY DEF Piped, Content, Ends

\* Reads and writes leave the ends alone.
LEMMA EndsStay ==
    ASSUME Inv, ftable' = ftable, \A e : Closing(e)' = Closing(e),
           pipe'.used = pipe.used, pipe'.readopen = pipe.readopen, pipe'.writeopen = pipe.writeopen
    PROVE  Ends'
  <1>1. Ends
    BY PipedParts DEF Inv
  <1>2. \A e : EndOpen(e)' = EndOpen(e)
    BY DEF EndOpen
  <1>3. \A f, e : IsEnd(f, e)' = IsEnd(f, e)
    BY DEF IsEnd
  <1>. QED
    BY <1>1, <1>2, <1>3 DEF Ends

\* pipeclose: the end is closed, by the one call that closes it.
LEMMA pipecloseKeeps ==
    ASSUME Inv, NEW p \in Procs, pipeclose(p)
    PROVE  Inv'
  <1>1. PICK e0 \in {"readopen", "writeopen"} : e0 = pr[p].after
    BY Facts DEF pipeclose, At, Placed
  <1> DEFINE closed == [pipe EXCEPT ![e0] = FALSE]
  <1>2. /\ pr[p].pc = "pipeclose" /\ pipe' = [closed EXCEPT !.used = closed.readopen \/ closed.writeopen]
        /\ pr' \in {WakeReaders(Return(p)), WakeWriters(Return(p))}
        /\ UNCHANGED <<prog, todo, fs, durable, ic, ftable, ofile>>
    BY <1>1 DEF pipeclose, At, Going, OnlyPipe
  <1>3. pipe \in Pipes
    BY DEF Inv, Types
  <1>4. /\ closed \in Pipes /\ closed.nread = pipe.nread /\ closed.nwrite = pipe.nwrite /\ closed.data = pipe.data
        /\ closed.got = pipe.got
        /\ closed.readopen = (pipe.readopen /\ e0 # "readopen") /\ closed.writeopen = (pipe.writeopen /\ e0 # "writeopen")
    <2>1. CASE e0 = "readopen"
      BY <1>3, <2>1 DEF Pipes
    <2>2. CASE e0 = "writeopen"
      BY <1>3, <2>2 DEF Pipes
    <2>. QED
      BY <2>1, <2>2
  <1>. HIDE DEF closed
  <1>5. /\ pipe' \in Pipes /\ pipe'.nread = pipe.nread /\ pipe'.nwrite = pipe.nwrite /\ pipe'.data = pipe.data
        /\ pipe'.got = pipe.got /\ pipe'.used = (pipe'.readopen \/ pipe'.writeopen)
        /\ pipe'.readopen = (pipe.readopen /\ e0 # "readopen") /\ pipe'.writeopen = (pipe.writeopen /\ e0 # "writeopen")
    <2>1. closed.readopen \in BOOLEAN /\ closed.writeopen \in BOOLEAN
      BY <1>4 DEF Pipes
    <2> DEFINE u == closed.readopen \/ closed.writeopen
    <2>2. u \in BOOLEAN /\ pipe' = [closed EXCEPT !.used = u]
      BY <1>2
    <2>. HIDE DEF u
    <2>3. /\ pipe' \in Pipes /\ pipe'.nread = closed.nread /\ pipe'.nwrite = closed.nwrite /\ pipe'.data = closed.data
          /\ pipe'.got = closed.got /\ pipe'.used = u /\ pipe'.readopen = closed.readopen /\ pipe'.writeopen = closed.writeopen
      BY <1>4, <2>2 DEF Pipes
    <2>. QED
      BY <1>4, <2>3 DEF u
  <1>6. /\ pr' \in [Procs -> Threads] /\ (\A q \in Procs : Placed(pr'[q]) /\ Holding(pr[q], pr'[q]))
        /\ \A e : Closing(e)' = Closing(e) \ {p}
    BY <1>2, PipeReturns
  <1>7. Types' /\ Pointing' /\ Bitmap(fs') /\ Bitmap(durable')
    <2>1. PipeStep
      BY <1>2, <1>5, <1>6 DEF PipeStep
    <2>. QED
      BY <2>1, PipeStepKeeps
  <1>8. Content /\ Ends
    BY PipedParts DEF Inv
  <1>9. Content'
    BY <1>5, <1>8 DEF Content
  <1>10. \A f, e : IsEnd(f, e)' = IsEnd(f, e)
    BY <1>2 DEF IsEnd
  <1>11. p \in Closing(e0) /\ Closing(e0)' = {} /\ \A f \in Files : ~IsEnd(f, e0)
    <2>1. p \in Closing(e0)
      BY <1>1, <1>2 DEF Closing
    <2>2. /\ \A f \in Files : IsEnd(f, e0) => Closing(e0) = {}
          /\ \A o, q \in Closing(e0) : o = q
      BY <1>8 DEF Ends
    <2>. QED
      BY <1>6, <2>1, <2>2
  <1>12. \A e \in {"readopen", "writeopen"} : e # e0 => Closing(e)' = Closing(e) /\ EndOpen(e)' = EndOpen(e)
    <2>1. \A e : e # e0 => p \notin Closing(e)
      BY <1>1 DEF Closing
    <2>2. \A e \in {"readopen", "writeopen"} : e # e0 => EndOpen(e)' = EndOpen(e)
      <3>1. pipe.readopen \in BOOLEAN /\ pipe.writeopen \in BOOLEAN
        BY <1>3 DEF Pipes
      <3>. QED
        BY <1>5, <3>1 DEF EndOpen
    <2>. QED
      BY <1>6, <2>1, <2>2
  <1>13. Ends'
    BY <1>5, <1>8, <1>10, <1>11, <1>12 DEF Ends
  <1>14. Piped'
    BY <1>9, <1>13 DEF Piped, Content, Ends
  <1>. QED
    BY <1>7, <1>14 DEF Inv

\* A process at the pipe is in read or write, and has a count.
LEMMA AtPipe ==
    ASSUME Inv, NEW p \in Procs, pr[p].pc \in {"piperead", "pipewrite"}
    PROVE  /\ pr[p].call.n \in Nat /\ pr[p].n \in Int /\ Placed(pr[p]) /\ pr[p] \in Threads
           /\ pr[p].pc = "pipewrite" => pr[p].n <= pr[p].call.n
  <1>1. Placed(pr[p]) /\ pr[p].call \in Calls /\ pr[p].n \in Int /\ pr[p] \in Threads
    BY Facts
  <1>2. pr[p].call.c \in {"read", "write"} /\ (pr[p].pc = "pipewrite" => pr[p].n <= pr[p].call.n)
    BY <1>1 DEF Placed
  <1>. QED
    BY <1>1, <1>2, CallNames

\* A process that goes to sleep at the pipe
LEMMA PipeSleeps ==
    ASSUME Inv, NEW p \in Procs, NEW t \in Threads, Placed(t), Holding(pr[p], t), t.pc \in {"readsleep", "writesleep"},
           pr[p].pc \in {"piperead", "pipewrite"}, NEW r, r = [pr EXCEPT ![p] = t], pr' \in {r, WakeReaders(r)}
    PROVE  /\ pr' \in [Procs -> Threads] /\ \A q \in Procs : Placed(pr'[q]) /\ Holding(pr[q], pr'[q])
           /\ \A e : Closing(e)' = Closing(e)
  <1>1. /\ pr \in [Procs -> Threads] /\ \A q \in Procs : Placed(pr[q])
    BY Facts DEF Inv, Pointing
  <1>2. r \in [Procs -> Threads] /\ r[p] = t /\ \A q \in Procs \ {p} : r[q] = pr[q]
    BY <1>1
  <1>3. \A q \in Procs : Placed(r[q]) /\ Holding(pr[q], r[q]) /\ Holding(r[q], r[q])
    <2>1. \A q \in Procs : Holding(pr[q], pr[q]) /\ Holding(r[q], r[q])
      BY DEF Holding
    <2>. QED
      BY <1>1, <1>2, <2>1
  <1>4. /\ pr' \in [Procs -> Threads]
        /\ \A q \in Procs : /\ Placed(pr'[q]) /\ Holding(r[q], pr'[q])
                            /\ pr'[q] = r[q] \/ (pr'[q].pc # "pipeclose" /\ r[q].pc # "pipeclose")
    <2>1. CASE pr' = r
      BY <1>2, <1>3, <2>1
    <2>2. CASE pr' = WakeReaders(r)
      <3>1. pr' = Woken(r, "readsleep", "piperead")
        BY <2>2 DEF WakeReaders
      <3>2. r \in [Procs -> Threads] /\ \A q \in Procs : Placed(r[q])
        BY <1>2, <1>3
      <3> DEFINE w == Woken(r, "readsleep", "piperead")
      <3>3. /\ w \in [Procs -> Threads]
            /\ \A q \in Procs : /\ Placed(w[q]) /\ Holding(r[q], w[q])
                                /\ w[q] = r[q] \/ (w[q].pc # "pipeclose" /\ r[q].pc # "pipeclose")
        BY <3>2, WokenKeeps
      <3>. QED
        BY <3>1, <3>3
    <2>. QED
      BY <2>1, <2>2
  <1>5. \A q \in Procs : Holding(pr[q], pr'[q])
    <2>1. \A q \in Procs : Holding(pr[q], r[q]) /\ Holding(r[q], pr'[q])
      BY <1>3, <1>4
    <2>. QED
      BY <2>1 DEF Holding
  <1>6. \A q \in Procs : (pr'[q].pc = "pipeclose" <=> pr[q].pc = "pipeclose") /\ (pr[q].pc = "pipeclose" => pr'[q] = pr[q])
    BY <1>2, <1>4
  <1>7. \A e : Closing(e)' = Closing(e)
    BY <1>6 DEF Closing
  <1>. QED
    BY <1>4, <1>5, <1>7

\* The length of a concatenation
LEMMA Joined ==
    ASSUME NEW a \in Seq(Nat), NEW b \in Seq(Nat)
    PROVE  a \o b \in Seq(Nat) /\ Len(a \o b) = Len(a) + Len(b)
  OBVIOUS

\* What is read is what was written next.
LEMMA ReadsNext ==
    ASSUME pipe \in Pipes, Content, NEW m \in Nat, m <= pipe.nwrite - pipe.nread,
           pipe' = [pipe EXCEPT !.nread = @ + m,
                      !.got = @ \o [i \in 1..m |-> pipe.data[(pipe.nread + i - 1) % PIPESIZE]]]
    PROVE  /\ pipe' \in Pipes /\ Content'
           /\ pipe'.used = pipe.used /\ pipe'.readopen = pipe.readopen /\ pipe'.writeopen = pipe.writeopen
  <1> DEFINE x == [i \in 1..m |-> pipe.data[(pipe.nread + i - 1) % PIPESIZE]]
             g == pipe.got \o x
             n == pipe.nread
             w == pipe.nwrite
  <1>1. n \in Nat /\ w \in Nat /\ n <= w /\ w - n <= PIPESIZE /\ PIPESIZE \in Nat \ {0} /\ pipe.got \in Seq(Nat)
    BY FsAssumption DEF Content, Pipes
  <1>2. x = [i \in 1..m |-> n + i]
    <2>1. ASSUME NEW i \in 1..m PROVE pipe.data[(pipe.nread + i - 1) % PIPESIZE] = n + i
      <3>1. n + i - 1 \in Nat /\ n <= n + i - 1 /\ n + i - 1 < w /\ (n + i - 1) + 1 = n + i
        BY <1>1
      <3>. QED
        BY <3>1 DEF Content
    <2>. QED
      BY <2>1
  <1>3. pipe.got = [i \in 1..n |-> i]
    BY DEF Content
  <1>. HIDE DEF x, w
  <1>4. x \in Seq(Nat) /\ Len(x) = m /\ \A i \in 1..m : x[i] = n + i
    <2>1. \A i \in 1..m : n + i \in Nat
      BY <1>1
    <2>2. x \in [1..m -> Nat]
      BY <1>2, <2>1
    <2>. QED
      BY <1>2, <2>2
  <1>5. Len(pipe.got) = n /\ \A i \in 1..n : pipe.got[i] = i
    BY <1>1, <1>3
  <1>. HIDE DEF n
  <1>6. g \in Seq(Nat) /\ Len(g) = n + m /\ g = [i \in 1..(n + m) |-> g[i]]
    <2>1. g \in Seq(Nat) /\ Len(g) = n + m
      <3>1. g \in Seq(Nat) /\ Len(g) = Len(pipe.got) + Len(x)
        BY <1>1, <1>4, Joined
      <3>. QED
        BY <1>4, <1>5, <3>1
    <2>. HIDE DEF g
    <2>. QED
      BY <2>1
  <1>7. \A i \in 1..(n + m) : g[i] = i
    <2>1. ASSUME NEW i \in 1..(n + m) PROVE g[i] = i
      <3>1. CASE i <= n
        BY <1>1, <1>4, <1>5, <3>1
      <3>2. CASE i > n
        <4>1. g[i] = x[i - n] /\ i - n \in 1..m
          BY <1>1, <1>4, <1>5, <3>2
        <4>2. x[i - n] = n + (i - n)
          BY <1>4, <4>1
        <4>. QED
          BY <1>1, <4>1, <4>2
      <3>3. i <= n \/ i > n
        BY <1>1
      <3>. QED
        BY <3>1, <3>2, <3>3
    <2>. QED
      BY <2>1
  <1>8. g = [i \in 1..(n + m) |-> i]
    BY <1>6, <1>7
  <1>9. pipe' = [pipe EXCEPT !.nread = n + m, !.got = g]
    BY DEF g, x, n
  <1>. HIDE DEF g
  <1>10. /\ pipe' \in Pipes /\ pipe'.nread = n + m /\ pipe'.got = g /\ pipe'.nwrite = pipe.nwrite /\ pipe'.data = pipe.data
         /\ pipe'.used = pipe.used /\ pipe'.readopen = pipe.readopen /\ pipe'.writeopen = pipe.writeopen
    <2>1. n + m \in Nat
      BY <1>1
    <2>. QED
      BY <1>6, <1>9, <2>1 DEF Pipes
  <1>11. pipe'.nread <= pipe'.nwrite /\ pipe'.nwrite - pipe'.nread <= PIPESIZE
    BY <1>1, <1>10 DEF n, w
  <1>12. \A k \in Nat : (pipe'.nread <= k /\ k < pipe'.nwrite) => pipe'.data[k % PIPESIZE] = k + 1
    <2>1. \A k \in Nat : n + m <= k => n <= k
      BY <1>1
    <2>. QED
      BY <1>10, <2>1 DEF Content, n
  <1>. QED
    BY <1>8, <1>10, <1>11, <1>12 DEF Content

\* piperead: it sleeps, or takes what is next and returns.
LEMMA pipereadKeeps ==
    ASSUME Inv, NEW p \in Procs, piperead(p)
    PROVE  Inv'
  <1> DEFINE stored == pipe.nwrite - pipe.nread
             c == pr[p].call.n
             m == IF c <= stored THEN c ELSE stored
  <1>1. pr[p].pc = "piperead" /\ UNCHANGED <<prog, todo, fs, durable, ic, ftable, ofile>>
    BY DEF piperead, At, Going, OnlyPipe
  <1>2. c \in Nat /\ pr[p] \in Threads /\ Placed(pr[p])
    BY <1>1, AtPipe
  <1>3. pipe \in Pipes /\ Content /\ Ends /\ stored \in Nat
    <2>1. pipe \in Pipes /\ Content /\ Ends
      BY PipedParts DEF Inv, Types
    <2>2. pipe.nread \in Nat /\ pipe.nwrite \in Nat /\ pipe.nread <= pipe.nwrite
      BY <2>1 DEF Pipes, Content
    <2>. QED
      BY <2>1, <2>2
  <1>4. m \in Nat /\ m <= stored
    BY <1>2, <1>3
  <1>5. CASE stored = 0 /\ pipe.writeopen
    <2> DEFINE t == [pr[p] EXCEPT !.pc = "readsleep"]
    <2>1. pr' = [pr EXCEPT ![p] = t] /\ pipe' = pipe
      BY <1>5 DEF piperead
    <2>2. t \in Threads
      <3>1. "readsleep" \in Pcs
        BY DEF Pcs, InPipe
      <3>. QED
        BY <1>2, <3>1 DEF Threads
    <2>3. /\ t.pc = "readsleep" /\ t.call = pr[p].call /\ t.cur = pr[p].cur /\ t.next = pr[p].next /\ t.ip = pr[p].ip
          /\ t.dp = pr[p].dp /\ t.put = pr[p].put /\ t.after = pr[p].after /\ t.file = pr[p].file /\ t.n = pr[p].n
          /\ t.rest = pr[p].rest
      BY <1>2 DEF Threads
    <2>. HIDE DEF t
    <2>4. Placed(t)
      BY <1>1, <1>2, <2>3 DEF Placed, Place, Walking, WithParent, WithInode, OfLink
    <2>5. Holding(pr[p], t)
      BY <2>3 DEF Holding
    <2>6. /\ pr' \in [Procs -> Threads] /\ (\A q \in Procs : Placed(pr'[q]) /\ Holding(pr[q], pr'[q]))
          /\ \A e : Closing(e)' = Closing(e)
      BY <1>1, <2>1, <2>2, <2>3, <2>4, <2>5, PipeSleeps
    <2>7. PipeStep
      BY <1>1, <1>3, <2>1, <2>6 DEF PipeStep
    <2>8. Types' /\ Pointing' /\ Bitmap(fs') /\ Bitmap(durable')
      BY <2>7, PipeStepKeeps
    <2>9. Content' /\ Ends'
      BY <1>1, <1>3, <2>1, <2>6, EndsStay DEF Content
    <2>. QED
      BY <2>8, <2>9 DEF Inv, Piped, Content, Ends
  <1>6. CASE ~(stored = 0 /\ pipe.writeopen)
    <2>1. pr' = WakeWriters(Return(p))
      BY <1>6 DEF piperead
    <2>2. pipe' = [pipe EXCEPT !.nread = @ + m,
                     !.got = @ \o [i \in 1..m |-> pipe.data[(pipe.nread + i - 1) % PIPESIZE]]]
      BY <1>6 DEF piperead
    <2>. HIDE DEF m, c
    <2>3. /\ pipe' \in Pipes /\ Content'
          /\ pipe'.used = pipe.used /\ pipe'.readopen = pipe.readopen /\ pipe'.writeopen = pipe.writeopen
      BY <1>3, <1>4, <2>2, ReadsNext
    <2>4. /\ pr' \in [Procs -> Threads] /\ (\A q \in Procs : Placed(pr'[q]) /\ Holding(pr[q], pr'[q]))
          /\ \A e : Closing(e)' = Closing(e) \ {p}
      BY <1>1, <2>1, PipeReturns
    <2>5. \A e : Closing(e)' = Closing(e)
      BY <1>1, <2>4 DEF Closing
    <2>6. PipeStep
      BY <1>1, <2>3, <2>4 DEF PipeStep
    <2>7. Types' /\ Pointing' /\ Bitmap(fs') /\ Bitmap(durable')
      BY <2>6, PipeStepKeeps
    <2>8. Ends'
      BY <1>1, <2>3, <2>5, EndsStay
    <2>. QED
      BY <2>3, <2>7, <2>8 DEF Inv, Piped, Content, Ends
  <1>. QED
    BY <1>5, <1>6

\* A write puts its bytes in the cells that come next, and only in free ones.
LEMMA WritesNext ==
    ASSUME pipe \in Pipes, Content, NEW m \in Nat, m <= Room, NEW x,
           x = [k \in DOMAIN pipe.data |->
                  IF pipe.nwrite + ((k - pipe.nwrite) % PIPESIZE) < pipe.nwrite + m
                  THEN pipe.nwrite + ((k - pipe.nwrite) % PIPESIZE) + 1 ELSE pipe.data[k]],
           pipe' = [pipe EXCEPT !.nwrite = pipe.nwrite + m, !.data = x]
    PROVE  /\ pipe' \in Pipes /\ Content'
           /\ pipe'.used = pipe.used /\ pipe'.readopen = pipe.readopen /\ pipe'.writeopen = pipe.writeopen
  <1> DEFINE n == pipe.nread
             w == pipe.nwrite
             P == PIPESIZE
             dist(k) == (k - w) % P
  <1>1. n \in Nat /\ w \in Nat /\ n <= w /\ w - n <= P /\ P \in Nat \ {0} /\ m <= n + P - w
    BY FsAssumption DEF Content, Pipes, Room
  <1>2. pipe.data \in [0..(P - 1) -> Nat] /\ DOMAIN pipe.data = 0..(P - 1)
    BY DEF Pipes
  <1>3. x = [k \in 0..(P - 1) |-> IF w + dist(k) < w + m THEN w + dist(k) + 1 ELSE pipe.data[k]]
    BY <1>2
  <1>4. \A k \in 0..(P - 1) : dist(k) \in Nat
    BY <1>1
  <1>5. x \in [0..(P - 1) -> Nat]
    <2>. HIDE DEF w, P, dist
    <2>. QED
      BY <1>1, <1>2, <1>3, <1>4
  <1>6. /\ pipe' \in Pipes /\ pipe'.nwrite = w + m /\ pipe'.data = x /\ pipe'.nread = n /\ pipe'.got = pipe.got
        /\ pipe'.used = pipe.used /\ pipe'.readopen = pipe.readopen /\ pipe'.writeopen = pipe.writeopen
    <2>1. w + m \in Nat
      BY <1>1
    <2>. QED
      BY <1>5, <2>1 DEF Pipes
  <1>7. pipe'.nread <= pipe'.nwrite /\ pipe'.nwrite - pipe'.nread <= PIPESIZE
    <2>1. n <= w + m /\ (w + m) - n <= P
      BY <1>1
    <2>. QED
      BY <1>6, <2>1
  <1>8. ASSUME NEW j \in Nat, n <= j, j < w + m
        PROVE  x[j % P] = j + 1
    <2>1. w - P <= j /\ j < w + P
      BY <1>1, <1>8
    <2>2. dist(j % P) = IF j >= w THEN j - w ELSE j - w + P
      BY <1>1, <2>1, Cell
    <2>3. j % P \in 0..(P - 1)
      BY <1>1
    <2>4. x[j % P] = IF w + dist(j % P) < w + m THEN w + dist(j % P) + 1 ELSE pipe.data[j % P]
      BY <1>3, <2>3
    <2> DEFINE y == dist(j % P)
               z == pipe.data[j % P]
               v == x[j % P]
    <2>5. y = (IF j >= w THEN j - w ELSE j - w + P) /\ v = IF w + y < w + m THEN w + y + 1 ELSE z
      BY <2>2, <2>4
    <2>6. j < w => z = j + 1
      BY <1>1, <1>8 DEF Content
    <2>. HIDE DEF y, z, v, n, w, P, dist
    <2>7. CASE j >= w
      BY <1>1, <1>8, <2>5, <2>7 DEF v
    <2>8. CASE j < w
      BY <1>1, <1>8, <2>5, <2>6, <2>8 DEF v
    <2>. QED
      BY <1>1, <2>7, <2>8
  <1>. HIDE DEF n, w, P, dist
  <1>9. \A k \in Nat : (pipe'.nread <= k /\ k < pipe'.nwrite) => pipe'.data[k % PIPESIZE] = k + 1
    BY <1>6, <1>8 DEF P
  <1>10. pipe'.got = [i \in 1..pipe'.nread |-> i]
    BY <1>6 DEF Content, n
  <1>. QED
    BY <1>6, <1>7, <1>9, <1>10 DEF Content

\* pipewrite: it fills free cells, and sleeps or returns.
LEMMA pipewriteKeeps ==
    ASSUME Inv, NEW p \in Procs, pipewrite(p)
    PROVE  Inv'
  <1> DEFINE left == pr[p].call.n - pr[p].n
             m == IF left <= Room THEN left ELSE Room
             x == [k \in DOMAIN pipe.data |->
                     IF pipe.nwrite + ((k - pipe.nwrite) % PIPESIZE) < pipe.nwrite + m
                     THEN pipe.nwrite + ((k - pipe.nwrite) % PIPESIZE) + 1 ELSE pipe.data[k]]
  <1>1. pr[p].pc = "pipewrite" /\ UNCHANGED <<prog, todo, fs, durable, ic, ftable, ofile>>
    BY DEF pipewrite, At, Going, OnlyPipe
  <1>2. pr[p].call.n \in Nat /\ pr[p].n \in Int /\ pr[p].n <= pr[p].call.n /\ pr[p] \in Threads /\ Placed(pr[p])
    BY <1>1, AtPipe
  <1>3. pipe \in Pipes /\ Content /\ Room \in Nat
    <2>1. pipe \in Pipes /\ Content
      BY PipedParts DEF Inv, Types
    <2>2. pipe.nread \in Nat /\ pipe.nwrite \in Nat /\ pipe.nwrite - pipe.nread <= PIPESIZE /\ PIPESIZE \in Nat
      BY <2>1, FsAssumption DEF Pipes, Content
    <2>3. Room \in Nat
      BY <2>2 DEF Room
    <2>. QED
      BY <2>1, <2>3
  <1>4. left \in Nat /\ m \in Nat /\ m <= Room /\ m <= left
    BY <1>2, <1>3
  <1>5. pipe' = [pipe EXCEPT !.nwrite = pipe.nwrite + m, !.data = x]
    BY DEF pipewrite
  <1>6. \/ pr' \in {Return(p), WakeReaders(Return(p))}
        \/ m # left /\ pr' = WakeReaders([pr EXCEPT ![p].pc = "writesleep", ![p].n = @ + m])
    BY DEF pipewrite
  <1>. HIDE DEF m, left
  <1>7. /\ pipe' \in Pipes /\ Content'
        /\ pipe'.used = pipe.used /\ pipe'.readopen = pipe.readopen /\ pipe'.writeopen = pipe.writeopen
    BY <1>3, <1>4, <1>5, WritesNext
  <1>. HIDE DEF x
  <1>8. /\ pr' \in [Procs -> Threads] /\ (\A q \in Procs : Placed(pr'[q]) /\ Holding(pr[q], pr'[q]))
        /\ \A e : Closing(e)' = Closing(e)
    <2>1. CASE pr' \in {Return(p), WakeReaders(Return(p))}
      <3>1. /\ pr' \in [Procs -> Threads] /\ (\A q \in Procs : Placed(pr'[q]) /\ Holding(pr[q], pr'[q]))
            /\ \A e : Closing(e)' = Closing(e) \ {p}
        BY <1>1, <2>1, PipeReturns
      <3>2. \A e : p \notin Closing(e)
        BY <1>1 DEF Closing
      <3>. QED
        BY <3>1, <3>2
    <2>2. CASE pr' = WakeReaders([pr EXCEPT ![p].pc = "writesleep", ![p].n = @ + m])
      <3> DEFINE n1 == pr[p].n + m
                 t == [pr[p] EXCEPT !.pc = "writesleep", !.n = n1]
                 r == [pr EXCEPT ![p] = t]
      <3>1. pr \in [Procs -> Threads]
        BY Facts
      <3>2. [pr EXCEPT ![p].pc = "writesleep", ![p].n = @ + m] = r
        BY <3>1 DEF Threads
      <3>3. n1 \in Int /\ n1 <= pr[p].call.n
        BY <1>2, <1>4 DEF left
      <3>. HIDE DEF n1
      <3>4. t \in Threads
        <4>1. "writesleep" \in Pcs
          BY DEF Pcs, InPipe
        <4>. QED
          BY <1>2, <3>3, <4>1 DEF Threads
      <3>5. /\ t.pc = "writesleep" /\ t.call = pr[p].call /\ t.cur = pr[p].cur /\ t.next = pr[p].next /\ t.ip = pr[p].ip
            /\ t.dp = pr[p].dp /\ t.put = pr[p].put /\ t.after = pr[p].after /\ t.file = pr[p].file /\ t.n = n1
            /\ t.rest = pr[p].rest
        BY <1>2 DEF Threads
      <3>. HIDE DEF t
      <3>6. Placed(t)
        BY <1>1, <1>2, <3>3, <3>5 DEF Placed, Place, Walking, WithParent, WithInode, OfLink
      <3>7. Holding(pr[p], t)
        BY <3>5 DEF Holding
      <3>8. pr' = WakeReaders(r)
        BY <2>2, <3>2
      <3>9. r = [pr EXCEPT ![p] = t]
        OBVIOUS
      <3>. HIDE DEF r
      <3>. QED
        BY <1>1, <3>4, <3>5, <3>6, <3>7, <3>8, <3>9, PipeSleeps
    <2>. QED
      BY <1>6, <2>1, <2>2
  <1>9. PipeStep
    BY <1>1, <1>7, <1>8 DEF PipeStep
  <1>10. Types' /\ Pointing' /\ Bitmap(fs') /\ Bitmap(durable')
    BY <1>9, PipeStepKeeps
  <1>11. Ends'
    BY <1>1, <1>7, <1>8, EndsStay
  <1>. QED
    BY <1>7, <1>10, <1>11 DEF Inv, Piped, Content, Ends

-----------------------------------------------------------------------------
(* The start and crashes *)

\* Memory when the machine starts
Fresh ==
    ic = NoCache /\ ftable = NoFtable /\ ofile = NoOfile /\ pr = AllIdle /\ pipe = NoPipe

\* A free file is an open file record.
LEMMA NoFileType == NoFile \in OpenFiles
  <1>1. None \in Refs /\ 0 \in Int /\ "NONE" \in {"NONE", "INODE", "PIPE"}
    BY Numbers
  <1>. QED
    BY <1>1 DEF OpenFiles, NoFile

\* The page of no pipe is a pipe record.
LEMMA NoPipeType == NoPipe \in Pipes
  <1> DEFINE x == [k \in 0..(PIPESIZE - 1) |-> 0]
  <1>1. x \in [0..(PIPESIZE - 1) -> Nat] /\ <<>> \in Seq(Nat) /\ 0 \in Nat
    OBVIOUS
  <1>2. NoPipe = [used |-> FALSE, readopen |-> FALSE, writeopen |-> FALSE, nread |-> 0, nwrite |-> 0,
                  data |-> x, got |-> <<>>]
    BY DEF NoPipe
  <1>. HIDE DEF x
  <1>. QED
    BY <1>1, <1>2 DEF Pipes

\* With memory as it is at the start nobody refers to anything.
LEMMA FreshGood ==
    Fresh => /\ ic \in [Inums -> Entries] /\ ftable \in [Files -> OpenFiles]
             /\ ofile \in [Procs -> [1..NOFILE -> Files \cup {None}]]
             /\ pr \in [Procs -> Threads] /\ pipe \in Pipes
             /\ Pointing /\ Piped
  <1>1. SUFFICES ASSUME Fresh
                 PROVE  /\ ic \in [Inums -> Entries] /\ ftable \in [Files -> OpenFiles]
                        /\ ofile \in [Procs -> [1..NOFILE -> Files \cup {None}]]
                        /\ pr \in [Procs -> Threads] /\ pipe \in Pipes
                        /\ Pointing /\ Piped
    OBVIOUS
  <1>2. ic \in [Inums -> Entries] /\ \A i \in Inums : ic[i].ref = 0
    BY <1>1 DEF Fresh, NoCache, NoEntry, Entries
  <1>3. ftable \in [Files -> OpenFiles] /\ \A f \in Files : ftable[f] = NoFile
    BY <1>1, NoFileType DEF Fresh, NoFtable
  <1>4. ofile \in [Procs -> [1..NOFILE -> Files \cup {None}]] /\ \A q \in Procs : \A d \in 1..NOFILE : ofile[q][d] = None
    BY <1>1 DEF Fresh, NoOfile
  <1>5. pr \in [Procs -> Threads] /\ \A q \in Procs : pr[q] = Idle /\ Placed(pr[q])
    BY <1>1, IdleType DEF Fresh, AllIdle
  <1>6. pipe = NoPipe /\ pipe \in Pipes
    BY <1>1, NoPipeType DEF Fresh
  <1>7. NoFile.ref = 0 /\ NoFile.type = "NONE" /\ NoFile.ip = None /\ Idle.pc = "idle" /\ Idle.file = None
    BY DEF NoFile, Idle
  <1>8. \A x \in Five : Idle[x] = None
    <2>1. Idle.cur = None /\ Idle.next = None /\ Idle.ip = None /\ Idle.dp = None /\ Idle.put = None
      BY DEF Idle
    <2>. QED
      BY <2>1 DEF Five
  <1>9. \A i \in Inums : FilesOf(i) = {} /\ Pointers(i) = {}
    BY <1>3, <1>5, <1>7, <1>8, Numbers DEF FilesOf, Pointers
  <1>10. \A f \in Files : FdsOf(f) = {}
    BY <1>4, Numbers DEF FdsOf, Fds
  <1>11. Exact
    <2>1. Cardinality({}) = 0 /\ 0 + 0 = 0
      BY FS_EmptySet
    <2>2. \A i \in Inums : ic[i].ref = Cardinality(FilesOf(i)) + Cardinality(Pointers(i))
      BY <1>2, <1>9, <2>1
    <2>3. \A f \in Files : ftable[f].ref = Cardinality(FdsOf(f))
      BY <1>3, <1>7, <1>10, <2>1
    <2>. QED
      BY <2>2, <2>3 DEF Exact
  <1>12. Tables
    BY <1>3, <1>5, <1>7 DEF Tables
  <1>13. \A e : Closing(e) = {}
    BY <1>5, <1>7 DEF Closing
  <1>14. \A f \in Files : \A e : ~IsEnd(f, e)
    BY <1>3, <1>7 DEF IsEnd
  <1>15. Content
    <2>1. pipe.nread = 0 /\ pipe.nwrite = 0 /\ pipe.got = <<>>
      BY <1>6 DEF NoPipe
    <2>2. <<>> = [i \in 1..0 |-> i]
      OBVIOUS
    <2>. QED
      BY <2>1, <2>2, FsAssumption DEF Content
  <1>16. Ends
    <2>1. ~pipe.used /\ ~pipe.readopen /\ ~pipe.writeopen
      BY <1>6 DEF NoPipe
    <2>. QED
      BY <1>13, <1>14, <2>1 DEF Ends
  <1>. QED
    BY <1>2, <1>3, <1>4, <1>5, <1>6, <1>11, <1>12, <1>15, <1>16, PipedParts DEF Pointing

\* The start satisfies the invariant.
LEMMA InitGood == Init => Inv
  <1>1. SUFFICES ASSUME Init PROVE Inv
    OBVIOUS
  <1>2. Fresh
    BY <1>1 DEF Init, Fresh
  <1>3. Good(fs) /\ Good(durable)
    BY <1>1, MkfsGood DEF Init
  <1>4. prog \in Programs /\ DOMAIN todo = Procs /\ \A p \in Procs : todo[p] \subseteq prog.todo[p]
    BY <1>1, FsAssumption DEF Init
  <1>5. Types
    BY <1>2, <1>3, <1>4, FreshGood DEF Types, Good
  <1>. QED
    BY <1>2, <1>3, <1>5, FreshGood DEF Inv, Good

\* A crash keeps it: only the durable disk is left, and its bitmap is right.
LEMMA CrashKeeps ==
    ASSUME Inv, Crash
    PROVE  Inv'
  <1>1. Fresh'
    BY DEF Crash, Fresh
  <1>2. (/\ ic \in [Inums -> Entries] /\ ftable \in [Files -> OpenFiles]
         /\ ofile \in [Procs -> [1..NOFILE -> Files \cup {None}]]
         /\ pr \in [Procs -> Threads] /\ pipe \in Pipes
         /\ Pointing /\ Piped)'
    BY <1>1, FreshGood, PTL
  <1>3. fs' = durable /\ UNCHANGED <<prog, todo, durable>>
    BY DEF Crash
  <1>4. Types'
    BY <1>2, <1>3 DEF Inv, Types
  <1>. QED
    BY <1>2, <1>3, <1>4 DEF Inv

-----------------------------------------------------------------------------
(* fork and pipe *)

\* A process that calls goes on as it was.
LEMMA IdleCalls ==
    ASSUME Inv, NEW p \in Procs, NEW call, Call(p, call)
    PROVE  /\ pr[p].pc = "idle" /\ pr[p].file = None /\ prog' = prog
           /\ DOMAIN todo' = Procs /\ \A q \in Procs : todo'[q] \subseteq prog.todo[q]
  <1>1. pr[p].pc = "idle"
    BY DEF Call, At
  <1>. QED
    BY <1>1, IdleFacts, CallTodo

\* The descriptors of the child are as many as those of its parent.
LEMMA Twins ==
    ASSUME NEW q, NEW D, IsFiniteSet(D)
    PROVE  IsFiniteSet({<<q, d>> : d \in D}) /\ Cardinality({<<q, d>> : d \in D}) = Cardinality(D)
  <1> DEFINE T == {<<q, d>> : d \in D}
             b == [d \in D |-> <<q, d>>]
  <1>1. b \in [D -> T] /\ (\A d \in D : b[d] = <<q, d>>)
    OBVIOUS
  <1>2. \A x, y \in D : b[x] = b[y] => x = y
    BY <1>1
  <1>3. \A t \in T : \E d \in D : b[d] = t
    BY <1>1
  <1>. HIDE DEF b, T
  <1>4. b \in Bijection(D, T)
    BY <1>1, <1>2, <1>3, Fun_IsBij
  <1>5. ExistsBijection(D, T)
    BY <1>4 DEF ExistsBijection
  <1>6. IsFiniteSet(T) /\ Cardinality(T) = Cardinality(D)
    BY <1>5, FS_Bijection
  <1>. QED
    BY <1>6 DEF T

\* fork: every descriptor of the parent is counted once more, for the child.
LEMMA ForkKeeps ==
    ASSUME Inv, NEW p \in Procs, NEW call \in todo[p], Call(p, call), Fork(p, call)
    PROVE  Inv'
  <1>1. PICK q \in Procs \ {p} :
            /\ pr[q] = Idle /\ ofile[q] = NoOfile[q]
            /\ ofile' = [ofile EXCEPT ![q] = ofile[p]]
            /\ ftable' = [f \in Files |-> [ftable[f] EXCEPT !.ref =
                            @ + Cardinality({d \in 1..NOFILE : ofile[p][d] = f})]]
    BY DEF Fork
  <1>2. UNCHANGED <<fs, durable, ic, pr, pipe>>
    BY DEF Fork
  <1>3. /\ pr[p].pc = "idle" /\ pr[p].file = None /\ prog' = prog
        /\ DOMAIN todo' = Procs /\ \A o \in Procs : todo'[o] \subseteq prog.todo[o]
    BY IdleCalls
  <1> DEFINE D(f) == {d \in 1..NOFILE : ofile[p][d] = f}
  <1>4. \A f : IsFiniteSet(D(f)) /\ Cardinality(D(f)) \in Nat
    <2>1. \A f : D(f) \in SUBSET (1..NOFILE)
      OBVIOUS
    <2>. QED
      BY <2>1, Finite, FS_Subset, FS_CardinalityType
  <1>. HIDE DEF D
  <1>5. ofile \in [Procs -> [1..NOFILE -> Files \cup {None}]] /\ ftable \in [Files -> OpenFiles]
    BY DEF Inv, Types
  <1>6. \A f \in Files : ftable[f].ref \in Nat
    <2>1. \A f \in Files : ftable[f].ref = Cardinality(FdsOf(f)) /\ IsFiniteSet(FdsOf(f))
      BY Finite DEF Inv, Pointing, Exact
    <2>. QED
      BY <2>1, FS_CardinalityType
  <1>7. /\ ofile' \in [Procs -> [1..NOFILE -> Files \cup {None}]]
        /\ \A d \in 1..NOFILE : ofile[q][d] = None /\ ofile'[q][d] = ofile[p][d]
        /\ \A o \in Procs \ {q} : ofile'[o] = ofile[o]
    BY <1>1, <1>5 DEF NoOfile
  <1>8. ASSUME NEW f \in Files
        PROVE  /\ ftable'[f] \in OpenFiles /\ ftable'[f].ref = ftable[f].ref + Cardinality(D(f))
               /\ ftable'[f].type = ftable[f].type /\ ftable'[f].ip = ftable[f].ip
               /\ ftable'[f].writable = ftable[f].writable
               /\ ftable'[f].ref = 0 => ftable'[f] = ftable[f]
    <2> DEFINE n == ftable[f].ref + Cardinality(D(f))
    <2>1. ftable'[f] = [ftable[f] EXCEPT !.ref = n]
      BY <1>1 DEF D
    <2>2. n \in Nat /\ (n = 0 => ftable[f].ref = n)
      <3>1. Cardinality(D(f)) \in Nat /\ ftable[f].ref \in Nat
        BY <1>4, <1>6
      <3>. QED
        BY <3>1
    <2>3. ftable[f] \in OpenFiles
      BY <1>5
    <2>4. n \in Int
      BY <2>2
    <2>. HIDE DEF n
    <2>5. /\ ftable'[f] \in OpenFiles /\ ftable'[f].ref = n
          /\ ftable'[f].type = ftable[f].type /\ ftable'[f].ip = ftable[f].ip
          /\ ftable'[f].writable = ftable[f].writable /\ ftable'[f].off = ftable[f].off
      BY <2>1, <2>3, <2>4 DEF OpenFiles
    <2>6. n = 0 => ftable'[f] = ftable[f]
      BY <2>2, <2>3, <2>5 DEF OpenFiles
    <2>. QED
      BY <2>5, <2>6 DEF n
  <1>9. ftable' \in [Files -> OpenFiles]
    <2>1. ftable' = [f \in Files |-> ftable'[f]]
      BY <1>1
    <2>. QED
      BY <1>8, <2>1
  <1>10. \A f \in Files : ftable[f].ref = 0 => ftable'[f].ref = 0
    <2>1. ASSUME NEW f \in Files, ftable[f].ref = 0 PROVE ftable'[f].ref = 0
      <3>1. D(f) = {}
        BY <2>1, FreeFile DEF D
      <3>2. Cardinality(D(f)) = 0
        BY <3>1, FS_EmptySet
      <3>3. ftable'[f].ref = ftable[f].ref + Cardinality(D(f))
        BY <1>8
      <3>. QED
        BY <2>1, <3>2, <3>3
    <2>. QED
      BY <2>1
  <1>11. \A f \in Files : (ftable[f].ref > 0 <=> ftable'[f].ref > 0) /\ (ftable[f].ref # 0 <=> ftable'[f].ref # 0)
    <2>1. ASSUME NEW f \in Files PROVE (ftable[f].ref > 0 <=> ftable'[f].ref > 0) /\ (ftable[f].ref # 0 <=> ftable'[f].ref # 0)
      <3>1. /\ Cardinality(D(f)) \in Nat /\ ftable[f].ref \in Nat /\ ftable'[f].ref = ftable[f].ref + Cardinality(D(f))
            /\ ftable[f].ref = 0 => ftable'[f].ref = 0
        BY <1>4, <1>6, <1>8, <1>10
      <3> DEFINE a == ftable[f].ref
                 b == ftable'[f].ref
                 c == Cardinality(D(f))
      <3>2. a \in Nat /\ c \in Nat /\ b = a + c /\ (a = 0 => b = 0)
        BY <3>1
      <3>. HIDE DEF a, b, c
      <3>3. (a > 0 <=> b > 0) /\ (a # 0 <=> b # 0)
        BY <3>2
      <3>. QED
        BY <3>3 DEF a, b
    <2>. QED
      BY <2>1
  <1>12. ASSUME NEW f \in Files PROVE ftable'[f].ref = Cardinality(FdsOf(f)')
    <2> DEFINE T == {<<q, d>> : d \in D(f)}
               B == {v \in Fds : ofile'[v[1]][v[2]] = f}
    <2>1. IsFiniteSet(T) /\ Cardinality(T) = Cardinality(D(f))
      BY <1>4, Twins
    <2>2. B = FdsOf(f)'
      BY DEF FdsOf
    <2>3. B = FdsOf(f) \cup T
      <3>1. ASSUME NEW v \in Fds PROVE v \in B <=> v \in FdsOf(f) \cup T
        <4>1. PICK o \in Procs, d \in 1..NOFILE : v = <<o, d>>
          BY <3>1 DEF Fds
        <4>2. CASE o = q
          BY <1>7, <4>1, <4>2, Numbers DEF FdsOf, Fds, D
        <4>3. CASE o # q
          BY <1>7, <4>1, <4>3 DEF FdsOf, Fds, D
        <4>. QED
          BY <4>2, <4>3
      <3>2. B \subseteq Fds /\ FdsOf(f) \subseteq Fds /\ T \subseteq Fds
        BY DEF FdsOf, Fds, D
      <3>. QED
        BY <3>1, <3>2
    <2>4. FdsOf(f) \cap T = {}
      BY <1>7, Numbers DEF FdsOf, D
    <2>. HIDE DEF T, B
    <2>5. Cardinality(B) = Cardinality(FdsOf(f)) + Cardinality(T)
      <3>1. IsFiniteSet(FdsOf(f))
        BY Finite
      <3>2. Cardinality(FdsOf(f)) \in Nat /\ Cardinality(T) \in Nat
        BY <2>1, <3>1, FS_CardinalityType
      <3>3. Cardinality(B) = Cardinality(FdsOf(f)) + Cardinality(T) - Cardinality({})
        BY <2>1, <2>3, <2>4, <3>1, FS_Union
      <3>. QED
        BY <3>2, <3>3, FS_EmptySet
    <2>6. ftable[f].ref = Cardinality(FdsOf(f))
      BY DEF Inv, Pointing, Exact
    <2>. QED
      BY <1>8, <2>1, <2>2, <2>5, <2>6
  <1>13. ASSUME NEW i \in Inums PROVE ic'[i].ref = Cardinality(FilesOf(i)') + Cardinality(Pointers(i)')
    <2>1. FilesOf(i)' = FilesOf(i)
      BY <1>8, <1>11 DEF FilesOf
    <2>2. Pointers(i)' = Pointers(i)
      BY <1>2 DEF Pointers
    <2>. QED
      BY <1>2, <2>1, <2>2 DEF Inv, Pointing, Exact
  <1>14. Exact'
    BY <1>12, <1>13 DEF Exact
  <1>15. Types'
    BY <1>2, <1>3, <1>7, <1>9 DEF Inv, Types
  <1>16. Tables'
    <2>1. ASSUME NEW g \in Files
          PROVE  /\ ftable'[g].ref = 0 => ftable'[g] = NoFile
                 /\ ftable'[g].type = "INODE" <=> ftable'[g].ip # None
                 /\ (ftable'[g].ref # 0 /\ ftable'[g].type = "NONE") => \E o \in Procs : pr'[o].file = g
      <3>1. /\ ftable[g].ref = 0 => ftable[g] = NoFile
            /\ ftable[g].type = "INODE" <=> ftable[g].ip # None
            /\ (ftable[g].ref # 0 /\ ftable[g].type = "NONE") => \E o \in Procs : pr[o].file = g
        BY DEF Inv, Pointing, Tables
      <3>. QED
        BY <1>2, <1>8, <1>11, <3>1
    <2>2. ASSUME NEW o \in Procs, pr'[o].file # None
          PROVE  /\ ftable'[pr'[o].file].type = "NONE" /\ ftable'[pr'[o].file].ref # 0
                 /\ \A s \in Procs : \A d \in 1..NOFILE : ofile'[s][d] = pr'[o].file => s = o
      <3>1. pr[o].file \in Files \cup {None}
        BY Facts
      <3>2. pr'[o].file = pr[o].file /\ pr[o].file \in Files /\ o # p
        BY <1>2, <1>3, <2>2, <3>1
      <3>3. /\ ftable[pr[o].file].type = "NONE" /\ ftable[pr[o].file].ref # 0
            /\ \A s \in Procs : \A d \in 1..NOFILE : ofile[s][d] = pr[o].file => s = o
        BY <2>2, <3>2 DEF Inv, Pointing, Tables
      <3>. QED
        BY <1>7, <1>8, <1>11, <3>2, <3>3
    <2>3. \A o, s \in Procs : pr'[o].file # None /\ pr'[o].file = pr'[s].file => o = s
      BY <1>2 DEF Inv, Pointing, Tables
    <2>4. ASSUME NEW o \in Procs, pr'[o].pc \in {"read", "write"}
          PROVE  ofile'[o][pr'[o].call.fd] # None /\ ftable'[ofile'[o][pr'[o].call.fd]].type = "INODE"
      <3>1. o # q /\ pr'[o] = pr[o]
        <4>1. Idle.pc = "idle"
          BY DEF Idle
        <4>. QED
          BY <1>1, <1>2, <2>4, <4>1
      <3>2. /\ pr[o].call.fd \in 1..NOFILE /\ ofile[o][pr[o].call.fd] \in Files
            /\ ftable[ofile[o][pr[o].call.fd]].type = "INODE"
        BY <2>4, <3>1, Reading
      <3>. QED
        BY <1>7, <1>8, <3>1, <3>2, Numbers
    <2>. QED
      BY <2>1, <2>2, <2>3, <2>4 DEF Tables
  <1>17. Piped'
    <2>1. \A e : Closing(e)' = Closing(e) /\ EndOpen(e)' = EndOpen(e)
      BY <1>2 DEF Closing, EndOpen
    <2>2. \A g \in Files : \A e : IsEnd(g, e)' = IsEnd(g, e)
      BY <1>8 DEF IsEnd
    <2>. QED
      BY <1>2, <2>1, <2>2 DEF Inv, Piped
  <1>18. (\A o \in Procs : Placed(pr[o]))'
    BY <1>2 DEF Inv, Pointing
  <1>19. Bitmap(fs') /\ Bitmap(durable')
    BY <1>2 DEF Inv
  <1>. QED
    BY <1>14, <1>15, <1>16, <1>17, <1>18, <1>19 DEF Inv, Pointing

\* Two of a set with at least two
LEMMA FirstTwo ==
    ASSUME NEW S, S \subseteq Nat, IsFiniteSet(S), ~(Cardinality(S) < 2)
    PROVE  /\ First(S) \in S /\ First(S \ {First(S)}) \in S
           /\ First(S \ {First(S)}) # First(S)
  <1> DEFINE a == First(S)
  <1>. HIDE DEF a
  <1>1. /\ Cardinality(S) \in Nat /\ Cardinality(S \ {a}) \in Nat
        /\ Cardinality(S) = Cardinality(S \ {a}) + One(a \in S)
    BY CardSplit
  <1>2. One(a \in S) <= 1 /\ One(a \in S) \in Nat
    BY DEF One
  <1>3. Cardinality({}) = 0
    BY FS_EmptySet
  <1>4. S # {} /\ S \ {a} # {}
    <2>1. Cardinality(S) # 0 /\ Cardinality(S \ {a}) # 0
      BY <1>1, <1>2
    <2>. QED
      BY <1>3, <2>1
  <1>5. a \in S
    BY <1>4, FirstIn DEF a
  <1>6. First(S \ {a}) \in S \ {a}
    <2>1. S \ {a} \subseteq Nat
      OBVIOUS
    <2>. QED
      BY <1>4, <2>1, FirstIn
  <1>. QED
    BY <1>5, <1>6 DEF a

\* What pipe allocates: two files and two descriptors
LEMMA PipeAlloc ==
    ASSUME Inv, NEW p \in Procs, ~(Cardinality(NoFiles) < 2), ~(Cardinality(NoFds(p)) < 2)
    PROVE  LET rf == First(NoFiles)
               wf == First(NoFiles \ {rf})
               fd0 == First(NoFds(p))
               fd1 == First(NoFds(p) \ {fd0})
           IN  /\ rf \in Files /\ wf \in Files /\ rf # wf /\ ftable[rf].ref = 0 /\ ftable[wf].ref = 0
               /\ fd0 \in 1..NOFILE /\ fd1 \in 1..NOFILE /\ fd0 # fd1 /\ ofile[p][fd0] = None /\ ofile[p][fd1] = None
  <1>1. NoFiles \subseteq Nat /\ NoFds(p) \subseteq Nat
    <2>1. NoFiles \subseteq Nat
      BY Numbers DEF NoFiles
    <2>2. NoFds(p) \subseteq Nat
      BY DEF NoFds
    <2>. QED
      BY <2>1, <2>2
  <1>2. IsFiniteSet(NoFiles) /\ IsFiniteSet(NoFds(p))
    <2>1. NoFiles \in SUBSET Files /\ NoFds(p) \in SUBSET (1..NOFILE)
      BY DEF NoFiles, NoFds
    <2>. QED
      BY <2>1, Numbers, Finite, FS_Subset
  <1> DEFINE rf == First(NoFiles)
             wf == First(NoFiles \ {rf})
             fd0 == First(NoFds(p))
             fd1 == First(NoFds(p) \ {fd0})
  <1>3. rf \in NoFiles /\ wf \in NoFiles /\ wf # rf
    BY <1>1, <1>2, FirstTwo
  <1>4. fd0 \in NoFds(p) /\ fd1 \in NoFds(p) /\ fd1 # fd0
    BY <1>1, <1>2, FirstTwo
  <1>. HIDE DEF rf, wf, fd0, fd1
  <1>5. rf \in Files /\ wf \in Files /\ ftable[rf].ref = 0 /\ ftable[wf].ref = 0
    BY <1>3 DEF NoFiles
  <1>6. fd0 \in 1..NOFILE /\ fd1 \in 1..NOFILE /\ ofile[p][fd0] = None /\ ofile[p][fd1] = None
    BY <1>4 DEF NoFds
  <1>. QED
    BY <1>3, <1>4, <1>5, <1>6 DEF rf, wf, fd0, fd1

\* pipe: its two files have one descriptor each, and are the only ends.
LEMMA PipeKeeps ==
    ASSUME Inv, NEW p \in Procs, NEW call \in todo[p], Call(p, call), Pipe(p, call)
    PROVE  Inv'
  <1>1. /\ pr[p].pc = "idle" /\ pr[p].file = None /\ prog' = prog
        /\ DOMAIN todo' = Procs /\ \A o \in Procs : todo'[o] \subseteq prog.todo[o]
    BY IdleCalls
  <1>2. UNCHANGED <<fs, durable, ic, pr>>
    BY DEF Pipe
  <1>3. CASE UNCHANGED <<ftable, ofile, pipe>>
    <2>1. Types'
      BY <1>1, <1>2, <1>3 DEF Inv, Types
    <2>2. Exact'
      <3>1. \A i : FilesOf(i)' = FilesOf(i) /\ Pointers(i)' = Pointers(i) /\ FdsOf(i)' = FdsOf(i)
        BY <1>2, <1>3 DEF FilesOf, Pointers, FdsOf
      <3>. QED
        BY <1>2, <1>3, <3>1 DEF Inv, Pointing, Exact
    <2>3. Tables' /\ (\A q \in Procs : Placed(pr[q]))'
      BY <1>2, <1>3 DEF Inv, Pointing, Tables
    <2>4. Piped'
      BY <1>2, <1>3 DEF Inv, Piped, Closing, EndOpen, IsEnd
    <2>. QED
      BY <1>2, <2>1, <2>2, <2>3, <2>4 DEF Inv, Pointing
  <1>4. CASE ~(Cardinality(NoFiles) < 2 \/ Cardinality(NoFds(p)) < 2 \/ pipe.used)
    <2> DEFINE rf == First(NoFiles)
               wf == First(NoFiles \ {rf})
               fd0 == First(NoFds(p))
               fd1 == First(NoFds(p) \ {fd0})
               R == [NoFile EXCEPT !.ref = 1, !.type = "PIPE"]
               W == [NoFile EXCEPT !.ref = 1, !.type = "PIPE", !.writable = TRUE]
    <2>1. /\ rf \in Files /\ wf \in Files /\ rf # wf /\ ftable[rf].ref = 0 /\ ftable[wf].ref = 0
          /\ fd0 \in 1..NOFILE /\ fd1 \in 1..NOFILE /\ fd0 # fd1 /\ ofile[p][fd0] = None /\ ofile[p][fd1] = None
      BY <1>4, PipeAlloc
    <2>2. /\ ftable' = [ftable EXCEPT ![rf] = R, ![wf] = W]
          /\ ofile' = [ofile EXCEPT ![p][fd0] = rf, ![p][fd1] = wf]
          /\ pipe' = [NoPipe EXCEPT !.used = TRUE, !.readopen = TRUE, !.writeopen = TRUE]
      BY <1>4 DEF Pipe
    <2>3. PICK a \in Files, b \in Files, c \in 1..NOFILE, d \in 1..NOFILE : a = rf /\ b = wf /\ c = fd0 /\ d = fd1
      BY <2>1
    <2>4. /\ a # b /\ ftable[a].ref = 0 /\ ftable[b].ref = 0 /\ c # d /\ ofile[p][c] = None /\ ofile[p][d] = None
          /\ ftable' = [ftable EXCEPT ![a] = R, ![b] = W]
          /\ ofile' = [ofile EXCEPT ![p][c] = a, ![p][d] = b]
      BY <2>1, <2>2, <2>3
    <2>. HIDE DEF rf, wf, fd0, fd1
    <2>5. /\ R \in OpenFiles /\ R.ref = 1 /\ R.type = "PIPE" /\ R.ip = None /\ ~R.writable
          /\ W \in OpenFiles /\ W.ref = 1 /\ W.type = "PIPE" /\ W.ip = None /\ W.writable
      <3>1. None \in Refs /\ 0 \in Int /\ 1 \in Int /\ "PIPE" \in {"NONE", "INODE", "PIPE"}
        BY Numbers
      <3>2. NoFile \in OpenFiles /\ NoFile.ip = None /\ NoFile.writable = FALSE
        <4>1. NoFile.ip = None /\ NoFile.writable = FALSE
          BY DEF NoFile
        <4>. QED
          BY <4>1, NoFileType
      <3>3. R \in OpenFiles /\ R.ref = 1 /\ R.type = "PIPE" /\ R.ip = None /\ ~R.writable
        BY <3>1, <3>2 DEF OpenFiles
      <3>4. W \in OpenFiles /\ W.ref = 1 /\ W.type = "PIPE" /\ W.ip = None /\ W.writable
        BY <3>1, <3>2 DEF OpenFiles
      <3>. QED
        BY <3>3, <3>4
    <2>. HIDE DEF R, W
    <2>6. /\ ftable' \in [Files -> OpenFiles] /\ ftable'[a] = R /\ ftable'[b] = W
          /\ \A g \in Files : g # a /\ g # b => ftable'[g] = ftable[g]
      <3>1. ftable \in [Files -> OpenFiles]
        BY DEF Inv, Types
      <3>. QED
        BY <2>4, <2>5, <3>1
    <2>7. /\ ofile' \in [Procs -> [1..NOFILE -> Files \cup {None}]] /\ ofile'[p][c] = a /\ ofile'[p][d] = b
          /\ \A q \in Procs : \A e \in 1..NOFILE : (q # p \/ (e # c /\ e # d)) => ofile'[q][e] = ofile[q][e]
      <3>1. ofile \in [Procs -> [1..NOFILE -> Files \cup {None}]]
        BY DEF Inv, Types
      <3> DEFINE y == [ofile[p] EXCEPT ![c] = a, ![d] = b]
      <3>2. /\ y \in [1..NOFILE -> Files \cup {None}] /\ y[c] = a /\ y[d] = b
            /\ \A e \in 1..NOFILE : e # c /\ e # d => y[e] = ofile[p][e]
        BY <2>4, <3>1
      <3>3. ofile' = [ofile EXCEPT ![p] = y]
        BY <2>4, <3>1
      <3>. HIDE DEF y
      <3>4. ofile' \in [Procs -> [1..NOFILE -> Files \cup {None}]] /\ ofile'[p] = y /\ \A q \in Procs \ {p} : ofile'[q] = ofile[q]
        BY <3>1, <3>2, <3>3
      <3>. QED
        BY <3>2, <3>4
    <2>8. /\ pipe' \in Pipes /\ pipe'.used /\ pipe'.readopen /\ pipe'.writeopen
          /\ pipe'.nread = 0 /\ pipe'.nwrite = 0 /\ pipe'.got = <<>>
      <3>1. NoPipe \in Pipes /\ NoPipe.nread = 0 /\ NoPipe.nwrite = 0 /\ NoPipe.got = <<>>
        <4>1. NoPipe.nread = 0 /\ NoPipe.nwrite = 0 /\ NoPipe.got = <<>>
          BY DEF NoPipe
        <4>. QED
          BY <4>1, NoPipeType
      <3>. QED
        BY <2>2, <3>1 DEF Pipes
    <2>9. /\ \A q \in Procs : pr[q].file # a /\ pr[q].file # b
          /\ \A q \in Procs : \A e \in 1..NOFILE : ofile[q][e] # a /\ ofile[q][e] # b
          /\ ftable[a] = NoFile /\ ftable[b] = NoFile
      BY <2>4, FreeFile
    <2>10. Types'
      BY <1>1, <1>2, <2>6, <2>7, <2>8 DEF Inv, Types
    <2>11. ASSUME NEW g \in Files PROVE ftable'[g].ref = Cardinality(FdsOf(g)')
      <3> DEFINE B == {v \in Fds : ofile'[v[1]][v[2]] = g}
      <3>1. B = FdsOf(g)'
        BY DEF FdsOf
      <3>2. CASE g = a
        <4>1. \A q \in Procs : \A e \in 1..NOFILE : ofile'[q][e] = a <=> q = p /\ e = c
          BY <2>4, <2>7, <2>9
        <4>2. B = {<<p, c>>}
          BY <3>2, <4>1 DEF Fds
        <4>. HIDE DEF B
        <4>. QED
          BY <2>5, <2>6, <3>1, <3>2, <4>2, FS_Singleton
      <3>3. CASE g = b
        <4>1. \A q \in Procs : \A e \in 1..NOFILE : ofile'[q][e] = b <=> q = p /\ e = d
          BY <2>4, <2>7, <2>9
        <4>2. B = {<<p, d>>}
          BY <3>3, <4>1 DEF Fds
        <4>. HIDE DEF B
        <4>. QED
          BY <2>5, <2>6, <3>1, <3>3, <4>2, FS_Singleton
      <3>4. CASE g # a /\ g # b
        <4>1. \A q \in Procs : \A e \in 1..NOFILE : ofile'[q][e] = g <=> ofile[q][e] = g
          BY <2>4, <2>7, <3>4, Numbers
        <4>2. B = FdsOf(g)
          BY <4>1 DEF Fds, FdsOf
        <4>3. ftable[g].ref = Cardinality(FdsOf(g))
          BY DEF Inv, Pointing, Exact
        <4>. HIDE DEF B
        <4>. QED
          BY <2>6, <3>1, <3>4, <4>2, <4>3
      <3>. QED
        BY <3>2, <3>3, <3>4
    <2>12. ASSUME NEW i \in Inums PROVE ic'[i].ref = Cardinality(FilesOf(i)') + Cardinality(Pointers(i)')
      <3>1. \A g \in Files : (ftable'[g].ref > 0 /\ ftable'[g].ip = i) <=> (ftable[g].ref > 0 /\ ftable[g].ip = i)
        <4>1. None # i
          BY Numbers
        <4>2. ~(0 > 0)
          OBVIOUS
        <4>. QED
          BY <2>4, <2>5, <2>6, <4>1, <4>2
      <3>2. FilesOf(i)' = FilesOf(i)
        BY <3>1 DEF FilesOf
      <3>3. Pointers(i)' = Pointers(i)
        BY <1>2 DEF Pointers
      <3>. QED
        BY <1>2, <3>2, <3>3 DEF Inv, Pointing, Exact
    <2>13. Exact'
      BY <2>11, <2>12 DEF Exact
    <2>14. Tables'
      <3>1. ASSUME NEW g \in Files
            PROVE  /\ ftable'[g].ref = 0 => ftable'[g] = NoFile
                   /\ ftable'[g].type = "INODE" <=> ftable'[g].ip # None
                   /\ (ftable'[g].ref # 0 /\ ftable'[g].type = "NONE") => \E q \in Procs : pr'[q].file = g
        <4>1. CASE g = a \/ g = b
          BY <2>5, <2>6, <4>1
        <4>2. CASE ~(g = a \/ g = b)
          BY <1>2, <2>6, <4>2 DEF Inv, Pointing, Tables
        <4>. QED
          BY <4>1, <4>2
      <3>2. ASSUME NEW q \in Procs, pr'[q].file # None
            PROVE  /\ ftable'[pr'[q].file].type = "NONE" /\ ftable'[pr'[q].file].ref # 0
                   /\ \A o \in Procs : \A e \in 1..NOFILE : ofile'[o][e] = pr'[q].file => o = q
        <4>1. pr[q].file \in Files \cup {None} /\ pr'[q] = pr[q]
          BY <1>2, Facts
        <4>2. pr[q].file \in Files /\ pr[q].file # a /\ pr[q].file # b
          BY <2>9, <3>2, <4>1
        <4>3. /\ ftable[pr[q].file].type = "NONE" /\ ftable[pr[q].file].ref # 0
              /\ \A o \in Procs : \A e \in 1..NOFILE : ofile[o][e] = pr[q].file => o = q
          BY <3>2, <4>1 DEF Inv, Pointing, Tables
        <4>. QED
          BY <2>6, <2>7, <4>1, <4>2, <4>3
      <3>3. \A q, o \in Procs : pr'[q].file # None /\ pr'[q].file = pr'[o].file => q = o
        BY <1>2 DEF Inv, Pointing, Tables
      <3>4. ASSUME NEW q \in Procs, pr'[q].pc \in {"read", "write"}
            PROVE  ofile'[q][pr'[q].call.fd] # None /\ ftable'[ofile'[q][pr'[q].call.fd]].type = "INODE"
        <4>1. q # p /\ pr'[q] = pr[q]
          BY <1>1, <1>2, <3>4
        <4>2. /\ pr[q].call.fd \in 1..NOFILE /\ ofile[q][pr[q].call.fd] \in Files
              /\ ftable[ofile[q][pr[q].call.fd]].type = "INODE"
          BY <3>4, <4>1, Reading
        <4> DEFINE e == pr[q].call.fd
                   g == ofile[q][e]
        <4>3. ofile'[q][e] = g /\ g \in Files /\ g # a /\ g # b /\ ftable[g].type = "INODE" /\ g # None
          BY <2>7, <2>9, <4>1, <4>2, Numbers
        <4>4. pr'[q].call.fd = e
          BY <4>1
        <4>. HIDE DEF e, g
        <4>5. ftable'[g].type = "INODE"
          BY <2>6, <4>3
        <4>. QED
          BY <4>3, <4>4, <4>5
      <3>. QED
        BY <3>1, <3>2, <3>3, <3>4 DEF Tables
    <2>15. Content'
      <3>1. <<>> = [i \in 1..0 |-> i]
        OBVIOUS
      <3>. QED
        BY <2>8, <3>1, FsAssumption DEF Content
    <2>16. Ends'
      <3>1. /\ \A e \in {"readopen", "writeopen"} : ~EndOpen(e) /\ Closing(e) = {}
            /\ \A g \in Files : \A e \in {"readopen", "writeopen"} : ~IsEnd(g, e)
        <4>1. Ends
          BY PipedParts DEF Inv
        <4>2. ~pipe.used
          BY <1>4
        <4>3. \A e \in {"readopen", "writeopen"} : ~EndOpen(e)
          BY <4>1, <4>2 DEF Ends, EndOpen
        <4>. QED
          BY <4>1, <4>3 DEF Ends
      <3>2. \A e \in {"readopen", "writeopen"} : EndOpen(e)' /\ Closing(e)' = {}
        <4>1. \A e \in {"readopen", "writeopen"} : Closing(e)' = Closing(e)
          BY <1>2 DEF Closing
        <4>. QED
          BY <2>8, <3>1, <4>1 DEF EndOpen
      <3>3. \A g \in Files : /\ IsEnd(g, "readopen")' => g = a
                             /\ IsEnd(g, "writeopen")' => g = b
        <4>1. \A g \in Files : g # a /\ g # b => (\A e \in {"readopen", "writeopen"} : IsEnd(g, e)' = IsEnd(g, e))
          BY <2>6 DEF IsEnd
        <4>2. ~IsEnd(a, "writeopen")' /\ ~IsEnd(b, "readopen")'
          BY <2>5, <2>6 DEF IsEnd
        <4>. QED
          BY <3>1, <4>1, <4>2
      <3>4. pipe'.used /\ pipe'.readopen
        BY <2>8
      <3>. QED
        BY <3>2, <3>3, <3>4 DEF Ends
    <2>17. Piped'
      BY <2>15, <2>16 DEF Piped, Content, Ends
    <2>18. (\A q \in Procs : Placed(pr[q]))'
      BY <1>2 DEF Inv, Pointing
    <2>19. Bitmap(fs') /\ Bitmap(durable')
      BY <1>2 DEF Inv
    <2>. QED
      BY <2>10, <2>13, <2>14, <2>17, <2>18, <2>19 DEF Inv, Pointing
  <1>. QED
    BY <1>3, <1>4 DEF Pipe

-----------------------------------------------------------------------------
(* The theorems *)

\* Every step of a call keeps the invariant.
LEMMA StepKeeps ==
    ASSUME Inv, NEW p \in Procs, Step(p)
    PROVE  Inv'
  <1>1. ASSUME InodeStep(p) \/ Stopped PROVE Inv'
    BY <1>1, InodeStepIsCallStep, CallStepKeeps, StoppedKeeps
  <1>2. ASSUME CallStep(p) \/ Stopped PROVE Inv'
    BY <1>2, CallStepKeeps, StoppedKeeps
  <1>3. CASE iput(p) \/ Drop(p) \/ WalkStep(p) \/ Walked(p) \/ NotFound(p)
    BY <1>1, <1>3, iputKeeps, DropKeeps, WalkStepKeeps, WalkedKeeps, NotFoundKeeps
  <1>4. CASE Open(p) \/ Create(p) \/ Exists(p) \/ UnlockPut(p)
    BY <1>1, <1>4, OpenKeeps, CreateKeeps, ExistsKeeps, UnlockPutKeeps
  <1>5. CASE fdalloc(p)
    BY <1>1, <1>5, fdallocFails, fdallocKeeps
  <1>6. CASE EndOp(p)
    BY <1>2, <1>6, EndOpPlain, EndOpOpens
  <1>7. CASE Unlink(p) \/ Remove(p) \/ UnlinkBad(p) \/ Uncount(p)
    BY <1>1, <1>7, UnlinkKeeps, RemoveKeeps, UnlinkBadKeeps, UncountKeeps
  <1>8. CASE Link(p) \/ Enter(p) \/ EnterBad(p) \/ Linked(p) \/ Bad(p)
    BY <1>1, <1>8, LinkKeeps, EnterKeeps, EnterBadKeeps, LinkedKeeps, BadKeeps
  <1>9. CASE Read(p) \/ Write(p)
    BY <1>2, <1>9, ReadKeeps, WriteKeeps
  <1>10. CASE pipewrite(p) \/ piperead(p) \/ pipeclose(p)
    BY <1>10, pipewriteKeeps, pipereadKeeps, pipecloseKeeps
  <1>. QED
    BY <1>3, <1>4, <1>5, <1>6, <1>7, <1>8, <1>9, <1>10 DEF Step

\* So does the start of every call.
LEMMA CallKeeps ==
    ASSUME Inv, NEW p \in Procs, NEW call \in todo[p], Call(p, call)
    PROVE  Inv'
  <1>1. CASE StartPath(p, call) /\ UNCHANGED pipe
    BY <1>1, StartPathKeeps, CallStepKeeps
  <1>2. CASE Dup(p, call) /\ UNCHANGED pipe
    BY <1>2, DupKeeps
  <1>3. CASE Close(p, call) /\ UNCHANGED pipe
    BY <1>3, CloseOne, CloseLast
  <1>4. CASE StartRead(p, call) /\ UNCHANGED pipe
    BY <1>4, StartReadKeeps, CallStepKeeps
  <1>5. CASE StartWrite(p, call) /\ UNCHANGED pipe
    BY <1>5, StartWriteKeeps, CallStepKeeps
  <1>6. CASE Pipe(p, call) \/ Fork(p, call)
    BY <1>6, PipeKeeps, ForkKeeps
  <1>. QED
    BY <1>1, <1>2, <1>3, <1>4, <1>5, <1>6 DEF Call

\* The invariant holds in every state.
THEOREM FsInductive == Spec => []Inv
  <1>1. Init => Inv
    BY InitGood
  <1>2. Inv /\ [Next]_vars => Inv'
    <2>1. SUFFICES ASSUME Inv, [Next]_vars PROVE Inv'
      OBVIOUS
    <2>2. CASE Crash
      BY <2>1, <2>2, CrashKeeps
    <2>3. ASSUME NEW p \in Procs, Step(p) PROVE Inv'
      BY <2>1, <2>3, StepKeeps
    <2>4. ASSUME NEW p \in Procs, NEW call \in todo[p], Call(p, call) PROVE Inv'
      BY <2>1, <2>4, CallKeeps
    <2>5. CASE UNCHANGED vars
      <3>1. Stopped
        BY <2>5 DEF vars, Stopped
      <3>. QED
        BY <2>1, <3>1, StoppedKeeps
    <2>. QED
      BY <2>1, <2>2, <2>3, <2>4, <2>5 DEF Next
  <1>. QED
    BY <1>1, <1>2, PTL DEF Spec

\* A sequence without repetitions is as long as the set of its elements is big.
LEMMA Distinct ==
    ASSUME NEW S, NEW s \in Seq(S), \A k, l \in 1..Len(s) : s[k] = s[l] => k = l
    PROVE  Cardinality({s[k] : k \in DOMAIN s}) = Len(s)
  <1> DEFINE n == Len(s)
             T == {s[k] : k \in DOMAIN s}
             b == [k \in 1..n |-> s[k]]
  <1>1. n \in Nat /\ DOMAIN s = 1..n
    OBVIOUS
  <1>2. IsFiniteSet(1..n) /\ Cardinality(1..n) = n
    <2>. HIDE DEF n
    <2>1. IsFiniteSet(1..n) /\ Cardinality(1..n) = IF 1 > n THEN 0 ELSE n - 1 + 1
      BY <1>1, FS_Interval
    <2>. QED
      BY <1>1, <2>1
  <1>3. b \in [1..n -> T] /\ \A k \in 1..n : b[k] = s[k]
    BY <1>1
  <1>4. (\A k, l \in 1..n : b[k] = b[l] => k = l) /\ \A t \in T : \E k \in 1..n : b[k] = t
    BY <1>1, <1>3
  <1>. HIDE DEF b, T, n
  <1>5. b \in Bijection(1..n, T)
    BY <1>3, <1>4, Fun_IsBij
  <1>6. ExistsBijection(1..n, T)
    BY <1>5 DEF ExistsBijection
  <1>7. Cardinality(T) = Cardinality(1..n)
    BY <1>2, <1>6, FS_Bijection
  <1>. QED
    BY <1>2, <1>7 DEF T, n

\* From the invariant: the bitmap of the durable disk
LEMMA BlocksFollow == Inv => BlocksMatch
  <1>1. SUFFICES ASSUME Inv PROVE BlocksMatch
    OBVIOUS
  <1>2. durable \in Disks /\ Bitmap(durable)
    BY <1>1 DEF Inv, Types
  <1>3. ASSUME NEW i \in Inums PROVE Cardinality(BlocksOf(durable, i)) = Len(durable.di[i].blks)
    <2> DEFINE s == durable.di[i].blks
    <2>1. s \in Seq(1..NBlocks)
      BY <1>2 DEF Disks, Inodes
    <2>2. \A k, l \in 1..Len(s) : s[k] = s[l] => k = l
      BY <1>2 DEF Bitmap
    <2>3. BlocksOf(durable, i) = {s[k] : k \in DOMAIN s}
      BY DEF BlocksOf
    <2>. HIDE DEF s
    <2>4. Cardinality({s[k] : k \in DOMAIN s}) = Len(s)
      BY <2>1, <2>2, Distinct
    <2>. QED
      BY <2>3, <2>4 DEF s
  <1>. QED
    BY <1>2, <1>3 DEF Bitmap, BlocksMatch

\* From the invariant: the reference counts
LEMMA RefsFollow == Inv => RefsMatch
  <1>1. SUFFICES ASSUME Inv PROVE RefsMatch
    OBVIOUS
  <1>2. \A i : Holds(i) = Cardinality(FilesOf(i)) + Cardinality(Pointers(i))
    BY DEF Holds, FilesOf, Pointers, Five
  <1>3. \A f : FdsOf(f) = {d \in Procs \X (1..NOFILE) : ofile[d[1]][d[2]] = f}
    BY DEF FdsOf, Fds
  <1>4. Exact
    BY <1>1 DEF Inv, Pointing
  <1>. QED
    BY <1>2, <1>3, <1>4 DEF RefsMatch, Exact

\* From the invariant: what the pipe promises
LEMMA PipeFollows == Inv => PipeDelivers
  <1>1. SUFFICES ASSUME Inv PROVE PipeDelivers
    OBVIOUS
  <1>2. pipe.nread \in Nat /\ pipe.nwrite \in Nat /\ PIPESIZE \in Nat
    BY <1>1, FsAssumption DEF Inv, Types, Pipes
  <1>3. Content /\ Ends
    BY <1>1, PipedParts DEF Inv
  <1>4. pipe.nwrite - pipe.nread \in 0..PIPESIZE
    BY <1>2, <1>3 DEF Content
  <1>5. \A k \in pipe.nread..(pipe.nwrite - 1) : pipe.data[k % PIPESIZE] = k + 1
    <2>1. \A k \in pipe.nread..(pipe.nwrite - 1) : k \in Nat /\ pipe.nread <= k /\ k < pipe.nwrite
      BY <1>2
    <2>. QED
      BY <1>3, <2>1 DEF Content
  <1>6. (End(TRUE) => pipe.writeopen) /\ (End(FALSE) => pipe.readopen)
    <2>1. End(TRUE) => \E f \in Files : IsEnd(f, "writeopen")
      BY DEF End, IsEnd
    <2>2. End(FALSE) => \E f \in Files : IsEnd(f, "readopen")
      BY DEF End, IsEnd
    <2>3. \A f \in Files : \A e \in {"readopen", "writeopen"} : IsEnd(f, e) => EndOpen(e)
      BY <1>3 DEF Ends
    <2>. QED
      BY <2>1, <2>2, <2>3 DEF EndOpen
  <1>7. pipe.used <=> pipe.readopen \/ pipe.writeopen
    BY <1>3 DEF Ends
  <1>8. pipe.got = [i \in 1..pipe.nread |-> i]
    BY <1>3 DEF Content
  <1>. QED
    BY <1>4, <1>5, <1>6, <1>7, <1>8 DEF PipeDelivers

\* Whatever moment a crash picks, the bitmap of the disk marks exactly the blocks of
\* the inodes, and each is in one inode and there once: balloc, bmap and itrunc lose
\* no block and share none, in whatever order the calls run.
THEOREM FsBlocksMatch == Spec => []BlocksMatch
  BY FsInductive, BlocksFollow, PTL

\* The reference count of every inode is the number of pointers to it, in open files
\* and in the variables of calls, and that of every file the number of its
\* descriptors: no iget, iput, filedup or fileclose is missing or done twice.
THEOREM FsRefsMatch == Spec => []RefsMatch
  BY FsInductive, RefsFollow, PTL

\* What was written to a pipe is read from it, once and in order; and an end counts
\* as open as long as a file refers to it.
THEOREM FsPipeDelivers == Spec => []PipeDelivers
  BY FsInductive, PipeFollows, PTL
=============================================================================
