-------------------------------- MODULE Wfs --------------------------------
(***************************************************************************)
(* The FUSE file system of cs537/P7 (wfs.c) on a disk made by mkfs.c.      *)
(*                                                                         *)
(* fs is the disk image.  A data block is an array of CELLS cells that the *)
(* code reads as directory entries, block pointers or file data, depending *)
(* on whose block it is; a cell is a record so that one block can be read  *)
(* in all three ways.  A block is named by its number, 1 and up; 0 is a    *)
(* null pointer.  File sizes and offsets count cells.                      *)
(*                                                                         *)
(* The program runs single-threaded (-s), so a callback is one step.  The  *)
(* kernel calls a callback only after its own lookups, which are calls of  *)
(* getattr: the action guards say so.  Modes always allow writing.         *)
(***************************************************************************)
EXTENDS Integers, Sequences, SequencesExt, FiniteSetsExt

CONSTANTS Paths,      \* the paths users name: non-empty sequences of names
          Values,     \* what users write
          num_inodes, num_data_blocks, D_BLOCK, CELLS,
          MaxSize,    \* bound on file sizes
          RemoveUsed  \* whether users remove directories that have had an
                      \* entry and files that have reached the indirect block

ASSUME WfsAssumption ==
    /\ num_inodes \in Nat \ {0} /\ num_data_blocks \in Nat
    /\ D_BLOCK \in Nat \ {0} /\ CELLS \in Nat \ {0} /\ MaxSize \in Nat
    /\ RemoveUsed \in BOOLEAN

IND_BLOCK == D_BLOCK + 1
N_BLOCKS == IND_BLOCK + 1

Inodes == 0..(num_inodes - 1)
Blocks == 1..num_data_blocks
NoName == ""
NULL == -1

cell(n) == [name |-> NoName, num |-> n]
Zeroed == [c \in 0..(CELLS - 1) |-> cell(0)]

VARIABLES fs,
          view  \* what getattr and read say of it, taken anew after every step

vars == <<fs, view>>

Tree == INSTANCE FileTree WITH files <- view

----------------------------------------------------------------------------
(* Looking up *)

\* the k-th directory entry of a directory
dentry(f, dir, k) ==
    LET b == f.inode[dir].blocks[k \div CELLS] IN
    IF b = 0 THEN cell(0) ELSE f.block[b][k % CELLS]

\* the entries with a name in the first n blocks
entriesNamed(f, dir, n, name) ==
    {k \in 0..(n * CELLS - 1) : dentry(f, dir, k).name = name}

\* The walk stops at the first component that is called like the last one, and
\* goes on from where it is when a component is missing.
path2inode(f, path) ==
    LET walk(at, name) ==
            LET hits == entriesNamed(f, at.ino, N_BLOCKS, name) IN
            IF at.final THEN at
            ELSE IF hits = {} THEN [at EXCEPT !.found = FALSE]
            ELSE [ino |-> dentry(f, at.ino, Min(hits)).num, found |-> TRUE,
                  final |-> name = Last(path)]
        end == FoldLeft(walk, [ino |-> 0, found |-> FALSE, final |-> FALSE], path)
    IN  IF path = <<>> THEN 0
        ELSE IF end.found /\ end.final /\ end.ino \in f.ibitmap THEN end.ino ELSE NULL

isDirectory(f, ino) == ino # NULL /\ f.inode[ino].mode = "dir"
isRegular(f, ino) == ino # NULL /\ f.inode[ino].mode = "file"

\* the kernel's walk: getattr of each prefix, which must be a directory, and of
\* the path itself
lookup(f, path) ==
    IF \A n \in 1..(Len(path) - 1) : isDirectory(f, path2inode(f, SubSeq(path, 1, n)))
    THEN path2inode(f, path) ELSE NULL

readdir(f, ino) ==
    {dentry(f, ino, k).name : k \in {j \in 0..(N_BLOCKS * CELLS - 1) : dentry(f, ino, j).num # 0}}

----------------------------------------------------------------------------
(* Blocks *)

\* the first free block, or -ENOSPC; the caller sets the bit
allocateDataBlock(f) ==
    LET free == Blocks \ f.dbitmap IN
    IF free = {} THEN NULL ELSE Min(free)

Allocated(f, b) == [f EXCEPT !.dbitmap = @ \cup {b}]

Freed(f, bs) == [f EXCEPT !.dbitmap = @ \ bs]
Wiped(f, bs) == [f EXCEPT !.block = [b \in Blocks |-> IF b \in bs THEN Zeroed ELSE @[b]]]

\* the block that holds the block_index-th block of a file, with the disk after
\* allocating what was missing
get_block_ptr(f, ino, block_index, allocate) ==
    LET blocks == f.inode[ino].blocks
        new == allocateDataBlock(f)
        k == block_index - D_BLOCK
        withInd == IF blocks[IND_BLOCK] # 0 \/ ~allocate \/ new = NULL THEN f
                   ELSE Wiped([Allocated(f, new) EXCEPT !.inode[ino].blocks[IND_BLOCK] = new], {new})
        ind == withInd.inode[ino].blocks[IND_BLOCK]
        ptr == withInd.block[ind][k].num
        new2 == allocateDataBlock(withInd)
    IN  IF block_index < D_BLOCK
        THEN IF blocks[block_index] # 0 THEN [fs |-> f, ptr |-> blocks[block_index]]
             ELSE IF ~allocate \/ new = NULL THEN [fs |-> f, ptr |-> NULL]
             ELSE [fs |-> [Allocated(f, new) EXCEPT !.inode[ino].blocks[block_index] = new],
                   ptr |-> new]
        ELSE IF k >= CELLS THEN [fs |-> f, ptr |-> NULL]
        ELSE IF ind = 0 THEN [fs |-> f, ptr |-> NULL]
        ELSE IF ptr # 0 \/ ~allocate THEN [fs |-> withInd, ptr |-> ptr]
        ELSE IF new2 = NULL THEN [fs |-> withInd, ptr |-> NULL]
        ELSE [fs |-> [Allocated(withInd, new2) EXCEPT !.block[ind][k].num = new2], ptr |-> new2]

\* What read finds at an offset of a file: an error where the block is missing,
\* the superblock where the indirect block has no pointer.
readAt(f, ino, offset) ==
    LET ptr == get_block_ptr(f, ino, offset \div CELLS, FALSE).ptr IN
    IF ptr = NULL THEN Tree!Eio
    ELSE IF ptr = 0 THEN Tree!SuperBlock
    ELSE f.block[ptr][offset % CELLS].num

Contents(f, ino) ==
    IF isDirectory(f, ino) THEN <<>>
    ELSE SubSeq([i \in 1..MaxSize |-> readAt(f, ino, i - 1)], 1, f.inode[ino].size)

View(f) ==
    {[path |-> p, kind |-> f.inode[lookup(f, p)].mode, data |-> Contents(f, lookup(f, p))] :
        p \in {q \in Paths \cup {<<>>} : lookup(f, q) # NULL}}

\* mkfs: everything zero but the root's inode (the data blocks, which mkfs does
\* not write, because the image file is made of zeros)
Init ==
    /\ fs = [ibitmap |-> {0}, dbitmap |-> {},
             inode |-> [i \in Inodes |->
                 [mode |-> IF i = 0 THEN "dir" ELSE "none", size |-> IF i = 0 THEN CELLS ELSE 0,
                  blocks |-> [b \in 0..(N_BLOCKS - 1) |-> 0]]],
             block |-> [b \in Blocks |-> Zeroed]]
    /\ view = View(fs)

\* a callback ends with the disk in state new
Becomes(new) == \E f \in {new} : fs' = f /\ view' = View(f)

----------------------------------------------------------------------------
(* Creating *)

\* the first free entry, in a new block if the blocks before it are full
addDirectoryEntry(f, dir, name, num) ==
    LET free == {k \in 0..(N_BLOCKS * CELLS - 1) : dentry(f, dir, k).num = 0}
        k == Min(free)
        b == f.inode[dir].blocks[k \div CELLS]
        new == allocateDataBlock(f)
        entry == [name |-> name, num |-> num]
    IN  IF free = {} THEN f
        ELSE IF b # 0 THEN [f EXCEPT !.block[b][k % CELLS] = entry]
        ELSE IF new = NULL THEN f
        ELSE [Allocated(f, new) EXCEPT !.inode[dir].blocks[k \div CELLS] = new,
                                       !.block[new][0] = entry]

\* Variant: the size is not reset.
createKeepsSize(f, path, mode) ==
    LET free == Inodes \ f.ibitmap  num == Min(free) IN
    IF free = {} THEN f
    ELSE addDirectoryEntry([f EXCEPT !.ibitmap = @ \cup {num}, !.inode[num].mode = mode],
                           path2inode(f, Front(path)), Last(path), num)

\* An inode is reserved before the entry is added, and stays reserved when the
\* entry cannot be added; its blocks are not touched.
createNewEntry(f, path, mode) ==
    LET free == Inodes \ f.ibitmap  num == Min(free) IN
    IF free = {} THEN f
    ELSE addDirectoryEntry([f EXCEPT !.ibitmap = @ \cup {num}, !.inode[num].mode = mode,
                                     !.inode[num].size = 0],
                           path2inode(f, Front(path)), Last(path), num)

mknod(path) ==
    /\ isDirectory(fs, lookup(fs, Front(path))) /\ lookup(fs, path) = NULL
    /\ Becomes(createNewEntry(fs, path, "file"))

mkdir(path) ==
    /\ isDirectory(fs, lookup(fs, Front(path))) /\ lookup(fs, path) = NULL
    /\ Becomes(createNewEntry(fs, path, "dir"))

----------------------------------------------------------------------------
(* Removing *)

direct(f, ino) == {f.inode[ino].blocks[i] : i \in 0..(D_BLOCK - 1)} \ {0}

indirect(f, ino) ==
    LET ind == f.inode[ino].blocks[IND_BLOCK] IN
    IF ind = 0 THEN {} ELSE {ind} \cup ({f.block[ind][k].num : k \in 0..(CELLS - 1)} \ {0})

\* Variant: the pointers to the freed blocks stay.
releaseKeepsPointers(f, ino) ==
    LET bs == direct(f, ino) \cup indirect(f, ino) IN Wiped(Freed(f, bs), bs)

\* direct pointers are reset, the pointer to the indirect block is not
releaseDataBlocks(f, ino) ==
    LET bs == direct(f, ino) \cup indirect(f, ino) IN
    [Wiped(Freed(f, bs), bs) EXCEPT
        !.inode[ino].blocks = [i \in 0..(N_BLOCKS - 1) |-> IF i < D_BLOCK THEN 0 ELSE @[i]]]

\* Variant: the entry stays, only the inode is given back.
removeInodeOnly(f, path, ino) == [f EXCEPT !.ibitmap = @ \ {ino}]

\* removeDirectoryEntry looks at the direct blocks only; the inode is given back
\* if it finds the entry
removeEntryAndInode(f, path, ino) ==
    LET dir == path2inode(f, Front(path))
        hits == {j \in entriesNamed(f, dir, D_BLOCK, Last(path)) : dentry(f, dir, j).num # 0}
        k == Min(hits)
    IN  IF hits = {} THEN f
        ELSE [f EXCEPT !.block[f.inode[dir].blocks[k \div CELLS]][k % CELLS] = cell(0),
                       !.ibitmap = @ \ {ino}]

unlink(path) ==
    LET ino == path2inode(fs, path) IN
    /\ isRegular(fs, lookup(fs, path))
    /\ RemoveUsed \/ fs.inode[ino].blocks[IND_BLOCK] = 0
    /\ Becomes(removeEntryAndInode(releaseDataBlocks(fs, ino), path, ino))

\* instructions.md: "presume directories are empty".  The directory's blocks
\* are freed; its inode keeps the pointers to them.
rmdir(path) ==
    LET ino == path2inode(fs, path) IN
    /\ isDirectory(fs, lookup(fs, path)) /\ readdir(fs, ino) = {}
    /\ RemoveUsed \/ direct(fs, ino) = {}
    /\ Becomes(removeEntryAndInode(Freed(fs, direct(fs, ino)), path, ino))

----------------------------------------------------------------------------
(* Writing *)

\* one cell of a write; a write that has failed goes no further
writeAt(w, ino, offset, v) ==
    LET got == get_block_ptr(w.fs, ino, offset \div CELLS, TRUE) IN
    IF w.failed THEN w
    ELSE IF got.ptr = NULL THEN [fs |-> got.fs, failed |-> TRUE]
    ELSE [fs |-> [got.fs EXCEPT !.block[got.ptr][offset % CELLS] = cell(v)], failed |-> FALSE]

\* the size grows before the first block is allocated
write(path, offset, size, v) ==
    LET ino == path2inode(fs, path)
        grown == [fs EXCEPT !.inode[ino].size = Max({@, offset + size})]
        after[n \in 0..size] == IF n = 0 THEN [fs |-> grown, failed |-> FALSE]
                                ELSE writeAt(after[n - 1], ino, offset + n - 1, v)
    IN  /\ isRegular(fs, lookup(fs, path)) /\ offset <= fs.inode[ino].size
        /\ offset + size <= MaxSize
        /\ Becomes(after[size].fs)

Next ==
    \E path \in Paths :
        \/ mknod(path) \/ mkdir(path) \/ unlink(path) \/ rmdir(path)
        \/ \E offset \in 0..MaxSize, size \in 1..MaxSize, v \in Values :
              write(path, offset, size, v)

Spec == Init /\ [][Next]_vars

----------------------------------------------------------------------------
(* Properties *)

TypeOK ==
    /\ fs.ibitmap \subseteq Inodes /\ fs.dbitmap \subseteq Blocks
    /\ \A i \in Inodes :
          /\ fs.inode[i].mode \in {"none", "dir", "file"}
          /\ fs.inode[i].size \in 0..MaxSize
          /\ fs.inode[i].blocks \in [0..(N_BLOCKS - 1) -> Blocks \cup {0}]

\* The places of the disk that name a block: the pointers of the inodes in use,
\* and the cells of their indirect blocks.
Refs ==
    LET inInode == {<<i, b>> \in fs.ibitmap \X (0..(N_BLOCKS - 1)) : fs.inode[i].blocks[b] # 0}
        inBlock == {<<i, N_BLOCKS + k>> : i \in {j \in fs.ibitmap : fs.inode[j].mode = "file"
                                                    /\ fs.inode[j].blocks[IND_BLOCK] # 0},
                                          k \in 0..(CELLS - 1)}
    IN  inInode \cup inBlock

Named(r) ==
    IF r[2] < N_BLOCKS THEN fs.inode[r[1]].blocks[r[2]]
    ELSE fs.block[fs.inode[r[1]].blocks[IND_BLOCK]][r[2] - N_BLOCKS].num

\* The data bitmap is exact and no two files share a block: "data blocks should
\* be allocated using the data block bitmap" and freed on removal
\* (instructions.md), through every failed and repeated call.
BlocksOwnedOnce ==
    /\ {Named(r) : r \in Refs} \ {0} = fs.dbitmap
    /\ \A r, s \in Refs : (Named(r) = Named(s) /\ Named(r) # 0) => r = s

\* wfs_readdir lists exactly the names that wfs_getattr finds.
ListingMatchesLookup ==
    \A d \in Paths \cup {<<>>} :
        isDirectory(fs, lookup(fs, d)) =>
            readdir(fs, lookup(fs, d)) =
                {Last(p) : p \in {q \in Paths : Front(q) = d /\ lookup(fs, q) # NULL}}

\* The callbacks implement a tree of files: what is written to a file is what is
\* read from it, no call on one path changes another, a new file is empty, and
\* a failed call loses nothing.
IsFileTree == Tree!Spec

\* The image stays well formed and its data bitmap exact.
ImageSound == TypeOK /\ BlocksOwnedOnce
============================================================================
