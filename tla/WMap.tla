-------------------------------- MODULE WMap --------------------------------
(***************************************************************************)
(* Memory mapping in the xv6 of project P4: wmap, wunmap and wremap        *)
(* (wmap.c), the page-fault case of trap (trap.c), the parts of fork, exit *)
(* and wait that handle mappings (proc.c), the page tables (vm.c) and the  *)
(* physical pages (kalloc.c).                                              *)
(*                                                                         *)
(* A parent (process 1) may fork a child (process 2).  Addresses are       *)
(* counted in units of which PGSIZE make a page; page n holds the          *)
(* addresses n*PGSIZE..n*PGSIZE + PGSIZE - 1 and WMAP_BASE is the start of *)
(* page 1, so that address 0 stays the value of an unused entry.  All the  *)
(* pages lie in the reach of one page-table page (tab: is it allocated?).  *)
(* One file can be mapped; fdata is its contents, a value per page.        *)
(*                                                                         *)
(* The kernel's state is the record k.  A null or wild pointer, a panic    *)
(* and a page freed twice stop the system with k.fault set.                *)
(***************************************************************************)
EXTENDS Integers, Sequences, FiniteSets, SequencesExt

CONSTANTS MAX_VMAPS,  \* entries of proc.vmas
          PGSIZE,     \* addresses per page
          NPages,     \* pages between WMAP_BASE and KERNBASE
          NFrames,    \* physical pages that kalloc can hand out
          FilePages,  \* pages of the file
          Programs    \* the classes of user programs (see ProgramClass)

ASSUME SizesAssumption ==
    /\ MAX_VMAPS \in Nat \ {0} /\ PGSIZE \in Nat \ {0} /\ NPages \in Nat \ {0}
    /\ NFrames \in Nat /\ FilePages \in Nat

VARIABLES k,      \* the kernel: see KernelType
          prog,   \* the class of the programs that run, fixed at the start
          want,   \* history: what each process should see in each page
          lastw   \* history: the value last stored in each page of the file

vars == <<k, prog, want, lastw>>

Procs  == {1, 2}
Pages  == 1..NPages
Frames == 1..NFrames
Slots  == 0..(MAX_VMAPS - 1)
WMAP_BASE == PGSIZE
KERNBASE  == (NPages + 1) * PGSIZE

\* Values of a page: zeroed, stored by a process, the junk kfree leaves, and
\* file data read at an offset inside a page.
Values == {"zero", "file", "w1", "w2", "junk", "shifted"}
Flags  == {"PRIVATE", "SHARED", "ANONYMOUS"}

PageOf(a)    == a \div PGSIZE
PGROUNDUP(a) == PageOf(a + PGSIZE - 1) * PGSIZE
NumPages(length) == (length - 1) \div PGSIZE + 1

Vma == [addr : Nat, end : Nat, length : Int, flags : SUBSET Flags, f : BOOLEAN,
        mapped : BOOLEAN, ref : {0, 1}]
NoVma == [addr |-> 0, end |-> 0, length |-> 0, flags |-> {}, f |-> FALSE,
          mapped |-> FALSE, ref |-> 0]
NoPte == [pa |-> 0, present |-> FALSE]

KernelType ==
    [vmas : [Procs -> [Slots -> Vma]],
     total_vmaps : [Procs -> Int],
     pgtab : [Procs -> [Pages -> [pa : 0..NFrames, present : BOOLEAN]]],
     tab : [Procs -> BOOLEAN],
     freelist : Seq(Frames),
     mem : [Frames -> Values],
     fdata : [1..FilePages -> Values],
     open : [Procs -> BOOLEAN],
     state : [Procs -> {"UNUSED", "RUNNING", "ZOMBIE"}],
     killed : [Procs -> BOOLEAN],
     fault : {"none", "null pte", "double free", "panic: remap", "panic: kfree",
              "panic: ilock", "vmas overrun", "memset of null"}]

(***************************************************************************)
(* What a user program may do; the fields restrict the inputs below.       *)
(* kinds: the flags it passes; lengths; maps and pages: how many mappings  *)
(* and pages it has at a time; forks: may it fork; childMaps: does the     *)
(* child call wmap; calls: the other calls it makes.                       *)
(***************************************************************************)
ProgramClass ==
    [kinds : SUBSET (SUBSET Flags), lengths : SUBSET Nat, maps : Nat,
     pages : Nat, forks : BOOLEAN, childMaps : BOOLEAN,
     calls : SUBSET {"fixed", "remap", "move"}]

ASSUME ProgramsAssumption == Programs \subseteq ProgramClass

-----------------------------------------------------------------------------
(* kalloc.c and vm.c *)

Fails(s, why) == [s EXCEPT !.fault = IF @ = "none" THEN why ELSE @]

\* kfree: fill with junk and push on the free list
kfree(s, pa) ==
    IF \E i \in DOMAIN s.freelist : s.freelist[i] = pa
    THEN Fails(s, "double free")
    ELSE [s EXCEPT !.freelist = <<pa>> \o @, !.mem[pa] = "junk"]

\* Page g of process p gets frame pa.
mappages(s, p, g, pa) ==
    IF g \notin Pages \/ (g \in Pages /\ s.pgtab[p][g].present)
    THEN Fails(s, "panic: remap")
    ELSE [s EXCEPT !.pgtab[p][g] = [pa |-> pa, present |-> TRUE],
                   !.tab[p] = TRUE]

\* kalloc, memset to zero, memmove of v and mappages of page g for process p
kallocAndMap(s, p, g, v) ==
    LET pa == Head(s.freelist)
    IN  mappages([s EXCEPT !.freelist = Tail(@), !.mem[pa] = v], p, g, pa)

\* Without alloc, walkpgdir has an entry to return once the page-table page is
\* there.
walkpgdir(s, p) == s.tab[p]

\* One step of a loop over the pages of a mapping: page g of process p, once
\* walkpgdir has found its entry.
ForPages(s, p, first, n, Body(_, _)) ==
    FoldLeft(LAMBDA t, g : IF ~ walkpgdir(t, p) THEN Fails(t, "null pte") ELSE Body(t, g),
             s, [j \in 1..n |-> first + j - 1])

\* deallocuvm over the user part, called by freevm
freevm(s, p) ==
    [FoldLeft(LAMBDA t, g :
                IF ~ t.pgtab[p][g].present THEN t
                ELSE IF t.pgtab[p][g].pa = 0 THEN Fails(t, "panic: kfree")
                ELSE [kfree(t, t.pgtab[p][g].pa) EXCEPT !.pgtab[p][g] = NoPte],
              s, [g \in 1..NPages |-> g])
     EXCEPT !.tab[p] = FALSE]

-----------------------------------------------------------------------------
(* The table of mappings *)

\* Variant: the removed entry itself stays.
left_shift_late(v, i) ==
    [j \in Slots |-> IF j > i /\ j < MAX_VMAPS - 1 THEN v[j + 1] ELSE v[j]]

\* Entries i+1.. move one place down, the last one stays.
left_shift(v, i) ==
    [j \in Slots |-> IF j >= i /\ j < MAX_VMAPS - 1
                     THEN v[j + 1] ELSE v[j]]

\* Entries i+1..total-1 move one place up; the new entry is at i+1.  The result
\* has no entry when it would be written outside the array.
right_shift_vmas(v, total, i, addr, length) ==
    IF i + 1 >= MAX_VMAPS \/ (total > i + 1 /\ total >= MAX_VMAPS)
    THEN [position |-> -1, vmas |-> v]
    ELSE [position |-> i + 1,
          vmas |-> [[j \in Slots |-> IF j > i + 1 /\ j <= total
                                     THEN v[j - 1] ELSE v[j]]
                    EXCEPT ![i + 1].addr = addr, ![i + 1].length = length]]

\* The difference of addresses is unsigned: a next entry that starts below the
\* end of entry i leaves a huge gap.  (So does the word after the array.)
GapAfter(v, i, size) ==
    LET start == PGROUNDUP(v[i].addr + v[i].length)
    IN  \/ i + 1 = MAX_VMAPS
        \/ PGROUNDUP(v[i + 1].addr) < start
        \/ PGROUNDUP(v[i + 1].addr) - start > size - 1

\* The first index at which the search loop of find_vmap_addr stops
StopAt(v, total, size) ==
    CHOOSE i \in 0..total :
        /\ i = total \/ (i + 1 < MAX_VMAPS /\ v[i + 1].addr = 0) \/ GapAfter(v, i, size)
        /\ \A h \in 0..(i - 1) : v[h + 1].addr # 0 /\ ~ GapAfter(v, h, size)

find_vmap_addr(v, total, size) ==
    IF total = 0
    THEN IF PGROUNDUP(WMAP_BASE + size) >= KERNBASE
         THEN [position |-> -1, vmas |-> v]
         ELSE [position |-> 0, vmas |-> [v EXCEPT ![0].addr = WMAP_BASE,
                                                  ![0].length = size]]
    ELSE IF v[0].addr - WMAP_BASE > size
    THEN right_shift_vmas(v, total, -1, WMAP_BASE, size)
    ELSE LET i    == StopAt(v, total, size)
             addr == PGROUNDUP(v[i].addr + v[i].length)
         IN  IF addr + size > KERNBASE
             THEN [position |-> -1, vmas |-> v]
             ELSE right_shift_vmas(v, total, i, addr, size)

\* What mywmap writes into the entry it chose
Filled(e, length, flags) ==
    [e EXCEPT !.end = e.addr + length, !.length = length, !.flags = flags,
              !.f = "ANONYMOUS" \notin flags, !.mapped = TRUE, !.ref = 0]

-----------------------------------------------------------------------------
(* The system calls: each gives the new kernel state and the address       *)
(* returned, FAILED being -1.                                              *)

FAILED == -1
Failed(s) == [s |-> s, ret |-> FAILED]

Overlaps(e, addr, length) ==
    /\ e.mapped
    /\ \/ addr >= e.addr /\ addr < e.end
       \/ addr + length > e.addr /\ addr + length <= e.end

mywmapFixed(s, p, addr, length, flags) ==
    LET v == s.vmas[p]
        total == s.total_vmaps[p]
        \* where the insertion loop stops: the entries above move one place up
        j == CHOOSE j \in -1..(total - 1) :
                 /\ j = -1 \/ v[j].addr <= addr
                 /\ \A h \in (j + 1)..(total - 1) : v[h].addr > addr
        shifted == [h \in Slots |-> IF h > j + 1 /\ h <= total
                                    THEN v[h - 1] ELSE v[h]]
    IN  IF \/ addr % PGSIZE # 0 \/ addr < WMAP_BASE \/ addr + length > KERNBASE
           \/ \E h \in Slots : Overlaps(v[h], addr, length)
        THEN Failed(s)
        ELSE IF total >= MAX_VMAPS
        THEN [s |-> Fails(s, "vmas overrun"), ret |-> FAILED]
        ELSE [s |-> [s EXCEPT !.total_vmaps[p] = @ + 1,
                              !.vmas[p] = [shifted EXCEPT
                                  ![j + 1] = Filled([@ EXCEPT !.addr = addr], length, flags)]],
              ret |-> addr]

mywmap(s, p, fixed, addr, length, flags) ==
    IF \/ ("PRIVATE" \in flags) = ("SHARED" \in flags)
       \/ \A i \in Slots : s.vmas[p][i].mapped
    THEN Failed(s)
    ELSE IF fixed THEN mywmapFixed(s, p, addr, length, flags)
    ELSE LET r == find_vmap_addr(s.vmas[p], s.total_vmaps[p], length)
         IN  IF r.position = -1
             THEN [s |-> Fails(s, "vmas overrun"), ret |-> FAILED]
             ELSE [s |-> [s EXCEPT !.total_vmaps[p] = @ + 1,
                                   !.vmas[p] = [r.vmas EXCEPT
                                       ![r.position] = Filled(@, length, flags)]],
                   ret |-> r.vmas[r.position].addr]

\* sys_wmap refuses a length that is not positive, and a file that is not open.
sys_wmap(s, p, fixed, addr, length, flags) ==
    IF length <= 0 \/ ("ANONYMOUS" \notin flags /\ ~ s.open[p]) THEN Failed(s)
    ELSE mywmap(s, p, fixed, addr, length, flags)

\* A shared page of the file goes back to it; ilock panics on a closed file.
WriteBack(s, e, j, pa) ==
    IF "ANONYMOUS" \in e.flags \/ "SHARED" \notin e.flags THEN s
    ELSE IF \A p \in Procs : ~ s.open[p] THEN Fails(s, "panic: ilock")
    ELSE IF j > FilePages THEN s
    ELSE [s EXCEPT !.fdata[j] = s.mem[pa]]

IndexOf(v, addr) ==
    LET hits == {i \in Slots : v[i].mapped /\ v[i].addr = addr}
    IN  IF hits = {} THEN -1 ELSE CHOOSE i \in hits : \A h \in hits : i <= h

\* Page g of the mapping e that wunmap removes
ReleasePage(t, p, e, g) ==
    LET pa == t.pgtab[p][g].pa
        t1 == WriteBack(t, e, g - PageOf(e.addr) + 1, pa)
        t2 == IF e.ref = 0 THEN kfree(t1, pa) ELSE t1
    IN  IF pa = 0 THEN t ELSE [t2 EXCEPT !.pgtab[p][g] = NoPte]

mywunmap(s, p, addr) ==
    LET i == IndexOf(s.vmas[p], addr)
        e == s.vmas[p][i]
        Release(t, g) == ReleasePage(t, p, e, g)
    IN  IF i = -1 THEN Failed(s)
        ELSE [s |-> [ForPages(s, p, PageOf(addr), NumPages(e.length), Release)
                     EXCEPT !.vmas[p] = [left_shift(@, i) EXCEPT ![MAX_VMAPS - 1].mapped = FALSE],
                            !.total_vmaps[p] = @ - 1],
              ret |-> 0]

\* Shrinking frees the pages past the new size; their entries lose the present
\* bit and keep the address.
Shrink(s, p, i, newsize) ==
    LET e == s.vmas[p][i]
        keep == NumPages(newsize)
        Release(t, g) ==
            LET pa == t.pgtab[p][g].pa
            IN  IF pa = 0 THEN t
                ELSE [kfree(WriteBack(t, e, g - PageOf(e.addr) + 1, pa), pa)
                      EXCEPT !.pgtab[p][g].present = FALSE]
    IN  [s |-> [ForPages(s, p, PageOf(e.addr) + keep, NumPages(e.length) - keep, Release)
                EXCEPT !.vmas[p][i].length = newsize],
         ret |-> e.addr]

\* The entry is taken out and put in again where newsize fits; the flags of
\* the call replace those of the mapping (MREMAP_MAYMOVE = MAP_PRIVATE).  The
\* pages at the old address, as many as newsize needs, are copied over.
Move(s, p, i, newsize) ==
    LET e == s.vmas[p][i]
        r == find_vmap_addr(left_shift(s.vmas[p], i), s.total_vmaps[p], newsize)
        to == r.vmas[r.position].addr
        v1 == [r.vmas EXCEPT ![r.position] =
                 [@ EXCEPT !.end = to + newsize, !.length = newsize, !.flags = {"PRIVATE"},
                           !.f = e.f, !.mapped = TRUE]]
        Carry(t, g) ==
            LET pa == t.pgtab[p][g].pa
                t1 == kallocAndMap(t, p, PageOf(to) + g - PageOf(e.addr), t.mem[pa])
            IN  IF pa = 0 THEN [t EXCEPT !.pgtab[p][g] = NoPte]
                ELSE IF t.freelist = <<>> THEN Fails(t, "memset of null")
                ELSE [kfree(t1, pa) EXCEPT !.pgtab[p][g] = NoPte]
    IN  IF r.position = -1
        THEN [s |-> Fails(s, "vmas overrun"), ret |-> FAILED]
        ELSE [s |-> ForPages([s EXCEPT !.vmas[p] = [v1 EXCEPT ![MAX_VMAPS - 1].mapped = FALSE]],
                             p, PageOf(e.addr), NumPages(newsize), Carry),
              ret |-> to]

mywremap(s, p, oldaddr, oldsize, newsize, maymove) ==
    LET v == s.vmas[p]
        i == IndexOf(v, oldaddr)
        nextFree == i + 1 < MAX_VMAPS /\ ~ v[i + 1].mapped
        roomFor == i + 1 < MAX_VMAPS /\ oldaddr + newsize < v[i + 1].addr
    IN  IF i = -1 \/ (i # -1 /\ v[i].length # oldsize) \/ newsize <= 0 THEN Failed(s)
        ELSE IF newsize < oldsize THEN Shrink(s, p, i, newsize)
        ELSE IF nextFree \/ roomFor
        THEN [s |-> [s EXCEPT !.vmas[p][i].length = newsize,
                              !.vmas[p][i].end = oldaddr + newsize],
              ret |-> oldaddr]
        ELSE IF maymove THEN Move(s, p, i, newsize)
        ELSE Failed(s)

-----------------------------------------------------------------------------
(* trap.c, proc.c *)

\* The page-fault case of trap for an access to address a
PageFault(s, p, a) ==
    LET v == s.vmas[p]
        hits == {i \in Slots : v[i].mapped /\ v[i].addr <= a /\ v[i].addr + v[i].length >= a}
        i == CHOOSE i \in hits : \A h \in hits : i <= h
        off == a - v[i].addr
        anon == "ANONYMOUS" \in v[i].flags
        data == IF anon \/ off \div PGSIZE + 1 > FilePages THEN "zero"
                ELSE IF off % PGSIZE # 0 THEN "shifted"
                ELSE s.fdata[off \div PGSIZE + 1]
        s1 == kallocAndMap(s, p, PageOf(IF anon THEN a ELSE a + i * PGSIZE), data)
        s2 == IF ~ anon /\ (~ v[i].f \/ \A q \in Procs : ~ s.open[q])
              THEN Fails(s1, "panic: ilock") ELSE s1
    IN  IF hits = {} \/ s.freelist = <<>>
        THEN [s EXCEPT !.killed[p] = TRUE]
        ELSE s2

\* Variant: private pages are shared.
ForkPageShared(t, e, g) ==
    IF t.pgtab[1][g].pa = 0 THEN t ELSE mappages(t, 2, g, t.pgtab[1][g].pa)
\* The loop of fork over the parent's mappings: page g of mapping e
ForkPage(t, e, g) ==
    LET pa == t.pgtab[1][g].pa
    IN  IF "PRIVATE" \notin e.flags THEN mappages(t, 2, g, pa)
        ELSE IF pa = 0 THEN t
        ELSE IF t.freelist = <<>> THEN Fails(t, "memset of null")
        ELSE kallocAndMap(t, 2, g, t.mem[pa])

\* Variant: the child takes part in the ownership of shared pages.
InheritOwner(e) == e

\* The child's entry of a mapping
Inherit(e) == [e EXCEPT !.ref = IF "PRIVATE" \in e.flags THEN @ ELSE 1]

fork(s) ==
    LET n  == s.total_vmaps[1]
        v1 == s.vmas[1]
        s1 == FoldLeft(LAMBDA t, i :
                         ForPages(t, 1, PageOf(v1[i].addr), NumPages(v1[i].length),
                                  LAMBDA u, g : ForkPage(u, v1[i], g)),
                       s, [i \in 1..n |-> i - 1])
    IN  [s1 EXCEPT !.state[2] = "RUNNING", !.open[2] = s.open[1],
                   !.total_vmaps[2] = n,
                   !.vmas[2] = [i \in Slots |-> IF i < n THEN Inherit(v1[i])
                                                ELSE @[i]]]

\* exit forgets the pages of every shared mapping
ForgetShared(s, p) ==
    FoldLeft(LAMBDA t, i :
               IF "SHARED" \notin t.vmas[p][i].flags THEN t
               ELSE ForPages(t, p, PageOf(t.vmas[p][i].addr), NumPages(t.vmas[p][i].length),
                             LAMBDA u, g : [u EXCEPT !.pgtab[p][g] = NoPte]),
             s, [i \in 1..s.total_vmaps[p] |-> i - 1])

\* exit closes the files, then loops over the mappings it counted beforehand
exit(s, p) ==
    [FoldLeft(LAMBDA t, i : IF t.vmas[p][i].ref = 0
                            THEN mywunmap(t, p, t.vmas[p][i].addr).s
                            ELSE ForgetShared(t, p),
              [s EXCEPT !.open[p] = FALSE], [i \in 1..s.total_vmaps[p] |-> i - 1])
     EXCEPT !.state[p] = "ZOMBIE"]

\* wait, by the parent or by init: the mappings stay in the process slot.
wait(s, p) == [freevm(s, p) EXCEPT !.state[p] = "UNUSED", !.killed[p] = FALSE]

-----------------------------------------------------------------------------
(* The system: programs that make these calls, and what they should see.   *)

NoPage == [v |-> "none", file |-> 0, shared |-> FALSE, by |-> 0]

Init ==
    /\ prog \in Programs
    /\ k = [vmas |-> [p \in Procs |-> [i \in Slots |-> NoVma]],
            total_vmaps |-> [p \in Procs |-> 0],
            pgtab |-> [p \in Procs |-> [g \in Pages |-> NoPte]],
            tab |-> [p \in Procs |-> FALSE],
            freelist |-> [i \in 1..NFrames |-> i],
            mem |-> [f \in Frames |-> "junk"],
            fdata |-> [j \in 1..FilePages |-> "file"],
            open |-> [p \in Procs |-> p = 1 /\ \E fl \in prog.kinds : "ANONYMOUS" \notin fl],
            state |-> [p \in Procs |-> IF p = 1 THEN "RUNNING" ELSE "UNUSED"],
            killed |-> [p \in Procs |-> FALSE],
            fault |-> "none"]
    /\ want = [p \in Procs |-> [g \in Pages |-> NoPage]]
    /\ lastw = [j \in 1..FilePages |-> "file"]

Runs(p) == k.fault = "none" /\ k.state[p] = "RUNNING" /\ ~ k.killed[p]
Wanted(p) == {g \in Pages : want[p][g].v # "none"}
Touched(p) == \A g \in Wanted(p) : want[p][g].v # "fresh"
PagesOf(addr, length) == PageOf(addr)..(PageOf(addr) + NumPages(length) - 1)
SafeStart(p, g) == g \in Wanted(p) \/ g - 1 \notin Wanted(p)

\* wmap: the new pages are fresh until they are first accessed.
Wmap(p) ==
    \E fl \in prog.kinds, length \in prog.lengths, g \in Pages,
       fixed \in IF "fixed" \in prog.calls THEN BOOLEAN ELSE {FALSE} :
    LET r == sys_wmap(k, p, fixed, g * PGSIZE, length, fl)
    IN  /\ Runs(p)
        /\ p = 2 => prog.childMaps
        /\ k.total_vmaps[p] < prog.maps
        /\ Cardinality(Wanted(p)) + NumPages(length) <= prog.pages
        /\ IF fixed THEN g <= prog.pages ELSE g = 1
        /\ k' = r.s
        /\ want' = IF r.ret = FAILED THEN want ELSE
             [want EXCEPT ![p] = [h \in Pages |->
                IF h \in PagesOf(r.ret, length)
                THEN [v |-> "fresh", shared |-> "SHARED" \in fl, by |-> p,
                      file |-> IF "ANONYMOUS" \in fl THEN 0 ELSE h - PageOf(r.ret) + 1]
                ELSE @[h]]]
        /\ UNCHANGED <<prog, lastw>>

\* An access to page g, at its start or inside it, when the page is not present
Fault(p) ==
    \E g \in Pages, off \in 0..(PGSIZE - 1) :
        LET w == want[p][g]
            s == PageFault(k, p, g * PGSIZE + off)
        IN  /\ Runs(p) /\ ~ k.pgtab[p][g].present
            /\ w.v # "grown"
            /\ g \notin Wanted(p) => Touched(p)
            /\ off = 0 => SafeStart(p, g)
            /\ off # 0 => w.file = 0
            /\ k' = s
            /\ want' = IF w.v # "fresh" \/ s.killed[p] THEN want
                       ELSE [want EXCEPT ![p][g].v =
                               IF w.file = 0 THEN "zero" ELSE k.fdata[w.file]]
            /\ UNCHANGED <<prog, lastw>>

\* A store to a present page
Store(p) ==
    \E g \in Pages :
        LET w == want[p][g]
            x == IF p = 1 THEN "w1" ELSE "w2"
            Sees(q) == q = p \/ (w.shared /\ want[q][g].shared /\ want[q][g].by = w.by)
        IN  /\ Runs(p) /\ k.pgtab[p][g].present /\ k.pgtab[p][g].pa # 0
            /\ k' = [k EXCEPT !.mem[k.pgtab[p][g].pa] = x]
            /\ want' = [q \in Procs |-> IF Sees(q) THEN [want[q] EXCEPT ![g].v = x]
                                        ELSE want[q]]
            /\ lastw' = IF w.file # 0 /\ w.shared THEN [lastw EXCEPT ![w.file] = x]
                        ELSE lastw
            /\ UNCHANGED prog

\* Callers of wunmap have touched their pages and have no child; a child
\* leaves its parent's mappings alone.
Wunmap(p) ==
    \E g \in Pages :
        LET i == IndexOf(k.vmas[p], g * PGSIZE)
            r == mywunmap(k, p, g * PGSIZE)
        IN  /\ Runs(p) /\ Touched(p)
            /\ want[p][g].by \in {0, p} /\ (p = 1 => k.state[2] = "UNUSED")
            /\ k' = r.s
            /\ want' = IF r.ret = FAILED THEN want ELSE
                 [want EXCEPT ![p] = [h \in Pages |->
                    IF h \in PagesOf(g * PGSIZE, k.vmas[p][i].length) THEN NoPage ELSE @[h]]]
            /\ UNCHANGED <<prog, lastw>>

\* wremap: the pages kept stay as they are, or move to the new address.
Wremap(p) ==
    \E g \in Pages, old \in prog.lengths, new \in prog.lengths,
       maymove \in IF "move" \in prog.calls THEN BOOLEAN ELSE {FALSE} :
        LET r == mywremap(k, p, g * PGSIZE, old, new, maymove)
            to == PageOf(r.ret)
            moved == to # g
            n == NumPages(new)
            added == [want[p][g] EXCEPT !.v = IF moved THEN "grown" ELSE "fresh"]
        IN  /\ Runs(p) /\ Touched(p)
            /\ prog.calls \cap {"remap", "move"} # {}
            /\ Cardinality(Wanted(p)) + n - NumPages(old) <= prog.pages
            /\ k' = r.s
            /\ want' = IF r.ret = FAILED THEN want ELSE
                 [want EXCEPT ![p] = [h \in Pages |->
                    IF h - to \in 0..(n - 1)
                    THEN IF h - to < NumPages(old) THEN @[g + h - to] ELSE added
                    ELSE IF h - g \in 0..(NumPages(old) - 1) THEN NoPage ELSE @[h]]]
            /\ UNCHANGED <<prog, lastw>>

\* fork: all the pages have been touched before.
Fork ==
    /\ Runs(1) /\ prog.forks /\ k.state[2] = "UNUSED"
    /\ k.vmas[2] = [i \in Slots |-> NoVma]
    /\ Touched(1)
    /\ k' = fork(k)
    /\ want' = [want EXCEPT ![2] = [g \in Pages |->
                  IF want[1][g].shared THEN want[1][g] ELSE IF want[1][g] = NoPage THEN NoPage
                  ELSE [want[1][g] EXCEPT !.by = 2]]]
    /\ UNCHANGED <<prog, lastw>>

\* exit, called or forced by killed; the parent exits after the child, and
\* unmaps what it has shared with the file before.
Exit(p) ==
    /\ k.fault = "none" /\ k.state[p] = "RUNNING"
    /\ p = 1 => k.state[2] = "UNUSED"
    /\ Touched(p) \/ k.killed[p]
    /\ \A g \in Pages : want[p][g].file # 0 => ~ want[p][g].shared
    /\ k' = exit(k, p)
    /\ want' = [want EXCEPT ![p] = [g \in Pages |-> NoPage]]
    /\ UNCHANGED <<prog, lastw>>

Wait(p) ==
    /\ k.fault = "none" /\ k.state[p] = "ZOMBIE"
    /\ k' = wait(k, p)
    /\ UNCHANGED <<prog, want, lastw>>

Next ==
    \/ Fork
    \/ \E p \in Procs :
         \/ Wmap(p) \/ Fault(p) \/ Store(p) \/ Wunmap(p) \/ Wremap(p)
         \/ Exit(p) \/ Wait(p)

Spec == Init /\ [][Next]_vars

-----------------------------------------------------------------------------
(* Properties *)

\* The kernel record has its type.
TypeOK ==
    /\ k \in KernelType
    /\ prog \in Programs
    /\ want \in [Procs -> [Pages -> [v : Values \cup {"none", "fresh", "grown"},
                                    file : 0..FilePages, shared : BOOLEAN, by : 0..2]]]
    /\ lastw \in [1..FilePages -> Values]

\* No system call, page fault, fork, exit or wait of these programs makes the
\* kernel follow a null entry, map a page twice, free a page twice, lock the
\* inode of a closed file or write outside vmas.
NoFault == k.fault = "none"

\* Every physical page is on the free list once, or some page table maps it,
\* and never both: nothing a process (or a zombie) can reach has been given
\* back by another one's wunmap, wremap, exit or wait, and nothing is lost.
Mapped(f) == \E p \in Procs, g \in Pages : k.pgtab[p][g] = [pa |-> f, present |-> TRUE]
FramesAccounted ==
    NoFault => \A f \in Frames :
        LET onList == {i \in DOMAIN k.freelist : k.freelist[i] = f}
        IN  Cardinality(onList) = IF Mapped(f) THEN 0 ELSE 1

\* A process reads in a page what was last stored there by itself or by a
\* process that shares the mapping, the file's data or zeroes before any
\* store; a page outside its mappings is not accessible.
ReadsExpected ==
    \A p \in Procs, g \in Pages :
        (k.state[p] = "RUNNING" /\ NoFault) =>
            LET w == want[p][g].v
                e == k.pgtab[p][g]
            IN  IF w \in {"none", "fresh", "grown"} THEN ~ e.present
                ELSE e.present /\ e.pa # 0 /\ k.mem[e.pa] = w

\* The table that getwmapinfo reports lists mappings in increasing order that
\* do not overlap and cover exactly the pages the process has mapped, and the
\* entries behind total_vmaps are unmapped.
TableMatches ==
    \A p \in Procs : (k.state[p] = "RUNNING" /\ NoFault) =>
        LET n == k.total_vmaps[p]
            v == k.vmas[p]
            Covers(i) == PagesOf(v[i].addr, v[i].length)
        IN  /\ n \in 0..MAX_VMAPS
            /\ \A i \in Slots : v[i].mapped <=> i < n
            /\ \A i, j \in 0..(n - 1) : i < j =>
                  v[i].addr < v[j].addr /\ Covers(i) \cap Covers(j) = {}
            /\ UNION {Covers(i) : i \in 0..(n - 1)} = Wanted(p)

\* Once no process maps a page of the file, the file holds what was last
\* stored in it through a shared mapping, and nothing stored through a
\* private one.
FileUpToDate ==
    NoFault => \A j \in 1..FilePages :
        (\A p \in Procs, g \in Pages : want[p][g].file # j) => k.fdata[j] = lastw[j]

\* The kernel neither faults nor loses or frees twice a page of memory.
MemorySafe == TypeOK /\ NoFault /\ FramesAccounted

\* Memory and file hold what was stored through the mappings.
StoresSeen == ReadsExpected /\ FileUpToDate
=============================================================================
