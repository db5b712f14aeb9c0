---------------------------- MODULE XvLogProofs ----------------------------
(***************************************************************************)
(* Proofs about XvLog, for any number of processes, buffers and blocks,    *)
(* any size of the log and any bounds: the buffer cache keeps its          *)
(* invariants, and cache, log, commit and recovery implement AtomicDisk.   *)
(***************************************************************************)
EXTENDS XvLog, FiniteSetTheorems, TLAPS

Blocks == Home \cup 0..LOGSIZE

-----------------------------------------------------------------------------
(* The inductive invariant: control *)

\* What a process is about: a process in bget, at the lock or at the disk goes
\* on with cont.
JobOf(r) == IF r.pc \in {"bget", "lock", "disk"} THEN r.cont ELSE r.pc
Job(t) == JobOf(th[t])

OneBlock == {"modify", "append", "first", "head", "headed", "read"}
TwoBlocks == {"second", "copied"}
Fetches == {"modify", "first", "second", "head", "read"}
Flushes == {"copied", "headed"}
Stages == {"", "readhead", "writelog", "head", "install", "clear"}
Pcs == {"idle", "bget", "lock", "disk", "begin", "work", "committed", "loop"} \cup OneBlock \cup TwoBlocks

Threads == [pc : Pcs, cont : Fetches \cup Flushes \cup {""}, want : Blocks \cup {NoBlock},
            held : Seq(Bufs), stage : Stages, tail : Nat, op : Nat, left : Nat]
Buffers == [blockno : Blocks \cup {NoBlock}, data : Seq(Nat), valid : BOOLEAN, dirty : BOOLEAN,
            refcnt : Nat, owner : Procs \cup {NoProc}]

\* A list of blocks that fits in the header, without repetitions
BlockList(s) ==
    /\ s \in Seq(Home) /\ Len(s) <= LOGSIZE
    /\ \A i, j \in 1..Len(s) : s[i] = s[j] => i = j

Types ==
    /\ disk \in [Blocks -> Seq(Nat)]
    /\ buf \in [Bufs -> Buffers]
    /\ mru \in [Bufs -> Bufs] /\ \A a, b \in Bufs : mru[a] = mru[b] => a = b
    /\ idequeue \in Seq(Bufs)
    /\ log \in [lh : Seq(Home), outstanding : Nat, committing : BOOLEAN]
    /\ up \in BOOLEAN
    /\ th \in [Procs -> Threads]
    /\ asleep \subseteq Procs /\ inop \subseteq Procs
    /\ ops \in Nat

\* How many buffers a process holds that is about a job
Holds(r) == IF JobOf(r) \in TwoBlocks THEN (IF r.pc = "bget" THEN 1 ELSE 2)
            ELSE IF JobOf(r) \in OneBlock /\ r.pc # "bget" THEN 1 ELSE 0

\* Where a process is, what it holds and what it wants
InOrder(r) ==
    /\ r.pc \in {"bget", "lock"} => r.cont \in Fetches
    /\ r.pc = "disk" => r.cont \in Fetches \cup Flushes
    /\ Len(r.held) = Holds(r)
    /\ JobOf(r) \in {"idle", "begin", "work", "modify", "append", "read", "committed"} <=> r.stage = ""
    /\ JobOf(r) \in {"loop", "first", "second", "copied"} => r.stage \in {"writelog", "install"}
    /\ JobOf(r) = "head" => r.stage \in {"readhead", "head", "clear"}
    /\ JobOf(r) = "headed" => r.stage \in {"head", "clear"}
    /\ JobOf(r) \in {"modify", "append", "read"} => r.want \in Home
    /\ JobOf(r) \in {"head", "headed"} => r.want = Header
    /\ JobOf(r) \in {"begin", "work", "modify", "append"} => r.op \in 1..MaxOps
    /\ JobOf(r) \in {"modify", "append"} => r.left > 0
    /\ r.left <= MaxWrites

\* The position in the log of a process that commits or recovers
AtTail(r, lh) ==
    /\ JobOf(r) = "loop" => r.tail <= Len(lh)
    /\ JobOf(r) \in {"first", "second", "copied"} => r.tail < Len(lh)
    /\ JobOf(r) = "first" => r.want = LogBlock(r.tail + 1)
    /\ JobOf(r) \in TwoBlocks => r.want = lh[r.tail + 1]
    /\ r.stage \in {"readhead", "clear"} => lh = <<>>

Commits(t) == th[t].stage # "" \/ th[t].pc = "committed"

\* What begin_op reserves for an operation and the operation does not write
Spare == MAXOPBLOCKS - MaxWrites

\* What begin_op has reserved and log_write has not used yet
Reserved == {x \in inop \X (1..MAXOPBLOCKS) : x[2] <= th[x[1]].left + Spare}

Control ==
    /\ \A t \in Procs : InOrder(th[t]) /\ AtTail(th[t], log.lh)
    /\ \A t, u \in Procs : Commits(t) /\ Commits(u) => t = u
    /\ inop = {t \in Procs : Job(t) \in {"work", "modify", "append"}}
    /\ log.outstanding = Cardinality(inop)
    /\ log.committing <=> up /\ \E t \in Procs : Commits(t)
    /\ \A t \in Procs : Commits(t) => inop = {}
    /\ ~up => /\ th[Boot].stage \in {"readhead", "install", "clear"}
              /\ \A t \in Procs \ {Boot} : th[t].pc = "idle"
    /\ up => \A t \in Procs : th[t].stage # "readhead"
    /\ BlockList(log.lh)
    /\ Len(log.lh) + Cardinality(Reserved) <= LOGSIZE

-----------------------------------------------------------------------------
(* The inductive invariant: buffers *)

Cur(r) == r.held[Len(r.held)]
Holders(b) == {t \in Procs : \E i \in 1..Len(th[t].held) : th[t].held[i] = b}
Queued == {idequeue[i] : i \in 1..Len(idequeue)}

\* The buffer a process has asked the disk for
Target(r) == IF JobOf(r) = "copied" /\ r.stage = "writelog" THEN r.held[1] ELSE Cur(r)

\* There is one buffer for a block.
Unique == \A a, b \in Bufs : (a # b /\ buf[a].blockno = buf[b].blockno) => buf[a].blockno = NoBlock

\* A process holds the buffers of the blocks it asked for.
RightBlocks(r) ==
    /\ (r.pc # "bget" /\ r.held # <<>>) => buf[Cur(r)].blockno = r.want
    /\ JobOf(r) \in TwoBlocks => buf[r.held[1]].blockno = LogBlock(r.tail + 1)

\* It has locked them, but for the one it waits for.
Waits(r, i) == r.pc = "lock" /\ i = Len(r.held)
Owned(t, r) == \A i \in 1..Len(r.held) : buf[r.held[i]].owner = t \/ Waits(r, i)

\* The reference counts are right.
Counted == \A b \in Bufs : buf[b].refcnt = Cardinality(Holders(b))

\* A buffer waits for the disk once, for the process that has locked it, to be
\* written if it is dirty and to be read if it is not.
QueuedOnce == \A i, j \in 1..Len(idequeue) : idequeue[i] = idequeue[j] => i = j
QueuedFor(b) ==
    /\ buf[b].owner \in Procs
    /\ th[buf[b].owner].pc = "disk" /\ Target(th[buf[b].owner]) = b
    /\ buf[b].dirty <=> Job(buf[b].owner) \in Flushes

\* What a process has locked is valid or on its way.
Fetched(r) == \A i \in 1..Len(r.held) : buf[r.held[i]].valid \/ r.held[i] \in Queued \/ Waits(r, i)

Cache ==
    /\ Unique /\ Counted /\ QueuedOnce
    /\ \A t \in Procs : RightBlocks(th[t]) /\ Owned(t, th[t]) /\ Fetched(th[t])
    /\ \A b \in Queued : QueuedFor(b)
    /\ \A b \in Bufs : (buf[b].dirty => buf[b].valid) /\ (buf[b].valid => buf[b].blockno # NoBlock)

-----------------------------------------------------------------------------
(* The inductive invariant: what is on disk and in the buffers *)

\* The header on disk may name blocks.
HeaderOn(t) ==
    \/ th[t].stage \in {"readhead", "install", "clear"}
    \/ th[t].stage = "head" /\ Job(t) = "headed" /\ ~buf[th[t].held[1]].dirty

Data ==
    /\ \A b \in Bufs : (buf[b].valid /\ ~buf[b].dirty) => buf[b].data = disk[buf[b].blockno]
    /\ \A b \in Bufs : (buf[b].dirty /\ buf[b].blockno \notin Home) => b \in Queued
    /\ \A b \in Bufs : (buf[b].dirty /\ buf[b].blockno \in Home) =>
        \E j \in 1..Len(log.lh) : /\ buf[b].blockno = log.lh[j]
                                  /\ \A t \in Procs : th[t].stage = "install" => th[t].tail < j
    /\ \A t \in Procs : (Job(t) \in Flushes /\ buf[Target(th[t])].dirty) => Target(th[t]) \in Queued
    /\ \A t \in Procs : Job(t) = "copied" => buf[th[t].held[1]].data = buf[th[t].held[2]].data
    /\ \A t \in Procs : Job(t) = "headed" => buf[th[t].held[1]].data = log.lh

OnDisk ==
    /\ BlockList(disk[Header])
    /\ (\A t \in Procs : ~HeaderOn(t)) => disk[Header] = <<>>
    /\ \A t \in Procs : th[t].stage = "install" =>
        /\ disk[Header] = log.lh
        /\ \A j \in 1..Len(log.lh) : j <= th[t].tail => disk[log.lh[j]] = disk[LogBlock(j)]
    /\ \A t \in Procs : (up /\ th[t].stage \in {"writelog", "head", "install"}) =>
        \A j \in 1..Len(log.lh) :
            (th[t].stage = "writelog" => j <= th[t].tail) => disk[LogBlock(j)] = Seen[log.lh[j]]
    /\ \A t \in Procs : th[t].stage = "clear" =>
        \A j \in 1..Len(disk[Header]) : disk[disk[Header][j]] = disk[LogBlock(j)]

Inv == Types /\ Control /\ Cache /\ Data /\ OnDisk

-----------------------------------------------------------------------------
(* Lemmas about constants and operators *)

\* The kinds of blocks are apart.
LEMMA BlockKinds ==
    /\ Header \in Blocks /\ Header \notin Home /\ NoBlock \notin Blocks
    /\ Home \subseteq Blocks /\ NoBlock \notin Home /\ Home \subseteq Nat
    /\ \A j \in 1..LOGSIZE : LogBlock(j) \in Blocks /\ LogBlock(j) \notin Home /\ LogBlock(j) # Header
  BY LogAssumption DEF Blocks, Header, NoBlock, LogBlock

\* Moving a buffer to the front of the list keeps a list of all buffers.
LEMMA ToFrontIsList ==
    ASSUME NEW f \in [Bufs -> Bufs], \A a, b \in Bufs : f[a] = f[b] => a = b, NEW z \in Bufs
    PROVE  /\ ToFront(f, z) \in [Bufs -> Bufs]
           /\ \A a, b \in Bufs : ToFront(f, z)[a] = ToFront(f, z)[b] => a = b
  <1> DEFINE g == [c \in Bufs |-> IF c = z THEN 1 ELSE IF f[c] < f[z] THEN f[c] + 1 ELSE f[c]]
  <1>1. NBUF \in Nat
    BY LogAssumption
  <1>2. \A c \in Bufs : f[c] \in Int /\ f[c] >= 1 /\ f[c] <= NBUF
    BY <1>1 DEF Bufs
  <1>3. ASSUME NEW c \in Bufs PROVE g[c] \in Bufs
    BY <1>1, <1>2 DEF Bufs
  <1>4. ASSUME NEW a \in Bufs, NEW b \in Bufs, g[a] = g[b] PROVE a = b
    BY <1>1, <1>2, <1>4
  <1>5. g \in [Bufs -> Bufs]
    BY <1>3
  <1>6. ToFront(f, z) = IF buf[z].refcnt # 1 THEN f ELSE g
    BY DEF ToFront
  <1>. QED
    BY <1>4, <1>5, <1>6

\* What holds for the list after a process has released what it holds
LEMMA ReleaseKeepsList ==
    ASSUME Types, NEW t \in Procs, Len(th[t].held) \in {1, 2}
    PROVE  /\ ListAfterRelease(t) \in [Bufs -> Bufs]
           /\ \A a, b \in Bufs : ListAfterRelease(t)[a] = ListAfterRelease(t)[b] => a = b
  <1> DEFINE a == th[t].held[1]  z == Last(th[t].held)
  <1>0. th[t].held \in Seq(Bufs)
    BY DEF Types, Threads
  <1>1. a \in Bufs /\ z \in Bufs
    BY <1>0 DEF Last
  <1>2. mru \in [Bufs -> Bufs] /\ \A x, y \in Bufs : mru[x] = mru[y] => x = y
    BY DEF Types
  <1>3. /\ ToFront(mru, a) \in [Bufs -> Bufs]
        /\ \A x, y \in Bufs : ToFront(mru, a)[x] = ToFront(mru, a)[y] => x = y
    BY <1>1, <1>2, ToFrontIsList
  <1>4. /\ ToFront(mru, z) \in [Bufs -> Bufs]
        /\ \A x, y \in Bufs : ToFront(mru, z)[x] = ToFront(mru, z)[y] => x = y
    BY <1>1, <1>2, ToFrontIsList
  <1>5. /\ ToFront(ToFront(mru, z), a) \in [Bufs -> Bufs]
        /\ \A x, y \in Bufs : ToFront(ToFront(mru, z), a)[x] = ToFront(ToFront(mru, z), a)[y] => x = y
    BY <1>1, <1>4, ToFrontIsList
  <1>6. /\ ToFront(ToFront(mru, a), z) \in [Bufs -> Bufs]
        /\ \A x, y \in Bufs : ToFront(ToFront(mru, a), z)[x] = ToFront(ToFront(mru, a), z)[y] => x = y
    BY <1>1, <1>3, ToFrontIsList
  <1>. HIDE DEF a, z
  <1>7. ListAfterRelease(t) \in {ToFront(mru, a), ToFront(ToFront(mru, z), a), ToFront(ToFront(mru, a), z)}
    BY DEF ListAfterRelease, a, z
  <1>. QED
    BY <1>3, <1>5, <1>6, <1>7
-----------------------------------------------------------------------------
(* Types *)

\* What Types says of the state of a process
LEMMA ThreadType ==
    ASSUME Types, NEW t \in Procs
    PROVE  /\ th[t] \in Threads /\ th[t].held \in Seq(Bufs) /\ th[t].pc \in Pcs
           /\ th[t].cont \in Fetches \cup Flushes \cup {""} /\ th[t].want \in Blocks \cup {NoBlock}
           /\ th[t].stage \in Stages /\ th[t].tail \in Nat /\ th[t].op \in Nat /\ th[t].left \in Nat
  BY DEF Types, Threads

\* What Types says of a buffer
LEMMA BufType ==
    ASSUME Types, NEW b \in Bufs
    PROVE  /\ buf[b] \in Buffers /\ buf[b].blockno \in Blocks \cup {NoBlock} /\ buf[b].data \in Seq(Nat)
           /\ buf[b].valid \in BOOLEAN /\ buf[b].dirty \in BOOLEAN /\ buf[b].refcnt \in Nat
           /\ buf[b].owner \in Procs \cup {NoProc}
  BY DEF Types, Buffers

\* A process that is idle or enters a stage has the type of a process.
LEMMA IdleType ==
    /\ Idle \in Threads
    /\ [Idle EXCEPT !.pc = "committed"] \in Threads
    /\ \A s \in {"writelog", "install"} : [Idle EXCEPT !.pc = "loop", !.stage = s] \in Threads
    /\ \A s \in {"readhead", "head", "clear"} :
        [Idle EXCEPT !.pc = "bget", !.want = Header, !.cont = "head", !.stage = s] \in Threads
  <1>1. Idle \in Threads
    BY DEF Idle, Threads, Pcs, Stages
  <1>2. [Idle EXCEPT !.pc = "committed"] \in Threads
    BY <1>1 DEF Threads, Pcs
  <1>3. ASSUME NEW s \in {"writelog", "install"}
        PROVE  [Idle EXCEPT !.pc = "loop", !.stage = s] \in Threads
    BY <1>1 DEF Threads, Pcs, Stages
  <1>4. ASSUME NEW s \in {"readhead", "head", "clear"}
        PROVE  [Idle EXCEPT !.pc = "bget", !.want = Header, !.cont = "head", !.stage = s] \in Threads
    BY <1>1, BlockKinds DEF Threads, Pcs, Stages, Fetches
  <1>. QED
    BY <1>1, <1>2, <1>3, <1>4

\* A step of one process keeps the type of the processes.
LEMMA ThreadsStep ==
    ASSUME Types, NEW t \in Procs, NEW r \in Threads, th' = [th EXCEPT ![t] = r]
    PROVE  th' \in [Procs -> Threads] /\ th'[t] = r /\ \A u \in Procs \ {t} : th'[u] = th[u]
  BY DEF Types

\* The initial memory has its type.
LEMMA BootTypes ==
    /\ [b \in Bufs |-> FreshBuf] \in [Bufs -> Buffers]
    /\ FreshLog \in [lh : Seq(Home), outstanding : Nat, committing : BOOLEAN]
    /\ [t \in Procs |-> Booting(t)] \in [Procs -> Threads]
    /\ [i \in Bufs |-> i] \in [Bufs -> Bufs]
  <1>1. FreshBuf \in Buffers
    BY DEF FreshBuf, Buffers, Blank
  <1>2. FreshLog \in [lh : Seq(Home), outstanding : Nat, committing : BOOLEAN]
    BY DEF FreshLog
  <1>3. \A t \in Procs : Booting(t) \in Threads
    BY IdleType DEF Booting
  <1>. QED
    BY <1>1, <1>2, <1>3
-----------------------------------------------------------------------------
(* What each step does to the process that takes it *)

\* Only process t moves.
Moves(t, r) ==
    /\ r \in Threads /\ th' \in [Procs -> Threads] /\ th'[t] = r
    /\ \A u \in Procs \ {t} : th'[u] = th[u]

\* What the panic of a step leaves alone
Halts == UNCHANGED <<disk, buf, mru, idequeue, log, up, th, asleep, inop, ops, reads, crashes>>

\* bget takes the buffer of the block, or recycles one that nobody uses.
LEMMA MovesBget ==
    ASSUME Types, NEW t \in Procs, bget(t), ~Halts
    PROVE  /\ th[t].pc = "bget"
           /\ \E b \in Bufs :
                /\ Moves(t, [th[t] EXCEPT !.pc = "lock", !.held = Append(@, b)])
                /\ \/ buf[b].blockno = th[t].want /\ buf' = [buf EXCEPT ![b].refcnt = @ + 1]
                   \/ /\ \A c \in Bufs : buf[c].blockno # th[t].want
                      /\ buf[b].refcnt = 0 /\ ~buf[b].dirty
                      /\ buf' = [buf EXCEPT ![b] = [FreshBuf EXCEPT !.blockno = th[t].want, !.refcnt = 1]]
           /\ UNCHANGED <<disk, mru, idequeue, log, up, asleep, inop, ops>>
  <1> DEFINE hits == {b \in Bufs : buf[b].blockno = th[t].want}
             Got(b) == /\ th' = [th EXCEPT ![t].pc = "lock", ![t].held = Append(@, b)]
                       /\ UNCHANGED <<mru, idequeue, log, up, asleep, inop, panic>>
  <1>1. /\ th[t].pc = "bget" /\ UNCHANGED <<disk, ops, reads, crashes>>
        /\ \/ \E b \in hits : Got(b) /\ buf' = [buf EXCEPT ![b].refcnt = @ + 1]
           \/ /\ hits = {}
              /\ \E b \in Recyclable :
                   Got(b) /\ buf' = [buf EXCEPT ![b] = [FreshBuf EXCEPT !.blockno = th[t].want, !.refcnt = 1]]
    BY DEF bget, Running, Halts, Panic, Bounds
  <1>2. \A b \in Bufs : Got(b) => Moves(t, [th[t] EXCEPT !.pc = "lock", !.held = Append(@, b)])
    <2> SUFFICES ASSUME NEW b \in Bufs, Got(b)
                 PROVE  Moves(t, [th[t] EXCEPT !.pc = "lock", !.held = Append(@, b)])
      OBVIOUS
    <2>1. [th[t] EXCEPT !.pc = "lock", !.held = Append(@, b)] \in Threads
      <3>1. th[t] \in Threads /\ th[t].held \in Seq(Bufs)
        BY ThreadType
      <3>2. Append(th[t].held, b) \in Seq(Bufs)
        BY <3>1
      <3>. QED
        BY <3>1, <3>2 DEF Threads, Pcs
    <2>2. th' = [th EXCEPT ![t] = [th[t] EXCEPT !.pc = "lock", !.held = Append(@, b)]]
      BY DEF Types
    <2>. QED
      BY <2>1, <2>2, ThreadsStep DEF Moves
  <1>. QED
    BY <1>1, <1>2 DEF Recyclable
\* A process gets the lock of the buffer it asked for.
LEMMA MovesLock ==
    ASSUME Types, Control, NEW t \in Procs, Lock(t)
    PROVE  /\ th[t].pc = "lock" /\ buf[Cur(th[t])].owner = NoProc
           /\ Moves(t, [th[t] EXCEPT !.pc = IF buf[Cur(th[t])].valid THEN th[t].cont ELSE "disk"])
           /\ buf' = [buf EXCEPT ![Cur(th[t])].owner = t]
           /\ idequeue' = IF buf[Cur(th[t])].valid THEN idequeue ELSE Append(idequeue, Cur(th[t]))
           /\ UNCHANGED <<disk, mru, log, up, asleep, inop, ops>>
  <1>0. th[t] \in Threads /\ th[t].pc = "lock"
    BY ThreadType DEF Lock, Running
  <1>1. [th[t] EXCEPT !.pc = IF buf[Cur(th[t])].valid THEN th[t].cont ELSE "disk"] \in Threads
    <2>1. th[t].cont \in Pcs
      BY <1>0 DEF Control, InOrder, Pcs, Fetches, Flushes, Stages, OneBlock, TwoBlocks
    <2>. QED
      BY <1>0, <2>1 DEF Threads, Pcs
  <1>2. th' = [th EXCEPT ![t] = [th[t] EXCEPT !.pc = IF buf[Cur(th[t])].valid THEN th[t].cont ELSE "disk"]]
    BY <1>0 DEF Types, Lock, Last, Cur
  <1>. QED
    BY <1>0, <1>1, <1>2, ThreadsStep DEF Moves, Lock, Running, Bounds, Last, Cur

\* The disk has finished with the buffers of a process.
LEMMA MovesDiskDone ==
    ASSUME Types, Control, NEW t \in Procs, DiskDone(t)
    PROVE  /\ th[t].pc = "disk" /\ InFlight(t) = {}
           /\ Moves(t, [th[t] EXCEPT !.pc = th[t].cont])
           /\ UNCHANGED <<disk, buf, mru, idequeue>>
           /\ UNCHANGED <<log, up, asleep, inop, ops>>
  <1>0. th[t] \in Threads /\ th[t].pc = "disk"
    BY ThreadType DEF DiskDone, Running
  <1>1. [th[t] EXCEPT !.pc = th[t].cont] \in Threads
    <2>1. th[t].cont \in Pcs
      BY <1>0 DEF Control, InOrder, Pcs, Fetches, Flushes, Stages, OneBlock, TwoBlocks
    <2>. QED
      BY <1>0, <2>1 DEF Threads, Pcs
  <1>2. th' = [th EXCEPT ![t] = [th[t] EXCEPT !.pc = th[t].cont]]
    BY <1>0 DEF Types, DiskDone
  <1>. QED
    BY <1>0, <1>1, <1>2, ThreadsStep DEF Moves, DiskDone, Running, Bounds

\* A system call begins.
LEMMA MovesCallBegin ==
    ASSUME Types, NEW t \in Procs, CallBegin(t)
    PROVE  /\ th[t].pc = "idle" /\ up /\ ops < MaxOps
           /\ Moves(t, [th[t] EXCEPT !.pc = "begin", !.op = ops + 1, !.left = MaxWrites])
           /\ UNCHANGED <<disk, buf, mru, idequeue>>
           /\ UNCHANGED <<log, up, asleep, inop>> /\ ops' = ops + 1
  <1>0. th[t] \in Threads /\ th[t].pc = "idle"
    BY ThreadType DEF CallBegin, Running
  <1>1. [th[t] EXCEPT !.pc = "begin", !.op = ops + 1, !.left = MaxWrites] \in Threads
    <2>1. ops + 1 \in Nat /\ MaxWrites \in Nat
      BY LogAssumption DEF Types
    <2>. QED
      BY <1>0, <2>1 DEF Threads, Pcs
  <1>2. th' = [th EXCEPT ![t] = [th[t] EXCEPT !.pc = "begin", !.op = ops + 1, !.left = MaxWrites]]
    BY <1>0 DEF Types, CallBegin
  <1>. QED
    BY <1>0, <1>1, <1>2, ThreadsStep DEF Moves, CallBegin, Running, Bounds

\* A system call is let in.
LEMMA MovesBeginOp ==
    ASSUME Types, NEW t \in Procs, begin_op(t), th' # th
    PROVE  /\ th[t].pc = "begin" /\ ~log.committing /\ ~NoSpace
           /\ Moves(t, [th[t] EXCEPT !.pc = "work"])
           /\ log' = [log EXCEPT !.outstanding = @ + 1]
           /\ inop' = inop \cup {t}
           /\ UNCHANGED <<disk, buf, mru, idequeue>>
           /\ UNCHANGED <<up, asleep, ops>>
  <1>0. th[t] \in Threads /\ th[t].pc = "begin"
    BY ThreadType DEF begin_op, Running
  <1>1. [th[t] EXCEPT !.pc = "work"] \in Threads
    BY <1>0, BlockKinds DEF Threads, Pcs, Fetches, Flushes, Stages, OneBlock, TwoBlocks
  <1>2. th' = [th EXCEPT ![t] = [th[t] EXCEPT !.pc = "work"]]
    BY <1>0 DEF Types, begin_op
  <1>. QED
    BY <1>0, <1>1, <1>2, ThreadsStep DEF Moves, begin_op, Running, Bounds

\* log_write looks at the length of the log.
LEMMA MovesLogCheck ==
    ASSUME Types, NEW t \in Procs, LogCheck(t), ~Halts
    PROVE  /\ th[t].pc = "modify"
           /\ Moves(t, [th[t] EXCEPT !.pc = "append"])
           /\ UNCHANGED <<disk, buf, mru, idequeue>>
           /\ UNCHANGED <<log, up, asleep, inop, ops>>
  <1>0. th[t] \in Threads /\ th[t].pc = "modify"
    BY ThreadType DEF LogCheck, Running
  <1>1. [th[t] EXCEPT !.pc = "append"] \in Threads
    BY <1>0, BlockKinds DEF Threads, Pcs, Fetches, Flushes, Stages, OneBlock, TwoBlocks
  <1>2. th' = [th EXCEPT ![t] = [th[t] EXCEPT !.pc = "append"]]
    BY <1>0 DEF Types, LogCheck, Halts, Panic, Bounds
  <1>. QED
    BY <1>0, <1>1, <1>2, ThreadsStep DEF Moves, LogCheck, Running, Bounds, Halts, Panic, Bounds

\* log_write enters the block in the log.
LEMMA MovesLogWrite ==
    ASSUME Types, Control, NEW t \in Procs, log_write(t)
    PROVE  /\ th[t].pc = "append"
           /\ Moves(t, [th[t] EXCEPT !.pc = "work", !.held = <<>>, !.left = @ - 1])
           /\ log' = [log EXCEPT !.lh = Absorbed(buf[th[t].held[1]].blockno)]
           /\ buf' = AfterRelease([buf EXCEPT ![th[t].held[1]].data = <<th[t].op>>, ![th[t].held[1]].dirty = TRUE], t)
           /\ mru' = ListAfterRelease(t)
           /\ UNCHANGED <<disk, idequeue, up, asleep, inop, ops>>
  <1>0. th[t] \in Threads /\ th[t].pc = "append"
    BY ThreadType DEF log_write, Running
  <1>1. [th[t] EXCEPT !.pc = "work", !.held = <<>>, !.left = @ - 1] \in Threads
    <2>1. th[t].left - 1 \in Nat
      <3>1. th[t].left \in Nat /\ InOrder(th[t])
        BY ThreadType DEF Control
      <3>2. JobOf(th[t]) = "append"
        BY <1>0 DEF JobOf
      <3>3. th[t].left > 0
        BY <3>1, <3>2 DEF InOrder
      <3>. QED
        BY <3>1, <3>3
    <2>2. <<>> \in Seq(Bufs)
      OBVIOUS
    <2>. QED
      BY <1>0, <2>1, <2>2 DEF Threads, Pcs
  <1>2. th' = [th EXCEPT ![t] = [th[t] EXCEPT !.pc = "work", !.held = <<>>, !.left = @ - 1]]
    BY <1>0 DEF Types, log_write
  <1>. QED
    BY <1>0, <1>1, <1>2, ThreadsStep DEF Moves, log_write, Running, Bounds

\* The block of the log is there; the one in its place is next.
LEMMA MovesFirst ==
    ASSUME Types, Control, NEW t \in Procs, First(t)
    PROVE  /\ th[t].pc = "first"
           /\ Moves(t, [th[t] EXCEPT !.pc = "bget", !.want = log.lh[th[t].tail + 1], !.cont = "second"])
           /\ UNCHANGED <<disk, buf, mru, idequeue>>
           /\ UNCHANGED <<log, up, asleep, inop, ops>>
  <1>0. th[t] \in Threads /\ th[t].pc = "first"
    BY ThreadType DEF First, Running
  <1>1. [th[t] EXCEPT !.pc = "bget", !.want = log.lh[th[t].tail + 1], !.cont = "second"] \in Threads
    <2>1. th[t].tail + 1 \in 1..Len(log.lh) /\ log.lh \in Seq(Home)
      <3>1. th[t].tail \in Nat /\ AtTail(th[t], log.lh) /\ log.lh \in Seq(Home)
        BY ThreadType DEF Control, Types
      <3>2. Len(log.lh) \in Nat
        BY <3>1
      <3>. QED
        BY <1>0, <3>1, <3>2 DEF AtTail, JobOf
    <2>2. log.lh[th[t].tail + 1] \in Blocks
      <3>1. log.lh[th[t].tail + 1] \in Home
        BY <2>1
      <3>. QED
        BY <3>1, BlockKinds
    <2>. QED
      BY <1>0, <2>2 DEF Threads, Pcs, Fetches
  <1>2. th' = [th EXCEPT ![t] = [th[t] EXCEPT !.pc = "bget", !.want = log.lh[th[t].tail + 1], !.cont = "second"]]
    BY <1>0 DEF Types, First, Bread
  <1>. QED
    BY <1>0, <1>1, <1>2, ThreadsStep DEF Moves, First, Running, Bounds, Bread

\* A block is copied and handed to the disk.
LEMMA MovesSecond ==
    ASSUME Types, NEW t \in Procs, Second(t)
    PROVE  /\ th[t].pc = "second"
           /\ Moves(t, [th[t] EXCEPT !.pc = "disk", !.cont = "copied"])
           /\ \/ /\ th[t].stage = "writelog"
                 /\ buf' = [buf EXCEPT ![th[t].held[1]].data = buf[th[t].held[2]].data, ![th[t].held[1]].dirty = TRUE]
                 /\ idequeue' = Append(idequeue, th[t].held[1])
              \/ /\ th[t].stage # "writelog"
                 /\ buf' = [buf EXCEPT ![th[t].held[2]].data = buf[th[t].held[1]].data, ![th[t].held[2]].dirty = TRUE]
                 /\ idequeue' = Append(idequeue, th[t].held[2])
           /\ UNCHANGED <<disk, mru, log, up, asleep, inop, ops>>
  <1>0. th[t] \in Threads /\ th[t].pc = "second"
    BY ThreadType DEF Second, Running
  <1>1. [th[t] EXCEPT !.pc = "disk", !.cont = "copied"] \in Threads
    BY <1>0, BlockKinds DEF Threads, Pcs, Fetches, Flushes, Stages, OneBlock, TwoBlocks
  <1>2. th' = [th EXCEPT ![t] = [th[t] EXCEPT !.pc = "disk", !.cont = "copied"]]
    BY <1>0 DEF Types, Second, Bwrite
  <1>. QED
    BY <1>0, <1>1, <1>2, ThreadsStep DEF Moves, Second, Running, Bounds, Bwrite

\* The copy is on disk and both buffers are released.
LEMMA MovesCopied ==
    ASSUME Types, NEW t \in Procs, Copied(t)
    PROVE  /\ th[t].pc = "copied"
           /\ Moves(t, [th[t] EXCEPT !.pc = "loop", !.held = <<>>, !.tail = @ + 1])
           /\ buf' = AfterRelease(buf, t) /\ mru' = ListAfterRelease(t)
           /\ UNCHANGED <<disk, idequeue, log, up, asleep, inop, ops>>
  <1>0. th[t] \in Threads /\ th[t].pc = "copied"
    BY ThreadType DEF Copied, Running
  <1>1. [th[t] EXCEPT !.pc = "loop", !.held = <<>>, !.tail = @ + 1] \in Threads
    <2>1. th[t].tail \in Nat
      BY ThreadType
    <2>2. th[t].tail + 1 \in Nat /\ <<>> \in Seq(Bufs)
      BY <2>1
    <2>. QED
      BY <1>0, <2>2 DEF Threads, Pcs
  <1>2. th' = [th EXCEPT ![t] = [th[t] EXCEPT !.pc = "loop", !.held = <<>>, !.tail = @ + 1]]
    BY <1>0 DEF Types, Copied
  <1>. QED
    BY <1>0, <1>1, <1>2, ThreadsStep DEF Moves, Copied, Running, Bounds

\* Recovery has read the header.
LEMMA MovesReadHead ==
    ASSUME Types, NEW t \in Procs, ReadHead(t)
    PROVE  /\ th[t].pc = "head" /\ th[t].stage = "readhead"
           /\ Moves(t, [Idle EXCEPT !.pc = "loop", !.stage = "install"])
           /\ log' = [log EXCEPT !.lh = buf[th[t].held[1]].data]
           /\ buf' = AfterRelease(buf, t) /\ mru' = ListAfterRelease(t)
           /\ UNCHANGED <<disk, idequeue, asleep, inop, ops>> /\ up' = up
  <1>0. th[t] \in Threads /\ th[t].pc = "head"
    BY ThreadType DEF ReadHead, Running
  <1>1. [Idle EXCEPT !.pc = "loop", !.stage = "install"] \in Threads
    BY IdleType
  <1>2. th' = [th EXCEPT ![t] = [Idle EXCEPT !.pc = "loop", !.stage = "install"]]
    BY <1>0 DEF Types, ReadHead, Enter, NextStage
  <1>3. up' = up
    BY DEF ReadHead, Enter, NextStage, Types
  <1>. QED
    BY <1>0, <1>1, <1>2, <1>3, ThreadsStep DEF Moves, ReadHead, Running, Bounds

\* The header is handed to the disk.
LEMMA MovesWriteHead ==
    ASSUME Types, NEW t \in Procs, WriteHead(t)
    PROVE  /\ th[t].pc = "head" /\ th[t].stage # "readhead"
           /\ Moves(t, [th[t] EXCEPT !.pc = "disk", !.cont = "headed"])
           /\ buf' = [buf EXCEPT ![th[t].held[1]].data = log.lh, ![th[t].held[1]].dirty = TRUE]
           /\ idequeue' = Append(idequeue, th[t].held[1])
           /\ UNCHANGED <<disk, mru, log, up, asleep, inop, ops>>
  <1>0. th[t] \in Threads /\ th[t].pc = "head"
    BY ThreadType DEF WriteHead, Running
  <1>1. [th[t] EXCEPT !.pc = "disk", !.cont = "headed"] \in Threads
    BY <1>0, BlockKinds DEF Threads, Pcs, Fetches, Flushes, Stages, OneBlock, TwoBlocks
  <1>2. th' = [th EXCEPT ![t] = [th[t] EXCEPT !.pc = "disk", !.cont = "headed"]]
    BY <1>0 DEF Types, WriteHead, Bwrite
  <1>. QED
    BY <1>0, <1>1, <1>2, ThreadsStep DEF Moves, WriteHead, Running, Bounds, Bwrite

\* A read ends.
LEMMA MovesEndRead ==
    ASSUME Types, NEW t \in Procs, EndRead(t)
    PROVE  /\ th[t].pc = "read"
           /\ Moves(t, Idle)
           /\ buf' = AfterRelease(buf, t) /\ mru' = ListAfterRelease(t)
           /\ UNCHANGED <<disk, idequeue, log, up, asleep, inop, ops>>
  <1>0. th[t] \in Threads /\ th[t].pc = "read"
    BY ThreadType DEF EndRead, Running
  <1>1. Idle \in Threads
    BY IdleType
  <1>2. th' = [th EXCEPT ![t] = Idle]
    BY <1>0 DEF Types, EndRead
  <1>. QED
    BY <1>0, <1>1, <1>2, ThreadsStep DEF Moves, EndRead, Running, Bounds

\* end_op after commit.
LEMMA MovesCommitted ==
    ASSUME Types, NEW t \in Procs, Committed(t)
    PROVE  /\ th[t].pc = "committed"
           /\ Moves(t, Idle)
           /\ log' = [log EXCEPT !.committing = FALSE]
           /\ UNCHANGED <<disk, buf, mru, idequeue>>
           /\ UNCHANGED <<up, inop, ops>> /\ asleep' = {}
  <1>0. th[t] \in Threads /\ th[t].pc = "committed"
    BY ThreadType DEF Committed, Running
  <1>1. Idle \in Threads
    BY IdleType
  <1>2. th' = [th EXCEPT ![t] = Idle]
    BY <1>0 DEF Types, Committed
  <1>. QED
    BY <1>0, <1>1, <1>2, ThreadsStep DEF Moves, Committed, Running, Bounds

\* An operation ends; the last one commits.
LEMMA MovesEndOp ==
    ASSUME Types, NEW t \in Procs, end_op(t), ~Halts
    PROVE  /\ th[t].pc = "work" /\ ~log.committing
           /\ Moves(t, (IF log.outstanding # 1 THEN Idle ELSE IF log.lh = <<>> THEN [Idle EXCEPT !.pc = "committed"]
                        ELSE [Idle EXCEPT !.pc = "loop", !.stage = "writelog"]))
           /\ log' = [log EXCEPT !.outstanding = @ - 1, !.committing = (log.outstanding = 1)]
           /\ inop' = inop \ {t}
           /\ UNCHANGED <<disk, buf, mru, idequeue>>
           /\ UNCHANGED <<up, ops>> /\ asleep' \subseteq asleep
  <1>0. th[t] \in Threads /\ th[t].pc = "work"
    BY ThreadType DEF end_op, Running
  <1>1. (IF log.outstanding # 1 THEN Idle ELSE IF log.lh = <<>> THEN [Idle EXCEPT !.pc = "committed"]
                        ELSE [Idle EXCEPT !.pc = "loop", !.stage = "writelog"]) \in Threads
    BY IdleType
  <1>2. th' = [th EXCEPT ![t] = (IF log.outstanding # 1 THEN Idle ELSE IF log.lh = <<>> THEN [Idle EXCEPT !.pc = "committed"]
                        ELSE [Idle EXCEPT !.pc = "loop", !.stage = "writelog"])]
    BY <1>0 DEF Types, end_op, Halts, Panic, Bounds, MustCommit
  <1>. QED
    BY <1>0, <1>1, <1>2, ThreadsStep DEF Moves, end_op, Running, Bounds, Halts, Panic, Bounds, MustCommit

\* An operation reads the next block.
LEMMA MovesNextBlock ==
    ASSUME Types, NEW t \in Procs, NextBlock(t)
    PROVE  /\ th[t].pc = "work" /\ th[t].left > 0
           /\ \E blk \in Home : Moves(t, [th[t] EXCEPT !.pc = "bget", !.want = blk, !.cont = "modify"])
           /\ UNCHANGED <<disk, buf, mru, idequeue>>
           /\ UNCHANGED <<log, up, asleep, inop, ops>>
  <1>1. PICK blk \in Home : th' = Bread(t, blk, "modify")
    BY DEF NextBlock
  <1>2. th[t] \in Threads /\ blk \in Blocks
    BY ThreadType, BlockKinds
  <1>3. [th[t] EXCEPT !.pc = "bget", !.want = blk, !.cont = "modify"] \in Threads
    BY <1>2 DEF Threads, Pcs, Fetches
  <1>4. th' = [th EXCEPT ![t] = [th[t] EXCEPT !.pc = "bget", !.want = blk, !.cont = "modify"]]
    BY <1>1, <1>2 DEF Bread, Types
  <1>5. Moves(t, [th[t] EXCEPT !.pc = "bget", !.want = blk, !.cont = "modify"])
    BY <1>3, <1>4, ThreadsStep DEF Moves
  <1>. QED
    BY <1>5 DEF NextBlock, Running, Bounds

\* A read outside an operation begins.
LEMMA MovesCallRead ==
    ASSUME Types, NEW t \in Procs, CallRead(t)
    PROVE  /\ th[t].pc = "idle" /\ up
           /\ \E blk \in Home : Moves(t, [th[t] EXCEPT !.pc = "bget", !.want = blk, !.cont = "read"])
           /\ UNCHANGED <<disk, buf, mru, idequeue>>
           /\ UNCHANGED <<log, up, asleep, inop, ops>>
  <1>1. PICK blk \in Home : th' = Bread(t, blk, "read")
    BY DEF CallRead
  <1>2. th[t] \in Threads /\ blk \in Blocks
    BY ThreadType, BlockKinds
  <1>3. [th[t] EXCEPT !.pc = "bget", !.want = blk, !.cont = "read"] \in Threads
    BY <1>2 DEF Threads, Pcs, Fetches
  <1>4. th' = [th EXCEPT ![t] = [th[t] EXCEPT !.pc = "bget", !.want = blk, !.cont = "read"]]
    BY <1>1, <1>2 DEF Bread, Types
  <1>5. Moves(t, [th[t] EXCEPT !.pc = "bget", !.want = blk, !.cont = "read"])
    BY <1>3, <1>4, ThreadsStep DEF Moves
  <1>. QED
    BY <1>5 DEF CallRead, Running, Bounds
\* write_log and install_trans go on, or the next stage begins.
LEMMA MovesLoop ==
    ASSUME Types, Control, NEW t \in Procs, Loop(t)
    PROVE  /\ th[t].pc = "loop" /\ up' = up
           /\ \/ /\ th[t].tail < Len(log.lh) /\ log' = log
                 /\ Moves(t, [th[t] EXCEPT !.pc = "bget", !.want = LogBlock(th[t].tail + 1),
                                           !.cont = "first", !.held = <<>>])
              \/ /\ th[t].tail = Len(log.lh) /\ log' = log /\ th[t].stage = "writelog"
                 /\ Moves(t, [Idle EXCEPT !.pc = "bget", !.want = Header, !.cont = "head", !.stage = "head"])
              \/ /\ th[t].tail = Len(log.lh) /\ log' = [log EXCEPT !.lh = <<>>] /\ th[t].stage = "install"
                 /\ Moves(t, [Idle EXCEPT !.pc = "bget", !.want = Header, !.cont = "head", !.stage = "clear"])
           /\ UNCHANGED <<disk, buf, mru, idequeue>>
           /\ UNCHANGED <<asleep, inop, ops>>
  <1>1. /\ th[t] \in Threads /\ th[t].pc = "loop" /\ th[t].tail \in Nat /\ log.lh \in Seq(Home)
        /\ InOrder(th[t]) /\ AtTail(th[t], log.lh) /\ Len(log.lh) <= LOGSIZE
    BY ThreadType DEF Loop, Running, Control, Types, BlockList
  <1>2. Len(log.lh) \in Nat /\ JobOf(th[t]) = "loop"
    BY <1>1 DEF JobOf
  <1>3. th[t].tail <= Len(log.lh) /\ th[t].stage \in {"writelog", "install"}
    BY <1>1, <1>2 DEF InOrder, AtTail
  <1>4. CASE th[t].tail < Len(log.lh)
    <2> DEFINE r == [th[t] EXCEPT !.pc = "bget", !.want = LogBlock(th[t].tail + 1), !.cont = "first", !.held = <<>>]
    <2>1. LogBlock(th[t].tail + 1) \in Blocks /\ <<>> \in Seq(Bufs)
      BY <1>1, <1>2, <1>4, LogAssumption DEF Blocks, LogBlock
    <2>2. r \in Threads
      BY <1>1, <2>1 DEF Threads, Pcs, Fetches
    <2>3. th' = [Bread(t, LogBlock(th[t].tail + 1), "first") EXCEPT ![t].held = <<>>] /\ UNCHANGED <<log, up>>
      BY <1>4 DEF Loop
    <2>4. th' = [th EXCEPT ![t] = r]
      BY <1>1, <2>3 DEF Bread, Types
    <2>5. Moves(t, r)
      BY <2>2, <2>4, ThreadsStep DEF Moves
    <2>. QED
      BY <1>1, <1>4, <2>3, <2>5 DEF Loop, Bounds
  <1>5. CASE th[t].tail = Len(log.lh)
    <2>1. ~(th[t].tail < Len(log.lh))
      BY <1>2, <1>5
    <2>2. /\ Enter(t, NextStage(th[t].stage))
          /\ log' = IF NextStage(th[t].stage) = "clear" THEN [log EXCEPT !.lh = <<>>] ELSE log
      BY <2>1 DEF Loop
    <2>3. CASE th[t].stage = "writelog"
      <3> DEFINE r == [Idle EXCEPT !.pc = "bget", !.want = Header, !.cont = "head", !.stage = "head"]
      <3>1. NextStage(th[t].stage) = "head"
        BY <2>3 DEF NextStage
      <3>2. th' = [th EXCEPT ![t] = r] /\ up' = up /\ log' = log
        BY <2>2, <3>1 DEF Enter, Types
      <3>3. r \in Threads
        BY IdleType
      <3>4. Moves(t, r)
        BY <3>2, <3>3, ThreadsStep DEF Moves
      <3>. QED
        BY <1>1, <1>5, <2>3, <3>2, <3>4 DEF Loop, Bounds
    <2>4. CASE th[t].stage = "install"
      <3> DEFINE r == [Idle EXCEPT !.pc = "bget", !.want = Header, !.cont = "head", !.stage = "clear"]
      <3>1. NextStage(th[t].stage) = "clear"
        BY <2>4 DEF NextStage
      <3>2. th' = [th EXCEPT ![t] = r] /\ up' = up /\ log' = [log EXCEPT !.lh = <<>>]
        BY <2>2, <3>1 DEF Enter, Types
      <3>3. r \in Threads
        BY IdleType
      <3>4. Moves(t, r)
        BY <3>2, <3>3, ThreadsStep DEF Moves
      <3>. QED
        BY <1>1, <1>5, <2>4, <3>2, <3>4 DEF Loop, Bounds
    <2>. QED
      BY <1>3, <2>3, <2>4
  <1>. QED
    BY <1>1, <1>2, <1>3, <1>4, <1>5

\* The header is on disk and the next stage begins.
LEMMA MovesHeaded ==
    ASSUME Types, Control, NEW t \in Procs, Headed(t)
    PROVE  /\ th[t].pc = "headed"
           /\ \/ /\ th[t].stage = "head" /\ up' = up
                 /\ Moves(t, [Idle EXCEPT !.pc = "loop", !.stage = "install"])
              \/ /\ th[t].stage = "clear" /\ up' = TRUE
                 /\ Moves(t, IF up THEN [Idle EXCEPT !.pc = "committed"] ELSE Idle)
           /\ buf' = AfterRelease(buf, t) /\ mru' = ListAfterRelease(t)
           /\ UNCHANGED <<disk, idequeue, log, asleep, inop, ops>>
  <1>1. th[t].pc = "headed" /\ InOrder(th[t])
    BY DEF Headed, Running, Control
  <1>2. JobOf(th[t]) = "headed"
    BY <1>1 DEF JobOf
  <1>3. th[t].stage \in {"head", "clear"}
    BY <1>1, <1>2 DEF InOrder
  <1>4. /\ Enter(t, NextStage(th[t].stage))
        /\ buf' = AfterRelease(buf, t) /\ mru' = ListAfterRelease(t)
        /\ UNCHANGED <<disk, idequeue, log, asleep, inop, ops>>
    BY DEF Headed, Bounds
  <1>5. CASE th[t].stage = "head"
    <2> DEFINE r == [Idle EXCEPT !.pc = "loop", !.stage = "install"]
    <2>1. NextStage(th[t].stage) = "install"
      BY <1>5 DEF NextStage
    <2>2. th' = [th EXCEPT ![t] = r] /\ up' = up
      BY <1>4, <2>1 DEF Enter, Types
    <2>3. r \in Threads
      BY IdleType
    <2>4. Moves(t, r)
      BY <2>2, <2>3, ThreadsStep DEF Moves
    <2>. QED
      BY <1>1, <1>4, <1>5, <2>2, <2>4
  <1>6. CASE th[t].stage = "clear"
    <2> DEFINE r == IF up THEN [Idle EXCEPT !.pc = "committed"] ELSE Idle
    <2>1. NextStage(th[t].stage) = "done"
      BY <1>6 DEF NextStage
    <2>2. th' = [th EXCEPT ![t] = r] /\ up' = TRUE
      BY <1>4, <2>1 DEF Enter, Types
    <2>3. r \in Threads
      BY IdleType
    <2>4. Moves(t, r)
      BY <2>2, <2>3, ThreadsStep DEF Moves
    <2>. QED
      BY <1>1, <1>4, <1>6, <2>2, <2>4
  <1>. QED
    BY <1>3, <1>5, <1>6
-----------------------------------------------------------------------------
(* Control *)

\* A process that does not commit has no position in the log.
LEMMA NoTail ==
    ASSUME NEW r \in Threads, InOrder(r), r.stage = "", NEW lh
    PROVE  AtTail(r, lh)
  BY DEF InOrder, AtTail, TwoBlocks

\* What Control says of a process
LEMMA ControlOf ==
    ASSUME Types, Control, NEW t \in Procs
    PROVE  InOrder(th[t]) /\ AtTail(th[t], log.lh) /\ BlockList(log.lh)
  BY DEF Control

\* A step of t that neither begins nor ends an operation or a commit
LEMMA ControlSame ==
    ASSUME Types, Control, NEW t \in Procs, NEW r, Moves(t, r),
           InOrder(r), AtTail(r, log.lh), log' = log, up' = up, inop' = inop,
           (r.stage # "" \/ r.pc = "committed") <=> Commits(t),
           JobOf(r) \in {"work", "modify", "append"} <=> Job(t) \in {"work", "modify", "append"},
           t \in inop => r.left = th[t].left,
           ~up => t = Boot /\ r.stage \in {"readhead", "install", "clear"},
           r.stage = "readhead" => ~up
    PROVE  Control'
  <1>1. \A u \in Procs : InOrder(th'[u]) /\ AtTail(th'[u], log'.lh)
    BY DEF Moves, Control
  <1>2. \A u \in Procs : Commits(u)' <=> Commits(u)
    BY DEF Moves, Commits
  <1>3. \A u \in Procs : Job(u)' \in {"work", "modify", "append"} <=> Job(u) \in {"work", "modify", "append"}
    BY DEF Moves, Job
  <1>4. Reserved' = Reserved
    BY DEF Reserved, Moves, Control
  <1>5. inop' = {u \in Procs : Job(u) \in {"work", "modify", "append"}}'
    BY <1>3 DEF Control
  <1>6. ~up => /\ th'[Boot].stage \in {"readhead", "install", "clear"}
               /\ \A u \in Procs \ {Boot} : th'[u].pc = "idle"
    BY DEF Moves, Control
  <1>7. up => \A u \in Procs : th'[u].stage # "readhead"
    BY DEF Moves, Control
  <1>. QED
    BY <1>1, <1>2, <1>4, <1>5, <1>6, <1>7 DEF Control
\* The state of a process that enters a stage
AtLoop(s) == [Idle EXCEPT !.pc = "loop", !.stage = s]
AtHead(s) == [Idle EXCEPT !.pc = "bget", !.want = Header, !.cont = "head", !.stage = s]
AtEnd == [Idle EXCEPT !.pc = "committed"]

\* The fields of these states
LEMMA EntryFields ==
    /\ Idle.pc = "idle" /\ Idle.held = <<>> /\ Idle.stage = "" /\ Idle.tail = 0 /\ Idle.left = 0
    /\ AtEnd.pc = "committed" /\ AtEnd.held = <<>> /\ AtEnd.stage = "" /\ AtEnd.tail = 0 /\ AtEnd.left = 0
    /\ \A s : AtLoop(s).pc = "loop" /\ AtLoop(s).held = <<>> /\ AtLoop(s).stage = s /\ AtLoop(s).tail = 0
              /\ AtLoop(s).left = 0
    /\ \A s : AtHead(s).pc = "bget" /\ AtHead(s).cont = "head" /\ AtHead(s).want = Header /\ AtHead(s).held = <<>>
              /\ AtHead(s).stage = s /\ AtHead(s).tail = 0 /\ AtHead(s).left = 0
    /\ JobOf(Idle) = "idle" /\ JobOf(AtEnd) = "committed"
    /\ \A s : JobOf(AtLoop(s)) = "loop" /\ JobOf(AtHead(s)) = "head"
  BY DEF Idle, AtEnd, AtLoop, AtHead, JobOf

\* A process that enters a stage is in order.
LEMMA EntryInOrder ==
    /\ InOrder(Idle) /\ InOrder(AtEnd)
    /\ \A s \in {"writelog", "install"} : InOrder(AtLoop(s))
    /\ \A s \in {"readhead", "head", "clear"} : InOrder(AtHead(s))
  <1>1. 0 <= MaxWrites /\ Len(<<>>) = 0
    BY LogAssumption
  <1>2. InOrder(Idle)
    BY <1>1, EntryFields DEF InOrder, Holds, OneBlock, TwoBlocks
  <1>3. InOrder(AtEnd)
    BY <1>1, EntryFields DEF InOrder, Holds, OneBlock, TwoBlocks
  <1>4. ASSUME NEW s \in {"writelog", "install"} PROVE InOrder(AtLoop(s))
    BY <1>1, EntryFields DEF InOrder, Holds, OneBlock, TwoBlocks
  <1>5. ASSUME NEW s \in {"readhead", "head", "clear"} PROVE InOrder(AtHead(s))
    BY <1>1, EntryFields DEF InOrder, Holds, OneBlock, TwoBlocks, Fetches
  <1>. QED
    BY <1>2, <1>3, <1>4, <1>5

\* bget keeps Control.
LEMMA ControlBget ==
    ASSUME Types, Control, NEW t \in Procs, bget(t), ~Halts
    PROVE  Control'
  <1>0. PICK b \in Bufs : Moves(t, [th[t] EXCEPT !.pc = "lock", !.held = Append(@, b)])
    BY MovesBget
  <1> DEFINE r == [th[t] EXCEPT !.pc = "lock", !.held = Append(@, b)]
  <1>1. th[t] \in Threads /\ th[t].pc = "bget" /\ InOrder(th[t]) /\ AtTail(th[t], log.lh)
    BY MovesBget, ThreadType, ControlOf
  <1>2. r \in Threads
    BY <1>0 DEF Moves
  <1>3. r.pc = "lock" /\ r.cont = th[t].cont /\ r.want = th[t].want /\ r.held = Append(th[t].held, b) /\ r.stage = th[t].stage /\ r.tail = th[t].tail /\ r.op = th[t].op /\ r.left = th[t].left
    BY <1>1 DEF Threads
  <1>4. log' = log /\ up' = up /\ inop' = inop
    BY MovesBget
  <1>5. ~up => t = Boot /\ th[t].stage \in {"readhead", "install", "clear"}
    BY <1>1, <1>4 DEF Control
  <1>. HIDE DEF r
  <1>6. InOrder(r)
    <2>1. Len(th[t].held) = Holds(th[t]) /\ th[t].held \in Seq(Bufs)
      BY <1>1, ThreadType DEF InOrder
    <2>2. Len(r.held) = Len(th[t].held) + 1
      BY <1>3, <2>1
    <2>3. JobOf(r) = th[t].cont /\ JobOf(th[t]) = th[t].cont /\ th[t].cont \in Fetches
      BY <1>1, <1>3 DEF JobOf, InOrder
    <2>4. Holds(th[t]) = IF th[t].cont = "second" THEN 1 ELSE 0
      BY <1>1, <2>3 DEF Holds, TwoBlocks, Fetches
    <2>5. Holds(r) = IF th[t].cont = "second" THEN 2 ELSE 1
      BY <1>3, <2>3 DEF Holds, OneBlock, TwoBlocks, Fetches
    <2>6. Len(r.held) = Holds(r)
      BY <2>1, <2>2, <2>4, <2>5
    <2>. QED
      BY <1>1, <1>3, <1>4, <2>3, <2>6 DEF InOrder, JobOf, OneBlock, TwoBlocks, Fetches, Flushes
  <1>7. AtTail(r, log.lh)
    BY <1>1, <1>2, <1>3, <1>4 DEF InOrder, AtTail, JobOf, Threads, OneBlock, TwoBlocks, Fetches, Flushes
  <1>8. (r.stage # "" \/ r.pc = "committed") <=> Commits(t)
    BY <1>1, <1>3 DEF Commits, InOrder, JobOf, OneBlock, TwoBlocks, Fetches, Flushes
  <1>9. JobOf(r) \in {"work", "modify", "append"} <=> Job(t) \in {"work", "modify", "append"}
    BY <1>1, <1>3 DEF Job, JobOf, InOrder, OneBlock, TwoBlocks, Fetches, Flushes
  <1>10. t \in inop => r.left = th[t].left
    BY <1>1, <1>3 DEF Control, Job, JobOf
  <1>11. (~up => r.stage \in {"readhead", "install", "clear"}) /\ (r.stage = "readhead" => ~up)
    BY <1>1, <1>3, <1>5 DEF Control, InOrder, JobOf
  <1>. QED
    BY <1>0, <1>4, <1>5, <1>6, <1>7, <1>8, <1>9, <1>10, <1>11, ControlSame DEF r

\* acquiresleep keeps Control.
LEMMA ControlLock ==
    ASSUME Types, Control, NEW t \in Procs, Lock(t)
    PROVE  Control'
  <1>0. Moves(t, [th[t] EXCEPT !.pc = IF buf[Cur(th[t])].valid THEN th[t].cont ELSE "disk"])
    BY MovesLock
  <1> DEFINE r == [th[t] EXCEPT !.pc = IF buf[Cur(th[t])].valid THEN th[t].cont ELSE "disk"]
  <1>1. th[t] \in Threads /\ th[t].pc = "lock" /\ InOrder(th[t]) /\ AtTail(th[t], log.lh)
    BY MovesLock, ThreadType, ControlOf
  <1>2. r \in Threads
    BY <1>0 DEF Moves
  <1>3. r.pc = (IF buf[Cur(th[t])].valid THEN th[t].cont ELSE "disk") /\ r.cont = th[t].cont /\ r.want = th[t].want /\ r.held = th[t].held /\ r.stage = th[t].stage /\ r.tail = th[t].tail /\ r.op = th[t].op /\ r.left = th[t].left
    BY <1>1 DEF Threads
  <1>4. log' = log /\ up' = up /\ inop' = inop
    BY MovesLock
  <1>5. ~up => t = Boot /\ th[t].stage \in {"readhead", "install", "clear"}
    BY <1>1, <1>4 DEF Control
  <1>. HIDE DEF r
  <1>6. InOrder(r)
    <2>1. Len(th[t].held) = Holds(th[t]) /\ th[t].held \in Seq(Bufs)
      BY <1>1, ThreadType DEF InOrder
    <2>2. Len(r.held) = Len(th[t].held)
      BY <1>3
    <2>3. Len(r.held) = Holds(r)
      BY <1>1, <1>3, <2>1, <2>2 DEF InOrder, JobOf, Holds, OneBlock, TwoBlocks, Fetches, Flushes
    <2>. QED
      BY <1>1, <1>3, <1>4, <2>3 DEF InOrder, JobOf, OneBlock, TwoBlocks, Fetches, Flushes
  <1>7. AtTail(r, log.lh)
    BY <1>1, <1>2, <1>3, <1>4 DEF InOrder, AtTail, JobOf, Threads, OneBlock, TwoBlocks, Fetches, Flushes
  <1>8. (r.stage # "" \/ r.pc = "committed") <=> Commits(t)
    BY <1>1, <1>3 DEF Commits, InOrder, JobOf, OneBlock, TwoBlocks, Fetches, Flushes
  <1>9. JobOf(r) \in {"work", "modify", "append"} <=> Job(t) \in {"work", "modify", "append"}
    BY <1>1, <1>3 DEF Job, JobOf, InOrder, OneBlock, TwoBlocks, Fetches, Flushes
  <1>10. t \in inop => r.left = th[t].left
    BY <1>1, <1>3 DEF Control, Job, JobOf
  <1>11. (~up => r.stage \in {"readhead", "install", "clear"}) /\ (r.stage = "readhead" => ~up)
    BY <1>1, <1>3, <1>5 DEF Control, InOrder, JobOf
  <1>. QED
    BY <1>0, <1>4, <1>5, <1>6, <1>7, <1>8, <1>9, <1>10, <1>11, ControlSame DEF r

\* The end of iderw keeps Control.
LEMMA ControlDiskDone ==
    ASSUME Types, Control, NEW t \in Procs, DiskDone(t)
    PROVE  Control'
  <1>0. Moves(t, [th[t] EXCEPT !.pc = th[t].cont])
    BY MovesDiskDone
  <1> DEFINE r == [th[t] EXCEPT !.pc = th[t].cont]
  <1>1. th[t] \in Threads /\ th[t].pc = "disk" /\ InOrder(th[t]) /\ AtTail(th[t], log.lh)
    BY MovesDiskDone, ThreadType, ControlOf
  <1>2. r \in Threads
    BY <1>0 DEF Moves
  <1>3. r.pc = th[t].cont /\ r.cont = th[t].cont /\ r.want = th[t].want /\ r.held = th[t].held /\ r.stage = th[t].stage /\ r.tail = th[t].tail /\ r.op = th[t].op /\ r.left = th[t].left
    BY <1>1 DEF Threads
  <1>4. log' = log /\ up' = up /\ inop' = inop
    BY MovesDiskDone
  <1>5. ~up => t = Boot /\ th[t].stage \in {"readhead", "install", "clear"}
    BY <1>1, <1>4 DEF Control
  <1>. HIDE DEF r
  <1>6. InOrder(r)
    <2>1. Len(th[t].held) = Holds(th[t]) /\ th[t].held \in Seq(Bufs)
      BY <1>1, ThreadType DEF InOrder
    <2>2. Len(r.held) = Len(th[t].held)
      BY <1>3
    <2>3. Len(r.held) = Holds(r)
      BY <1>1, <1>3, <2>1, <2>2 DEF InOrder, JobOf, Holds, OneBlock, TwoBlocks, Fetches, Flushes
    <2>. QED
      BY <1>1, <1>3, <1>4, <2>3 DEF InOrder, JobOf, OneBlock, TwoBlocks, Fetches, Flushes
  <1>7. AtTail(r, log.lh)
    BY <1>1, <1>2, <1>3, <1>4 DEF InOrder, AtTail, JobOf, Threads, OneBlock, TwoBlocks, Fetches, Flushes
  <1>8. (r.stage # "" \/ r.pc = "committed") <=> Commits(t)
    BY <1>1, <1>3 DEF Commits, InOrder, JobOf, OneBlock, TwoBlocks, Fetches, Flushes
  <1>9. JobOf(r) \in {"work", "modify", "append"} <=> Job(t) \in {"work", "modify", "append"}
    BY <1>1, <1>3 DEF Job, JobOf, InOrder, OneBlock, TwoBlocks, Fetches, Flushes
  <1>10. t \in inop => r.left = th[t].left
    BY <1>1, <1>3 DEF Control, Job, JobOf
  <1>11. (~up => r.stage \in {"readhead", "install", "clear"}) /\ (r.stage = "readhead" => ~up)
    BY <1>1, <1>3, <1>5 DEF Control, InOrder, JobOf
  <1>. QED
    BY <1>0, <1>4, <1>5, <1>6, <1>7, <1>8, <1>9, <1>10, <1>11, ControlSame DEF r

\* The call of begin_op keeps Control.
LEMMA ControlCallBegin ==
    ASSUME Types, Control, NEW t \in Procs, CallBegin(t)
    PROVE  Control'
  <1>0. Moves(t, [th[t] EXCEPT !.pc = "begin", !.op = ops + 1, !.left = MaxWrites])
    BY MovesCallBegin
  <1> DEFINE r == [th[t] EXCEPT !.pc = "begin", !.op = ops + 1, !.left = MaxWrites]
  <1>1. th[t] \in Threads /\ th[t].pc = "idle" /\ InOrder(th[t]) /\ AtTail(th[t], log.lh)
    BY MovesCallBegin, ThreadType, ControlOf
  <1>2. r \in Threads
    BY <1>0 DEF Moves
  <1>3. r.pc = "begin" /\ r.cont = th[t].cont /\ r.want = th[t].want /\ r.held = th[t].held /\ r.stage = th[t].stage /\ r.tail = th[t].tail /\ r.op = ops + 1 /\ r.left = MaxWrites
    BY <1>1 DEF Threads
  <1>4. log' = log /\ up' = up /\ inop' = inop /\ up /\ ops < MaxOps /\ ops \in Nat /\ MaxOps \in Nat /\ MaxWrites \in Nat
    BY MovesCallBegin, LogAssumption DEF Types
  <1>5. ~up => t = Boot /\ th[t].stage \in {"readhead", "install", "clear"}
    BY <1>1, <1>4 DEF Control
  <1>. HIDE DEF r
  <1>6. InOrder(r)
    <2>1. Len(th[t].held) = Holds(th[t]) /\ th[t].held \in Seq(Bufs)
      BY <1>1, ThreadType DEF InOrder
    <2>2. Len(r.held) = Len(th[t].held)
      BY <1>3
    <2>3. Len(r.held) = Holds(r)
      BY <1>1, <1>3, <2>1, <2>2 DEF InOrder, JobOf, Holds, OneBlock, TwoBlocks, Fetches, Flushes
    <2>4. r.op \in 1..MaxOps /\ r.left <= MaxWrites
      BY <1>3, <1>4
    <2>. QED
      BY <1>1, <1>3, <1>4, <2>3, <2>4 DEF InOrder, JobOf, OneBlock, TwoBlocks, Fetches, Flushes
  <1>7. AtTail(r, log.lh)
    BY <1>1, <1>2, <1>3, <1>4 DEF InOrder, AtTail, JobOf, Threads, OneBlock, TwoBlocks, Fetches, Flushes
  <1>8. (r.stage # "" \/ r.pc = "committed") <=> Commits(t)
    BY <1>1, <1>3 DEF Commits, InOrder, JobOf, OneBlock, TwoBlocks, Fetches, Flushes
  <1>9. JobOf(r) \in {"work", "modify", "append"} <=> Job(t) \in {"work", "modify", "append"}
    BY <1>1, <1>3 DEF Job, JobOf, InOrder, OneBlock, TwoBlocks, Fetches, Flushes
  <1>10. t \in inop => r.left = th[t].left
    BY <1>1, <1>3 DEF Control, Job, JobOf
  <1>11. (~up => r.stage \in {"readhead", "install", "clear"}) /\ (r.stage = "readhead" => ~up)
    BY <1>1, <1>3, <1>5 DEF Control, InOrder, JobOf
  <1>. QED
    BY <1>0, <1>4, <1>5, <1>6, <1>7, <1>8, <1>9, <1>10, <1>11, ControlSame DEF r

\* The next bread of an operation keeps Control.
LEMMA ControlNextBlock ==
    ASSUME Types, Control, NEW t \in Procs, NextBlock(t)
    PROVE  Control'
  <1>0. PICK blk \in Home : Moves(t, [th[t] EXCEPT !.pc = "bget", !.want = blk, !.cont = "modify"])
    BY MovesNextBlock
  <1> DEFINE r == [th[t] EXCEPT !.pc = "bget", !.want = blk, !.cont = "modify"]
  <1>1. th[t] \in Threads /\ th[t].pc = "work" /\ InOrder(th[t]) /\ AtTail(th[t], log.lh)
    BY MovesNextBlock, ThreadType, ControlOf
  <1>2. r \in Threads
    BY <1>0 DEF Moves
  <1>3. r.pc = "bget" /\ r.cont = "modify" /\ r.want = blk /\ r.held = th[t].held /\ r.stage = th[t].stage /\ r.tail = th[t].tail /\ r.op = th[t].op /\ r.left = th[t].left
    BY <1>1 DEF Threads
  <1>4. log' = log /\ up' = up /\ inop' = inop /\ th[t].left > 0
    BY MovesNextBlock
  <1>5. ~up => t = Boot /\ th[t].stage \in {"readhead", "install", "clear"}
    BY <1>1, <1>4 DEF Control
  <1>. HIDE DEF r
  <1>6. InOrder(r)
    <2>1. Len(th[t].held) = Holds(th[t]) /\ th[t].held \in Seq(Bufs)
      BY <1>1, ThreadType DEF InOrder
    <2>2. Len(r.held) = Len(th[t].held)
      BY <1>3
    <2>3. Len(r.held) = Holds(r)
      BY <1>1, <1>3, <2>1, <2>2 DEF InOrder, JobOf, Holds, OneBlock, TwoBlocks, Fetches, Flushes
    <2>. QED
      BY <1>1, <1>3, <1>4, <2>3 DEF InOrder, JobOf, OneBlock, TwoBlocks, Fetches, Flushes
  <1>7. AtTail(r, log.lh)
    BY <1>1, <1>2, <1>3, <1>4 DEF InOrder, AtTail, JobOf, Threads, OneBlock, TwoBlocks, Fetches, Flushes
  <1>8. (r.stage # "" \/ r.pc = "committed") <=> Commits(t)
    BY <1>1, <1>3 DEF Commits, InOrder, JobOf, OneBlock, TwoBlocks, Fetches, Flushes
  <1>9. JobOf(r) \in {"work", "modify", "append"} <=> Job(t) \in {"work", "modify", "append"}
    BY <1>1, <1>3 DEF Job, JobOf, InOrder, OneBlock, TwoBlocks, Fetches, Flushes
  <1>10. t \in inop => r.left = th[t].left
    BY <1>1, <1>3 DEF Control, Job, JobOf
  <1>11. (~up => r.stage \in {"readhead", "install", "clear"}) /\ (r.stage = "readhead" => ~up)
    BY <1>1, <1>3, <1>5 DEF Control, InOrder, JobOf
  <1>. QED
    BY <1>0, <1>4, <1>5, <1>6, <1>7, <1>8, <1>9, <1>10, <1>11, ControlSame DEF r

\* log_write's check keeps Control.
LEMMA ControlLogCheck ==
    ASSUME Types, Control, NEW t \in Procs, LogCheck(t), ~Halts
    PROVE  Control'
  <1>0. Moves(t, [th[t] EXCEPT !.pc = "append"])
    BY MovesLogCheck
  <1> DEFINE r == [th[t] EXCEPT !.pc = "append"]
  <1>1. th[t] \in Threads /\ th[t].pc = "modify" /\ InOrder(th[t]) /\ AtTail(th[t], log.lh)
    BY MovesLogCheck, ThreadType, ControlOf
  <1>2. r \in Threads
    BY <1>0 DEF Moves
  <1>3. r.pc = "append" /\ r.cont = th[t].cont /\ r.want = th[t].want /\ r.held = th[t].held /\ r.stage = th[t].stage /\ r.tail = th[t].tail /\ r.op = th[t].op /\ r.left = th[t].left
    BY <1>1 DEF Threads
  <1>4. log' = log /\ up' = up /\ inop' = inop
    BY MovesLogCheck
  <1>5. ~up => t = Boot /\ th[t].stage \in {"readhead", "install", "clear"}
    BY <1>1, <1>4 DEF Control
  <1>. HIDE DEF r
  <1>6. InOrder(r)
    <2>1. Len(th[t].held) = Holds(th[t]) /\ th[t].held \in Seq(Bufs)
      BY <1>1, ThreadType DEF InOrder
    <2>2. Len(r.held) = Len(th[t].held)
      BY <1>3
    <2>3. Len(r.held) = Holds(r)
      BY <1>1, <1>3, <2>1, <2>2 DEF InOrder, JobOf, Holds, OneBlock, TwoBlocks, Fetches, Flushes
    <2>. QED
      BY <1>1, <1>3, <1>4, <2>3 DEF InOrder, JobOf, OneBlock, TwoBlocks, Fetches, Flushes
  <1>7. AtTail(r, log.lh)
    BY <1>1, <1>2, <1>3, <1>4 DEF InOrder, AtTail, JobOf, Threads, OneBlock, TwoBlocks, Fetches, Flushes
  <1>8. (r.stage # "" \/ r.pc = "committed") <=> Commits(t)
    BY <1>1, <1>3 DEF Commits, InOrder, JobOf, OneBlock, TwoBlocks, Fetches, Flushes
  <1>9. JobOf(r) \in {"work", "modify", "append"} <=> Job(t) \in {"work", "modify", "append"}
    BY <1>1, <1>3 DEF Job, JobOf, InOrder, OneBlock, TwoBlocks, Fetches, Flushes
  <1>10. t \in inop => r.left = th[t].left
    BY <1>1, <1>3 DEF Control, Job, JobOf
  <1>11. (~up => r.stage \in {"readhead", "install", "clear"}) /\ (r.stage = "readhead" => ~up)
    BY <1>1, <1>3, <1>5 DEF Control, InOrder, JobOf
  <1>. QED
    BY <1>0, <1>4, <1>5, <1>6, <1>7, <1>8, <1>9, <1>10, <1>11, ControlSame DEF r

\* The second bread of a copy keeps Control.
LEMMA ControlFirst ==
    ASSUME Types, Control, NEW t \in Procs, First(t)
    PROVE  Control'
  <1>0. Moves(t, [th[t] EXCEPT !.pc = "bget", !.want = log.lh[th[t].tail + 1], !.cont = "second"])
    BY MovesFirst
  <1> DEFINE r == [th[t] EXCEPT !.pc = "bget", !.want = log.lh[th[t].tail + 1], !.cont = "second"]
  <1>1. th[t] \in Threads /\ th[t].pc = "first" /\ InOrder(th[t]) /\ AtTail(th[t], log.lh)
    BY MovesFirst, ThreadType, ControlOf
  <1>2. r \in Threads
    BY <1>0 DEF Moves
  <1>3. r.pc = "bget" /\ r.cont = "second" /\ r.want = log.lh[th[t].tail + 1] /\ r.held = th[t].held /\ r.stage = th[t].stage /\ r.tail = th[t].tail /\ r.op = th[t].op /\ r.left = th[t].left
    BY <1>1 DEF Threads
  <1>4. log' = log /\ up' = up /\ inop' = inop
    BY MovesFirst
  <1>5. ~up => t = Boot /\ th[t].stage \in {"readhead", "install", "clear"}
    BY <1>1, <1>4 DEF Control
  <1>. HIDE DEF r
  <1>6. InOrder(r)
    <2>1. Len(th[t].held) = Holds(th[t]) /\ th[t].held \in Seq(Bufs)
      BY <1>1, ThreadType DEF InOrder
    <2>2. Len(r.held) = Len(th[t].held)
      BY <1>3
    <2>3. Len(r.held) = Holds(r)
      BY <1>1, <1>3, <2>1, <2>2 DEF InOrder, JobOf, Holds, OneBlock, TwoBlocks, Fetches, Flushes
    <2>. QED
      BY <1>1, <1>3, <1>4, <2>3 DEF InOrder, JobOf, OneBlock, TwoBlocks, Fetches, Flushes
  <1>7. AtTail(r, log.lh)
    BY <1>1, <1>2, <1>3, <1>4 DEF InOrder, AtTail, JobOf, Threads, OneBlock, TwoBlocks, Fetches, Flushes
  <1>8. (r.stage # "" \/ r.pc = "committed") <=> Commits(t)
    BY <1>1, <1>3 DEF Commits, InOrder, JobOf, OneBlock, TwoBlocks, Fetches, Flushes
  <1>9. JobOf(r) \in {"work", "modify", "append"} <=> Job(t) \in {"work", "modify", "append"}
    BY <1>1, <1>3 DEF Job, JobOf, InOrder, OneBlock, TwoBlocks, Fetches, Flushes
  <1>10. t \in inop => r.left = th[t].left
    BY <1>1, <1>3 DEF Control, Job, JobOf
  <1>11. (~up => r.stage \in {"readhead", "install", "clear"}) /\ (r.stage = "readhead" => ~up)
    BY <1>1, <1>3, <1>5 DEF Control, InOrder, JobOf
  <1>. QED
    BY <1>0, <1>4, <1>5, <1>6, <1>7, <1>8, <1>9, <1>10, <1>11, ControlSame DEF r

\* A copy keeps Control.
LEMMA ControlSecond ==
    ASSUME Types, Control, NEW t \in Procs, Second(t)
    PROVE  Control'
  <1>0. Moves(t, [th[t] EXCEPT !.pc = "disk", !.cont = "copied"])
    BY MovesSecond
  <1> DEFINE r == [th[t] EXCEPT !.pc = "disk", !.cont = "copied"]
  <1>1. th[t] \in Threads /\ th[t].pc = "second" /\ InOrder(th[t]) /\ AtTail(th[t], log.lh)
    BY MovesSecond, ThreadType, ControlOf
  <1>2. r \in Threads
    BY <1>0 DEF Moves
  <1>3. r.pc = "disk" /\ r.cont = "copied" /\ r.want = th[t].want /\ r.held = th[t].held /\ r.stage = th[t].stage /\ r.tail = th[t].tail /\ r.op = th[t].op /\ r.left = th[t].left
    BY <1>1 DEF Threads
  <1>4. log' = log /\ up' = up /\ inop' = inop
    BY MovesSecond
  <1>5. ~up => t = Boot /\ th[t].stage \in {"readhead", "install", "clear"}
    BY <1>1, <1>4 DEF Control
  <1>. HIDE DEF r
  <1>6. InOrder(r)
    <2>1. Len(th[t].held) = Holds(th[t]) /\ th[t].held \in Seq(Bufs)
      BY <1>1, ThreadType DEF InOrder
    <2>2. Len(r.held) = Len(th[t].held)
      BY <1>3
    <2>3. Len(r.held) = Holds(r)
      BY <1>1, <1>3, <2>1, <2>2 DEF InOrder, JobOf, Holds, OneBlock, TwoBlocks, Fetches, Flushes
    <2>. QED
      BY <1>1, <1>3, <1>4, <2>3 DEF InOrder, JobOf, OneBlock, TwoBlocks, Fetches, Flushes
  <1>7. AtTail(r, log.lh)
    BY <1>1, <1>2, <1>3, <1>4 DEF InOrder, AtTail, JobOf, Threads, OneBlock, TwoBlocks, Fetches, Flushes
  <1>8. (r.stage # "" \/ r.pc = "committed") <=> Commits(t)
    BY <1>1, <1>3 DEF Commits, InOrder, JobOf, OneBlock, TwoBlocks, Fetches, Flushes
  <1>9. JobOf(r) \in {"work", "modify", "append"} <=> Job(t) \in {"work", "modify", "append"}
    BY <1>1, <1>3 DEF Job, JobOf, InOrder, OneBlock, TwoBlocks, Fetches, Flushes
  <1>10. t \in inop => r.left = th[t].left
    BY <1>1, <1>3 DEF Control, Job, JobOf
  <1>11. (~up => r.stage \in {"readhead", "install", "clear"}) /\ (r.stage = "readhead" => ~up)
    BY <1>1, <1>3, <1>5 DEF Control, InOrder, JobOf
  <1>. QED
    BY <1>0, <1>4, <1>5, <1>6, <1>7, <1>8, <1>9, <1>10, <1>11, ControlSame DEF r

\* The end of a copy keeps Control.
LEMMA ControlCopied ==
    ASSUME Types, Control, NEW t \in Procs, Copied(t)
    PROVE  Control'
  <1>0. Moves(t, [th[t] EXCEPT !.pc = "loop", !.held = <<>>, !.tail = @ + 1])
    BY MovesCopied
  <1> DEFINE r == [th[t] EXCEPT !.pc = "loop", !.held = <<>>, !.tail = @ + 1]
  <1>1. th[t] \in Threads /\ th[t].pc = "copied" /\ InOrder(th[t]) /\ AtTail(th[t], log.lh)
    BY MovesCopied, ThreadType, ControlOf
  <1>2. r \in Threads
    BY <1>0 DEF Moves
  <1>3. r.pc = "loop" /\ r.cont = th[t].cont /\ r.want = th[t].want /\ r.held = <<>> /\ r.stage = th[t].stage /\ r.tail = th[t].tail + 1 /\ r.op = th[t].op /\ r.left = th[t].left
    BY <1>1 DEF Threads
  <1>4. log' = log /\ up' = up /\ inop' = inop
    BY MovesCopied
  <1>5. ~up => t = Boot /\ th[t].stage \in {"readhead", "install", "clear"}
    BY <1>1, <1>4 DEF Control
  <1>. HIDE DEF r
  <1>6. InOrder(r)
    <2>1. Len(th[t].held) = Holds(th[t]) /\ th[t].held \in Seq(Bufs)
      BY <1>1, ThreadType DEF InOrder
    <2>2. Len(r.held) = 0
      BY <1>3
    <2>3. JobOf(r) = r.pc /\ Len(r.held) = Holds(r)
      BY <1>3, <2>2 DEF JobOf, Holds, OneBlock, TwoBlocks
    <2>. QED
      BY <1>1, <1>3, <1>4, <2>3 DEF InOrder, JobOf, OneBlock, TwoBlocks, Fetches, Flushes
  <1>7. AtTail(r, log.lh)
    <2>1. th[t].tail \in Nat /\ log.lh \in Seq(Home)
      BY ThreadType DEF Types
    <2>2. Len(log.lh) \in Nat /\ JobOf(r) = "loop" /\ JobOf(th[t]) = "copied"
      BY <1>1, <1>3, <2>1 DEF JobOf
    <2>3. th[t].tail < Len(log.lh) /\ th[t].stage \in {"writelog", "install"}
      BY <1>1, <2>2 DEF AtTail, InOrder
    <2>4. r.tail <= Len(log.lh)
      BY <1>3, <2>1, <2>2, <2>3
    <2>. QED
      BY <1>3, <2>2, <2>3, <2>4 DEF AtTail, TwoBlocks
  <1>8. (r.stage # "" \/ r.pc = "committed") <=> Commits(t)
    BY <1>1, <1>3 DEF Commits, InOrder, JobOf, OneBlock, TwoBlocks, Fetches, Flushes
  <1>9. JobOf(r) \in {"work", "modify", "append"} <=> Job(t) \in {"work", "modify", "append"}
    BY <1>1, <1>3 DEF Job, JobOf, InOrder, OneBlock, TwoBlocks, Fetches, Flushes
  <1>10. t \in inop => r.left = th[t].left
    BY <1>1, <1>3 DEF Control, Job, JobOf
  <1>11. (~up => r.stage \in {"readhead", "install", "clear"}) /\ (r.stage = "readhead" => ~up)
    BY <1>1, <1>3, <1>5 DEF Control, InOrder, JobOf
  <1>. QED
    BY <1>0, <1>4, <1>5, <1>6, <1>7, <1>8, <1>9, <1>10, <1>11, ControlSame DEF r

\* write_head keeps Control.
LEMMA ControlWriteHead ==
    ASSUME Types, Control, NEW t \in Procs, WriteHead(t)
    PROVE  Control'
  <1>0. Moves(t, [th[t] EXCEPT !.pc = "disk", !.cont = "headed"])
    BY MovesWriteHead
  <1> DEFINE r == [th[t] EXCEPT !.pc = "disk", !.cont = "headed"]
  <1>1. th[t] \in Threads /\ th[t].pc = "head" /\ InOrder(th[t]) /\ AtTail(th[t], log.lh)
    BY MovesWriteHead, ThreadType, ControlOf
  <1>2. r \in Threads
    BY <1>0 DEF Moves
  <1>3. r.pc = "disk" /\ r.cont = "headed" /\ r.want = th[t].want /\ r.held = th[t].held /\ r.stage = th[t].stage /\ r.tail = th[t].tail /\ r.op = th[t].op /\ r.left = th[t].left
    BY <1>1 DEF Threads
  <1>4. log' = log /\ up' = up /\ inop' = inop /\ th[t].stage # "readhead"
    BY MovesWriteHead
  <1>5. ~up => t = Boot /\ th[t].stage \in {"readhead", "install", "clear"}
    BY <1>1, <1>4 DEF Control
  <1>. HIDE DEF r
  <1>6. InOrder(r)
    <2>1. Len(th[t].held) = Holds(th[t]) /\ th[t].held \in Seq(Bufs)
      BY <1>1, ThreadType DEF InOrder
    <2>2. Len(r.held) = Len(th[t].held)
      BY <1>3
    <2>3. Len(r.held) = Holds(r)
      BY <1>1, <1>3, <2>1, <2>2 DEF InOrder, JobOf, Holds, OneBlock, TwoBlocks, Fetches, Flushes
    <2>. QED
      BY <1>1, <1>3, <1>4, <2>3 DEF InOrder, JobOf, OneBlock, TwoBlocks, Fetches, Flushes
  <1>7. AtTail(r, log.lh)
    BY <1>1, <1>2, <1>3, <1>4 DEF InOrder, AtTail, JobOf, Threads, OneBlock, TwoBlocks, Fetches, Flushes
  <1>8. (r.stage # "" \/ r.pc = "committed") <=> Commits(t)
    BY <1>1, <1>3 DEF Commits, InOrder, JobOf, OneBlock, TwoBlocks, Fetches, Flushes
  <1>9. JobOf(r) \in {"work", "modify", "append"} <=> Job(t) \in {"work", "modify", "append"}
    BY <1>1, <1>3 DEF Job, JobOf, InOrder, OneBlock, TwoBlocks, Fetches, Flushes
  <1>10. t \in inop => r.left = th[t].left
    BY <1>1, <1>3 DEF Control, Job, JobOf
  <1>11. (~up => r.stage \in {"readhead", "install", "clear"}) /\ (r.stage = "readhead" => ~up)
    BY <1>1, <1>3, <1>5 DEF Control, InOrder, JobOf
  <1>. QED
    BY <1>0, <1>4, <1>5, <1>6, <1>7, <1>8, <1>9, <1>10, <1>11, ControlSame DEF r

\* The bread of a read keeps Control.
LEMMA ControlCallRead ==
    ASSUME Types, Control, NEW t \in Procs, CallRead(t)
    PROVE  Control'
  <1>0. PICK blk \in Home : Moves(t, [th[t] EXCEPT !.pc = "bget", !.want = blk, !.cont = "read"])
    BY MovesCallRead
  <1> DEFINE r == [th[t] EXCEPT !.pc = "bget", !.want = blk, !.cont = "read"]
  <1>1. th[t] \in Threads /\ th[t].pc = "idle" /\ InOrder(th[t]) /\ AtTail(th[t], log.lh)
    BY MovesCallRead, ThreadType, ControlOf
  <1>2. r \in Threads
    BY <1>0 DEF Moves
  <1>3. r.pc = "bget" /\ r.cont = "read" /\ r.want = blk /\ r.held = th[t].held /\ r.stage = th[t].stage /\ r.tail = th[t].tail /\ r.op = th[t].op /\ r.left = th[t].left
    BY <1>1 DEF Threads
  <1>4. log' = log /\ up' = up /\ inop' = inop /\ up
    BY MovesCallRead
  <1>5. ~up => t = Boot /\ th[t].stage \in {"readhead", "install", "clear"}
    BY <1>1, <1>4 DEF Control
  <1>. HIDE DEF r
  <1>6. InOrder(r)
    <2>1. Len(th[t].held) = Holds(th[t]) /\ th[t].held \in Seq(Bufs)
      BY <1>1, ThreadType DEF InOrder
    <2>2. Len(r.held) = Len(th[t].held)
      BY <1>3
    <2>3. Len(r.held) = Holds(r)
      BY <1>1, <1>3, <2>1, <2>2 DEF InOrder, JobOf, Holds, OneBlock, TwoBlocks, Fetches, Flushes
    <2>. QED
      BY <1>1, <1>3, <1>4, <2>3 DEF InOrder, JobOf, OneBlock, TwoBlocks, Fetches, Flushes
  <1>7. AtTail(r, log.lh)
    BY <1>1, <1>2, <1>3, <1>4 DEF InOrder, AtTail, JobOf, Threads, OneBlock, TwoBlocks, Fetches, Flushes
  <1>8. (r.stage # "" \/ r.pc = "committed") <=> Commits(t)
    BY <1>1, <1>3 DEF Commits, InOrder, JobOf, OneBlock, TwoBlocks, Fetches, Flushes
  <1>9. JobOf(r) \in {"work", "modify", "append"} <=> Job(t) \in {"work", "modify", "append"}
    BY <1>1, <1>3 DEF Job, JobOf, InOrder, OneBlock, TwoBlocks, Fetches, Flushes
  <1>10. t \in inop => r.left = th[t].left
    BY <1>1, <1>3 DEF Control, Job, JobOf
  <1>11. (~up => r.stage \in {"readhead", "install", "clear"}) /\ (r.stage = "readhead" => ~up)
    BY <1>1, <1>3, <1>5 DEF Control, InOrder, JobOf
  <1>. QED
    BY <1>0, <1>4, <1>5, <1>6, <1>7, <1>8, <1>9, <1>10, <1>11, ControlSame DEF r

\* The end of a read keeps Control.
LEMMA ControlEndRead ==
    ASSUME Types, Control, NEW t \in Procs, EndRead(t)
    PROVE  Control'
  <1>0. Moves(t, Idle)
    BY MovesEndRead
  <1> DEFINE r == Idle
  <1>1. th[t] \in Threads /\ th[t].pc = "read" /\ InOrder(th[t]) /\ AtTail(th[t], log.lh)
    BY MovesEndRead, ThreadType, ControlOf
  <1>2. r \in Threads
    BY <1>0 DEF Moves
  <1>3. r.pc = "idle" /\ r.cont = "" /\ r.want = NoBlock /\ r.held = <<>> /\ r.stage = "" /\ r.tail = 0 /\ r.op = 0 /\ r.left = 0
    BY DEF Idle
  <1>4. log' = log /\ up' = up /\ inop' = inop
    BY MovesEndRead
  <1>5. ~up => t = Boot /\ th[t].stage \in {"readhead", "install", "clear"}
    BY <1>1, <1>4 DEF Control
  <1>. HIDE DEF r
  <1>6. InOrder(r)
    BY EntryInOrder DEF r
  <1>7. AtTail(r, log.lh)
    BY <1>1, <1>2, <1>3, <1>4 DEF InOrder, AtTail, JobOf, Threads, OneBlock, TwoBlocks, Fetches, Flushes
  <1>8. (r.stage # "" \/ r.pc = "committed") <=> Commits(t)
    BY <1>1, <1>3 DEF Commits, InOrder, JobOf, OneBlock, TwoBlocks, Fetches, Flushes
  <1>9. JobOf(r) \in {"work", "modify", "append"} <=> Job(t) \in {"work", "modify", "append"}
    BY <1>1, <1>3 DEF Job, JobOf, InOrder, OneBlock, TwoBlocks, Fetches, Flushes
  <1>10. t \in inop => r.left = th[t].left
    BY <1>1, <1>3 DEF Control, Job, JobOf
  <1>11. (~up => r.stage \in {"readhead", "install", "clear"}) /\ (r.stage = "readhead" => ~up)
    BY <1>1, <1>3, <1>5 DEF Control, InOrder, JobOf
  <1>. QED
    BY <1>0, <1>4, <1>5, <1>6, <1>7, <1>8, <1>9, <1>10, <1>11, ControlSame DEF r

-----------------------------------------------------------------------------
(* What a process holds *)

\* A buffer that a process has locked and the disk is done with
Mine(t, b) == b \in Bufs /\ buf[b].owner = t /\ b \notin Queued /\ buf[b].valid

\* A process that is not waiting holds what is its own.
LEMMA HeldIsMine ==
    ASSUME Types, Cache, NEW t \in Procs, th[t].pc \notin {"lock", "disk"},
           NEW i \in 1..Len(th[t].held)
    PROVE  Mine(t, th[t].held[i])
  <1>1. th[t].held \in Seq(Bufs)
    BY ThreadType
  <1>2. th[t].held[i] \in Bufs
    BY <1>1
  <1>3. buf[th[t].held[i]].owner = t
    BY DEF Cache, Owned, Waits
  <1>4. th[t].held[i] \notin Queued
    BY <1>3 DEF Cache, QueuedFor
  <1>5. buf[th[t].held[i]].valid
    BY <1>4 DEF Cache, Fetched, Waits
  <1>. QED
    BY <1>2, <1>3, <1>4, <1>5 DEF Mine

\* A process with one buffer
LEMMA HeldOne ==
    ASSUME Types, Control, Cache, NEW t \in Procs, th[t].pc \in OneBlock
    PROVE  /\ Len(th[t].held) = 1 /\ Cur(th[t]) = th[t].held[1] /\ Job(t) = th[t].pc
           /\ Mine(t, th[t].held[1]) /\ buf[th[t].held[1]].blockno = th[t].want
  <1>1. JobOf(th[t]) = th[t].pc /\ Len(th[t].held) = Holds(th[t])
    BY DEF Control, InOrder, JobOf, OneBlock
  <1>2. Holds(th[t]) = 1
    BY <1>1 DEF Holds, OneBlock, TwoBlocks
  <1>3. Mine(t, th[t].held[1])
    BY <1>1, <1>2, HeldIsMine DEF OneBlock
  <1>4. th[t].held # <<>>
    <2>1. th[t].held \in Seq(Bufs)
      BY ThreadType
    <2>2. Len(th[t].held) # 0
      BY <1>1, <1>2
    <2>. QED
      BY <2>1, <2>2
  <1>5. buf[Cur(th[t])].blockno = th[t].want
    BY <1>4 DEF Cache, RightBlocks, OneBlock
  <1>. QED
    BY <1>1, <1>2, <1>3, <1>5 DEF Cur, Job

\* A process with two buffers: the one of the log comes first.
LEMMA HeldTwo ==
    ASSUME Types, Control, Cache, NEW t \in Procs, th[t].pc \in TwoBlocks
    PROVE  /\ Len(th[t].held) = 2 /\ Cur(th[t]) = th[t].held[2] /\ Job(t) = th[t].pc
           /\ Mine(t, th[t].held[1]) /\ Mine(t, th[t].held[2])
           /\ buf[th[t].held[1]].blockno = LogBlock(th[t].tail + 1)
           /\ buf[th[t].held[2]].blockno = log.lh[th[t].tail + 1]
           /\ th[t].tail + 1 \in 1..Len(log.lh) /\ th[t].tail + 1 \in 1..LOGSIZE
           /\ buf[th[t].held[2]].blockno \in Home /\ buf[th[t].held[1]].blockno \notin Home
           /\ th[t].held[1] # th[t].held[2]
           /\ th[t].stage \in {"writelog", "install"}
  <1>1. JobOf(th[t]) = th[t].pc /\ Len(th[t].held) = Holds(th[t])
    BY DEF Control, InOrder, JobOf, TwoBlocks
  <1>2. Holds(th[t]) = 2
    BY <1>1 DEF Holds, OneBlock, TwoBlocks
  <1>3. Mine(t, th[t].held[1]) /\ Mine(t, th[t].held[2])
    BY <1>1, <1>2, HeldIsMine DEF TwoBlocks
  <1>4. th[t].held # <<>>
    <2>1. th[t].held \in Seq(Bufs)
      BY ThreadType
    <2>2. Len(th[t].held) # 0
      BY <1>1, <1>2
    <2>. QED
      BY <2>1, <2>2
  <1>5. buf[Cur(th[t])].blockno = th[t].want /\ buf[th[t].held[1]].blockno = LogBlock(th[t].tail + 1)
    BY <1>1, <1>4 DEF Cache, RightBlocks, TwoBlocks
  <1>6. th[t].tail < Len(log.lh) /\ th[t].want = log.lh[th[t].tail + 1]
    BY <1>1 DEF Control, AtTail, TwoBlocks
  <1>7. th[t].tail \in Nat /\ log.lh \in Seq(Home) /\ Len(log.lh) <= LOGSIZE
    BY ThreadType DEF Types, Control, BlockList
  <1>8. Len(log.lh) \in Nat /\ LOGSIZE \in Nat
    BY <1>7, LogAssumption
  <1>9. th[t].tail + 1 \in 1..Len(log.lh) /\ th[t].tail + 1 \in 1..LOGSIZE
    BY <1>6, <1>7, <1>8
  <1>10. log.lh[th[t].tail + 1] \in Home
    BY <1>7, <1>9
  <1>11. LogBlock(th[t].tail + 1) \notin Home
    BY <1>9, BlockKinds
  <1>12. th[t].stage \in {"writelog", "install"}
    BY <1>1 DEF Control, InOrder, TwoBlocks
  <1>. QED
    BY <1>1, <1>2, <1>3, <1>5, <1>6, <1>9, <1>10, <1>11, <1>12 DEF Cur, Job

-----------------------------------------------------------------------------
(* Control: operations and commits begin and end *)

\* What begin_op reserves is a finite set, no larger than MAXOPBLOCKS for each operation.
LEMMA ReservedIsSmall ==
    ASSUME NEW S, IsFiniteSet(S), NEW R \in SUBSET (S \X (1..MAXOPBLOCKS))
    PROVE  /\ IsFiniteSet(R) /\ Cardinality(R) \in Nat /\ Cardinality(S) \in Nat
           /\ Cardinality(R) <= Cardinality(S) * MAXOPBLOCKS
  <1>1. IsFiniteSet(1..MAXOPBLOCKS) /\ Cardinality(1..MAXOPBLOCKS) = MAXOPBLOCKS
    BY LogAssumption, FS_Interval
  <1>2. /\ IsFiniteSet(S \X (1..MAXOPBLOCKS))
        /\ Cardinality(S \X (1..MAXOPBLOCKS)) = Cardinality(S) * Cardinality(1..MAXOPBLOCKS)
    BY <1>1, FS_Product
  <1>3. IsFiniteSet(R) /\ Cardinality(R) <= Cardinality(S \X (1..MAXOPBLOCKS))
    BY <1>2, FS_Subset
  <1>. QED
    BY <1>1, <1>2, <1>3, FS_CardinalityType

\* The operations under way are finitely many.
LEMMA InopFinite ==
    ASSUME Types
    PROVE  IsFiniteSet(inop) /\ Cardinality(inop) \in Nat
  BY LogAssumption, FS_Subset, FS_CardinalityType DEF Types

\* While an operation is under way nobody commits.
LEMMA NobodyCommits ==
    ASSUME Types, Control, NEW t \in inop
    PROVE  /\ \A u \in Procs : ~Commits(u) /\ th[u].stage = ""
           /\ up /\ ~log.committing
  <1>1. \A u \in Procs : ~Commits(u)
    BY DEF Control
  <1>2. th[Boot].stage = ""
    BY <1>1, LogAssumption DEF Commits
  <1>3. up
    BY <1>2 DEF Control
  <1>. QED
    BY <1>1, <1>3 DEF Control, Commits

\* begin_op reserves MAXOPBLOCKS blocks of the log, of which MaxWrites will be used.
LEMMA ControlBeginOp ==
    ASSUME Types, Control, NEW t \in Procs, begin_op(t), th' # th
    PROVE  Control'
  <1> DEFINE r == [th[t] EXCEPT !.pc = "work"]
  <1>1. /\ Moves(t, r) /\ th[t].pc = "begin" /\ ~log.committing /\ ~NoSpace /\ up' = up
        /\ log' = [log EXCEPT !.outstanding = @ + 1] /\ inop' = inop \cup {t}
    BY MovesBeginOp
  <1>2. th[t] \in Threads /\ InOrder(th[t]) /\ AtTail(th[t], log.lh) /\ BlockList(log.lh)
    BY ThreadType, ControlOf
  <1>3. r.pc = "work" /\ r.cont = th[t].cont /\ r.want = th[t].want /\ r.held = th[t].held /\ r.stage = th[t].stage /\ r.tail = th[t].tail /\ r.op = th[t].op /\ r.left = th[t].left
    BY <1>2 DEF Threads
  <1>4. JobOf(th[t]) = "begin" /\ JobOf(r) = "work"
    BY <1>1, <1>3 DEF JobOf
  <1>. HIDE DEF r
  <1>5. th[t].stage = "" /\ r.stage = ""
    BY <1>2, <1>3, <1>4 DEF InOrder
  <1>6. InOrder(r)
    BY <1>2, <1>3, <1>4, <1>5 DEF InOrder, Holds, OneBlock, TwoBlocks
  <1>7. AtTail(r, log.lh)
    BY <1>4, <1>5 DEF AtTail, TwoBlocks
  <1>8. log'.lh = log.lh /\ log'.outstanding = log.outstanding + 1 /\ log'.committing = log.committing
    BY <1>1 DEF Types
  <1>9. up
    BY <1>1, <1>5, LogAssumption DEF Control
  <1>10. \A u \in Procs : ~Commits(u) /\ ~Commits(u)'
    BY <1>1, <1>3, <1>5, <1>9 DEF Moves, Commits, Control
  <1>11. \A u \in Procs : InOrder(th'[u]) /\ AtTail(th'[u], log'.lh)
    BY <1>1, <1>6, <1>7, <1>8 DEF Moves, Control
  <1>12. inop' = {u \in Procs : Job(u) \in {"work", "modify", "append"}}'
    BY <1>1, <1>4 DEF Moves, Control, Job
  <1>13. t \notin inop
    BY <1>4 DEF Control, Job
  <1>14. IsFiniteSet(inop') /\ Cardinality(inop') = Cardinality(inop) + 1
    BY <1>1, <1>13, InopFinite, FS_AddElement
  <1>15. Reserved' \in SUBSET (inop' \X (1..MAXOPBLOCKS))
    BY DEF Reserved
  <1>16. Cardinality(Reserved') \in Nat /\ Cardinality(Reserved') <= Cardinality(inop') * MAXOPBLOCKS
    BY <1>14, <1>15, ReservedIsSmall
  <1>17. Len(log.lh) + (Cardinality(inop) + 1) * MAXOPBLOCKS <= LOGSIZE
    <2>1. log.outstanding = Cardinality(inop)
      BY DEF Control
    <2>2. ~(Len(log.lh) + (Cardinality(inop) + 1) * MAXOPBLOCKS > LOGSIZE)
      BY <1>1, <2>1 DEF NoSpace
    <2>3. log.lh \in Seq(Home) /\ Cardinality(inop) \in Nat
      BY InopFinite DEF Types
    <2>4. Len(log.lh) \in Nat /\ (Cardinality(inop) + 1) * MAXOPBLOCKS \in Int
      BY <2>3, LogAssumption
    <2>. QED
      BY <2>2, <2>4, LogAssumption
  <1>18. Len(log'.lh) + Cardinality(Reserved') <= LOGSIZE
    <2>1. log.lh \in Seq(Home) /\ Cardinality(inop) \in Nat
      BY InopFinite DEF Types
    <2>2. Len(log.lh) \in Nat
      BY <2>1
    <2>. QED
      BY <1>8, <1>14, <1>16, <1>17, <2>1, <2>2, LogAssumption
  <1>19. ~log'.committing /\ log'.outstanding = Cardinality(inop')
    BY <1>1, <1>8, <1>14 DEF Control
  <1>20. \A u \in Procs : th'[u].stage # "readhead"
    BY <1>10 DEF Commits
  <1>. QED
    BY <1>1, <1>2, <1>8, <1>9, <1>10, <1>11, <1>12, <1>18, <1>19, <1>20 DEF Control

\* log_write uses one of the blocks that begin_op reserved.
LEMMA ControlLogWrite ==
    ASSUME Types, Control, Cache, NEW t \in Procs, log_write(t)
    PROVE  Control'
  <1> DEFINE r == [th[t] EXCEPT !.pc = "work", !.held = <<>>, !.left = @ - 1]
             blk == buf[th[t].held[1]].blockno
  <1>1. /\ Moves(t, r) /\ th[t].pc = "append" /\ up' = up /\ inop' = inop
        /\ log' = [log EXCEPT !.lh = Absorbed(blk)]
    BY MovesLogWrite
  <1>2. /\ th[t] \in Threads /\ InOrder(th[t]) /\ AtTail(th[t], log.lh) /\ BlockList(log.lh)
        /\ th[t].left \in Nat /\ MaxWrites \in Nat
    BY ThreadType, ControlOf, LogAssumption
  <1>3. r.pc = "work" /\ r.cont = th[t].cont /\ r.want = th[t].want /\ r.held = <<>> /\ r.stage = th[t].stage /\ r.tail = th[t].tail /\ r.op = th[t].op /\ r.left = th[t].left - 1
    BY <1>2 DEF Threads
  <1>4. JobOf(th[t]) = "append" /\ JobOf(r) = "work" /\ th[t].pc \in OneBlock
    BY <1>1, <1>3 DEF JobOf, OneBlock
  <1>5. blk = th[t].want
    BY <1>4, HeldOne
  <1>. HIDE DEF r, blk
  <1>6. th[t].stage = "" /\ r.stage = "" /\ blk \in Home /\ th[t].left > 0 /\ th[t].left <= MaxWrites
    BY <1>2, <1>3, <1>4, <1>5 DEF InOrder
  <1>7. InOrder(r)
    <2>1. Len(r.held) = 0
      BY <1>3
    <2>2. r.left <= MaxWrites
      <3>1. th[t].left \in Nat /\ MaxWrites \in Nat /\ th[t].left <= MaxWrites
        BY <1>2, <1>6
      <3>2. th[t].left - 1 <= MaxWrites
        BY <3>1
      <3>. QED
        BY <3>2, <1>3
    <2>3. r.op \in 1..MaxOps
      BY <1>2, <1>3, <1>4 DEF InOrder
    <2>4. Holds(r) = 0
      BY <1>4 DEF Holds, OneBlock, TwoBlocks
    <2>. QED
      BY <1>3, <1>4, <1>6, <2>1, <2>2, <2>3, <2>4 DEF InOrder
  <1>8. log'.lh = Absorbed(blk) /\ log'.outstanding = log.outstanding /\ log'.committing = log.committing
    BY <1>1 DEF Types
  <1>9. t \in inop
    BY <1>4 DEF Control, Job
  <1>10. /\ \A u \in Procs : ~Commits(u) /\ th[u].stage = ""
         /\ up /\ ~log.committing
    BY <1>9, NobodyCommits
  <1>11. \A u \in Procs : ~Commits(u)' /\ th'[u].stage = ""
    BY <1>1, <1>3, <1>10 DEF Moves, Commits
  <1>12. \A u \in Procs : InOrder(th'[u])
    BY <1>1, <1>7 DEF Moves, Control
  <1>13. \A u \in Procs : AtTail(th'[u], log'.lh)
    <2> SUFFICES ASSUME NEW u \in Procs PROVE AtTail(th'[u], log'.lh)
      OBVIOUS
    <2>1. th'[u] \in Threads
      BY <1>1 DEF Moves
    <2>. QED
      BY <1>11, <1>12, <2>1, NoTail
  <1>14. inop' = {u \in Procs : Job(u) \in {"work", "modify", "append"}}'
    BY <1>1, <1>4 DEF Moves, Control, Job
  <1>15. log.lh \in Seq(Home) /\ Len(log.lh) \in Nat
    BY DEF Types
  <1>16. /\ Absorbed(blk) \in Seq(Home) /\ Len(Absorbed(blk)) <= Len(log.lh) + 1 /\ Len(Absorbed(blk)) \in Nat
         /\ \A i, j \in 1..Len(Absorbed(blk)) : Absorbed(blk)[i] = Absorbed(blk)[j] => i = j
    <2>1. CASE blk \in ToSet(log.lh)
      BY <1>2, <1>15, <2>1 DEF Absorbed, BlockList
    <2>2. CASE blk \notin ToSet(log.lh)
      <3>1. Absorbed(blk) = Append(log.lh, blk) /\ \A i \in 1..Len(log.lh) : log.lh[i] # blk
        BY <1>15, <2>2 DEF Absorbed, ToSet
      <3>2. /\ Append(log.lh, blk) \in Seq(Home) /\ Len(Append(log.lh, blk)) = Len(log.lh) + 1
            /\ \A i \in 1..Len(log.lh) : Append(log.lh, blk)[i] = log.lh[i]
            /\ Append(log.lh, blk)[Len(log.lh) + 1] = blk
        <4>1. blk \in Home /\ log.lh \in Seq(Home)
          BY <1>6, <1>15
        <4>. QED
          BY <4>1
      <3>3. \A i \in 1..(Len(log.lh) + 1) : i \in 1..Len(log.lh) \/ i = Len(log.lh) + 1
        BY <1>15
      <3>4. ASSUME NEW i \in 1..(Len(log.lh) + 1), NEW j \in 1..(Len(log.lh) + 1),
                   Append(log.lh, blk)[i] = Append(log.lh, blk)[j]
            PROVE  i = j
        BY <1>2, <3>1, <3>2, <3>3, <3>4 DEF BlockList
      <3>. QED
        BY <1>15, <3>1, <3>2, <3>4
    <2>. QED
      BY <2>1, <2>2
  <1>. DEFINE k == th[t].left + Spare
  <1>0. Spare \in Nat /\ MaxWrites + Spare = MAXOPBLOCKS /\ MAXOPBLOCKS \in Nat
    BY LogAssumption DEF Spare
  <1>17. Reserved' = Reserved \ {<<t, k>>}
    <2>1. \A u \in inop : th'[u].left = IF u = t THEN th[t].left - 1 ELSE th[u].left
      BY <1>1, <1>3 DEF Moves, Types
    <2>2. \A n \in 1..MAXOPBLOCKS : n <= th[t].left - 1 + Spare <=> (n <= k /\ n # k)
      BY <1>0, <1>2
    <2>3. Reserved' = {x \in inop \X (1..MAXOPBLOCKS) : x[2] <= th'[x[1]].left + Spare}
      BY <1>1 DEF Reserved, Spare
    <2>4. \A x \in inop \X (1..MAXOPBLOCKS) : x[2] <= th'[x[1]].left + Spare <=> (x[2] <= th[x[1]].left + Spare /\ x # <<t, k>>)
      <3> SUFFICES ASSUME NEW u \in inop, NEW n \in 1..MAXOPBLOCKS
                   PROVE  n <= th'[u].left + Spare <=> (n <= th[u].left + Spare /\ <<u, n>> # <<t, k>>)
        OBVIOUS
      <3>1. CASE u = t
        BY <2>1, <2>2, <3>1
      <3>2. CASE u # t
        BY <2>1, <3>2
      <3>. QED
        BY <3>1, <3>2
    <2>. QED
      BY <2>3, <2>4 DEF Reserved
  <1>18. <<t, k>> \in Reserved
    <2>1. k \in 1..MAXOPBLOCKS /\ k <= th[t].left + Spare
      <3>1. th[t].left \in Nat /\ MaxWrites \in Nat /\ th[t].left > 0 /\ th[t].left <= MaxWrites
        BY <1>2, <1>6
      <3>. HIDE DEF k
      <3>2. k = th[t].left + Spare
        BY DEF k
      <3>. QED
        BY <1>0, <3>1, <3>2
    <2>. QED
      BY <1>9, <2>1 DEF Reserved
  <1>19. IsFiniteSet(Reserved) /\ Cardinality(Reserved) \in Nat
    <2>1. Reserved \in SUBSET (inop \X (1..MAXOPBLOCKS))
      BY DEF Reserved
    <2>. QED
      BY <2>1, InopFinite, ReservedIsSmall
  <1>20. Cardinality(Reserved') = Cardinality(Reserved) - 1
    BY <1>17, <1>18, <1>19, FS_RemoveElement
  <1>21. Len(log.lh) + Cardinality(Reserved) <= LOGSIZE
    BY DEF Control
  <1>22. IsFiniteSet(Reserved') /\ Cardinality(Reserved') \in Nat
    BY <1>17, <1>19, FS_RemoveElement, FS_CardinalityType
  <1>23. Len(Absorbed(blk)) + Cardinality(Reserved') <= LOGSIZE /\ Len(Absorbed(blk)) <= LOGSIZE
    BY <1>15, <1>16, <1>19, <1>20, <1>21, <1>22, LogAssumption
  <1>24. BlockList(log'.lh)
    BY <1>8, <1>16, <1>23 DEF BlockList
  <1>25. log'.outstanding = Cardinality(inop')
    BY <1>1, <1>8 DEF Control
  <1>. QED
    BY <1>1, <1>8, <1>10, <1>11, <1>12, <1>13, <1>14, <1>23, <1>24, <1>25 DEF Control

\* end_op keeps Control: the last operation becomes the one that commits.
LEMMA ControlEndOp ==
    ASSUME Types, Control, NEW t \in Procs, end_op(t), ~Halts
    PROVE  Control'
  <1> DEFINE r == IF log.outstanding # 1 THEN Idle ELSE IF log.lh = <<>> THEN AtEnd ELSE AtLoop("writelog")
  <1>1. /\ Moves(t, r) /\ th[t].pc = "work" /\ up' = up /\ inop' = inop \ {t}
        /\ log' = [log EXCEPT !.outstanding = @ - 1, !.committing = (log.outstanding = 1)]
    BY MovesEndOp DEF AtEnd, AtLoop
  <1>2. JobOf(th[t]) = "work" /\ BlockList(log.lh)
    BY <1>1, ControlOf DEF JobOf
  <1>3. t \in inop
    BY <1>2 DEF Control, Job
  <1>4. /\ \A u \in Procs : ~Commits(u) /\ th[u].stage = ""
        /\ up /\ ~log.committing
    BY <1>3, NobodyCommits
  <1>5. r \in {Idle, AtEnd, AtLoop("writelog")} /\ (r # Idle => log.outstanding = 1) /\ (log.outstanding = 1 => r # Idle)
    <2>1. Idle # AtEnd /\ Idle # AtLoop("writelog")
      BY EntryFields
    <2>. QED
      BY <2>1
  <1>. HIDE DEF r
  <1>6. InOrder(r) /\ r.stage \in {"", "writelog"} /\ JobOf(r) \in {"idle", "committed", "loop"} /\ r.tail = 0
    <2>1. CASE r = Idle
      BY <2>1, EntryInOrder, EntryFields
    <2>2. CASE r = AtEnd
      BY <2>2, EntryInOrder, EntryFields
    <2>3. CASE r = AtLoop("writelog")
      BY <2>3, EntryInOrder, EntryFields
    <2>. QED
      BY <1>5, <2>1, <2>2, <2>3
  <1>7. (r.stage # "" \/ r.pc = "committed") <=> log.outstanding = 1
    BY <1>5, EntryFields
  <1>8. /\ log'.lh = log.lh /\ log'.outstanding = log.outstanding - 1
        /\ log'.committing <=> log.outstanding = 1
    BY <1>1 DEF Types
  <1>9. AtTail(r, log.lh)
    <2>1. Len(log.lh) \in Nat
      BY DEF Types
    <2>2. 0 <= Len(log.lh)
      BY <2>1
    <2>. QED
      BY <1>6, <2>2 DEF AtTail, TwoBlocks
  <1>10. \A u \in Procs : InOrder(th'[u]) /\ AtTail(th'[u], log'.lh)
    BY <1>1, <1>6, <1>8, <1>9 DEF Moves, Control
  <1>11. \A u \in Procs : Commits(u)' <=> (u = t /\ log.outstanding = 1)
    BY <1>1, <1>4, <1>7 DEF Moves, Commits
  <1>12. inop' = {u \in Procs : Job(u) \in {"work", "modify", "append"}}'
    BY <1>1, <1>6 DEF Moves, Control, Job
  <1>13. IsFiniteSet(inop) /\ Cardinality(inop) = log.outstanding
    BY InopFinite DEF Control
  <1>14. Cardinality(inop') = log'.outstanding
    BY <1>1, <1>3, <1>8, <1>13, FS_RemoveElement
  <1>15. log.outstanding = 1 => inop' = {}
    BY <1>1, <1>3, <1>13, FS_Singleton
  <1>16. Reserved' \subseteq Reserved
    BY <1>1 DEF Reserved, Moves, Types
  <1>17. IsFiniteSet(Reserved)
    <2>1. Reserved \in SUBSET (inop \X (1..MAXOPBLOCKS))
      BY DEF Reserved
    <2>. QED
      BY <2>1, InopFinite, ReservedIsSmall
  <1>18. Cardinality(Reserved') <= Cardinality(Reserved) /\ Cardinality(Reserved') \in Nat /\ Cardinality(Reserved) \in Nat
    BY <1>16, <1>17, FS_Subset, FS_CardinalityType
  <1>19. Len(log'.lh) + Cardinality(Reserved') <= LOGSIZE
    <2>1. Len(log.lh) \in Nat
      BY DEF Types
    <2>2. Len(log.lh) + Cardinality(Reserved) <= LOGSIZE
      BY DEF Control
    <2>. QED
      BY <1>8, <1>18, <2>1, <2>2, LogAssumption
  <1>20. \A u \in Procs : th'[u].stage # "readhead"
    BY <1>1, <1>4, <1>6 DEF Moves
  <1>21. log'.committing <=> up' /\ \E u \in Procs : Commits(u)'
    BY <1>1, <1>4, <1>8, <1>11
  <1>. QED
    BY <1>1, <1>2, <1>4, <1>8, <1>10, <1>11, <1>12, <1>14, <1>15, <1>19, <1>20, <1>21 DEF Control

\* When t commits or recovers nobody else does, and no operation is under way.
LEMMA OneCommits ==
    ASSUME Types, Control, NEW t \in Procs, Commits(t)
    PROVE  /\ \A u \in Procs \ {t} : ~Commits(u) /\ th[u].stage = ""
           /\ inop = {} /\ Reserved = {} /\ log.outstanding = 0
           /\ \A u \in Procs : Job(u) \notin {"work", "modify", "append"}
           /\ log.committing <=> up
           /\ ~up => t = Boot
  <1>1. \A u \in Procs \ {t} : ~Commits(u)
    BY DEF Control
  <1>2. inop = {}
    BY DEF Control
  <1>3. \A u \in Procs : Job(u) \notin {"work", "modify", "append"}
    BY <1>2 DEF Control
  <1>4. ~up => t = Boot
    BY <1>1, LogAssumption DEF Control, Commits
  <1>5. log.outstanding = 0
    BY <1>2, FS_EmptySet DEF Control
  <1>. QED
    BY <1>1, <1>2, <1>3, <1>4, <1>5 DEF Control, Commits, Reserved

\* Without reservations a list of blocks fits.
LEMMA NothingReserved ==
    ASSUME NEW s, BlockList(s), NEW R, R = {}
    PROVE  Len(s) + Cardinality(R) <= LOGSIZE
  <1>1. Cardinality(R) = 0
    BY FS_EmptySet
  <1>2. Len(s) \in Nat /\ Len(s) <= LOGSIZE
    BY DEF BlockList
  <1>. QED
    BY <1>1, <1>2, LogAssumption

\* A step of the process that commits or recovers
LEMMA ControlStage ==
    ASSUME Types, Control, NEW t \in Procs, Commits(t), NEW r, Moves(t, r),
           InOrder(r), AtTail(r, log'.lh), BlockList(log'.lh), inop' = inop, up' \in BOOLEAN, up => up',
           log'.outstanding = log.outstanding,
           JobOf(r) \notin {"work", "modify", "append"},
           r.stage # "" => log'.committing = log.committing /\ up' = up,
           (up /\ r.pc = "committed") => log'.committing = log.committing,
           (r.stage = "" /\ r.pc # "committed") => up' /\ ~log'.committing,
           ~up /\ r.pc = "committed" => FALSE,
           ~up' => r.stage \in {"readhead", "install", "clear"},
           r.stage = "readhead" => ~up
    PROVE  Control'
  <1>1. /\ \A u \in Procs \ {t} : ~Commits(u) /\ th[u].stage = ""
        /\ inop = {} /\ Reserved = {} /\ log.outstanding = 0
        /\ \A u \in Procs : Job(u) \notin {"work", "modify", "append"}
        /\ log.committing <=> up
        /\ ~up => t = Boot
    BY OneCommits
  <1>2. \A u \in Procs : InOrder(th'[u])
    BY DEF Moves, Control
  <1>3. \A u \in Procs \ {t} : AtTail(th'[u], log'.lh)
    <2> SUFFICES ASSUME NEW u \in Procs \ {t} PROVE AtTail(th'[u], log'.lh)
      OBVIOUS
    <2>1. th'[u] \in Threads /\ th'[u].stage = ""
      BY <1>1 DEF Moves
    <2>. QED
      BY <1>2, <2>1, NoTail
  <1>4. \A u \in Procs : AtTail(th'[u], log'.lh)
    BY <1>3 DEF Moves
  <1>5. \A u \in Procs : Commits(u)' => u = t
    BY <1>1 DEF Moves, Commits
  <1>6. \A u \in Procs : Job(u)' \notin {"work", "modify", "append"}
    BY <1>1 DEF Moves, Job
  <1>7. inop' = {u \in Procs : Job(u) \in {"work", "modify", "append"}}'
    BY <1>1, <1>6
  <1>8. Reserved' = {}
    BY <1>1 DEF Reserved
  <1>9. Len(log'.lh) + Cardinality(Reserved') <= LOGSIZE
    BY <1>8, NothingReserved
  <1>10. log'.outstanding = Cardinality(inop')
    BY <1>1, FS_EmptySet
  <1>11. Commits(t)' <=> (r.stage # "" \/ r.pc = "committed")
    BY DEF Commits, Moves
  <1>12. log'.committing <=> up' /\ \E u \in Procs : Commits(u)'
    BY <1>1, <1>5, <1>11 DEF Types
  <1>13. ~up' => /\ th'[Boot].stage \in {"readhead", "install", "clear"}
                 /\ \A u \in Procs \ {Boot} : th'[u].pc = "idle"
    BY <1>1 DEF Moves, Control
  <1>14. up' => \A u \in Procs : th'[u].stage # "readhead"
    BY <1>1 DEF Moves
  <1>. QED
    BY <1>1, <1>2, <1>4, <1>5, <1>7, <1>9, <1>10, <1>12, <1>13, <1>14 DEF Control

\* The end of a commit keeps Control.
LEMMA ControlCommitted ==
    ASSUME Types, Control, NEW t \in Procs, Committed(t)
    PROVE  Control'
  <1>1. /\ Moves(t, Idle) /\ th[t].pc = "committed" /\ up' = up /\ inop' = inop
        /\ log' = [log EXCEPT !.committing = FALSE]
    BY MovesCommitted
  <1>2. Commits(t) /\ InOrder(th[t]) /\ JobOf(th[t]) = "committed"
    BY <1>1, ControlOf DEF Commits, JobOf
  <1>3. th[t].stage = ""
    BY <1>2 DEF InOrder
  <1>4. up /\ up \in BOOLEAN
    BY <1>1, <1>3, OneCommits, <1>2, LogAssumption DEF Control, Types
  <1>5. log'.lh = log.lh /\ log'.outstanding = log.outstanding /\ log'.committing = FALSE
    BY <1>1 DEF Types
  <1>6. InOrder(Idle) /\ Idle.stage = "" /\ Idle.pc = "idle" /\ JobOf(Idle) = "idle"
    BY EntryInOrder, EntryFields
  <1>7. AtTail(Idle, log'.lh)
    BY <1>6 DEF AtTail, TwoBlocks
  <1>8. BlockList(log'.lh)
    BY <1>5, ControlOf
  <1>. QED
    BY <1>1, <1>2, <1>4, <1>5, <1>6, <1>7, <1>8, ControlStage

\* write_log and install_trans keep Control.
LEMMA ControlLoop ==
    ASSUME Types, Control, NEW t \in Procs, Loop(t)
    PROVE  Control'
  <1>1. /\ th[t].pc = "loop" /\ up' = up /\ inop' = inop /\ up \in BOOLEAN
        /\ \/ /\ th[t].tail < Len(log.lh) /\ log' = log
              /\ Moves(t, [th[t] EXCEPT !.pc = "bget", !.want = LogBlock(th[t].tail + 1),
                                        !.cont = "first", !.held = <<>>])
           \/ /\ th[t].tail = Len(log.lh) /\ log' = log /\ th[t].stage = "writelog" /\ Moves(t, AtHead("head"))
           \/ /\ th[t].tail = Len(log.lh) /\ log' = [log EXCEPT !.lh = <<>>] /\ th[t].stage = "install"
              /\ Moves(t, AtHead("clear"))
    BY MovesLoop DEF AtHead, Types
  <1>2. th[t] \in Threads /\ InOrder(th[t]) /\ AtTail(th[t], log.lh) /\ BlockList(log.lh) /\ JobOf(th[t]) = "loop"
    BY <1>1, ThreadType, ControlOf DEF JobOf
  <1>3. th[t].stage \in {"writelog", "install"} /\ Commits(t) /\ th[t].stage # "readhead" /\ th[t].stage # ""
    BY <1>2 DEF InOrder, Commits
  <1>4. ~up => th[t].stage \in {"readhead", "install", "clear"}
    BY <1>3, OneCommits DEF Control
  <1>5. CASE /\ th[t].tail < Len(log.lh) /\ log' = log
             /\ Moves(t, [th[t] EXCEPT !.pc = "bget", !.want = LogBlock(th[t].tail + 1), !.cont = "first", !.held = <<>>])
    <2> DEFINE r == [th[t] EXCEPT !.pc = "bget", !.want = LogBlock(th[t].tail + 1), !.cont = "first", !.held = <<>>]
    <2>1. r.pc = "bget" /\ r.cont = "first" /\ r.want = LogBlock(th[t].tail + 1) /\ r.held = <<>> /\ r.stage = th[t].stage /\ r.tail = th[t].tail /\ r.op = th[t].op /\ r.left = th[t].left
      BY <1>2 DEF Threads
    <2>. HIDE DEF r
    <2>2. JobOf(r) = "first" /\ Len(r.held) = 0
      BY <2>1 DEF JobOf
    <2>3. Holds(r) = 0
      BY <2>1, <2>2 DEF Holds, TwoBlocks
    <2>4. InOrder(r)
      BY <1>2, <1>3, <2>1, <2>2, <2>3 DEF InOrder, Fetches
    <2>5. AtTail(r, log.lh)
      BY <1>3, <1>5, <2>1, <2>2 DEF AtTail, TwoBlocks
    <2>6. Moves(t, r)
      BY <1>5 DEF r
    <2>. QED
      BY <1>1, <1>2, <1>3, <1>4, <1>5, <2>1, <2>2, <2>4, <2>5, <2>6, ControlStage
  <1>6. CASE th[t].tail = Len(log.lh) /\ log' = log /\ th[t].stage = "writelog" /\ Moves(t, AtHead("head"))
    <2> DEFINE r == AtHead("head")
    <2>1. InOrder(r) /\ r.stage = "head" /\ r.pc = "bget" /\ JobOf(r) = "head"
      BY EntryInOrder, EntryFields
    <2>. HIDE DEF r
    <2>2. AtTail(r, log.lh)
      BY <2>1 DEF AtTail, TwoBlocks
    <2>3. Moves(t, r)
      BY <1>6 DEF r
    <2>. QED
      BY <1>1, <1>2, <1>3, <1>4, <1>6, <2>1, <2>2, <2>3, ControlStage
  <1>7. CASE /\ th[t].tail = Len(log.lh) /\ log' = [log EXCEPT !.lh = <<>>] /\ th[t].stage = "install"
             /\ Moves(t, AtHead("clear"))
    <2> DEFINE r == AtHead("clear")
    <2>1. InOrder(r) /\ r.stage = "clear" /\ r.pc = "bget" /\ JobOf(r) = "head"
      BY EntryInOrder, EntryFields
    <2>. HIDE DEF r
    <2>2. log'.lh = <<>> /\ log'.outstanding = log.outstanding /\ log'.committing = log.committing
      BY <1>7 DEF Types
    <2>3. AtTail(r, log'.lh)
      BY <2>1, <2>2 DEF AtTail, TwoBlocks
    <2>4. BlockList(log'.lh)
      BY <2>2, LogAssumption DEF BlockList
    <2>5. Moves(t, r)
      BY <1>7 DEF r
    <2>. QED
      BY <1>1, <1>2, <1>3, <1>4, <1>7, <2>1, <2>2, <2>3, <2>4, <2>5, ControlStage
  <1>. QED
    BY <1>1, <1>5, <1>6, <1>7

\* The header that recovery reads is the one on disk.
LEMMA HeaderRead ==
    ASSUME Types, Control, Cache, Data, OnDisk, NEW t \in Procs, th[t].pc = "head"
    PROVE  /\ Mine(t, th[t].held[1]) /\ buf[th[t].held[1]].blockno = Header
           /\ ~buf[th[t].held[1]].dirty /\ buf[th[t].held[1]].data = disk[Header]
           /\ BlockList(buf[th[t].held[1]].data)
  <1> DEFINE b == th[t].held[1]
  <1>1. Mine(t, b) /\ buf[b].blockno = th[t].want /\ JobOf(th[t]) = "head"
    BY HeldOne DEF OneBlock, JobOf
  <1>2. buf[b].blockno = Header
    BY <1>1 DEF Control, InOrder
  <1>3. ~buf[b].dirty
    BY <1>1, <1>2, BlockKinds DEF Data, Mine
  <1>4. buf[b].data = disk[Header]
    BY <1>1, <1>2, <1>3 DEF Data, Mine
  <1>. QED
    BY <1>1, <1>2, <1>3, <1>4 DEF OnDisk

\* read_head keeps Control.
LEMMA ControlReadHead ==
    ASSUME Types, Control, Cache, Data, OnDisk, NEW t \in Procs, ReadHead(t)
    PROVE  Control'
  <1> DEFINE r == AtLoop("install")
  <1>1. /\ th[t].pc = "head" /\ th[t].stage = "readhead" /\ Moves(t, r) /\ inop' = inop /\ up' = up /\ up \in BOOLEAN
        /\ log' = [log EXCEPT !.lh = buf[th[t].held[1]].data]
    BY MovesReadHead DEF AtLoop, Types
  <1>2. log'.lh = buf[th[t].held[1]].data /\ log'.outstanding = log.outstanding /\ log'.committing = log.committing
    BY <1>1 DEF Types
  <1>3. BlockList(log'.lh)
    BY <1>1, <1>2, HeaderRead
  <1>4. Commits(t)
    BY <1>1 DEF Commits
  <1>5. InOrder(r) /\ r.stage = "install" /\ r.pc = "loop" /\ JobOf(r) = "loop" /\ r.tail = 0
    BY EntryInOrder, EntryFields
  <1>. HIDE DEF r
  <1>6. AtTail(r, log'.lh)
    <2>1. log'.lh \in Seq(Home)
      BY <1>3 DEF BlockList
    <2>2. 0 <= Len(log'.lh)
      BY <2>1
    <2>. QED
      BY <1>5, <2>2 DEF AtTail, TwoBlocks
  <1>. QED
    BY <1>1, <1>2, <1>3, <1>4, <1>5, <1>6, ControlStage

\* The end of write_head keeps Control.
LEMMA ControlHeaded ==
    ASSUME Types, Control, NEW t \in Procs, Headed(t)
    PROVE  Control'
  <1>1. /\ th[t].pc = "headed" /\ log' = log /\ inop' = inop /\ up \in BOOLEAN
        /\ \/ th[t].stage = "head" /\ up' = up /\ Moves(t, AtLoop("install"))
           \/ th[t].stage = "clear" /\ up' = TRUE /\ Moves(t, IF up THEN AtEnd ELSE Idle)
    BY MovesHeaded DEF AtLoop, AtEnd, Types
  <1>2. BlockList(log.lh) /\ Len(log.lh) \in Nat
    BY ControlOf DEF Types
  <1>3. CASE th[t].stage = "head" /\ up' = up /\ Moves(t, AtLoop("install"))
    <2> DEFINE r == AtLoop("install")
    <2>1. InOrder(r) /\ r.stage = "install" /\ r.pc = "loop" /\ JobOf(r) = "loop" /\ r.tail = 0
      BY EntryInOrder, EntryFields
    <2>. HIDE DEF r
    <2>2. 0 <= Len(log.lh)
      BY <1>2
    <2>3. AtTail(r, log.lh)
      BY <2>1, <2>2 DEF AtTail, TwoBlocks
    <2>4. Moves(t, r) /\ Commits(t)
      BY <1>3 DEF r, Commits
    <2>. QED
      BY <1>1, <1>2, <1>3, <2>1, <2>3, <2>4, ControlStage
  <1>4. CASE th[t].stage = "clear" /\ up' = TRUE /\ Moves(t, IF up THEN AtEnd ELSE Idle)
    <2> DEFINE r == IF up THEN AtEnd ELSE Idle
    <2>1. InOrder(r) /\ r.stage = "" /\ JobOf(r) = r.pc /\ r.pc = IF up THEN "committed" ELSE "idle"
      BY EntryInOrder, EntryFields
    <2>2. Moves(t, r) /\ Commits(t)
      BY <1>4 DEF Commits
    <2>. HIDE DEF r
    <2>3. AtTail(r, log.lh)
      BY <2>1 DEF AtTail, TwoBlocks
    <2>4. ~up => ~log.committing
      BY DEF Control
    <2>. QED
      BY <1>1, <1>2, <1>4, <2>1, <2>2, <2>3, <2>4, ControlStage
  <1>. QED
    BY <1>1, <1>3, <1>4

\* Control holds after power on.
LEMMA ControlBoot ==
    ASSUME buf = [b \in Bufs |-> FreshBuf], log = FreshLog, up = FALSE,
           th = [t \in Procs |-> Booting(t)], inop = {}
    PROVE  Control
  <1>1. th[Boot] = AtHead("readhead") /\ \A t \in Procs \ {Boot} : th[t] = Idle
    BY LogAssumption DEF Booting, AtHead
  <1>2. log.lh = <<>> /\ log.outstanding = 0 /\ log.committing = FALSE
    BY DEF FreshLog
  <1>3. \A t \in Procs : InOrder(th[t])
    BY <1>1, EntryInOrder
  <1>4. Job(Boot) = "head" /\ th[Boot].stage = "readhead" /\ \A t \in Procs \ {Boot} : Job(t) = "idle" /\ th[t].stage = "" /\ th[t].pc = "idle"
    BY <1>1, EntryFields DEF Job
  <1>5. \A t \in Procs : AtTail(th[t], log.lh)
    BY <1>2, <1>4 DEF AtTail, Job, TwoBlocks
  <1>6. Reserved = {} /\ Cardinality(Reserved) = 0 /\ Cardinality(inop) = 0
    BY FS_EmptySet DEF Reserved
  <1>7. BlockList(log.lh) /\ Len(log.lh) = 0
    BY <1>2, LogAssumption DEF BlockList
  <1>8. \A t \in Procs : Commits(t) => t = Boot
    BY <1>4 DEF Commits
  <1>9. \A t \in Procs : Job(t) \notin {"work", "modify", "append"}
    BY <1>4
  <1>10. Len(log.lh) + Cardinality(Reserved) <= LOGSIZE
    BY <1>6, <1>7, LogAssumption
  <1>. QED
    BY <1>2, <1>3, <1>4, <1>5, <1>6, <1>7, <1>8, <1>9, <1>10 DEF Control

-----------------------------------------------------------------------------
(* Cache *)

\* A process at the disk holds one or two buffers, the one it asked for among them.
LEMMA TargetIsHeld ==
    ASSUME Types, Control, NEW t \in Procs, th[t].pc = "disk"
    PROVE  /\ Len(th[t].held) \in {1, 2}
           /\ \E i \in 1..Len(th[t].held) : th[t].held[i] = Target(th[t])
  <1>1. InOrder(th[t]) /\ JobOf(th[t]) = th[t].cont
    BY ControlOf DEF JobOf
  <1>2. th[t].cont \in Fetches \cup Flushes /\ Len(th[t].held) = Holds(th[t])
    BY <1>1 DEF InOrder
  <1>3. Holds(th[t]) \in {1, 2}
    BY <1>1, <1>2 DEF Holds, Fetches, Flushes, OneBlock, TwoBlocks
  <1>. QED
    BY <1>2, <1>3 DEF Target, Cur

\* A buffer that waits for the disk is held by the process that has locked it.
LEMMA QueuedIsHeld ==
    ASSUME Types, Control, Cache, NEW b \in Queued
    PROVE  /\ buf[b].owner \in Procs /\ th[buf[b].owner].pc = "disk" /\ b \in Bufs
           /\ buf[b].owner \in Holders(b)
  <1>1. buf[b].owner \in Procs /\ th[buf[b].owner].pc = "disk" /\ Target(th[buf[b].owner]) = b
    BY DEF Cache, QueuedFor
  <1>2. b \in Bufs
    BY DEF Queued, Types
  <1>3. \E i \in 1..Len(th[buf[b].owner].held) : th[buf[b].owner].held[i] = b
    BY <1>1, TargetIsHeld
  <1>. QED
    BY <1>1, <1>2, <1>3 DEF Holders

\* Nobody holds a buffer whose reference count is 0, and the disk does not have it.
LEMMA NobodyHolds ==
    ASSUME Types, Control, Cache, NEW b \in Bufs, buf[b].refcnt = 0
    PROVE  /\ b \notin Queued
           /\ \A t \in Procs : \A i \in 1..Len(th[t].held) : th[t].held[i] # b
  <1>1. Holders(b) \in SUBSET Procs
    BY DEF Holders
  <1>2. Cardinality(Holders(b)) = 0
    BY DEF Cache, Counted
  <1>3. Holders(b) = {}
    BY <1>1, <1>2, LogAssumption, FS_Subset, FS_EmptySet
  <1>. QED
    BY <1>3, QueuedIsHeld DEF Holders

\* A step that leaves the buffers alone
LEMMA CacheQuiet ==
    ASSUME Types, Control, Cache, NEW t \in Procs, NEW r, Moves(t, r),
           buf' = buf, idequeue' = idequeue, r.held = th[t].held,
           th[t].pc # "lock", \A b \in Queued : buf[b].owner # t, RightBlocks(r)
    PROVE  Cache'
  <1>1. Queued' = Queued /\ \A b \in Bufs : Holders(b)' = Holders(b)
    BY DEF Queued, Holders, Moves
  <1>2. Unique' /\ Counted' /\ QueuedOnce'
    BY <1>1 DEF Cache, Unique, Counted, QueuedOnce
  <1>3. ASSUME NEW u \in Procs
        PROVE  RightBlocks(th[u])' /\ Owned(u, th[u])' /\ Fetched(th[u])'
    <2>1. CASE u = t
      <3>1. th'[u] = r
        BY <2>1 DEF Moves
      <3>2. RightBlocks(th[u])'
        BY <3>1 DEF RightBlocks
      <3>3. Owned(u, th[u])'
        BY <2>1, <3>1 DEF Cache, Owned, Waits
      <3>4. Fetched(th[u])'
        BY <1>1, <2>1, <3>1 DEF Cache, Fetched, Waits
      <3>. QED
        BY <3>2, <3>3, <3>4
    <2>2. CASE u # t
      <3>1. th'[u] = th[u]
        BY <2>2 DEF Moves
      <3>2. RightBlocks(th[u]) /\ Owned(u, th[u]) /\ Fetched(th[u])
        BY DEF Cache
      <3>. QED
        BY <1>1, <3>1, <3>2 DEF RightBlocks, Owned, Fetched
    <2>. QED
      BY <2>1, <2>2
  <1>4. ASSUME NEW b \in Queued PROVE QueuedFor(b)'
    <2>1. QueuedFor(b) /\ buf[b].owner # t
      BY DEF Cache
    <2>2. th'[buf[b].owner] = th[buf[b].owner]
      BY <2>1 DEF QueuedFor, Moves
    <2>. QED
      BY <2>1, <2>2 DEF QueuedFor, Job
  <1>5. (\A b \in Bufs : (buf[b].dirty => buf[b].valid) /\ (buf[b].valid => buf[b].blockno # NoBlock))'
    BY DEF Cache
  <1>. QED
    BY <1>1, <1>2, <1>3, <1>4, <1>5 DEF Cache

\* Adding to the queue
LEMMA QueueAppend ==
    ASSUME NEW q \in Seq(Bufs), NEW b \in Bufs,
           \A i, j \in 1..Len(q) : q[i] = q[j] => i = j, \A i \in 1..Len(q) : q[i] # b
    PROVE  LET p == Append(q, b)
           IN  /\ p \in Seq(Bufs)
               /\ {p[i] : i \in 1..Len(p)} = {q[i] : i \in 1..Len(q)} \cup {b}
               /\ \A i, j \in 1..Len(p) : p[i] = p[j] => i = j
  <1> DEFINE p == Append(q, b)
  <1>1. /\ p \in Seq(Bufs) /\ Len(p) = Len(q) + 1 /\ Len(q) \in Nat
        /\ \A i \in 1..Len(q) : p[i] = q[i]
        /\ p[Len(q) + 1] = b
    OBVIOUS
  <1>. HIDE DEF p
  <1>2. \A i \in 1..Len(p) : i \in 1..Len(q) \/ i = Len(q) + 1
    BY <1>1
  <1>3. 1..Len(q) \subseteq 1..Len(p) /\ Len(q) + 1 \in 1..Len(p)
    BY <1>1
  <1>4. \A i, j \in 1..Len(p) : p[i] = p[j] => i = j
    BY <1>1, <1>2
  <1>5. {p[i] : i \in 1..Len(p)} = {q[i] : i \in 1..Len(q)} \cup {b}
    BY <1>1, <1>2, <1>3
  <1>. QED
    BY <1>1, <1>4, <1>5 DEF p

\* Taking from the queue
LEMMA QueueTail ==
    ASSUME NEW q \in Seq(Bufs), q # <<>>, \A i, j \in 1..Len(q) : q[i] = q[j] => i = j
    PROVE  LET p == Tail(q)
           IN  /\ p \in Seq(Bufs) /\ Head(q) \in {q[i] : i \in 1..Len(q)} /\ Head(q) \in Bufs
               /\ {p[i] : i \in 1..Len(p)} = {q[i] : i \in 1..Len(q)} \ {Head(q)}
               /\ \A i, j \in 1..Len(p) : p[i] = p[j] => i = j
  <1> DEFINE p == Tail(q)
  <1>1. /\ p \in Seq(Bufs) /\ Len(p) = Len(q) - 1 /\ Len(q) \in Nat /\ Len(q) >= 1
        /\ \A i \in 1..Len(p) : p[i] = q[i + 1]
        /\ Head(q) = q[1]
    OBVIOUS
  <1>. HIDE DEF p
  <1>2. \A i \in 1..Len(p) : i + 1 \in 1..Len(q) /\ i + 1 # 1
    BY <1>1
  <1>3. \A i \in 1..Len(q) : i = 1 \/ (i - 1 \in 1..Len(p) /\ (i - 1) + 1 = i)
    BY <1>1
  <1>4. 1 \in 1..Len(q)
    BY <1>1
  <1>5. ASSUME NEW i \in 1..Len(p), NEW j \in 1..Len(p), p[i] = p[j] PROVE i = j
    <2>1. q[i + 1] = q[j + 1]
      BY <1>1, <1>5
    <2>2. i + 1 = j + 1
      BY <1>2, <2>1
    <2>. QED
      BY <1>1, <2>2
  <1>6. \A i \in 1..Len(p) : p[i] # Head(q)
    BY <1>1, <1>2, <1>4
  <1>7. \A i \in 1..Len(p) : p[i] \in {q[j] : j \in 1..Len(q)}
    BY <1>1, <1>2
  <1>8. \A i \in 1..Len(q) : q[i] = Head(q) \/ q[i] \in {p[j] : j \in 1..Len(p)}
    BY <1>1, <1>3
  <1>9. {p[i] : i \in 1..Len(p)} = {q[i] : i \in 1..Len(q)} \ {Head(q)}
    BY <1>6, <1>7, <1>8
  <1>10. Head(q) \in {q[i] : i \in 1..Len(q)} /\ Head(q) \in Bufs
    BY <1>1, <1>4
  <1>. QED
    BY <1>1, <1>5, <1>9, <1>10 DEF p

\* What a process holds are buffers.
LEMMA HeldAreBufs ==
    ASSUME NEW r \in Threads, InOrder(r)
    PROVE  /\ r.held \in Seq(Bufs) /\ \A i \in 1..Len(r.held) : r.held[i] \in Bufs
           /\ r.held # <<>> => Cur(r) \in Bufs
           /\ JobOf(r) \in TwoBlocks => r.held[1] \in Bufs
  <1>1. r.held \in Seq(Bufs)
    BY DEF Threads
  <1>2. \A i \in 1..Len(r.held) : r.held[i] \in Bufs
    BY <1>1
  <1>3. r.held # <<>> => Cur(r) \in Bufs
    BY <1>1 DEF Cur
  <1>4. JobOf(r) \in TwoBlocks => Len(r.held) \in {1, 2}
    BY DEF InOrder, Holds
  <1>5. JobOf(r) \in TwoBlocks => r.held[1] \in Bufs
    BY <1>2, <1>4
  <1>. QED
    BY <1>1, <1>2, <1>3, <1>5

\* Buffer b gets new contents and becomes dirty.
Written(b, d) ==
    /\ \A c \in Bufs : /\ buf'[c].blockno = buf[c].blockno /\ buf'[c].owner = buf[c].owner
                       /\ buf'[c].refcnt = buf[c].refcnt /\ (buf'[c].valid <=> buf[c].valid)
                       /\ c # b => buf'[c] = buf[c]
    /\ buf'[b].dirty /\ buf'[b].data = d

\* What bwrite does to the buffers
LEMMA BwriteEffect ==
    ASSUME Types, NEW b \in Bufs, NEW d \in Seq(Nat),
           buf' = [buf EXCEPT ![b].data = d, ![b].dirty = TRUE]
    PROVE  Written(b, d) /\ buf' \in [Bufs -> Buffers]
  <1> DEFINE e == [buf[b] EXCEPT !.data = d, !.dirty = TRUE]
  <1>0. e \in Buffers
    BY BufType DEF Buffers
  <1>1. buf' = [buf EXCEPT ![b] = e]
    BY DEF Types, Buffers
  <1>2. Written(b, d)
    BY DEF Types, Buffers, Written
  <1>3. buf' \in [Bufs -> Buffers]
    BY <1>0, <1>1 DEF Types
  <1>. QED
    BY <1>2, <1>3

\* A step that hands a buffer of the process to the disk, to be written
LEMMA CacheBwrite ==
    ASSUME Types, Control, Cache, Control', NEW t \in Procs, NEW r, Moves(t, r), NEW b, NEW d, Mine(t, b),
           Written(b, d), idequeue' = Append(idequeue, b),
           r.held = th[t].held, th[t].pc \notin {"lock", "disk"}, r.pc = "disk",
           JobOf(r) \in Flushes, Target(r) = b, RightBlocks(r)
    PROVE  Cache'
  <1>1. b \in Bufs /\ buf[b].owner = t /\ b \notin Queued /\ buf[b].valid
    BY DEF Mine
  <1>2. \A c \in Bufs : /\ buf'[c].blockno = buf[c].blockno /\ buf'[c].owner = buf[c].owner
                        /\ buf'[c].refcnt = buf[c].refcnt /\ (buf'[c].valid <=> buf[c].valid)
                        /\ c # b => buf'[c] = buf[c]
    BY DEF Written
  <1>3. buf'[b].dirty
    BY DEF Written
  <1>4. idequeue \in Seq(Bufs) /\ QueuedOnce /\ \A i \in 1..Len(idequeue) : idequeue[i] # b
    BY <1>1 DEF Types, Cache, Queued
  <1>5. Queued' = Queued \cup {b} /\ QueuedOnce'
    BY <1>1, <1>4, QueueAppend DEF Queued, QueuedOnce
  <1>6. \A c \in Bufs : Holders(c)' = Holders(c)
    BY DEF Holders, Moves
  <1>7. Unique' /\ Counted'
    <2>1. Unique'
      BY <1>2 DEF Cache, Unique
    <2>2. Counted'
      BY <1>2, <1>6 DEF Cache, Counted
    <2>. QED
      BY <2>1, <2>2
  <1>8. ASSUME NEW u \in Procs
        PROVE  RightBlocks(th[u])' /\ Owned(u, th[u])' /\ Fetched(th[u])'
    <2>1. RightBlocks(th'[u]) /\ th'[u].held = th[u].held /\ th'[u] \in Threads /\ InOrder(th'[u])
      BY DEF Cache, Moves, Control
    <2>2. /\ \A i \in 1..Len(th'[u].held) : th'[u].held[i] \in Bufs
          /\ th'[u].held # <<>> => Cur(th'[u]) \in Bufs
          /\ JobOf(th'[u]) \in TwoBlocks => th'[u].held[1] \in Bufs
      BY <2>1, HeldAreBufs
    <2>3. RightBlocks(th[u])'
      BY <1>2, <2>1, <2>2 DEF RightBlocks
    <2>4. \A i \in 1..Len(th[u].held) : buf[th[u].held[i]].owner = u \/ Waits(th'[u], i)
      BY DEF Cache, Owned, Waits, Moves
    <2>5. \A i \in 1..Len(th[u].held) : buf[th[u].held[i]].valid \/ th[u].held[i] \in Queued \/ Waits(th'[u], i)
      BY DEF Cache, Fetched, Waits, Moves
    <2>6. Owned(u, th[u])'
      BY <1>2, <2>1, <2>2, <2>4 DEF Owned, Waits
    <2>7. Fetched(th[u])'
      BY <1>2, <1>5, <2>1, <2>2, <2>5 DEF Fetched, Waits
    <2>. QED
      BY <2>3, <2>6, <2>7
  <1>9. ASSUME NEW c \in Queued PROVE QueuedFor(c)'
    <2>1. QueuedFor(c) /\ c \in Bufs /\ c # b
      BY <1>1, QueuedIsHeld DEF Cache
    <2>2. buf[c].owner # t
      BY <2>1 DEF QueuedFor
    <2>3. th'[buf[c].owner] = th[buf[c].owner] /\ buf'[c] = buf[c]
      BY <1>2, <2>1, <2>2 DEF QueuedFor, Moves
    <2>. QED
      BY <2>1, <2>3 DEF QueuedFor, Job
  <1>10. QueuedFor(b)'
    <2>1. buf'[b].owner = t /\ th'[t] = r
      BY <1>1, <1>2 DEF Moves
    <2>. QED
      BY <1>3, <2>1 DEF QueuedFor, Job
  <1>11. (\A c \in Bufs : (buf[c].dirty => buf[c].valid) /\ (buf[c].valid => buf[c].blockno # NoBlock))'
    BY <1>1, <1>2 DEF Cache
  <1>. QED
    BY <1>5, <1>7, <1>8, <1>9, <1>10, <1>11 DEF Cache

\* Process t has released the buffers it holds.
Freed(t) ==
    \A c \in Bufs :
        /\ buf'[c].blockno = buf[c].blockno /\ (buf'[c].valid <=> buf[c].valid)
        /\ (\E i \in 1..Len(th[t].held) : th[t].held[i] = c)
            => buf'[c].owner = NoProc /\ buf'[c].refcnt = buf[c].refcnt - 1
        /\ (\A i \in 1..Len(th[t].held) : th[t].held[i] # c) => buf'[c] = buf[c]

\* What brelse does to the buffers
LEMMA ReleaseEffect ==
    ASSUME Types, Control, Cache, NEW t \in Procs, NEW f \in [Bufs -> Buffers], buf' = AfterRelease(f, t),
           \A c \in Bufs : /\ f[c].blockno = buf[c].blockno /\ (f[c].valid <=> buf[c].valid)
                           /\ f[c].refcnt = buf[c].refcnt
                           /\ (\A i \in 1..Len(th[t].held) : th[t].held[i] # c) => f[c] = buf[c]
    PROVE  /\ Freed(t) /\ buf' \in [Bufs -> Buffers]
           /\ \A c \in Bufs : buf'[c].data = f[c].data /\ (buf'[c].dirty <=> f[c].dirty)
  <1>1. th[t].held \in Seq(Bufs)
    BY ThreadType
  <1>2. \A c : c \in Released(t) <=> \E i \in 1..Len(th[t].held) : th[t].held[i] = c
    BY <1>1 DEF Released
  <1>3. ASSUME NEW c \in Bufs
        PROVE  /\ buf'[c] = IF c \in Released(t) THEN [f[c] EXCEPT !.refcnt = @ - 1, !.owner = NoProc] ELSE f[c]
               /\ f[c] \in Buffers
    BY DEF AfterRelease
  <1>4. ASSUME NEW c \in Bufs, c \in Released(t) PROVE f[c].refcnt - 1 \in Nat
    <2>1. t \in Holders(c)
      BY <1>2, <1>4 DEF Holders
    <2>2. Holders(c) \in SUBSET Procs
      BY DEF Holders
    <2>3. IsFiniteSet(Holders(c)) /\ Cardinality(Holders(c)) # 0
      BY <2>1, <2>2, LogAssumption, FS_Subset, FS_EmptySet
    <2>4. buf[c].refcnt = Cardinality(Holders(c)) /\ buf[c].refcnt \in Nat
      BY BufType DEF Cache, Counted
    <2>5. f[c].refcnt = buf[c].refcnt
      OBVIOUS
    <2>. QED
      BY <2>3, <2>4, <2>5
  <1>5. ASSUME NEW c \in Bufs PROVE buf'[c] \in Buffers
    <2>1. CASE c \in Released(t)
      <3>1. f[c].refcnt - 1 \in Nat /\ NoProc \in Procs \cup {NoProc}
        BY <1>4, <2>1
      <3>2. [f[c] EXCEPT !.refcnt = @ - 1, !.owner = NoProc] \in Buffers
        BY <1>3, <3>1 DEF Buffers
      <3>. QED
        BY <1>3, <2>1, <3>2
    <2>2. CASE c \notin Released(t)
      BY <1>3, <2>2
    <2>. QED
      BY <2>1, <2>2
  <1>6. ASSUME NEW c \in Bufs
        PROVE  buf'[c].data = f[c].data /\ buf'[c].dirty = f[c].dirty /\ buf'[c].valid = f[c].valid
               /\ buf'[c].blockno = f[c].blockno
    BY <1>3 DEF Buffers
  <1>7. ASSUME NEW c \in Bufs, c \in Released(t)
        PROVE  buf'[c].owner = NoProc /\ buf'[c].refcnt = f[c].refcnt - 1
    BY <1>3, <1>7 DEF Buffers
  <1>8. ASSUME NEW c \in Bufs, c \notin Released(t)
        PROVE  buf'[c] = f[c]
    BY <1>3, <1>8
  <1>9. Freed(t)
    <2> SUFFICES ASSUME NEW c \in Bufs
                 PROVE  /\ buf'[c].blockno = buf[c].blockno /\ (buf'[c].valid <=> buf[c].valid)
                        /\ (\E i \in 1..Len(th[t].held) : th[t].held[i] = c)
                            => buf'[c].owner = NoProc /\ buf'[c].refcnt = buf[c].refcnt - 1
                        /\ (\A i \in 1..Len(th[t].held) : th[t].held[i] # c) => buf'[c] = buf[c]
      BY DEF Freed
    <2>1. buf'[c].blockno = buf[c].blockno /\ (buf'[c].valid <=> buf[c].valid)
      BY <1>6
    <2>2. (\E i \in 1..Len(th[t].held) : th[t].held[i] = c)
            => buf'[c].owner = NoProc /\ buf'[c].refcnt = buf[c].refcnt - 1
      BY <1>2, <1>7
    <2>3. (\A i \in 1..Len(th[t].held) : th[t].held[i] # c) => buf'[c] = buf[c]
      BY <1>2, <1>8
    <2>. QED
      BY <2>1, <2>2, <2>3
  <1>10. buf' \in [Bufs -> Buffers]
    BY <1>5 DEF AfterRelease
  <1>. QED
    BY <1>6, <1>9, <1>10

\* A step that releases the buffers of the process
LEMMA CacheRelease ==
    ASSUME Types, Control, Cache, Control', NEW t \in Procs, NEW r, Moves(t, r),
           Freed(t), \A c \in Bufs : buf'[c].dirty => buf[c].valid, idequeue' = idequeue,
           r.held = <<>>, th[t].pc \notin {"lock", "disk"}
    PROVE  Cache'
  <1>1. \A i \in 1..Len(th[t].held) : Mine(t, th[t].held[i])
    BY HeldIsMine
  <1>2. \A c \in Bufs : buf'[c].blockno = buf[c].blockno /\ (buf'[c].valid <=> buf[c].valid)
    BY DEF Freed
  <1>3. \A c \in Bufs : t \in Holders(c) => buf'[c].refcnt = buf[c].refcnt - 1
    BY DEF Freed, Holders
  <1>4. \A c \in Bufs : t \notin Holders(c) => buf'[c] = buf[c]
    BY DEF Freed, Holders
  <1>5. Queued' = Queued
    BY DEF Queued
  <1>6. \A c \in Bufs : Holders(c)' = Holders(c) \ {t}
    <2>1. th'[t].held = <<>> /\ \A u \in Procs \ {t} : th'[u].held = th[u].held
      BY DEF Moves
    <2>2. \A u \in Procs \ {t} : \A c : u \in Holders(c)' <=> u \in Holders(c)
      BY <2>1 DEF Holders
    <2>3. \A c : t \notin Holders(c)'
      BY <2>1 DEF Holders
    <2>4. \A c : Holders(c)' \subseteq Procs /\ Holders(c) \subseteq Procs
      BY DEF Holders
    <2>. QED
      BY <2>2, <2>3, <2>4
  <1>7. Unique' /\ QueuedOnce'
    <2>1. Unique'
      BY <1>2 DEF Cache, Unique
    <2>2. QueuedOnce'
      BY DEF Cache, QueuedOnce
    <2>. QED
      BY <2>1, <2>2
  <1>8. ASSUME NEW c \in Bufs PROVE buf'[c].refcnt = Cardinality(Holders(c)')
    <2>1. Holders(c) \in SUBSET Procs
      BY DEF Holders
    <2>2. IsFiniteSet(Holders(c)) /\ buf[c].refcnt = Cardinality(Holders(c))
      BY <2>1, LogAssumption, FS_Subset DEF Cache, Counted
    <2>3. CASE t \in Holders(c)
      BY <1>3, <1>6, <2>2, <2>3, FS_RemoveElement
    <2>4. CASE t \notin Holders(c)
      <3>1. Holders(c)' = Holders(c)
        BY <1>6, <2>4
      <3>. QED
        BY <1>4, <2>2, <2>4, <3>1
    <2>. QED
      BY <2>3, <2>4
  <1>9. ASSUME NEW u \in Procs \ {t}
        PROVE  RightBlocks(th[u])' /\ Owned(u, th[u])' /\ Fetched(th[u])'
    <2>1. /\ RightBlocks(th[u]) /\ Owned(u, th[u]) /\ Fetched(th[u]) /\ th'[u] = th[u] /\ th[u] \in Threads
          /\ InOrder(th[u])
      BY ThreadType DEF Cache, Moves, Control
    <2>2. /\ \A i \in 1..Len(th[u].held) : th[u].held[i] \in Bufs
          /\ th[u].held # <<>> => Cur(th[u]) \in Bufs
          /\ JobOf(th[u]) \in TwoBlocks => th[u].held[1] \in Bufs
      BY <2>1, HeldAreBufs
    <2>3. RightBlocks(th[u])'
      BY <1>2, <2>1, <2>2 DEF RightBlocks
    <2>4. Fetched(th[u])'
      BY <1>2, <1>5, <2>1, <2>2 DEF Fetched
    <2>5. \A c \in Bufs : t \in Holders(c) => buf[c].owner = t
      BY <1>1 DEF Holders, Mine
    <2>6. \A c \in Bufs : buf[c].owner = u => buf'[c] = buf[c]
      BY <1>4, <2>5
    <2>7. Owned(u, th[u])'
      BY <2>1, <2>2, <2>6 DEF Owned
    <2>. QED
      BY <2>3, <2>4, <2>7
  <1>10. RightBlocks(th[t])' /\ Owned(t, th[t])' /\ Fetched(th[t])'
    <2>1. th'[t] = r /\ InOrder(r)
      BY DEF Moves, Control
    <2>2. Len(r.held) = 0
      OBVIOUS
    <2>3. JobOf(r) \notin TwoBlocks
      <3>1. Holds(r) = 0
        BY <2>1, <2>2 DEF InOrder
      <3>. QED
        BY <3>1 DEF Holds
    <2>. QED
      BY <2>1, <2>2, <2>3 DEF RightBlocks, Owned, Fetched
  <1>11. ASSUME NEW c \in Queued PROVE QueuedFor(c)'
    <2>1. QueuedFor(c) /\ c \in Bufs
      BY QueuedIsHeld DEF Cache
    <2>2. buf[c].owner # t
      BY <2>1 DEF QueuedFor
    <2>3. t \notin Holders(c)
      BY <1>1 DEF Holders, Mine
    <2>4. th'[buf[c].owner] = th[buf[c].owner] /\ buf'[c] = buf[c]
      BY <1>4, <2>1, <2>2, <2>3 DEF QueuedFor, Moves
    <2>. QED
      BY <2>1, <2>4 DEF QueuedFor, Job
  <1>12. (\A c \in Bufs : (buf[c].dirty => buf[c].valid) /\ (buf[c].valid => buf[c].blockno # NoBlock))'
    BY <1>2 DEF Cache
  <1>13. Counted'
    BY <1>8 DEF Counted
  <1>. QED
    BY <1>5, <1>7, <1>9, <1>10, <1>11, <1>12, <1>13 DEF Cache

\* A process that asked for a block names a block.
LEMMA WantIsBlock ==
    ASSUME Types, Control, NEW t \in Procs, Job(t) \in OneBlock \cup TwoBlocks
    PROVE  /\ th[t].want \in Blocks /\ th[t].want # NoBlock
           /\ Job(t) \in TwoBlocks => /\ th[t].want \in Home /\ th[t].want = log.lh[th[t].tail + 1]
                                      /\ th[t].tail + 1 \in 1..Len(log.lh) /\ th[t].tail + 1 \in 1..LOGSIZE
  <1>1. InOrder(th[t]) /\ AtTail(th[t], log.lh) /\ Job(t) = JobOf(th[t])
    BY ControlOf DEF Job
  <1>2. log.lh \in Seq(Home) /\ Len(log.lh) <= LOGSIZE /\ th[t].tail \in Nat
    BY ThreadType, ControlOf DEF Types, BlockList
  <1>3. Len(log.lh) \in Nat /\ LOGSIZE \in Nat
    BY <1>2, LogAssumption
  <1>4. CASE Job(t) \in TwoBlocks
    <2>1. th[t].tail < Len(log.lh) /\ th[t].want = log.lh[th[t].tail + 1]
      BY <1>1, <1>4 DEF AtTail, TwoBlocks
    <2>2. th[t].tail + 1 \in 1..Len(log.lh) /\ th[t].tail + 1 \in 1..LOGSIZE
      BY <1>2, <1>3, <2>1
    <2>3. th[t].want \in Home
      BY <1>2, <2>1, <2>2
    <2>. QED
      BY <2>1, <2>2, <2>3, BlockKinds
  <1>5. CASE Job(t) = "first"
    <2>1. th[t].tail < Len(log.lh) /\ th[t].want = LogBlock(th[t].tail + 1)
      BY <1>1, <1>5 DEF AtTail
    <2>2. th[t].tail + 1 \in 1..LOGSIZE
      BY <1>2, <1>3, <2>1
    <2>3. th[t].want \in Blocks
      BY <2>1, <2>2, BlockKinds
    <2>. QED
      BY <1>5, <2>3, BlockKinds DEF TwoBlocks
  <1>6. CASE Job(t) \in {"modify", "append", "read"}
    BY <1>1, <1>6, BlockKinds DEF InOrder, TwoBlocks
  <1>7. CASE Job(t) \in {"head", "headed"}
    BY <1>1, <1>7, BlockKinds DEF InOrder, TwoBlocks
  <1>. QED
    BY <1>4, <1>5, <1>6, <1>7 DEF OneBlock

\* What a process in bget holds: nothing, or the buffer of a block of the log
LEMMA HeldInBget ==
    ASSUME Types, Control, Cache, NEW t \in Procs, th[t].pc = "bget"
    PROVE  \A i \in 1..Len(th[t].held) :
             /\ i = 1 /\ Len(th[t].held) = 1 /\ Mine(t, th[t].held[i])
             /\ buf[th[t].held[i]].blockno = LogBlock(th[t].tail + 1)
             /\ buf[th[t].held[i]].blockno # th[t].want
  <1> SUFFICES ASSUME NEW i \in 1..Len(th[t].held)
               PROVE  /\ i = 1 /\ Len(th[t].held) = 1 /\ Mine(t, th[t].held[i])
                      /\ buf[th[t].held[i]].blockno = LogBlock(th[t].tail + 1)
                      /\ buf[th[t].held[i]].blockno # th[t].want
    OBVIOUS
  <1>1. InOrder(th[t]) /\ Len(th[t].held) = Holds(th[t])
    BY ControlOf DEF InOrder
  <1>2. JobOf(th[t]) \in TwoBlocks /\ Holds(th[t]) = 1
    BY <1>1 DEF Holds
  <1>3. i = 1
    BY <1>1, <1>2
  <1>4. buf[th[t].held[1]].blockno = LogBlock(th[t].tail + 1)
    BY <1>2 DEF Cache, RightBlocks
  <1>5. th[t].want \in Home /\ th[t].tail + 1 \in 1..LOGSIZE
    BY <1>2, WantIsBlock DEF Job
  <1>6. LogBlock(th[t].tail + 1) \notin Home
    BY <1>5, BlockKinds
  <1>7. Mine(t, th[t].held[i])
    BY HeldIsMine
  <1>. QED
    BY <1>1, <1>2, <1>3, <1>4, <1>5, <1>6, <1>7

\* bget takes buffer b for a block: b has it already, or b is recycled.
Taken(b, blk) ==
    /\ \A c \in Bufs \ {b} : buf'[c] = buf[c]
    /\ buf'[b].blockno = blk
    /\ \/ /\ buf[b].blockno = blk
          /\ buf'[b].owner = buf[b].owner /\ (buf'[b].valid <=> buf[b].valid) /\ (buf'[b].dirty <=> buf[b].dirty)
          /\ buf'[b].data = buf[b].data /\ buf'[b].refcnt = buf[b].refcnt + 1
       \/ /\ \A c \in Bufs : buf[c].blockno # blk
          /\ buf[b].refcnt = 0 /\ ~buf[b].dirty
          /\ ~buf'[b].valid /\ ~buf'[b].dirty /\ buf'[b].refcnt = 1

\* What bget does
LEMMA BgetEffect ==
    ASSUME Types, Control, NEW t \in Procs, bget(t), ~Halts
    PROVE  /\ th[t].pc = "bget" /\ buf' \in [Bufs -> Buffers]
           /\ \E b \in Bufs : /\ Moves(t, [th[t] EXCEPT !.pc = "lock", !.held = Append(@, b)])
                              /\ Taken(b, th[t].want)
           /\ UNCHANGED <<disk, mru, idequeue, log, up, asleep, inop, ops>>
  <1>1. PICK b \in Bufs :
                /\ Moves(t, [th[t] EXCEPT !.pc = "lock", !.held = Append(@, b)])
                /\ \/ buf[b].blockno = th[t].want /\ buf' = [buf EXCEPT ![b].refcnt = @ + 1]
                   \/ /\ \A c \in Bufs : buf[c].blockno # th[t].want
                      /\ buf[b].refcnt = 0 /\ ~buf[b].dirty
                      /\ buf' = [buf EXCEPT ![b] = [FreshBuf EXCEPT !.blockno = th[t].want, !.refcnt = 1]]
    BY MovesBget
  <1>2. th[t].pc = "bget" /\ UNCHANGED <<disk, mru, idequeue, log, up, asleep, inop, ops>>
    BY MovesBget
  <1>3. CASE buf[b].blockno = th[t].want /\ buf' = [buf EXCEPT ![b].refcnt = @ + 1]
    <2> DEFINE e == [buf[b] EXCEPT !.refcnt = @ + 1]
    <2>1. buf[b] \in Buffers /\ buf[b].refcnt \in Nat
      BY BufType
    <2>2. buf[b].refcnt + 1 \in Nat
      BY <2>1
    <2>3. e \in Buffers
      BY <2>1, <2>2 DEF Buffers
    <2>4. buf' = [buf EXCEPT ![b] = e]
      BY <1>3 DEF Types, Buffers
    <2>5. buf' \in [Bufs -> Buffers] /\ buf'[b] = e /\ \A c \in Bufs \ {b} : buf'[c] = buf[c]
      BY <2>3, <2>4 DEF Types
    <2>6. /\ e.blockno = buf[b].blockno /\ e.owner = buf[b].owner /\ e.valid = buf[b].valid /\ e.dirty = buf[b].dirty
          /\ e.data = buf[b].data /\ e.refcnt = buf[b].refcnt + 1
      BY <2>1 DEF Buffers
    <2>7. Taken(b, th[t].want)
      BY <1>3, <2>5, <2>6 DEF Taken
    <2>. QED
      BY <1>1, <1>2, <2>5, <2>7
  <1>4. CASE /\ \A c \in Bufs : buf[c].blockno # th[t].want
             /\ buf[b].refcnt = 0 /\ ~buf[b].dirty
             /\ buf' = [buf EXCEPT ![b] = [FreshBuf EXCEPT !.blockno = th[t].want, !.refcnt = 1]]
    <2> DEFINE e == [FreshBuf EXCEPT !.blockno = th[t].want, !.refcnt = 1]
    <2>1. th[t].want \in Blocks \cup {NoBlock}
      BY ThreadType
    <2>0. FreshBuf \in Buffers
      BY DEF FreshBuf, Buffers, Blank
    <2>2. e \in Buffers
      BY <2>0, <2>1 DEF Buffers
    <2>3. buf' \in [Bufs -> Buffers] /\ buf'[b] = e /\ \A c \in Bufs \ {b} : buf'[c] = buf[c]
      BY <1>4, <2>2 DEF Types
    <2>4. e.blockno = th[t].want /\ ~e.valid /\ ~e.dirty /\ e.refcnt = 1
      BY DEF FreshBuf
    <2>5. Taken(b, th[t].want)
      BY <1>4, <2>3, <2>4 DEF Taken
    <2>. QED
      BY <1>1, <1>2, <2>3, <2>5
  <1>. QED
    BY <1>1, <1>3, <1>4

\* bget keeps the cache in order.
LEMMA CacheBget ==
    ASSUME Types, Control, Cache, Control', NEW t \in Procs, NEW r, NEW b \in Bufs, Moves(t, r),
           Taken(b, th[t].want), idequeue' = idequeue,
           th[t].pc = "bget", r.pc = "lock", r.want = th[t].want, r.tail = th[t].tail,
           JobOf(r) = Job(t), r.held = Append(th[t].held, b)
    PROVE  Cache'
  <1>1. /\ \A c \in Bufs \ {b} : buf'[c] = buf[c]
        /\ buf'[b].blockno = th[t].want
    BY DEF Taken
  <1>2. Job(t) \in OneBlock \cup TwoBlocks
    BY ControlOf DEF InOrder, Job, JobOf, Fetches, OneBlock, TwoBlocks
  <1>3. th[t].want # NoBlock
    BY <1>2, WantIsBlock
  <1>4. buf[b].refcnt = 0 => Holders(b) = {} /\ b \notin Queued
    BY NobodyHolds DEF Holders
  <1>5. t \notin Holders(b)
    BY <1>4, HeldInBget DEF Taken, Holders
  <1>6. th[t].held \in Seq(Bufs)
    BY ThreadType
  <1>7. /\ Len(r.held) = Len(th[t].held) + 1 /\ Len(th[t].held) \in Nat
        /\ \A i \in 1..Len(th[t].held) : r.held[i] = th[t].held[i] /\ th[t].held[i] \in Bufs
        /\ r.held[Len(th[t].held) + 1] = b
    BY <1>6
  <1>8. \A i \in 1..Len(r.held) : i \in 1..Len(th[t].held) \/ i = Len(r.held)
    BY <1>7
  <1>8a. 1..Len(th[t].held) \subseteq 1..Len(r.held) /\ Len(th[t].held) + 1 \in 1..Len(r.held)
    BY <1>7
  <1>9. Queued' = Queued
    BY DEF Queued
  <1>10. \A c \in Bufs : Holders(c)' = IF c = b THEN Holders(c) \cup {t} ELSE Holders(c)
    <2>1. th'[t] = r /\ \A u \in Procs \ {t} : th'[u] = th[u]
      BY DEF Moves
    <2>2. \A u \in Procs \ {t} : \A c : u \in Holders(c)' <=> u \in Holders(c)
      BY <2>1 DEF Holders
    <2>3. \A c : t \in Holders(c)' <=> c = b \/ t \in Holders(c)
      BY <1>7, <1>8, <1>8a, <2>1 DEF Holders
    <2>4. \A c : Holders(c)' \subseteq Procs /\ Holders(c) \subseteq Procs
      BY DEF Holders
    <2>5. ASSUME NEW c \in Bufs PROVE Holders(c)' = IF c = b THEN Holders(c) \cup {t} ELSE Holders(c)
      <3>1. \A u : u \in Holders(c)' <=> u \in Holders(c) \/ (c = b /\ u = t)
        BY <2>2, <2>3, <2>4
      <3>. QED
        BY <3>1
    <2>. QED
      BY <2>5
  <1>11. Unique'
    <2>1. \A c \in Bufs \ {b} : buf[c].blockno # th[t].want
      BY <1>3 DEF Taken, Cache, Unique
    <2>. QED
      BY <1>1, <2>1 DEF Cache, Unique
  <1>12. Counted'
    <2> SUFFICES ASSUME NEW c \in Bufs PROVE buf'[c].refcnt = Cardinality(Holders(c)')
      BY DEF Counted
    <2>1. buf[c].refcnt = Cardinality(Holders(c))
      BY DEF Cache, Counted
    <2>2. CASE c # b
      <3>1. Holders(c)' = Holders(c) /\ buf'[c] = buf[c]
        BY <1>1, <1>10, <2>2
      <3>. QED
        BY <2>1, <3>1
    <2>3. CASE c = b
      <3>1. Holders(b) \in SUBSET Procs /\ Holders(b)' = Holders(b) \cup {t}
        BY <1>10 DEF Holders
      <3>2. IsFiniteSet(Holders(b))
        BY <3>1, LogAssumption, FS_Subset
      <3>3. Cardinality(Holders(b)') = Cardinality(Holders(b)) + 1
        <4>1. Cardinality(Holders(b) \cup {t}) = Cardinality(Holders(b)) + 1
          BY <1>5, <3>2, FS_AddElement
        <4>. QED
          BY <3>1, <4>1
      <3>4. buf'[b].refcnt = buf[b].refcnt + 1
        BY DEF Taken
      <3>. QED
        BY <2>1, <2>3, <3>3, <3>4
    <2>. QED
      BY <2>2, <2>3
  <1>13. QueuedOnce'
    BY DEF Cache, QueuedOnce
  <1>14. ASSUME NEW u \in Procs, NEW i \in 1..Len(th[u].held)
         PROVE  /\ th[u].held[i] \in Bufs
                /\ buf'[th[u].held[i]].blockno = buf[th[u].held[i]].blockno
                /\ buf'[th[u].held[i]].owner = buf[th[u].held[i]].owner
                /\ buf'[th[u].held[i]].valid <=> buf[th[u].held[i]].valid
    <2>0. th[u].held \in Seq(Bufs)
      BY ThreadType
    <2>1. th[u].held[i] \in Bufs
      BY <2>0
    <2>2. u \in Holders(th[u].held[i])
      BY DEF Holders
    <2>. QED
      BY <1>1, <1>4, <2>1, <2>2 DEF Taken
  <1>15. ASSUME NEW u \in Procs \ {t}
         PROVE  RightBlocks(th[u])' /\ Owned(u, th[u])' /\ Fetched(th[u])'
    <2>1. /\ RightBlocks(th[u]) /\ Owned(u, th[u]) /\ Fetched(th[u]) /\ th'[u] = th[u]
          /\ InOrder(th[u]) /\ th[u].held \in Seq(Bufs)
      BY ThreadType DEF Cache, Moves, Control
    <2>2. th[u].held # <<>> => Len(th[u].held) \in 1..Len(th[u].held)
      BY <2>1
    <2>3. JobOf(th[u]) \in TwoBlocks => 1 \in 1..Len(th[u].held)
      <3>1. Len(th[u].held) = Holds(th[u])
        BY <2>1 DEF InOrder
      <3>2. JobOf(th[u]) \in TwoBlocks => Holds(th[u]) \in {1, 2}
        BY DEF Holds
      <3>. QED
        BY <3>1, <3>2
    <2>4. RightBlocks(th[u])'
      BY <1>14, <2>1, <2>2, <2>3 DEF RightBlocks, Cur
    <2>5. Fetched(th[u])'
      BY <1>9, <1>14, <2>1 DEF Fetched
    <2>6. Owned(u, th[u])'
      BY <1>14, <2>1 DEF Owned
    <2>. QED
      BY <2>4, <2>5, <2>6
  <1>16. RightBlocks(th[t])' /\ Owned(t, th[t])' /\ Fetched(th[t])'
    <2>1. th'[t] = r /\ Cur(r) = b
      BY <1>7 DEF Moves, Cur
    <2>2. \A i \in 1..Len(th[t].held) : Mine(t, th[t].held[i])
      BY HeldInBget
    <2>3. JobOf(r) \in TwoBlocks => 1 \in 1..Len(th[t].held) /\ buf[th[t].held[1]].blockno = LogBlock(th[t].tail + 1)
      <3>1. Len(th[t].held) = Holds(th[t]) /\ RightBlocks(th[t])
        BY ControlOf DEF InOrder, Cache
      <3>. QED
        BY <3>1 DEF Holds, Job, RightBlocks
    <2>4. RightBlocks(r)'
      BY <1>1, <1>7, <1>14, <2>1, <2>3 DEF RightBlocks
    <2>5. Owned(t, r)'
      BY <1>7, <1>8, <1>14, <2>2 DEF Owned, Mine, Waits
    <2>6. Fetched(r)'
      BY <1>7, <1>8, <1>14, <2>2 DEF Fetched, Mine, Waits
    <2>. QED
      BY <2>1, <2>4, <2>5, <2>6 DEF RightBlocks, Owned, Fetched
  <1>17. ASSUME NEW c \in Queued PROVE QueuedFor(c)'
    <2>1. QueuedFor(c) /\ c \in Bufs
      BY QueuedIsHeld DEF Cache
    <2>2. buf[c].owner # t
      BY <2>1 DEF QueuedFor
    <2>3. th'[buf[c].owner] = th[buf[c].owner]
      BY <2>1, <2>2 DEF QueuedFor, Moves
    <2>4. buf'[c].owner = buf[c].owner /\ (buf'[c].dirty <=> buf[c].dirty)
      BY <1>1, <1>4, <2>1 DEF Taken
    <2>. QED
      BY <2>1, <2>3, <2>4 DEF QueuedFor, Job
  <1>18. (\A c \in Bufs : (buf[c].dirty => buf[c].valid) /\ (buf[c].valid => buf[c].blockno # NoBlock))'
    BY <1>1, <1>3 DEF Cache, Taken
  <1>. QED
    BY <1>9, <1>11, <1>12, <1>13, <1>15, <1>16, <1>17, <1>18 DEF Cache

\* Buffer b gets an owner.
Locked(b, t) ==
    /\ \A c \in Bufs : /\ buf'[c].blockno = buf[c].blockno /\ buf'[c].refcnt = buf[c].refcnt
                       /\ (buf'[c].valid <=> buf[c].valid) /\ (buf'[c].dirty <=> buf[c].dirty)
                       /\ buf'[c].data = buf[c].data
                       /\ c # b => buf'[c].owner = buf[c].owner
    /\ buf'[b].owner = t

\* What acquiresleep does, and bread after it
LEMMA LockEffect ==
    ASSUME Types, Control, NEW t \in Procs, Lock(t)
    PROVE  /\ th[t].pc = "lock" /\ Cur(th[t]) \in Bufs /\ buf[Cur(th[t])].owner = NoProc
           /\ Locked(Cur(th[t]), t) /\ buf' \in [Bufs -> Buffers]
           /\ Len(th[t].held) \in {1, 2}
  <1>1. /\ th[t].pc = "lock" /\ buf[Cur(th[t])].owner = NoProc
        /\ buf' = [buf EXCEPT ![Cur(th[t])].owner = t]
    BY MovesLock
  <1>2. InOrder(th[t]) /\ th[t] \in Threads
    BY ControlOf, ThreadType
  <1>3. th[t].cont \in Fetches /\ Len(th[t].held) = Holds(th[t]) /\ JobOf(th[t]) = th[t].cont
    BY <1>1, <1>2 DEF InOrder, JobOf
  <1>4. Holds(th[t]) \in {1, 2}
    BY <1>1, <1>3 DEF Holds, Fetches, OneBlock, TwoBlocks
  <1>5. th[t].held # <<>>
    BY <1>3, <1>4
  <1>6. Cur(th[t]) \in Bufs
    BY <1>2, <1>5, HeldAreBufs
  <1> DEFINE b == Cur(th[t])
             e == [buf[b] EXCEPT !.owner = t]
  <1>7. b \in Bufs /\ buf' = [buf EXCEPT ![b].owner = t]
    BY <1>1, <1>6
  <1>. HIDE DEF b
  <1>8. buf[b] \in Buffers
    BY <1>7, BufType
  <1>9. e \in Buffers
    BY <1>8 DEF Buffers
  <1>10. buf' = [buf EXCEPT ![b] = e]
    BY <1>7 DEF Types, Buffers
  <1>11. buf' \in [Bufs -> Buffers] /\ buf'[b] = e /\ \A c \in Bufs \ {b} : buf'[c] = buf[c]
    BY <1>7, <1>9, <1>10 DEF Types
  <1>12. /\ e.blockno = buf[b].blockno /\ e.refcnt = buf[b].refcnt /\ e.valid = buf[b].valid /\ e.dirty = buf[b].dirty
         /\ e.data = buf[b].data /\ e.owner = t
    BY <1>8 DEF Buffers
  <1>13. Locked(b, t)
    BY <1>11, <1>12 DEF Locked
  <1>. QED
    BY <1>1, <1>3, <1>4, <1>6, <1>11, <1>13 DEF b

\* Taking a buffer's lock keeps the cache in order.
LEMMA CacheLock ==
    ASSUME Types, Control, Cache, Control', NEW t \in Procs, NEW r, NEW b \in Bufs, Moves(t, r), Locked(b, t),
           b = Cur(th[t]), buf[b].owner = NoProc, th[t].pc = "lock", th[t].cont \in Fetches,
           idequeue' = IF buf[b].valid THEN idequeue ELSE Append(idequeue, b),
           r.pc = IF buf[b].valid THEN th[t].cont ELSE "disk",
           r.cont = th[t].cont, r.held = th[t].held, r.want = th[t].want, r.tail = th[t].tail
    PROVE  Cache'
  <1>1. \A c \in Bufs : /\ buf'[c].blockno = buf[c].blockno /\ buf'[c].refcnt = buf[c].refcnt
                        /\ (buf'[c].valid <=> buf[c].valid) /\ (buf'[c].dirty <=> buf[c].dirty)
                        /\ c # b => buf'[c].owner = buf[c].owner
    BY DEF Locked
  <1>2. buf'[b].owner = t
    BY DEF Locked
  <1>3. b \notin Queued /\ NoProc \notin Procs
    BY LogAssumption DEF Cache, QueuedFor
  <1>4. idequeue \in Seq(Bufs) /\ QueuedOnce /\ \A i \in 1..Len(idequeue) : idequeue[i] # b
    BY <1>3 DEF Types, Cache, Queued
  <1>5. Queued' = (IF buf[b].valid THEN Queued ELSE Queued \cup {b}) /\ QueuedOnce'
    <2>1. CASE buf[b].valid
      BY <1>4, <2>1 DEF Queued, QueuedOnce
    <2>2. CASE ~buf[b].valid
      BY <1>4, <2>2, QueueAppend DEF Queued, QueuedOnce
    <2>. QED
      BY <2>1, <2>2
  <1>6. \A c \in Bufs : Holders(c)' = Holders(c)
    BY DEF Holders, Moves
  <1>7. Unique' /\ Counted'
    <2>1. Unique'
      BY <1>1 DEF Cache, Unique
    <2>2. Counted'
      BY <1>1, <1>6 DEF Cache, Counted
    <2>. QED
      BY <2>1, <2>2
  <1>7a. JobOf(r) = Job(t) /\ JobOf(r) \in Fetches
    BY DEF JobOf, Job, Fetches
  <1>8. ASSUME NEW u \in Procs
        PROVE  RightBlocks(th[u])' /\ Owned(u, th[u])' /\ Fetched(th[u])'
    <2>1. /\ RightBlocks(th[u]) /\ Owned(u, th[u]) /\ Fetched(th[u]) /\ th[u] \in Threads
          /\ InOrder(th[u]) /\ th'[u].held = th[u].held
      BY ThreadType DEF Cache, Moves, Control
    <2>2. /\ \A i \in 1..Len(th[u].held) : th[u].held[i] \in Bufs
          /\ th[u].held # <<>> => Cur(th[u]) \in Bufs
          /\ JobOf(th[u]) \in TwoBlocks => th[u].held[1] \in Bufs
      BY <2>1, HeldAreBufs
    <2>3. CASE u # t
      <3>1. th'[u] = th[u]
        BY <2>3 DEF Moves
      <3>2. RightBlocks(th[u])'
        BY <1>1, <2>1, <2>2, <3>1 DEF RightBlocks
      <3>3. Fetched(th[u])'
        BY <1>1, <1>5, <2>1, <2>2, <3>1 DEF Fetched
      <3>4. \A c \in Bufs : buf[c].owner = u => buf'[c].owner = u
        BY <1>1, <1>3
      <3>5. Owned(u, th[u])'
        BY <2>1, <2>2, <3>1, <3>4 DEF Owned
      <3>. QED
        BY <3>2, <3>3, <3>5
    <2>4. CASE u = t
      <3>1. th'[u] = r /\ Cur(r) = Cur(th[t])
        BY <2>4 DEF Moves, Cur
      <3>2. RightBlocks(r)'
        BY <1>1, <1>7a, <2>1, <2>2, <2>4, <3>1 DEF RightBlocks, Job
      <3>3. \A i \in 1..Len(th[t].held) : Waits(th[t], i) => th[t].held[i] = b
        BY DEF Waits, Cur
      <3>4. Owned(t, r)'
        BY <1>1, <1>2, <2>1, <2>2, <2>4, <3>3 DEF Owned
      <3>5. b \in Queued' \/ buf'[b].valid
        BY <1>1, <1>5
      <3>6. Fetched(r)'
        BY <1>1, <1>5, <2>1, <2>2, <2>4, <3>3, <3>5 DEF Fetched
      <3>. QED
        BY <2>4, <3>1, <3>2, <3>4, <3>6 DEF RightBlocks, Owned, Fetched
    <2>. QED
      BY <2>3, <2>4
  <1>9. ASSUME NEW c \in Queued PROVE QueuedFor(c)'
    <2>1. QueuedFor(c) /\ c \in Bufs /\ c # b
      BY <1>3, QueuedIsHeld DEF Cache
    <2>2. buf[c].owner # t
      BY <2>1 DEF QueuedFor
    <2>3. th'[buf[c].owner] = th[buf[c].owner] /\ buf'[c].owner = buf[c].owner /\ (buf'[c].dirty <=> buf[c].dirty)
      BY <1>1, <2>1, <2>2 DEF QueuedFor, Moves
    <2>. QED
      BY <2>1, <2>3 DEF QueuedFor, Job
  <1>10. ASSUME ~buf[b].valid PROVE QueuedFor(b)'
    <2>1. buf'[b].owner = t /\ th'[t] = r /\ r.pc = "disk"
      BY <1>2, <1>10 DEF Moves
    <2>2. Target(r) = b
      BY <1>7a DEF Target, Cur, Fetches
    <2>3. ~buf'[b].dirty /\ JobOf(r) \notin Flushes
      BY <1>1, <1>7a, <1>10 DEF Cache, Fetches, Flushes
    <2>. QED
      BY <2>1, <2>2, <2>3 DEF QueuedFor, Job
  <1>11. (\A c \in Bufs : (buf[c].dirty => buf[c].valid) /\ (buf[c].valid => buf[c].blockno # NoBlock))'
    BY <1>1 DEF Cache
  <1>. QED
    BY <1>5, <1>7, <1>8, <1>9, <1>10, <1>11 DEF Cache

\* The disk finishes the request for buffer b.
Served(b) ==
    /\ \A c \in Bufs : /\ buf'[c].blockno = buf[c].blockno /\ buf'[c].refcnt = buf[c].refcnt
                       /\ buf'[c].owner = buf[c].owner
                       /\ c # b => buf'[c] = buf[c]
    /\ buf'[b].valid /\ ~buf'[b].dirty
    /\ buf'[b].data = IF buf[b].dirty THEN buf[b].data ELSE disk[buf[b].blockno]

\* What a process holds that is past bget has a block.
LEMMA QueuedHasBlock ==
    ASSUME Types, Control, Cache, NEW b \in Queued
    PROVE  buf[b].blockno \in Blocks /\ buf[b].blockno # NoBlock
  <1> DEFINE u == buf[b].owner
  <1>1. u \in Procs /\ th[u].pc = "disk" /\ Target(th[u]) = b
    BY DEF Cache, QueuedFor
  <1>. HIDE DEF u
  <1>2. InOrder(th[u]) /\ RightBlocks(th[u]) /\ JobOf(th[u]) = th[u].cont /\ Job(u) = JobOf(th[u])
    BY <1>1, ControlOf DEF Cache, JobOf, Job
  <1>3. Job(u) \in OneBlock \cup TwoBlocks
    BY <1>1, <1>2 DEF InOrder, Fetches, Flushes, OneBlock, TwoBlocks
  <1>4. Len(th[u].held) \in {1, 2}
    BY <1>1, TargetIsHeld
  <1>5. th[u].held # <<>>
    BY <1>4
  <1>6. buf[Cur(th[u])].blockno = th[u].want
    BY <1>1, <1>2, <1>5 DEF RightBlocks
  <1>7. JobOf(th[u]) = "copied" => buf[th[u].held[1]].blockno = LogBlock(th[u].tail + 1)
    BY <1>2 DEF RightBlocks, TwoBlocks
  <1>8. th[u].want \in Blocks /\ th[u].want # NoBlock
    BY <1>1, <1>3, WantIsBlock
  <1>9. JobOf(th[u]) = "copied" => LogBlock(th[u].tail + 1) \in Blocks
    <2>1. JobOf(th[u]) = "copied" => th[u].tail + 1 \in 1..LOGSIZE
      BY <1>1, <1>2, <1>3, WantIsBlock DEF TwoBlocks
    <2>. QED
      BY <2>1, BlockKinds
  <1>. QED
    BY <1>1, <1>6, <1>7, <1>8, <1>9, BlockKinds DEF Target

\* What ideintr does
LEMMA IdeintrEffect ==
    ASSUME Types, Control, Cache, ideintr
    PROVE  /\ Head(idequeue) \in Queued /\ Head(idequeue) \in Bufs /\ Served(Head(idequeue))
           /\ buf' \in [Bufs -> Buffers] /\ disk' \in [Blocks -> Seq(Nat)] /\ idequeue' \in Seq(Bufs)
           /\ Queued' = Queued \ {Head(idequeue)} /\ QueuedOnce'
           /\ \A x \in Blocks : disk'[x] = IF buf[Head(idequeue)].dirty /\ x = buf[Head(idequeue)].blockno
                                           THEN buf[Head(idequeue)].data ELSE disk[x]
           /\ UNCHANGED <<mru, log, up, th, asleep, inop, ops>>
  <1> DEFINE b == Head(idequeue)
             e == [buf[b] EXCEPT !.valid = TRUE, !.dirty = FALSE,
                                 !.data = IF buf[b].dirty THEN @ ELSE disk[buf[b].blockno]]
  <1>1. /\ idequeue # <<>> /\ idequeue' = Tail(idequeue)
        /\ buf' = [buf EXCEPT ![b].valid = TRUE, ![b].dirty = FALSE,
                              ![b].data = IF buf[b].dirty THEN @ ELSE disk[buf[b].blockno]]
        /\ disk' = IF buf[b].dirty THEN [disk EXCEPT ![buf[b].blockno] = buf[b].data] ELSE disk
        /\ UNCHANGED <<mru, log, up, th, asleep, inop, ops>>
    BY DEF ideintr, Bounds
  <1>2. idequeue \in Seq(Bufs) /\ \A i, j \in 1..Len(idequeue) : idequeue[i] = idequeue[j] => i = j
    BY DEF Types, Cache, QueuedOnce
  <1>3. /\ b \in Queued /\ b \in Bufs /\ idequeue' \in Seq(Bufs) /\ Queued' = Queued \ {b} /\ QueuedOnce'
    <2> DEFINE p == Tail(idequeue)
    <2>1. idequeue # <<>>
      BY <1>1
    <2>2. /\ p \in Seq(Bufs) /\ b \in {idequeue[i] : i \in 1..Len(idequeue)} /\ b \in Bufs
          /\ {p[i] : i \in 1..Len(p)} = {idequeue[i] : i \in 1..Len(idequeue)} \ {b}
          /\ \A i, j \in 1..Len(p) : p[i] = p[j] => i = j
      BY <1>2, <2>1, QueueTail
    <2>3. idequeue' = p
      BY <1>1
    <2>. HIDE DEF p, b
    <2>. QED
      BY <2>2, <2>3 DEF Queued, QueuedOnce
  <1>. HIDE DEF b
  <1>4. buf[b] \in Buffers /\ buf[b].data \in Seq(Nat) /\ buf[b].blockno \in Blocks
    BY <1>3, BufType, QueuedHasBlock
  <1>5. disk[buf[b].blockno] \in Seq(Nat) /\ disk \in [Blocks -> Seq(Nat)]
    BY <1>4 DEF Types
  <1>6. e \in Buffers
    BY <1>4, <1>5 DEF Buffers
  <1>7. buf' = [buf EXCEPT ![b] = e]
    BY <1>1, <1>3 DEF Types, Buffers
  <1>8. buf' \in [Bufs -> Buffers] /\ buf'[b] = e /\ \A c \in Bufs \ {b} : buf'[c] = buf[c]
    BY <1>3, <1>6, <1>7 DEF Types
  <1>9. /\ e.blockno = buf[b].blockno /\ e.refcnt = buf[b].refcnt /\ e.owner = buf[b].owner /\ e.valid /\ ~e.dirty
        /\ e.data = IF buf[b].dirty THEN buf[b].data ELSE disk[buf[b].blockno]
    BY <1>4 DEF Buffers
  <1>10. Served(b)
    BY <1>8, <1>9 DEF Served
  <1>11. /\ disk' \in [Blocks -> Seq(Nat)]
         /\ \A x \in Blocks : disk'[x] = IF buf[b].dirty /\ x = buf[b].blockno THEN buf[b].data ELSE disk[x]
    BY <1>1, <1>4, <1>5
  <1>. QED
    BY <1>1, <1>3, <1>8, <1>10, <1>11 DEF b

\* The answer of the disk keeps the cache in order.
LEMMA CacheIdeintr ==
    ASSUME Types, Control, Cache, NEW b \in Queued, Served(b), Queued' = Queued \ {b}, QueuedOnce', th' = th
    PROVE  Cache'
  <1>1. /\ \A c \in Bufs : /\ buf'[c].blockno = buf[c].blockno /\ buf'[c].refcnt = buf[c].refcnt
                           /\ buf'[c].owner = buf[c].owner
                           /\ c # b => buf'[c] = buf[c]
        /\ buf'[b].valid /\ ~buf'[b].dirty
    BY DEF Served
  <1>2. \A c \in Bufs : Holders(c)' = Holders(c)
    BY DEF Holders
  <1>3. Unique'
    BY <1>1 DEF Cache, Unique
  <1>4. Counted'
    BY <1>1, <1>2 DEF Cache, Counted
  <1>5. ASSUME NEW u \in Procs
        PROVE  RightBlocks(th[u])' /\ Owned(u, th[u])' /\ Fetched(th[u])'
    <2>1. /\ RightBlocks(th[u]) /\ Owned(u, th[u]) /\ Fetched(th[u]) /\ th[u] \in Threads
          /\ InOrder(th[u]) /\ th'[u] = th[u]
      BY ThreadType DEF Cache, Control
    <2>2. /\ \A i \in 1..Len(th[u].held) : th[u].held[i] \in Bufs
          /\ th[u].held # <<>> => Cur(th[u]) \in Bufs
          /\ JobOf(th[u]) \in TwoBlocks => th[u].held[1] \in Bufs
      BY <2>1, HeldAreBufs
    <2>3. RightBlocks(th[u])'
      BY <1>1, <2>1, <2>2 DEF RightBlocks
    <2>4. Owned(u, th[u])'
      BY <1>1, <2>1, <2>2 DEF Owned
    <2>5. Fetched(th[u])'
      BY <1>1, <2>1, <2>2 DEF Fetched
    <2>. QED
      BY <2>3, <2>4, <2>5
  <1>6. ASSUME NEW c \in Queued, c # b PROVE QueuedFor(c)'
    <2>1. QueuedFor(c) /\ c \in Bufs
      BY QueuedIsHeld DEF Cache
    <2>2. buf'[c] = buf[c]
      BY <1>1, <1>6, <2>1
    <2>. QED
      BY <2>1, <2>2 DEF QueuedFor, Job
  <1>7. (\A c \in Bufs : (buf[c].dirty => buf[c].valid) /\ (buf[c].valid => buf[c].blockno # NoBlock))'
    BY <1>1, QueuedHasBlock DEF Cache
  <1>. QED
    BY <1>3, <1>4, <1>5, <1>6, <1>7 DEF Cache

\* A fresh cache is in order.
LEMMA CacheBoot ==
    ASSUME buf = [b \in Bufs |-> FreshBuf], idequeue = <<>>, th = [t \in Procs |-> Booting(t)]
    PROVE  Cache
  <1>1. \A b \in Bufs : buf[b].blockno = NoBlock /\ ~buf[b].valid /\ ~buf[b].dirty /\ buf[b].refcnt = 0
    BY DEF FreshBuf
  <1>2. \A t \in Procs : th[t].held = <<>> /\ JobOf(th[t]) \notin TwoBlocks
    <2>1. \A t \in Procs : th[t].held = <<>> /\ th[t].pc \in {"idle", "bget"} /\ th[t].cont \in {"", "head"}
      BY DEF Booting, Idle
    <2>. QED
      BY <2>1 DEF JobOf, TwoBlocks
  <1>3. Queued = {} /\ QueuedOnce
    BY DEF Queued, QueuedOnce
  <1>4. \A b : Holders(b) = {}
    BY <1>2 DEF Holders
  <1>5. Counted
    BY <1>1, <1>4, FS_EmptySet DEF Counted
  <1>6. Unique
    BY <1>1 DEF Unique
  <1>7. \A t \in Procs : RightBlocks(th[t]) /\ Owned(t, th[t]) /\ Fetched(th[t])
    BY <1>2 DEF RightBlocks, Owned, Fetched
  <1>. QED
    BY <1>1, <1>3, <1>5, <1>6, <1>7 DEF Cache

-----------------------------------------------------------------------------
(* Data *)

\* What a process that writes to the disk holds
LEMMA FlusherHolds ==
    ASSUME Types, Control, NEW t \in Procs, Job(t) \in Flushes
    PROVE  /\ Commits(t) /\ th[t].pc \in {"disk", "copied", "headed"}
           /\ Job(t) = "copied" => Len(th[t].held) = 2 /\ th[t].stage \in {"writelog", "install"}
           /\ Job(t) = "headed" => Len(th[t].held) = 1 /\ th[t].stage \in {"head", "clear"}
           /\ \E i \in 1..Len(th[t].held) : th[t].held[i] = Target(th[t])
           /\ Target(th[t]) \in Bufs
  <1>1. InOrder(th[t]) /\ Job(t) = JobOf(th[t]) /\ th[t] \in Threads
    BY ControlOf, ThreadType DEF Job
  <1>2. th[t].pc \in {"disk", "copied", "headed"}
    BY <1>1 DEF JobOf, InOrder, Fetches, Flushes
  <1>3. Len(th[t].held) = Holds(th[t])
    BY <1>1 DEF InOrder
  <1>4. (Job(t) = "copied" => Len(th[t].held) = 2) /\ (Job(t) = "headed" => Len(th[t].held) = 1)
    BY <1>1, <1>2, <1>3 DEF Holds, TwoBlocks, OneBlock
  <1>5. (Job(t) = "copied" => th[t].stage \in {"writelog", "install"}) /\ (Job(t) = "headed" => th[t].stage \in {"head", "clear"})
    BY <1>1 DEF InOrder
  <1>6. Job(t) = "copied" \/ Job(t) = "headed"
    BY DEF Flushes
  <1>7. \E i \in 1..Len(th[t].held) : th[t].held[i] = Target(th[t])
    BY <1>4, <1>6 DEF Target, Cur
  <1>8. \A i \in 1..Len(th[t].held) : th[t].held[i] \in Bufs
    BY <1>1, HeldAreBufs
  <1>. QED
    BY <1>2, <1>4, <1>5, <1>6, <1>7, <1>8 DEF Commits

\* A process that writes to the disk is past its commit point's check: what it
\* handed over is clean once the disk is done.
LEMMA FlushedIsClean ==
    ASSUME Types, Control, Cache, Data, NEW t \in Procs, th[t].pc \in Flushes
    PROVE  /\ ~buf[Target(th[t])].dirty
           /\ \A i \in 1..Len(th[t].held) : buf[th[t].held[i]].blockno \notin Home => ~buf[th[t].held[i]].dirty
  <1>1. Job(t) = th[t].pc /\ th[t].pc \notin {"lock", "disk"}
    BY DEF Job, JobOf, Flushes
  <1>2. PICK i \in 1..Len(th[t].held) : th[t].held[i] = Target(th[t])
    BY <1>1, FlusherHolds
  <1>3. \A j \in 1..Len(th[t].held) : Mine(t, th[t].held[j])
    BY <1>1, HeldIsMine
  <1>4. ~buf[Target(th[t])].dirty
    BY <1>1, <1>2, <1>3 DEF Data, Mine
  <1>5. \A j \in 1..Len(th[t].held) : buf[th[t].held[j]].blockno \notin Home => ~buf[th[t].held[j]].dirty
    BY <1>3 DEF Data, Mine
  <1>. QED
    BY <1>4, <1>5

\* The dirty blocks of the file system are in the log, ahead of install_trans.
HomeDirty ==
    \A b \in Bufs : (buf[b].dirty /\ buf[b].blockno \in Home) =>
        \E j \in 1..Len(log.lh) : /\ buf[b].blockno = log.lh[j]
                                  /\ \A t \in Procs : th[t].stage = "install" => th[t].tail < j

\* No buffer changes what it holds.
SameContents ==
    \A c \in Bufs : /\ buf'[c].blockno = buf[c].blockno /\ (buf'[c].valid <=> buf[c].valid)
                    /\ (buf'[c].dirty <=> buf[c].dirty) /\ buf'[c].data = buf[c].data

\* A step that changes no block
LEMMA DataSame ==
    ASSUME Types, Control, Cache, Data, NEW t \in Procs, NEW r, Moves(t, r),
           SameContents, disk' = disk, Queued \subseteq Queued', HomeDirty',
           JobOf(r) \in Flushes => JobOf(r) = Job(t) /\ r.held = th[t].held /\ r.stage = th[t].stage,
           log'.lh = log.lh \/ \A u \in Procs : Job(u) # "headed"
    PROVE  Data'
  <1>1. \A c \in Bufs : /\ buf'[c].blockno = buf[c].blockno /\ (buf'[c].valid <=> buf[c].valid)
                        /\ (buf'[c].dirty <=> buf[c].dirty) /\ buf'[c].data = buf[c].data
    BY DEF SameContents
  <1>2. (\A b \in Bufs : (buf[b].valid /\ ~buf[b].dirty) => buf[b].data = disk[buf[b].blockno])'
    BY <1>1 DEF Data
  <1>3. (\A b \in Bufs : (buf[b].dirty /\ buf[b].blockno \notin Home) => b \in Queued)'
    BY <1>1 DEF Data
  <1>4. ASSUME NEW u \in Procs, Job(u)' \in Flushes
        PROVE  /\ Job(u)' = Job(u) /\ Target(th'[u]) = Target(th[u]) /\ th'[u].held = th[u].held
               /\ Target(th[u]) \in Bufs
               /\ Job(u) = "copied" => th[u].held[1] \in Bufs /\ th[u].held[2] \in Bufs
               /\ Job(u) = "headed" => th[u].held[1] \in Bufs
    <2>1. Job(u)' = JobOf(th'[u]) /\ Job(u) = JobOf(th[u])
      BY DEF Job
    <2>2. Job(u)' = Job(u) /\ th'[u].held = th[u].held /\ th'[u].stage = th[u].stage
      BY <1>4, <2>1 DEF Moves
    <2>3. Target(th'[u]) = Target(th[u])
      BY <2>1, <2>2 DEF Target, Cur
    <2>4. th[u] \in Threads /\ InOrder(th[u])
      BY ThreadType, ControlOf
    <2>5. \A i \in 1..Len(th[u].held) : th[u].held[i] \in Bufs
      BY <2>4, HeldAreBufs
    <2>6. /\ Job(u) = "copied" => Len(th[u].held) = 2
          /\ Job(u) = "headed" => Len(th[u].held) = 1
          /\ Target(th[u]) \in Bufs
      BY <1>4, <2>2, FlusherHolds
    <2>. QED
      BY <2>2, <2>3, <2>5, <2>6
  <1>5. (\A u \in Procs : (Job(u) \in Flushes /\ buf[Target(th[u])].dirty) => Target(th[u]) \in Queued)'
    BY <1>1, <1>4 DEF Data
  <1>6. (\A u \in Procs : Job(u) = "copied" => buf[th[u].held[1]].data = buf[th[u].held[2]].data)'
    BY <1>1, <1>4 DEF Data, Flushes
  <1>7. (\A u \in Procs : Job(u) = "headed" => buf[th[u].held[1]].data = log.lh)'
    BY <1>1, <1>4 DEF Data, Flushes
  <1>. QED
    BY <1>2, <1>3, <1>5, <1>6, <1>7 DEF Data, HomeDirty

\* The list of dirty blocks is the same when neither log nor positions change.
LEMMA HomeDirtySame ==
    ASSUME Types, Data, NEW t \in Procs, NEW r, Moves(t, r), SameContents, log'.lh = log.lh,
           r.stage = "install" => r.tail = 0 \/ (th[t].stage = "install" /\ r.tail = th[t].tail)
    PROVE  HomeDirty'
  <1> SUFFICES ASSUME NEW b \in Bufs, buf'[b].dirty, buf'[b].blockno \in Home
               PROVE  \E j \in 1..Len(log'.lh) : /\ buf'[b].blockno = log'.lh[j]
                                                 /\ \A u \in Procs : th'[u].stage = "install" => th'[u].tail < j
    BY DEF HomeDirty
  <1>1. buf[b].dirty /\ buf[b].blockno \in Home /\ buf'[b].blockno = buf[b].blockno
    BY DEF SameContents
  <1>2. PICK j \in 1..Len(log.lh) : /\ buf[b].blockno = log.lh[j]
                                    /\ \A u \in Procs : th[u].stage = "install" => th[u].tail < j
    BY <1>1 DEF Data
  <1>3. \A u \in Procs : th'[u].stage = "install" => th'[u].tail < j
    <2>1. j > 0
      OBVIOUS
    <2>. QED
      BY <1>2, <2>1 DEF Moves
  <1>. QED
    BY <1>1, <1>2, <1>3

\* A process that copies a block or writes the header has filled its buffer.
LEMMA DataBwrite ==
    ASSUME Types, Control, Cache, Data, NEW t \in Procs, Commits(t), NEW r, Moves(t, r), NEW b \in Bufs, NEW d,
           Written(b, d), disk' = disk, log' = log, Queued' = Queued \cup {b},
           JobOf(r) \in Flushes, Target(r) = b, r.stage = th[t].stage, r.tail = th[t].tail,
           buf[b].blockno \in Home => /\ th[t].tail + 1 \in 1..Len(log.lh)
                                      /\ buf[b].blockno = log.lh[th[t].tail + 1],
           JobOf(r) = "copied" => buf'[r.held[1]].data = buf'[r.held[2]].data,
           JobOf(r) = "headed" => buf'[r.held[1]].data = log.lh
    PROVE  Data'
  <1>1. \A c \in Bufs : /\ buf'[c].blockno = buf[c].blockno /\ (c # b => buf'[c] = buf[c])
    BY DEF Written
  <1>2. buf'[b].dirty
    BY DEF Written
  <1>3. (\A c \in Bufs : (buf[c].valid /\ ~buf[c].dirty) => buf[c].data = disk[buf[c].blockno])'
    BY <1>1, <1>2 DEF Data
  <1>4. (\A c \in Bufs : (buf[c].dirty /\ buf[c].blockno \notin Home) => c \in Queued)'
    BY <1>1 DEF Data
  <1>5. \A u \in Procs \ {t} : th'[u] = th[u] /\ th[u].stage = "" /\ Job(u) \notin Flushes
    BY OneCommits, FlusherHolds DEF Moves
  <1>6. \A u \in Procs \ {t} : Job(u)' \notin Flushes
    BY <1>5 DEF Job
  <1>7. th'[t] = r /\ Job(t)' = JobOf(r)
    BY DEF Moves, Job
  <1>8. (\A u \in Procs : (Job(u) \in Flushes /\ buf[Target(th[u])].dirty) => Target(th[u]) \in Queued)'
    BY <1>6, <1>7
  <1>9. (\A u \in Procs : Job(u) = "copied" => buf[th[u].held[1]].data = buf[th[u].held[2]].data)'
    BY <1>6, <1>7 DEF Flushes
  <1>10. (\A u \in Procs : Job(u) = "headed" => buf[th[u].held[1]].data = log.lh)'
    BY <1>6, <1>7 DEF Flushes
  <1>11. ASSUME NEW c \in Bufs, buf'[c].dirty, buf'[c].blockno \in Home
         PROVE  \E j \in 1..Len(log'.lh) : /\ buf'[c].blockno = log'.lh[j]
                                           /\ \A u \in Procs : th'[u].stage = "install" => th'[u].tail < j
    <2>1. CASE c = b
      <3>1. th[t].tail + 1 \in 1..Len(log.lh) /\ buf'[c].blockno = log.lh[th[t].tail + 1]
        BY <1>1, <1>11, <2>1
      <3>2. th[t].tail \in Nat
        BY ThreadType
      <3>3. th[t].tail < th[t].tail + 1
        BY <3>2
      <3>4. \A u \in Procs : th'[u].stage = "install" => th'[u].tail < th[t].tail + 1
        BY <1>5, <1>7, <3>3
      <3>. QED
        BY <3>1, <3>4
    <2>2. CASE c # b
      <3>1. buf'[c] = buf[c]
        BY <1>1, <2>2
      <3>2. PICK j \in 1..Len(log.lh) : /\ buf[c].blockno = log.lh[j]
                                        /\ \A u \in Procs : th[u].stage = "install" => th[u].tail < j
        BY <1>11, <3>1 DEF Data
      <3>. QED
        BY <1>5, <1>7, <3>1, <3>2
    <2>. QED
      BY <2>1, <2>2
  <1>12. HomeDirty'
    BY <1>11 DEF HomeDirty
  <1>. QED
    BY <1>3, <1>4, <1>8, <1>9, <1>10, <1>12 DEF Data, HomeDirty

\* bget, whether it finds the block or recycles a buffer
LEMMA DataBget ==
    ASSUME Types, Control, Cache, Data, NEW t \in Procs, NEW r, NEW b \in Bufs, Moves(t, r),
           Taken(b, th[t].want), disk' = disk, idequeue' = idequeue, log' = log,
           JobOf(r) \notin Flushes, r.stage = th[t].stage, r.tail = th[t].tail
    PROVE  Data'
  <1>1. CASE (buf[b].blockno = th[t].want /\ buf[b].refcnt # 0) \/ SameContents
    <2>1. SameContents
      BY <1>1 DEF Taken, SameContents
    <2>2. HomeDirty'
      BY <2>1, HomeDirtySame
    <2>3. Queued' = Queued
      BY DEF Queued
    <2>. QED
      BY <2>1, <2>2, <2>3, DataSame
  <1>2. CASE ~(buf[b].blockno = th[t].want /\ buf[b].refcnt # 0) /\ ~SameContents
    <2>1. /\ \A c \in Bufs \ {b} : buf'[c] = buf[c]
          /\ buf[b].refcnt = 0 /\ ~buf'[b].valid /\ ~buf'[b].dirty
      BY <1>2 DEF Taken, SameContents
    <2>2. Queued' = Queued /\ b \notin Queued
      BY <2>1, NobodyHolds DEF Queued
    <2>3. \A u \in Procs : \A i \in 1..Len(th[u].held) : th[u].held[i] # b
      BY <2>1, NobodyHolds
    <2>4. (\A c \in Bufs : (buf[c].valid /\ ~buf[c].dirty) => buf[c].data = disk[buf[c].blockno])'
      BY <2>1 DEF Data
    <2>5. (\A c \in Bufs : (buf[c].dirty /\ buf[c].blockno \notin Home) => c \in Queued)'
      BY <2>1, <2>2 DEF Data
    <2>6. ASSUME NEW u \in Procs, Job(u)' \in Flushes
          PROVE  /\ th'[u] = th[u] /\ Job(u)' = Job(u)
                 /\ Target(th[u]) \in Bufs \ {b}
                 /\ Job(u) = "copied" => th[u].held[1] \in Bufs \ {b} /\ th[u].held[2] \in Bufs \ {b}
                 /\ Job(u) = "headed" => th[u].held[1] \in Bufs \ {b}
      <3>1. th'[u] = th[u]
        BY <2>6 DEF Moves, Job
      <3>2. Job(u)' = Job(u) /\ Job(u) \in Flushes
        BY <2>6, <3>1 DEF Job
      <3>3. th[u] \in Threads /\ InOrder(th[u])
        BY ThreadType, ControlOf
      <3>4. \A i \in 1..Len(th[u].held) : th[u].held[i] \in Bufs \ {b}
        BY <2>3, <3>3, HeldAreBufs
      <3>5. /\ Job(u) = "copied" => Len(th[u].held) = 2
            /\ Job(u) = "headed" => Len(th[u].held) = 1
            /\ \E i \in 1..Len(th[u].held) : th[u].held[i] = Target(th[u])
        BY <3>2, FlusherHolds
      <3>. QED
        BY <3>1, <3>2, <3>4, <3>5
    <2>7. (\A u \in Procs : (Job(u) \in Flushes /\ buf[Target(th[u])].dirty) => Target(th[u]) \in Queued)'
      BY <2>1, <2>2, <2>6 DEF Data
    <2>8. (\A u \in Procs : Job(u) = "copied" => buf[th[u].held[1]].data = buf[th[u].held[2]].data)'
      BY <2>1, <2>6 DEF Data, Flushes
    <2>9. (\A u \in Procs : Job(u) = "headed" => buf[th[u].held[1]].data = log.lh)'
      BY <2>1, <2>6 DEF Data, Flushes
    <2>10. ASSUME NEW c \in Bufs, buf'[c].dirty, buf'[c].blockno \in Home
           PROVE  \E j \in 1..Len(log'.lh) : /\ buf'[c].blockno = log'.lh[j]
                                             /\ \A u \in Procs : th'[u].stage = "install" => th'[u].tail < j
      <3>1. buf'[c] = buf[c]
        BY <2>1, <2>10
      <3>2. PICK j \in 1..Len(log.lh) : /\ buf[c].blockno = log.lh[j]
                                        /\ \A u \in Procs : th[u].stage = "install" => th[u].tail < j
        BY <2>10, <3>1 DEF Data
      <3>. QED
        BY <3>1, <3>2 DEF Moves
    <2>11. HomeDirty'
      BY <2>10 DEF HomeDirty
    <2>. QED
      BY <2>4, <2>5, <2>7, <2>8, <2>9, <2>11 DEF Data, HomeDirty
  <1>. QED
    BY <1>1, <1>2

\* The list of blocks grows at its end and has the block that log_write logs.
LEMMA AbsorbedHas ==
    ASSUME log.lh \in Seq(Home), NEW x \in Home
    PROVE  /\ \A j \in 1..Len(log.lh) : j \in 1..Len(Absorbed(x)) /\ Absorbed(x)[j] = log.lh[j]
           /\ \E j \in 1..Len(Absorbed(x)) : Absorbed(x)[j] = x
           /\ Absorbed(x) \in Seq(Home)
  <1> DEFINE s == log.lh
  <1>0. s \in Seq(Home)
    OBVIOUS
  <1>1. CASE x \in ToSet(s)
    <2>1. Absorbed(x) = s
      BY <1>1 DEF Absorbed
    <2>. HIDE DEF s
    <2>2. \E j \in 1..Len(s) : s[j] = x
      BY <1>0, <1>1 DEF ToSet
    <2>. QED
      BY <1>0, <2>1, <2>2 DEF s
  <1>2. CASE x \notin ToSet(s)
    <2>1. Absorbed(x) = Append(s, x)
      BY <1>2 DEF Absorbed
    <2>. HIDE DEF s
    <2> DEFINE p == Append(s, x)
    <2>2. /\ p \in Seq(Home) /\ Len(p) = Len(s) + 1 /\ Len(s) \in Nat
          /\ \A j \in 1..Len(s) : p[j] = s[j]
          /\ p[Len(s) + 1] = x
      BY <1>0
    <2>. HIDE DEF p
    <2>3. Len(s) + 1 \in 1..Len(p) /\ 1..Len(s) \subseteq 1..Len(p)
      BY <2>2
    <2>4. Absorbed(x) = p
      BY <2>1 DEF p
    <2>. QED
      BY <2>2, <2>3, <2>4 DEF s
  <1>. QED
    BY <1>1, <1>2

\* log_write makes a block of the file system dirty that is in the log.
LEMMA DataLogWrite ==
    ASSUME Types, Control, Cache, Data, NEW t \in inop, NEW r, NEW b \in Bufs, Moves(t, r),
           \A c \in Bufs : /\ buf'[c].blockno = buf[c].blockno
                           /\ c # b => /\ buf'[c].data = buf[c].data /\ (buf'[c].valid <=> buf[c].valid)
                                       /\ (buf'[c].dirty <=> buf[c].dirty),
           buf'[b].dirty, buf[b].blockno \in Home, disk' = disk, idequeue' = idequeue,
           log'.lh = Absorbed(buf[b].blockno), JobOf(r) \notin Flushes, r.stage = ""
    PROVE  Data'
  <1>1. log.lh \in Seq(Home) /\ buf[b].blockno \in Home /\ t \in Procs
    BY DEF Types
  <1>2. /\ \A j \in 1..Len(log.lh) : j \in 1..Len(log'.lh) /\ log'.lh[j] = log.lh[j]
        /\ \E j \in 1..Len(log'.lh) : log'.lh[j] = buf[b].blockno
    <2>1. /\ \A j \in 1..Len(log.lh) : /\ j \in 1..Len(Absorbed(buf[b].blockno))
                                       /\ Absorbed(buf[b].blockno)[j] = log.lh[j]
          /\ \E j \in 1..Len(Absorbed(buf[b].blockno)) : Absorbed(buf[b].blockno)[j] = buf[b].blockno
      <3>. HIDE DEF Absorbed
      <3>. QED
        BY <1>1, AbsorbedHas
    <2>. QED
      BY <2>1
  <1>3. \A u \in Procs : th[u].stage = "" /\ Job(u) \notin Flushes
    BY NobodyCommits, FlusherHolds
  <1>4. \A u \in Procs : th'[u].stage = "" /\ Job(u)' \notin Flushes
    BY <1>3 DEF Moves, Job
  <1>5. Queued' = Queued
    BY DEF Queued
  <1>6. (\A c \in Bufs : (buf[c].valid /\ ~buf[c].dirty) => buf[c].data = disk[buf[c].blockno])'
    BY DEF Data
  <1>7. (\A c \in Bufs : (buf[c].dirty /\ buf[c].blockno \notin Home) => c \in Queued)'
    BY <1>5 DEF Data
  <1>8. ASSUME NEW c \in Bufs, buf'[c].dirty, buf'[c].blockno \in Home
        PROVE  \E j \in 1..Len(log'.lh) : /\ buf'[c].blockno = log'.lh[j]
                                          /\ \A u \in Procs : th'[u].stage = "install" => th'[u].tail < j
    <2>1. \E j \in 1..Len(log'.lh) : buf[c].blockno = log'.lh[j]
      <3>1. CASE c = b
        BY <1>2, <3>1
      <3>2. CASE c # b
        <4>1. \E j \in 1..Len(log.lh) : buf[c].blockno = log.lh[j]
          BY <1>8, <3>2 DEF Data
        <4>. QED
          BY <1>2, <4>1
      <3>. QED
        BY <3>1, <3>2
    <2>. QED
      BY <1>4, <2>1
  <1>9. HomeDirty'
    BY <1>8 DEF HomeDirty
  <1>. QED
    BY <1>4, <1>6, <1>7, <1>9 DEF Data, HomeDirty, Flushes

\* The answer of the disk
LEMMA DataIdeintr ==
    ASSUME Types, Control, Cache, Data, NEW b \in Queued, Served(b), Queued' = Queued \ {b}, th' = th, log' = log,
           \A x \in Blocks : disk'[x] = IF buf[b].dirty /\ x = buf[b].blockno THEN buf[b].data ELSE disk[x]
    PROVE  Data'
  <1>1. /\ \A c \in Bufs : /\ buf'[c].blockno = buf[c].blockno /\ (c # b => buf'[c] = buf[c])
        /\ buf'[b].valid /\ ~buf'[b].dirty
        /\ buf'[b].data = IF buf[b].dirty THEN buf[b].data ELSE disk[buf[b].blockno]
    BY DEF Served
  <1>2. b \in Bufs /\ buf[b].blockno \in Blocks /\ buf[b].blockno # NoBlock
    BY QueuedIsHeld, QueuedHasBlock
  <1>3. ASSUME NEW c \in Bufs, buf'[c].valid, ~buf'[c].dirty
        PROVE  buf'[c].data = disk'[buf'[c].blockno]
    <2>1. CASE c = b
      BY <1>1, <1>2, <2>1
    <2>2. CASE c # b
      <3>1. buf'[c] = buf[c]
        BY <1>1, <2>2
      <3>2. buf[c].blockno # NoBlock /\ buf[c].blockno \in Blocks \cup {NoBlock}
        BY <1>3, <3>1, BufType DEF Cache
      <3>3. buf[c].blockno # buf[b].blockno
        BY <1>2, <2>2 DEF Cache, Unique
      <3>4. disk'[buf[c].blockno] = disk[buf[c].blockno]
        BY <3>2, <3>3
      <3>. QED
        BY <1>3, <3>1, <3>4 DEF Data
    <2>. QED
      BY <2>1, <2>2
  <1>4. (\A c \in Bufs : (buf[c].dirty /\ buf[c].blockno \notin Home) => c \in Queued)'
    BY <1>1 DEF Data
  <1>5. ASSUME NEW c \in Bufs, buf'[c].dirty, buf'[c].blockno \in Home
        PROVE  \E j \in 1..Len(log'.lh) : /\ buf'[c].blockno = log'.lh[j]
                                          /\ \A u \in Procs : th'[u].stage = "install" => th'[u].tail < j
    <2>1. buf'[c] = buf[c]
      BY <1>1, <1>5
    <2>. QED
      BY <1>5, <2>1 DEF Data
  <1>6. HomeDirty'
    BY <1>5 DEF HomeDirty
  <1>7. \A u \in Procs : Job(u)' = Job(u)
    BY DEF Job
  <1>8. ASSUME NEW u \in Procs, Job(u) \in Flushes, NEW i \in 1..Len(th[u].held)
        PROVE  th[u].held[i] \in Bufs /\ buf'[th[u].held[i]].data = buf[th[u].held[i]].data
    <2>1. th[u] \in Threads /\ InOrder(th[u]) /\ Owned(u, th[u])
      BY ThreadType, ControlOf DEF Cache
    <2>2. th[u].held[i] \in Bufs
      BY <2>1, HeldAreBufs
    <2>3. th[u].pc # "lock"
      BY <1>8, FlusherHolds
    <2>4. buf[th[u].held[i]].owner = u
      BY <2>1, <2>3 DEF Owned, Waits
    <2>5. th[u].held[i] = b => buf[b].dirty
      BY <1>8, <2>4 DEF Cache, QueuedFor
    <2>. QED
      BY <1>1, <2>2, <2>5
  <1>9. \A u \in Procs : Job(u) \in Flushes => Target(th[u]) \in Bufs
    BY FlusherHolds
  <1>10. (\A u \in Procs : (Job(u) \in Flushes /\ buf[Target(th[u])].dirty) => Target(th[u]) \in Queued)'
    BY <1>1, <1>7, <1>9 DEF Data
  <1>11. (\A u \in Procs : Job(u) = "copied" => buf[th[u].held[1]].data = buf[th[u].held[2]].data)'
    <2>1. \A u \in Procs : Job(u) = "copied" => Len(th[u].held) = 2
      BY FlusherHolds DEF Flushes
    <2>. QED
      BY <1>7, <1>8, <2>1 DEF Data, Flushes
  <1>12. (\A u \in Procs : Job(u) = "headed" => buf[th[u].held[1]].data = log.lh)'
    <2>1. \A u \in Procs : Job(u) = "headed" => Len(th[u].held) = 1
      BY FlusherHolds DEF Flushes
    <2>. QED
      BY <1>7, <1>8, <2>1 DEF Data, Flushes
  <1>. QED
    BY <1>3, <1>4, <1>6, <1>10, <1>11, <1>12 DEF Data, HomeDirty

\* A fresh cache holds nothing.
LEMMA DataBoot ==
    ASSUME buf = [b \in Bufs |-> FreshBuf], th = [t \in Procs |-> Booting(t)]
    PROVE  Data
  <1>1. \A b \in Bufs : ~buf[b].valid /\ ~buf[b].dirty
    BY DEF FreshBuf
  <1>2. \A t \in Procs : Job(t) \in {"idle", "head"}
    BY DEF Booting, Idle, Job, JobOf
  <1>. QED
    BY <1>1, <1>2 DEF Data, Flushes

-----------------------------------------------------------------------------
(* What is on disk, and what the system calls see *)

\* A cached block is seen as it is in the cache.
LEMMA SeenCached ==
    ASSUME Cache, up, NEW x \in Home, NEW i \in Bufs, buf[i].blockno = x, buf[i].valid
    PROVE  Seen[x] = buf[i].data
  <1> DEFINE c == {k \in Bufs : buf[k].blockno = x /\ buf[k].valid}
  <1>1. c = {i}
    BY BlockKinds DEF Cache, Unique
  <1>2. (CHOOSE k \in c : TRUE) = i
    BY <1>1
  <1>3. Seen[x] = IF c = {} THEN disk[x] ELSE buf[CHOOSE k \in c : TRUE].data
    BY DEF Seen
  <1>. QED
    BY <1>1, <1>2, <1>3

\* A block that is not cached is seen as it is on disk.
LEMMA SeenUncached ==
    ASSUME up, NEW x \in Home, \A i \in Bufs : ~(buf[i].blockno = x /\ buf[i].valid)
    PROVE  Seen[x] = disk[x]
  <1> DEFINE c == {k \in Bufs : buf[k].blockno = x /\ buf[k].valid}
  <1>1. c = {}
    OBVIOUS
  <1>2. Seen[x] = IF c = {} THEN disk[x] ELSE buf[CHOOSE k \in c : TRUE].data
    BY DEF Seen
  <1>. QED
    BY <1>1, <1>2

\* The same after a step
LEMMA SeenCachedNext ==
    ASSUME Cache', up', NEW x \in Home, NEW i \in Bufs, buf'[i].blockno = x, buf'[i].valid
    PROVE  Seen'[x] = buf'[i].data
  <1> DEFINE c == {k \in Bufs : buf'[k].blockno = x /\ buf'[k].valid}
  <1>1. c = {i}
    BY BlockKinds DEF Cache, Unique
  <1>2. (CHOOSE k \in c : TRUE) = i
    BY <1>1
  <1>3. Seen'[x] = IF c = {} THEN disk'[x] ELSE buf'[CHOOSE k \in c : TRUE].data
    BY DEF Seen
  <1>. QED
    BY <1>1, <1>2, <1>3

\* The same after a step
LEMMA SeenUncachedNext ==
    ASSUME up', NEW x \in Home, \A i \in Bufs : ~(buf'[i].blockno = x /\ buf'[i].valid)
    PROVE  Seen'[x] = disk'[x]
  <1> DEFINE c == {k \in Bufs : buf'[k].blockno = x /\ buf'[k].valid}
  <1>1. c = {}
    OBVIOUS
  <1>2. Seen'[x] = IF c = {} THEN disk'[x] ELSE buf'[CHOOSE k \in c : TRUE].data
    BY DEF Seen
  <1>. QED
    BY <1>1, <1>2

\* A block that is not waiting in the log is seen as it is on disk.
LEMMA SeenClean ==
    ASSUME Cache, Data, up, NEW x \in Home, \A i \in Bufs : ~(buf[i].blockno = x /\ buf[i].dirty)
    PROVE  Seen[x] = disk[x]
  <1>1. CASE \E i \in Bufs : buf[i].blockno = x /\ buf[i].valid
    <2>1. PICK i \in Bufs : buf[i].blockno = x /\ buf[i].valid
      BY <1>1
    <2>2. Seen[x] = buf[i].data
      BY <2>1, SeenCached
    <2>3. buf[i].data = disk[x]
      BY <2>1 DEF Data
    <2>. QED
      BY <2>2, <2>3
  <1>2. CASE ~\E i \in Bufs : buf[i].blockno = x /\ buf[i].valid
    BY <1>2, SeenUncached
  <1>. QED
    BY <1>1, <1>2

\* What recovery makes of a block that the header names and of one it does not
LEMMA RecoveredBlock ==
    ASSUME NEW d, BlockList(d[Header]), NEW x \in Home
    PROVE  /\ \A j \in 1..Len(d[Header]) : d[Header][j] = x => Recovered(d)[x] = d[LogBlock(j)]
           /\ (\A j \in 1..Len(d[Header]) : d[Header][j] # x) => Recovered(d)[x] = d[x]
  <1> DEFINE s == d[Header]
  <1>0. s \in Seq(Home) /\ \A i, j \in 1..Len(s) : s[i] = s[j] => i = j
    BY DEF BlockList
  <1>1. DOMAIN s = 1..Len(s)
    BY <1>0
  <1>2. Recovered(d)[x] = IF x \in ToSet(s) THEN d[LogBlock(CHOOSE i \in DOMAIN s : s[i] = x)] ELSE d[x]
    BY DEF Recovered
  <1>3. x \in ToSet(s) <=> \E j \in 1..Len(s) : s[j] = x
    BY <1>1 DEF ToSet
  <1>. HIDE DEF s
  <1>4. ASSUME NEW j \in 1..Len(s), s[j] = x PROVE Recovered(d)[x] = d[LogBlock(j)]
    <2>1. (CHOOSE i \in DOMAIN s : s[i] = x) \in DOMAIN s /\ s[CHOOSE i \in DOMAIN s : s[i] = x] = x
      BY <1>1, <1>4
    <2>2. (CHOOSE i \in DOMAIN s : s[i] = x) = j
      BY <1>0, <1>1, <1>4, <2>1
    <2>. QED
      BY <1>2, <1>3, <1>4, <2>2
  <1>5. (\A j \in 1..Len(s) : s[j] # x) => Recovered(d)[x] = d[x]
    BY <1>2, <1>3
  <1>. QED
    BY <1>4, <1>5 DEF s

\* Recovered is a function of the disk.
LEMMA RecoveredSame ==
    ASSUME disk' = disk
    PROVE  Recovered(disk)' = Recovered(disk)
  BY DEF Recovered

\* Both views are functions on the blocks of the file system.
LEMMA ViewsAreFunctions ==
    /\ Seen = [x \in Home |-> Seen[x]] /\ \A d : Recovered(d) = [x \in Home |-> Recovered(d)[x]]
    /\ Seen' = [x \in Home |-> Seen'[x]]
  BY DEF Seen, Recovered

\* The views of the system calls agree when their blocks do.
LEMMA SeenEqual ==
    ASSUME \A x \in Home : Seen'[x] = Seen[x]
    PROVE  Seen' = Seen
  <1>1. [x \in Home |-> Seen'[x]] = [x \in Home |-> Seen[x]]
    OBVIOUS
  <1>. QED
    BY <1>1, ViewsAreFunctions

\* Steps that change neither the disk nor the contents of valid buffers are not seen.
LEMMA SeenSame ==
    ASSUME Types, Cache, Data, Cache', disk' = disk, up' = up,
           \A c \in Bufs : \/ buf'[c].blockno = buf[c].blockno /\ (buf'[c].valid <=> buf[c].valid)
                                /\ buf'[c].data = buf[c].data
                           \/ ~buf[c].dirty /\ ~buf'[c].valid
    PROVE  Seen' = Seen
  <1>1. CASE ~up
    <2>1. Recovered(disk)' = Recovered(disk)
      BY RecoveredSame
    <2>2. \A x \in Home : Seen[x] = Recovered(disk)[x] /\ Seen'[x] = (Recovered(disk)')[x]
      BY <1>1 DEF Seen
    <2>. QED
      BY <2>1, <2>2, SeenEqual
  <1>2. CASE up
    <2> SUFFICES ASSUME NEW x \in Home PROVE Seen'[x] = Seen[x]
      BY SeenEqual
    <2>1. CASE \E i \in Bufs : buf'[i].blockno = x /\ buf'[i].valid
      <3>1. PICK i \in Bufs : buf'[i].blockno = x /\ buf'[i].valid
        BY <2>1
      <3>2. Seen'[x] = buf'[i].data
        BY <1>2, <3>1, SeenCachedNext
      <3>3. buf[i].blockno = x /\ buf[i].valid /\ buf'[i].data = buf[i].data
        BY <3>1
      <3>. QED
        BY <1>2, <3>2, <3>3, SeenCached
    <2>2. CASE ~\E i \in Bufs : buf'[i].blockno = x /\ buf'[i].valid
      <3>1. Seen'[x] = disk[x]
        BY <1>2, <2>2, SeenUncachedNext
      <3>2. \A i \in Bufs : ~(buf[i].blockno = x /\ buf[i].dirty)
        BY <2>2 DEF Cache
      <3>. QED
        BY <1>2, <3>1, <3>2, SeenClean
    <2>. QED
      BY <2>1, <2>2
  <1>. QED
    BY <1>1, <1>2

\* A block is seen as before when neither the disk's copy nor the cached one change.
LEMMA SeenAt ==
    ASSUME Cache, Cache', up, up', NEW x \in Home, disk'[x] = disk[x],
           \A i \in Bufs : /\ buf'[i].blockno = buf[i].blockno
                           /\ buf[i].blockno = x => (buf'[i].valid <=> buf[i].valid) /\ buf'[i].data = buf[i].data
    PROVE  Seen'[x] = Seen[x]
  <1>1. CASE \E i \in Bufs : buf[i].blockno = x /\ buf[i].valid
    <2>1. PICK i \in Bufs : buf[i].blockno = x /\ buf[i].valid
      BY <1>1
    <2>2. buf'[i].blockno = x /\ buf'[i].valid /\ buf'[i].data = buf[i].data
      BY <2>1
    <2>. QED
      BY <2>1, <2>2, SeenCached, SeenCachedNext
  <1>2. CASE ~\E i \in Bufs : buf[i].blockno = x /\ buf[i].valid
    <2>1. \A i \in Bufs : ~(buf'[i].blockno = x /\ buf'[i].valid)
      BY <1>2
    <2>. QED
      BY <1>2, <2>1, SeenUncached, SeenUncachedNext
  <1>. QED
    BY <1>1, <1>2

\* The header stays on disk while the committing process goes on.
LEMMA HeaderOnKept ==
    ASSUME Types, Control, NEW t \in Procs, NEW r, Moves(t, r), \A c \in Bufs : buf'[c].dirty => buf[c].dirty,
           r.stage = th[t].stage, Job(t) = "headed" => JobOf(r) = "headed" /\ r.held = th[t].held
    PROVE  \A u \in Procs : HeaderOn(u) => HeaderOn(u)'
  <1> SUFFICES ASSUME NEW u \in Procs, HeaderOn(u) PROVE HeaderOn(u)'
    OBVIOUS
  <1>1. th'[u].stage = th[u].stage /\ (Job(u) = "headed" => Job(u)' = "headed" /\ th'[u].held = th[u].held)
    BY DEF Moves, Job
  <1>2. Job(u) = "headed" => th[u].held[1] \in Bufs
    <2>1. Job(u) = "headed" => Len(th[u].held) = 1
      BY FlusherHolds DEF Flushes
    <2>2. th[u] \in Threads /\ InOrder(th[u])
      BY ThreadType, ControlOf
    <2>. QED
      BY <2>1, <2>2, HeldAreBufs
  <1>. QED
    BY <1>1, <1>2 DEF HeaderOn

\* A step that changes neither the disk nor what commit and recovery have done
LEMMA OnDiskQuiet ==
    ASSUME Types, OnDisk, NEW t \in Procs, NEW r, Moves(t, r), disk' = disk, log'.lh = log.lh, up' = up,
           Seen' = Seen, \A u \in Procs : HeaderOn(u) => HeaderOn(u)',
           r.stage = th[t].stage, r.stage # "" => r.tail = th[t].tail
    PROVE  OnDisk'
  <1>1. \A u \in Procs : th'[u].stage = th[u].stage /\ (th[u].stage # "" => th'[u].tail = th[u].tail)
    BY DEF Moves
  <1>2. BlockList(disk'[Header]) /\ ((\A u \in Procs : ~HeaderOn(u)') => disk'[Header] = <<>>)
    BY DEF OnDisk
  <1>3. ASSUME NEW u \in Procs, th'[u].stage = "install"
        PROVE  /\ disk'[Header] = log'.lh
               /\ \A j \in 1..Len(log'.lh) : j <= th'[u].tail => disk'[log'.lh[j]] = disk'[LogBlock(j)]
    BY <1>1, <1>3 DEF OnDisk
  <1>4. ASSUME NEW u \in Procs, up', th'[u].stage \in {"writelog", "head", "install"}
        PROVE  \A j \in 1..Len(log'.lh) :
                (th'[u].stage = "writelog" => j <= th'[u].tail) => disk'[LogBlock(j)] = Seen'[log'.lh[j]]
    <2>1. th[u].stage \in {"writelog", "head", "install"} /\ th'[u].stage = th[u].stage /\ th'[u].tail = th[u].tail
      BY <1>1, <1>4
    <2>. QED
      BY <1>4, <2>1 DEF OnDisk
  <1>5. ASSUME NEW u \in Procs, th'[u].stage = "clear"
        PROVE  \A j \in 1..Len(disk'[Header]) : disk'[disk'[Header][j]] = disk'[LogBlock(j)]
    BY <1>1, <1>5 DEF OnDisk
  <1>. QED
    BY <1>2, <1>3, <1>4, <1>5 DEF OnDisk

\* A step of the only process that commits or recovers
LEMMA OnDiskStage ==
    ASSUME OnDisk, disk' = disk, NEW t \in Procs, \A u \in Procs \ {t} : th'[u].stage = "",
           disk[Header] = <<>> \/ HeaderOn(t)',
           th'[t].stage = "install" =>
               /\ disk[Header] = log'.lh
               /\ \A j \in 1..Len(log'.lh) : j <= th'[t].tail => disk[log'.lh[j]] = disk[LogBlock(j)],
           (up' /\ th'[t].stage \in {"writelog", "head", "install"}) =>
               \A j \in 1..Len(log'.lh) :
                   (th'[t].stage = "writelog" => j <= th'[t].tail) => disk[LogBlock(j)] = Seen'[log'.lh[j]],
           th'[t].stage = "clear" => \A j \in 1..Len(disk[Header]) : disk[disk[Header][j]] = disk[LogBlock(j)]
    PROVE  OnDisk'
  <1>1. BlockList(disk'[Header]) /\ ((\A u \in Procs : ~HeaderOn(u)') => disk'[Header] = <<>>)
    BY DEF OnDisk
  <1>2. \A u \in Procs : th'[u].stage # "" => u = t
    OBVIOUS
  <1>. QED
    BY <1>1, <1>2 DEF OnDisk

\* When nobody commits or recovers, the header on disk is empty.
LEMMA HeaderOff ==
    ASSUME OnDisk, \A u \in Procs : th[u].stage \in {"", "writelog"}
    PROVE  disk[Header] = <<>>
  BY DEF OnDisk, HeaderOn

\* The block that a process writes
LEMMA BlockOfTarget ==
    ASSUME Types, Control, Cache, NEW t \in Procs, Job(t) \in Flushes
    PROVE  /\ Job(t) = "copied" =>
                /\ buf[th[t].held[1]].blockno = LogBlock(th[t].tail + 1)
                /\ buf[th[t].held[2]].blockno = log.lh[th[t].tail + 1]
                /\ th[t].tail + 1 \in 1..Len(log.lh) /\ th[t].tail + 1 \in 1..LOGSIZE
                /\ log.lh[th[t].tail + 1] \in Home
                /\ th[t].held[1] \in Bufs /\ th[t].held[2] \in Bufs
                /\ Target(th[t]) = IF th[t].stage = "writelog" THEN th[t].held[1] ELSE th[t].held[2]
           /\ Job(t) = "headed" =>
                /\ buf[th[t].held[1]].blockno = Header /\ Target(th[t]) = th[t].held[1]
                /\ th[t].held[1] \in Bufs
  <1>1. /\ InOrder(th[t]) /\ RightBlocks(th[t]) /\ Job(t) = JobOf(th[t]) /\ th[t] \in Threads
        /\ th[t].pc # "bget"
    BY ControlOf, FlusherHolds, ThreadType DEF Cache, Job
  <1>2. /\ Job(t) = "copied" => Len(th[t].held) = 2
        /\ Job(t) = "headed" => Len(th[t].held) = 1
    BY FlusherHolds
  <1>3. \A i \in 1..Len(th[t].held) : th[t].held[i] \in Bufs
    BY <1>1, HeldAreBufs
  <1>4. th[t].held # <<>>
    BY <1>2 DEF Flushes
  <1>5. buf[Cur(th[t])].blockno = th[t].want
    BY <1>1, <1>4 DEF RightBlocks
  <1>6. CASE Job(t) = "copied"
    <2>1. Cur(th[t]) = th[t].held[2]
      BY <1>2, <1>6 DEF Cur
    <2>2. buf[th[t].held[1]].blockno = LogBlock(th[t].tail + 1)
      BY <1>1, <1>6 DEF RightBlocks, TwoBlocks
    <2>3. /\ th[t].want \in Home /\ th[t].want = log.lh[th[t].tail + 1]
          /\ th[t].tail + 1 \in 1..Len(log.lh) /\ th[t].tail + 1 \in 1..LOGSIZE
      BY <1>6, WantIsBlock DEF TwoBlocks
    <2>4. Target(th[t]) = IF th[t].stage = "writelog" THEN th[t].held[1] ELSE th[t].held[2]
      BY <1>1, <1>6, <2>1 DEF Target
    <2>5. th[t].held[1] \in Bufs /\ th[t].held[2] \in Bufs
      BY <1>2, <1>3, <1>6
    <2>. QED
      BY <1>5, <1>6, <2>1, <2>2, <2>3, <2>4, <2>5
  <1>7. CASE Job(t) = "headed"
    <2>1. Cur(th[t]) = th[t].held[1] /\ th[t].held[1] \in Bufs
      BY <1>2, <1>3, <1>7 DEF Cur
    <2>2. th[t].want = Header
      BY <1>1, <1>7 DEF InOrder
    <2>3. Target(th[t]) = th[t].held[1]
      BY <1>1, <1>7, <2>1 DEF Target
    <2>. QED
      BY <1>5, <1>7, <2>1, <2>2, <2>3
  <1>. QED
    BY <1>6, <1>7 DEF Flushes

\* The disk has block x replaced by d.
Wrote(x, d) == \A y \in Blocks : disk'[y] = IF y = x THEN d ELSE disk[y]

\* A request to read is not seen.
LEMMA SeenRead ==
    ASSUME Types, Cache, Data, Cache', NEW b \in Bufs, Served(b), ~buf[b].dirty, disk' = disk, up' = up,
           buf[b].blockno # NoBlock
    PROVE  Seen' = Seen
  <1>1. /\ \A c \in Bufs : buf'[c].blockno = buf[c].blockno /\ (c # b => buf'[c] = buf[c])
        /\ buf'[b].valid /\ buf'[b].data = disk[buf[b].blockno]
    BY DEF Served
  <1>2. CASE ~up
    <2>1. Recovered(disk)' = Recovered(disk)
      BY RecoveredSame
    <2>2. \A x \in Home : Seen[x] = Recovered(disk)[x] /\ Seen'[x] = (Recovered(disk)')[x]
      BY <1>2 DEF Seen
    <2>. QED
      BY <2>1, <2>2, SeenEqual
  <1>3. CASE up
    <2> SUFFICES ASSUME NEW x \in Home PROVE Seen'[x] = Seen[x]
      BY SeenEqual
    <2>1. CASE buf[b].blockno = x
      <3>1. Seen'[x] = buf'[b].data
        BY <1>1, <1>3, <2>1, SeenCachedNext
      <3>2. \A i \in Bufs : ~(buf[i].blockno = x /\ buf[i].dirty)
        BY <2>1 DEF Cache, Unique
      <3>3. Seen[x] = disk[x]
        BY <1>3, <3>2, SeenClean
      <3>. QED
        BY <1>1, <2>1, <3>1, <3>3
    <2>2. CASE buf[b].blockno # x
      <3>1. \A i \in Bufs : /\ buf'[i].blockno = buf[i].blockno
                            /\ buf[i].blockno = x => (buf'[i].valid <=> buf[i].valid) /\ buf'[i].data = buf[i].data
        BY <1>1, <2>2
      <3>. QED
        BY <1>3, <3>1, SeenAt
    <2>. QED
      BY <2>1, <2>2
  <1>. QED
    BY <1>2, <1>3

\* Once recovery is over, a request to write is not seen: the block was cached.
LEMMA SeenWrite ==
    ASSUME Types, Cache, Cache', NEW b \in Bufs, Served(b), buf[b].dirty, Wrote(buf[b].blockno, buf[b].data),
           up, up', buf[b].blockno # NoBlock
    PROVE  Seen' = Seen
  <1>1. /\ \A c \in Bufs : buf'[c].blockno = buf[c].blockno /\ (c # b => buf'[c] = buf[c])
        /\ buf'[b].valid /\ buf'[b].data = buf[b].data
    BY DEF Served
  <1> SUFFICES ASSUME NEW x \in Home PROVE Seen'[x] = Seen[x]
    BY SeenEqual
  <1>2. CASE buf[b].blockno = x
    <2>1. buf[b].valid
      BY DEF Cache
    <2>2. Seen[x] = buf[b].data
      BY <1>2, <2>1, SeenCached
    <2>3. Seen'[x] = buf'[b].data
      BY <1>1, <1>2, SeenCachedNext
    <2>. QED
      BY <1>1, <2>2, <2>3
  <1>3. CASE buf[b].blockno # x
    <2>1. \A i \in Bufs : /\ buf'[i].blockno = buf[i].blockno
                          /\ buf[i].blockno = x => (buf'[i].valid <=> buf[i].valid) /\ buf'[i].data = buf[i].data
      BY <1>1, <1>3
    <2>2. disk'[x] = disk[x]
      BY <1>3, BlockKinds DEF Wrote
    <2>. QED
      BY <2>1, <2>2, SeenAt
  <1>. QED
    BY <1>2, <1>3

\* Recovered agrees on two disks when its blocks do.
LEMMA RecoveredEqual ==
    ASSUME \A x \in Home : Recovered(disk')[x] = Recovered(disk)[x]
    PROVE  Recovered(disk') = Recovered(disk)
  <1>1. [x \in Home |-> Recovered(disk')[x]] = [x \in Home |-> Recovered(disk)[x]]
    OBVIOUS
  <1>. QED
    BY <1>1, ViewsAreFunctions

\* write_log writes a block of the log while the header is empty.
LEMMA WroteLog ==
    ASSUME Types, Control, OnDisk, disk[Header] = <<>>, NEW k \in 1..LOGSIZE, NEW d, Wrote(LogBlock(k), d)
    PROVE  Recovered(disk') = Recovered(disk) /\ disk'[Header] = disk[Header]
  <1>1. disk'[Header] = <<>> /\ BlockList(disk[Header])
    BY BlockKinds DEF Wrote, OnDisk
  <1>2. \A j \in 1..Len(<<>>) : FALSE
    OBVIOUS
  <1>3. ASSUME NEW x \in Home PROVE Recovered(disk')[x] = Recovered(disk)[x]
    <2>1. Recovered(disk)[x] = disk[x]
      BY <1>1, <1>2, RecoveredBlock
    <2>2. Recovered(disk')[x] = disk'[x]
      BY <1>1, <1>2, RecoveredBlock
    <2>3. disk'[x] = disk[x]
      BY BlockKinds DEF Wrote
    <2>. QED
      BY <2>1, <2>2, <2>3
  <1>. QED
    BY <1>1, <1>3, RecoveredEqual

\* install_trans writes a block that the header names.
LEMMA WroteHome ==
    ASSUME Types, Control, OnDisk, NEW k \in 1..Len(disk[Header]), NEW d, Wrote(disk[Header][k], d)
    PROVE  Recovered(disk') = Recovered(disk) /\ disk'[Header] = disk[Header]
  <1> DEFINE s == disk[Header]
  <1>1. BlockList(s) /\ s \in Seq(Home) /\ Len(s) <= LOGSIZE
    BY DEF OnDisk, BlockList
  <1>. HIDE DEF s
  <1>2. s[k] \in Home /\ \A j \in 1..Len(s) : j \in 1..LOGSIZE
    BY <1>1, LogAssumption DEF s
  <1>3. disk'[Header] = s
    BY <1>2, BlockKinds DEF Wrote, s
  <1>4. \A j \in 1..Len(s) : disk'[LogBlock(j)] = disk[LogBlock(j)]
    BY <1>2, BlockKinds DEF Wrote, s
  <1>5. \A x \in Home : x # s[k] => disk'[x] = disk[x]
    BY BlockKinds DEF Wrote, s
  <1>6. ASSUME NEW x \in Home PROVE Recovered(disk')[x] = Recovered(disk)[x]
    <2>1. CASE \E j \in 1..Len(s) : s[j] = x
      <3>1. PICK j \in 1..Len(s) : s[j] = x
        BY <2>1
      <3>2. Recovered(disk)[x] = disk[LogBlock(j)]
        BY <1>1, <3>1, RecoveredBlock DEF s
      <3>3. Recovered(disk')[x] = disk'[LogBlock(j)]
        BY <1>1, <1>3, <3>1, RecoveredBlock
      <3>. QED
        BY <1>4, <3>2, <3>3
    <2>2. CASE \A j \in 1..Len(s) : s[j] # x
      <3>1. Recovered(disk)[x] = disk[x]
        BY <1>1, <2>2, RecoveredBlock DEF s
      <3>2. Recovered(disk')[x] = disk'[x]
        BY <1>1, <1>3, <2>2, RecoveredBlock
      <3>3. x # s[k] /\ k \in 1..Len(s)
        BY <2>2 DEF s
      <3>. QED
        BY <1>5, <3>1, <3>2, <3>3
    <2>. QED
      BY <2>1, <2>2
  <1>. QED
    BY <1>3, <1>6, RecoveredEqual DEF s

\* The header of an installed log is cleared.
LEMMA WroteClear ==
    ASSUME Types, Control, OnDisk, Wrote(Header, <<>>),
           \A j \in 1..Len(disk[Header]) : disk[disk[Header][j]] = disk[LogBlock(j)]
    PROVE  Recovered(disk') = Recovered(disk) /\ disk'[Header] = <<>>
  <1>1. disk'[Header] = <<>> /\ BlockList(disk[Header])
    BY BlockKinds DEF Wrote, OnDisk
  <1>2. (\A j \in 1..Len(<<>>) : FALSE) /\ BlockList(<<>>)
    BY LogAssumption DEF BlockList
  <1>3. ASSUME NEW x \in Home PROVE Recovered(disk')[x] = Recovered(disk)[x]
    <2>1. Recovered(disk')[x] = disk'[x] /\ disk'[x] = disk[x]
      <3>1. Recovered(disk')[x] = disk'[x]
        BY <1>1, <1>2, RecoveredBlock
      <3>2. disk'[x] = disk[x]
        BY BlockKinds DEF Wrote
      <3>. QED
        BY <3>1, <3>2
    <2>2. CASE \E j \in 1..Len(disk[Header]) : disk[Header][j] = x
      <3>1. PICK j \in 1..Len(disk[Header]) : disk[Header][j] = x
        BY <2>2
      <3>2. Recovered(disk)[x] = disk[LogBlock(j)]
        BY <1>1, <3>1, RecoveredBlock
      <3>. QED
        BY <2>1, <3>1, <3>2
    <2>3. CASE \A j \in 1..Len(disk[Header]) : disk[Header][j] # x
      <3>1. Recovered(disk)[x] = disk[x]
        BY <1>1, <2>3, RecoveredBlock
      <3>. QED
        BY <2>1, <3>1
    <2>. QED
      BY <2>2, <2>3
  <1>. QED
    BY <1>1, <1>3, RecoveredEqual

\* The commit point: the header names the blocks of the log, and what system
\* calls see becomes what recovery finds.
LEMMA WroteHead ==
    ASSUME Types, Control, Cache, Data, OnDisk, up, NEW t \in Procs, th[t].stage = "head", Wrote(Header, log.lh)
    PROVE  Recovered(disk') = Seen /\ disk'[Header] = log.lh
  <1>1. disk'[Header] = log.lh /\ BlockList(log.lh)
    BY BlockKinds DEF Wrote, Control
  <1>2. log.lh \in Seq(Home) /\ Len(log.lh) <= LOGSIZE
    BY <1>1 DEF BlockList
  <1>3. \A j \in 1..Len(log.lh) : j \in 1..LOGSIZE /\ log.lh[j] \in Home
    BY <1>2, LogAssumption
  <1>4. \A j \in 1..Len(log.lh) : disk'[LogBlock(j)] = disk[LogBlock(j)]
    BY <1>3, BlockKinds DEF Wrote
  <1>5. \A x \in Home : disk'[x] = disk[x]
    BY BlockKinds DEF Wrote
  <1>6. ASSUME NEW x \in Home PROVE Recovered(disk')[x] = Seen[x]
    <2>1. CASE \E j \in 1..Len(log.lh) : log.lh[j] = x
      <3>1. PICK j \in 1..Len(log.lh) : log.lh[j] = x
        BY <2>1
      <3>2. Recovered(disk')[x] = disk'[LogBlock(j)]
        BY <1>1, <3>1, RecoveredBlock
      <3>3. disk[LogBlock(j)] = Seen[log.lh[j]]
        BY DEF OnDisk
      <3>. QED
        BY <1>4, <3>1, <3>2, <3>3
    <2>2. CASE \A j \in 1..Len(log.lh) : log.lh[j] # x
      <3>1. Recovered(disk')[x] = disk'[x]
        BY <1>1, <2>2, RecoveredBlock
      <3>2. \A i \in Bufs : ~(buf[i].blockno = x /\ buf[i].dirty)
        BY <2>2 DEF Data
      <3>3. Seen[x] = disk[x]
        BY <3>2, SeenClean
      <3>. QED
        BY <1>5, <3>1, <3>3
    <2>. QED
      BY <2>1, <2>2
  <1>7. [x \in Home |-> Recovered(disk')[x]] = [x \in Home |-> Seen[x]]
    BY <1>6
  <1>. QED
    BY <1>1, <1>7, ViewsAreFunctions

\* A write does not show while recovery runs either, when what it recovers is the same.
LEMMA SeenFlush ==
    ASSUME Types, Cache, Cache', NEW b \in Bufs, Served(b), buf[b].dirty, Wrote(buf[b].blockno, buf[b].data),
           up' = up, buf[b].blockno # NoBlock, up \/ Recovered(disk') = Recovered(disk)
    PROVE  Seen' = Seen
  <1>1. CASE up
    BY <1>1, SeenWrite
  <1>2. CASE ~up
    <2>1. \A x \in Home : Seen[x] = Recovered(disk)[x] /\ Seen'[x] = Recovered(disk')[x]
      BY <1>2 DEF Seen, Recovered
    <2>. QED
      BY <1>2, <2>1, SeenEqual
  <1>. QED
    BY <1>1, <1>2

\* A process that is not Boot, or is not recovering, runs when recovery is over.
LEMMA UpWhenCommits ==
    ASSUME Types, Control, NEW t \in Procs, th[t].stage \in {"writelog", "head"}
    PROVE  up
  <1>1. CASE t = Boot
    BY <1>1 DEF Control
  <1>2. CASE t # Boot
    <2>1. ~up => th[t].pc = "idle" /\ InOrder(th[t])
      BY <1>2 DEF Control
    <2>2. ~up => JobOf(th[t]) = "idle"
      BY <2>1 DEF JobOf
    <2>. QED
      BY <2>1, <2>2 DEF InOrder
  <1>. QED
    BY <1>1, <1>2

\* The disk has written a block of the log or of the file system, or the header.
LEMMA DiskWrote ==
    ASSUME Types, Control, Cache, Data, OnDisk, Cache', NEW b \in Bufs, NEW u \in Procs,
           Job(u) \in Flushes, Target(th[u]) = b, Served(b), buf[b].dirty, buf[b].blockno # NoBlock,
           Wrote(buf[b].blockno, buf[b].data), th' = th, log' = log, up' = up
    PROVE  /\ OnDisk' /\ Seen' = Seen
           /\ Recovered(disk') = Recovered(disk) \/ (inop = {} /\ Recovered(disk') = Seen)
  <1>1. Commits(u) /\ (Job(u) = "copied" => th[u].stage \in {"writelog", "install"})
        /\ (Job(u) = "headed" => th[u].stage \in {"head", "clear"})
    BY FlusherHolds
  <1>2. inop = {} /\ \A v \in Procs \ {u} : th[v].stage = ""
    BY <1>1, OneCommits
  <1>3. /\ BlockList(log.lh) /\ log.lh \in Seq(Home) /\ Len(log.lh) <= LOGSIZE /\ Len(log.lh) \in Nat /\ LOGSIZE \in Nat
        /\ \A i, j \in 1..Len(log.lh) : log.lh[i] = log.lh[j] => i = j
    BY LogAssumption DEF Control, BlockList
  <1>4. \A j \in 1..Len(log.lh) : j \in 1..LOGSIZE /\ log.lh[j] \in Home
    BY <1>3
  <1>4a. \A j \in 1..Len(log.lh) : /\ log.lh[j] \in Blocks /\ LogBlock(j) \in Blocks /\ LogBlock(j) \notin Home
                                   /\ LogBlock(j) # Header /\ log.lh[j] # Header
    BY <1>4, BlockKinds
  <1>5. \A v \in Procs : HeaderOn(v)' <=>
            \/ th[v].stage \in {"readhead", "install", "clear"}
            \/ th[v].stage = "head" /\ Job(v) = "headed" /\ ~buf'[th[v].held[1]].dirty
    BY DEF HeaderOn, Job
  <1>6. th[u].tail \in Nat
    BY ThreadType
  <1>7. CASE Job(u) = "copied" /\ th[u].stage = "writelog"
    <2> DEFINE k == th[u].tail + 1
    <2>1. b = th[u].held[1] /\ buf[b].blockno = LogBlock(k) /\ k \in 1..LOGSIZE
      BY <1>7, BlockOfTarget
    <2>2. disk[Header] = <<>>
      BY <1>2, <1>7, HeaderOff
    <2>3. Recovered(disk') = Recovered(disk) /\ disk'[Header] = disk[Header]
      BY <2>1, <2>2, WroteLog
    <2>4. Seen' = Seen
      BY <2>3, SeenFlush
    <2>5. \A j \in 1..Len(log.lh) : j <= th[u].tail => disk'[LogBlock(j)] = disk[LogBlock(j)]
      <3>1. \A j \in 1..Len(log.lh) : j <= th[u].tail => LogBlock(j) # LogBlock(k)
        BY <1>6 DEF LogBlock
      <3>. HIDE DEF k
      <3>. QED
        BY <1>4a, <2>1, <3>1 DEF Wrote
    <2>6. ASSUME up PROVE \A j \in 1..Len(log.lh) : j <= th[u].tail => disk'[LogBlock(j)] = Seen'[log.lh[j]]
      BY <1>7, <2>4, <2>5, <2>6 DEF OnDisk
    <2>7. BlockList(disk'[Header])
      BY <2>3 DEF OnDisk
    <2>8. OnDisk'
      BY <1>2, <1>7, <2>2, <2>3, <2>6, <2>7 DEF OnDisk
    <2>. QED
      BY <2>3, <2>4, <2>8
  <1>8. CASE Job(u) = "copied" /\ th[u].stage = "install"
    <2> DEFINE k == th[u].tail + 1
    <2>1. b = th[u].held[2] /\ buf[b].blockno = log.lh[k] /\ k \in 1..Len(log.lh)
      BY <1>8, BlockOfTarget
    <2>2. disk[Header] = log.lh
      BY <1>8 DEF OnDisk
    <2>3. Recovered(disk') = Recovered(disk) /\ disk'[Header] = disk[Header]
      BY <2>1, <2>2, WroteHome
    <2>4. Seen' = Seen
      BY <2>3, SeenFlush
    <2>5. \A j \in 1..Len(log.lh) : j <= th[u].tail => log.lh[j] # log.lh[k]
      BY <1>3, <1>6, <2>1
    <2>. HIDE DEF k
    <2>6. \A j \in 1..Len(log.lh) : disk'[LogBlock(j)] = disk[LogBlock(j)]
      <3>1. log.lh[k] \in Home
        BY <1>4, <2>1
      <3>. QED
        BY <1>4a, <2>1, <3>1 DEF Wrote
    <2>7. \A j \in 1..Len(log.lh) : j <= th[u].tail => disk'[log.lh[j]] = disk[log.lh[j]]
      BY <1>4a, <2>1, <2>5 DEF Wrote
    <2>8. \A j \in 1..Len(log.lh) : j <= th[u].tail => disk'[log.lh[j]] = disk'[LogBlock(j)]
      BY <1>8, <2>6, <2>7 DEF OnDisk
    <2>9. ASSUME up PROVE \A j \in 1..Len(log.lh) : disk'[LogBlock(j)] = Seen'[log.lh[j]]
      BY <1>8, <2>4, <2>6, <2>9 DEF OnDisk
    <2>10. BlockList(disk'[Header]) /\ HeaderOn(u)'
      BY <1>5, <1>8, <2>3 DEF OnDisk
    <2>11. OnDisk'
      BY <1>2, <1>8, <2>2, <2>3, <2>8, <2>9, <2>10 DEF OnDisk
    <2>. QED
      BY <2>3, <2>4, <2>11
  <1>9. CASE Job(u) = "headed" /\ th[u].stage = "head"
    <2>1. b = th[u].held[1] /\ buf[b].blockno = Header /\ up
      BY <1>9, BlockOfTarget, UpWhenCommits
    <2>2. buf[b].data = log.lh
      BY <1>9, <2>1 DEF Data
    <2>3. Recovered(disk') = Seen /\ disk'[Header] = log.lh
      BY <1>9, <2>1, <2>2, WroteHead
    <2>4. Seen' = Seen
      BY <2>1, SeenFlush
    <2>5. \A j \in 1..Len(log.lh) : disk'[LogBlock(j)] = disk[LogBlock(j)]
      BY <1>4a, <2>1 DEF Wrote
    <2>6. \A j \in 1..Len(log.lh) : disk'[LogBlock(j)] = Seen'[log.lh[j]]
      BY <1>9, <2>1, <2>4, <2>5 DEF OnDisk
    <2>7. BlockList(disk'[Header])
      BY <1>3, <2>3
    <2>8. HeaderOn(u)'
      BY <1>5, <1>9, <2>1 DEF Served
    <2>9. OnDisk'
      BY <1>2, <1>9, <2>6, <2>7, <2>8 DEF OnDisk
    <2>. QED
      BY <1>2, <2>3, <2>4, <2>9
  <1>10. CASE Job(u) = "headed" /\ th[u].stage = "clear"
    <2>1. b = th[u].held[1] /\ buf[b].blockno = Header
      BY <1>10, BlockOfTarget
    <2>2. log.lh = <<>> /\ buf[b].data = log.lh
      BY <1>10, <2>1 DEF Data, Control, AtTail
    <2>3. \A j \in 1..Len(disk[Header]) : disk[disk[Header][j]] = disk[LogBlock(j)]
      BY <1>10 DEF OnDisk
    <2>4. Recovered(disk') = Recovered(disk) /\ disk'[Header] = <<>>
      BY <2>1, <2>2, <2>3, WroteClear
    <2>5. Seen' = Seen
      BY <2>4, SeenFlush
    <2>6. BlockList(disk'[Header])
      BY <1>3, <2>2, <2>4
    <2>6a. \A j \in 1..Len(disk'[Header]) : FALSE
      BY <2>4
    <2>7. OnDisk'
      BY <1>2, <1>10, <2>4, <2>6, <2>6a DEF OnDisk
    <2>. QED
      BY <2>4, <2>5, <2>7
  <1>. QED
    BY <1>1, <1>7, <1>8, <1>9, <1>10 DEF Flushes

\* The answer of the disk: a block is read, or written, or a commit is durable.
LEMMA OnDiskIdeintr ==
    ASSUME Types, Control, Cache, Data, OnDisk, Cache', NEW b \in Queued, Served(b), th' = th, log' = log, up' = up,
           disk' \in [Blocks -> Seq(Nat)],
           \A x \in Blocks : disk'[x] = IF buf[b].dirty /\ x = buf[b].blockno THEN buf[b].data ELSE disk[x]
    PROVE  /\ OnDisk' /\ Seen' = Seen
           /\ Recovered(disk') = Recovered(disk) \/ (inop = {} /\ Recovered(disk') = Seen)
  <1>1. b \in Bufs /\ buf[b].blockno \in Blocks /\ buf[b].blockno # NoBlock
    BY QueuedIsHeld, QueuedHasBlock
  <1>2. CASE ~buf[b].dirty
    <2>1. disk' = disk
      BY <1>2 DEF Types
    <2>2. Seen' = Seen
      BY <1>1, <1>2, <2>1, SeenRead
    <2>3. Moves(Boot, th[Boot]) /\ Boot \in Procs
      BY LogAssumption DEF Moves, Types
    <2>4. \A c \in Bufs : buf'[c].dirty => buf[c].dirty
      BY DEF Served
    <2>5. \A u \in Procs : HeaderOn(u) => HeaderOn(u)'
      BY <2>3, <2>4, HeaderOnKept DEF Job
    <2>6. OnDisk'
      BY <2>1, <2>2, <2>3, <2>5, OnDiskQuiet
    <2>. QED
      BY <2>1, <2>2, <2>6
  <1>3. CASE buf[b].dirty
    <2>1. /\ buf[b].owner \in Procs /\ Job(buf[b].owner) \in Flushes /\ Target(th[buf[b].owner]) = b
      BY <1>3 DEF Cache, QueuedFor
    <2>2. Wrote(buf[b].blockno, buf[b].data)
      BY <1>3 DEF Wrote
    <2>. QED
      BY <1>1, <1>3, <2>1, <2>2, DiskWrote
  <1>. QED
    BY <1>2, <1>3

-----------------------------------------------------------------------------
(* The steps *)

\* A step that the abstract disk does not see
Stutters == Seen' = Seen /\ Recovered(disk') = Recovered(disk) /\ inop' = inop

\* A step of t that leaves disk, buffers and log alone and goes on with its stage
LEMMA QuietStep ==
    ASSUME Inv, Control', NEW t \in Procs, NEW r, Moves(t, r), th[t].pc # "lock", th[t].pc # "disk" \/ InFlight(t) = {},
           RightBlocks(r), r.held = th[t].held, r.stage = th[t].stage, r.tail = th[t].tail,
           JobOf(r) \in Flushes => JobOf(r) = Job(t), Job(t) = "headed" => JobOf(r) = "headed",
           UNCHANGED <<disk, buf, mru, idequeue>>, log'.lh = log.lh, up' = up
    PROVE  Cache' /\ Data' /\ OnDisk' /\ Seen' = Seen /\ Recovered(disk') = Recovered(disk)
  <1>0. Types /\ Control /\ Cache /\ Data /\ OnDisk
    BY DEF Inv
  <1>1. ASSUME NEW b \in Queued PROVE buf[b].owner # t
    <2>1. QueuedFor(b)
      BY <1>0 DEF Cache
    <2>2. CASE th[t].pc # "disk"
      BY <2>1, <2>2 DEF QueuedFor
    <2>3. CASE th[t].pc = "disk"
      <3>1. SUFFICES ASSUME buf[b].owner = t PROVE FALSE
        OBVIOUS
      <3>2. \E i \in 1..Len(th[t].held) : th[t].held[i] = b
        BY <1>0, <2>1, <2>3, <3>1, TargetIsHeld DEF QueuedFor
      <3>3. th[t].held \in Seq(Bufs) /\ idequeue \in Seq(Bufs)
        BY <1>0, ThreadType DEF Types
      <3>4. b \in ToSet(idequeue)
        BY <3>3 DEF Queued, ToSet
      <3>5. \E i \in DOMAIN th[t].held : th[t].held[i] = b
        BY <3>2, <3>3
      <3>. QED
        BY <2>3, <3>4, <3>5 DEF InFlight
    <2>. QED
      BY <2>2, <2>3
  <1>2. Cache'
    BY <1>0, <1>1, CacheQuiet
  <1>3. SameContents
    BY DEF SameContents
  <1>4. HomeDirty'
    BY <1>0, <1>3, HomeDirtySame
  <1>5. Queued' = Queued
    BY DEF Queued
  <1>6. Data'
    BY <1>0, <1>3, <1>4, <1>5, DataSame
  <1>7. Seen' = Seen
    BY <1>0, <1>2, SeenSame
  <1>8. \A u \in Procs : HeaderOn(u) => HeaderOn(u)'
    BY <1>0, HeaderOnKept
  <1>9. OnDisk'
    BY <1>0, <1>7, <1>8, OnDiskQuiet
  <1>. QED
    BY <1>2, <1>6, <1>7, <1>9

\* Types after a step that leaves disk, buffers and queue alone
LEMMA QuietTypes ==
    ASSUME Types, UNCHANGED <<disk, buf, mru, idequeue>>, th' \in [Procs -> Threads],
           log' \in [lh : Seq(Home), outstanding : Nat, committing : BOOLEAN],
           up' \in BOOLEAN, asleep' \subseteq Procs, inop' \subseteq Procs, ops' \in Nat
    PROVE  Types'
  BY DEF Types

\* A read or a write of the disk has ended.
LEMMA StepDiskDone ==
    ASSUME Inv, NEW t \in Procs, DiskDone(t)
    PROVE  Inv' /\ Stutters
  <1> DEFINE r == [th[t] EXCEPT !.pc = th[t].cont]
  <1>0. Types /\ Control /\ Cache /\ InOrder(th[t]) /\ th[t] \in Threads /\ RightBlocks(th[t])
    BY ControlOf, ThreadType DEF Inv, Cache
  <1>1. /\ th[t].pc = "disk" /\ InFlight(t) = {} /\ Moves(t, r) /\ UNCHANGED <<disk, buf, mru, idequeue>>
        /\ UNCHANGED <<log, up, asleep, inop, ops>>
    BY <1>0, MovesDiskDone
  <1>2. Control'
    BY <1>0, ControlDiskDone
  <1>3. /\ r.pc = th[t].cont /\ r.cont = th[t].cont /\ r.held = th[t].held /\ r.stage = th[t].stage
        /\ r.tail = th[t].tail /\ r.want = th[t].want
    BY <1>0 DEF Threads
  <1>. HIDE DEF r
  <1>4. th[t].cont \in Fetches \cup Flushes /\ JobOf(th[t]) = th[t].cont
    BY <1>0, <1>1 DEF InOrder, JobOf
  <1>5. JobOf(r) = JobOf(th[t])
    BY <1>3, <1>4 DEF JobOf, Fetches, Flushes
  <1>6. RightBlocks(r)
    BY <1>0, <1>1, <1>3, <1>5 DEF RightBlocks, Cur
  <1>7. Cache' /\ Data' /\ OnDisk' /\ Seen' = Seen /\ Recovered(disk') = Recovered(disk)
    BY <1>1, <1>2, <1>3, <1>5, <1>6, QuietStep DEF Job
  <1>8. Types'
    BY <1>0, <1>1, QuietTypes DEF Moves, Types
  <1>. QED
    BY <1>1, <1>2, <1>7, <1>8 DEF Inv, Stutters

\* A step of a process that holds no buffer before and after it
LEMMA EmptyHands ==
    ASSUME NEW r, InOrder(r), r.held = <<>>
    PROVE  RightBlocks(r) /\ JobOf(r) \notin Flushes
  <1>1. Len(r.held) = 0 /\ Len(r.held) = Holds(r)
    BY DEF InOrder
  <1>2. JobOf(r) \notin TwoBlocks
    BY <1>1 DEF Holds
  <1>3. JobOf(r) = "headed" => r.pc # "bget"
    BY DEF InOrder, JobOf, Fetches
  <1>4. JobOf(r) # "headed"
    BY <1>1, <1>2, <1>3 DEF Holds, OneBlock
  <1>. QED
    BY <1>2, <1>4 DEF RightBlocks, Flushes, TwoBlocks

\* A process outside the cache holds nothing.
LEMMA IdleHands ==
    ASSUME Types, Control, NEW t \in Procs, th[t].pc \in {"idle", "begin", "work", "committed", "loop"}
    PROVE  th[t].held = <<>> /\ Job(t) = th[t].pc /\ Job(t) \notin Flushes
  <1>1. InOrder(th[t]) /\ th[t].held \in Seq(Bufs) /\ JobOf(th[t]) = th[t].pc
    BY ControlOf, ThreadType DEF JobOf
  <1>2. Len(th[t].held) = 0
    BY <1>1 DEF InOrder, Holds, OneBlock, TwoBlocks
  <1>. QED
    BY <1>1, <1>2 DEF Job, Flushes

\* A step of t outside the cache
LEMMA OutsideStep ==
    ASSUME Inv, Control', NEW t \in Procs, NEW r, Moves(t, r),
           th[t].pc \in {"idle", "begin", "work", "committed", "loop"},
           r.held = <<>>, r.stage = th[t].stage, r.tail = th[t].tail,
           UNCHANGED <<disk, buf, mru, idequeue>>, log'.lh = log.lh, up' = up
    PROVE  Cache' /\ Data' /\ OnDisk' /\ Seen' = Seen /\ Recovered(disk') = Recovered(disk)
  <1>1. Types /\ Control
    BY DEF Inv
  <1>2. th[t].held = <<>> /\ Job(t) \notin Flushes
    BY <1>1, IdleHands
  <1>3. InOrder(r)
    BY DEF Control, Moves
  <1>4. RightBlocks(r) /\ JobOf(r) \notin Flushes
    BY <1>3, EmptyHands
  <1>. QED
    BY <1>2, <1>4, QuietStep DEF Flushes

\* A system call begins.
LEMMA StepCallBegin ==
    ASSUME Inv, NEW t \in Procs, CallBegin(t)
    PROVE  Inv' /\ Stutters
  <1> DEFINE r == [th[t] EXCEPT !.pc = "begin", !.op = ops + 1, !.left = MaxWrites]
  <1>0. Types /\ Control /\ th[t] \in Threads
    BY ThreadType DEF Inv
  <1>1. /\ th[t].pc = "idle" /\ Moves(t, r) /\ UNCHANGED <<disk, buf, mru, idequeue>>
        /\ UNCHANGED <<log, up, asleep, inop>> /\ ops' = ops + 1
    BY <1>0, MovesCallBegin
  <1>2. Control'
    BY <1>0, ControlCallBegin
  <1>3. r.held = th[t].held /\ r.stage = th[t].stage /\ r.tail = th[t].tail
    BY <1>0 DEF Threads
  <1>. HIDE DEF r
  <1>4. th[t].held = <<>>
    BY <1>0, <1>1, IdleHands
  <1>5. Cache' /\ Data' /\ OnDisk' /\ Seen' = Seen /\ Recovered(disk') = Recovered(disk)
    BY <1>1, <1>2, <1>3, <1>4, OutsideStep
  <1>6. ops' \in Nat
    BY <1>0, <1>1 DEF Types
  <1>7. Types'
    BY <1>0, <1>1, <1>6, QuietTypes DEF Moves, Types
  <1>. QED
    BY <1>1, <1>2, <1>5, <1>7 DEF Inv, Stutters

\* begin_op, when it lets the system call in
LEMMA StepBeginOp ==
    ASSUME Inv, NEW t \in Procs, begin_op(t), th' # th
    PROVE  /\ Inv' /\ Seen' = Seen /\ Recovered(disk') = Recovered(disk)
           /\ t \notin inop /\ inop' = inop \cup {t}
  <1> DEFINE r == [th[t] EXCEPT !.pc = "work"]
  <1>0. Types /\ Control /\ th[t] \in Threads
    BY ThreadType DEF Inv
  <1>1. /\ th[t].pc = "begin" /\ Moves(t, r) /\ UNCHANGED <<disk, buf, mru, idequeue>>
        /\ log' = [log EXCEPT !.outstanding = @ + 1] /\ inop' = inop \cup {t}
        /\ UNCHANGED <<up, asleep, ops>>
    BY <1>0, MovesBeginOp
  <1>2. Control'
    BY <1>0, ControlBeginOp
  <1>3. r.held = th[t].held /\ r.stage = th[t].stage /\ r.tail = th[t].tail
    BY <1>0 DEF Threads
  <1>. HIDE DEF r
  <1>4. th[t].held = <<>> /\ Job(t) = "begin"
    BY <1>0, <1>1, IdleHands
  <1>5. log \in [lh : Seq(Home), outstanding : Nat, committing : BOOLEAN]
    BY <1>0 DEF Types
  <1>6. log'.lh = log.lh /\ log' \in [lh : Seq(Home), outstanding : Nat, committing : BOOLEAN]
    BY <1>1, <1>5
  <1>7. Cache' /\ Data' /\ OnDisk' /\ Seen' = Seen /\ Recovered(disk') = Recovered(disk)
    BY <1>1, <1>2, <1>3, <1>4, <1>6, OutsideStep
  <1>8. Types'
    BY <1>0, <1>1, <1>6, QuietTypes DEF Moves, Types
  <1>9. t \notin inop
    BY <1>0, <1>4 DEF Control
  <1>. QED
    BY <1>1, <1>2, <1>7, <1>8, <1>9 DEF Inv

\* A step that changes none of the variables of the invariant but who sleeps
LEMMA SameState ==
    ASSUME Inv, UNCHANGED <<disk, buf, mru, idequeue, log, up, th, inop, ops>>, asleep' \subseteq Procs
    PROVE  Inv' /\ Stutters
  <1>1. Types'
    BY DEF Inv, Types
  <1>2. (\A u \in Procs : (Commits(u)' <=> Commits(u)) /\ Job(u)' = Job(u)) /\ Reserved' = Reserved
    BY DEF Commits, Job, Reserved
  <1>3. Control'
    BY <1>2 DEF Inv, Control
  <1>4. Queued' = Queued /\ Seen' = Seen
    BY DEF Queued, Seen
  <1>5. Cache'
    BY <1>4 DEF Inv, Cache, Unique, Counted, QueuedOnce, RightBlocks, Owned, Fetched, QueuedFor, Holders, Job
  <1>6. Data'
    BY <1>4 DEF Inv, Data, Job
  <1>7. OnDisk'
    BY <1>4 DEF Inv, OnDisk, HeaderOn, Job
  <1>. QED
    BY <1>1, <1>3, <1>4, <1>5, <1>6, <1>7 DEF Inv, Stutters

\* begin_op, when it puts the process to sleep
LEMMA StepSleep ==
    ASSUME Inv, NEW t \in Procs, begin_op(t), th' = th
    PROVE  Inv' /\ Stutters
  <1>1. th[t] \in Threads /\ th[t].pc = "begin"
    BY ThreadType DEF Inv, begin_op, Running
  <1>2. [th EXCEPT ![t].pc = "work"] # th
    <2>1. [th EXCEPT ![t].pc = "work"][t].pc = "work"
      BY <1>1 DEF Inv, Types, Threads
    <2>. QED
      BY <1>1, <2>1
  <1>3. UNCHANGED <<disk, buf, mru, idequeue, log, up, th, inop, ops>> /\ asleep' = asleep \cup {t}
    BY <1>2 DEF begin_op, Bounds
  <1>4. asleep' \subseteq Procs
    BY <1>3 DEF Inv, Types
  <1>. QED
    BY <1>3, <1>4, SameState

\* An operation reads a block.
LEMMA StepNextBlock ==
    ASSUME Inv, NEW t \in Procs, NextBlock(t)
    PROVE  Inv' /\ Stutters
  <1>0. Types /\ Control /\ th[t] \in Threads
    BY ThreadType DEF Inv
  <1>1. PICK blk \in Home : Moves(t, [th[t] EXCEPT !.pc = "bget", !.want = blk, !.cont = "modify"])
    BY <1>0, MovesNextBlock
  <1> DEFINE r == [th[t] EXCEPT !.pc = "bget", !.want = blk, !.cont = "modify"]
  <1>2. th[t].pc = "work" /\ UNCHANGED <<disk, buf, mru, idequeue>> /\ UNCHANGED <<log, up, asleep, inop, ops>>
    BY <1>0, MovesNextBlock
  <1>3. Control'
    BY <1>0, ControlNextBlock
  <1>4. r.held = th[t].held /\ r.stage = th[t].stage /\ r.tail = th[t].tail /\ Moves(t, r)
    BY <1>0, <1>1 DEF Threads
  <1>. HIDE DEF r
  <1>5. th[t].held = <<>>
    BY <1>0, <1>2, IdleHands
  <1>6. Cache' /\ Data' /\ OnDisk' /\ Seen' = Seen /\ Recovered(disk') = Recovered(disk)
    BY <1>2, <1>3, <1>4, <1>5, OutsideStep
  <1>7. Types'
    BY <1>0, <1>2, <1>4, QuietTypes DEF Moves, Types
  <1>. QED
    BY <1>2, <1>3, <1>6, <1>7 DEF Inv, Stutters

\* A read outside an operation begins.
LEMMA StepCallRead ==
    ASSUME Inv, NEW t \in Procs, CallRead(t)
    PROVE  Inv' /\ Stutters
  <1>0. Types /\ Control /\ th[t] \in Threads
    BY ThreadType DEF Inv
  <1>1. PICK blk \in Home : Moves(t, [th[t] EXCEPT !.pc = "bget", !.want = blk, !.cont = "read"])
    BY <1>0, MovesCallRead
  <1> DEFINE r == [th[t] EXCEPT !.pc = "bget", !.want = blk, !.cont = "read"]
  <1>2. th[t].pc = "idle" /\ UNCHANGED <<disk, buf, mru, idequeue>> /\ UNCHANGED <<log, up, asleep, inop, ops>>
    BY <1>0, MovesCallRead
  <1>3. Control'
    BY <1>0, ControlCallRead
  <1>4. r.held = th[t].held /\ r.stage = th[t].stage /\ r.tail = th[t].tail /\ Moves(t, r)
    BY <1>0, <1>1 DEF Threads
  <1>. HIDE DEF r
  <1>5. th[t].held = <<>>
    BY <1>0, <1>2, IdleHands
  <1>6. Cache' /\ Data' /\ OnDisk' /\ Seen' = Seen /\ Recovered(disk') = Recovered(disk)
    BY <1>2, <1>3, <1>4, <1>5, OutsideStep
  <1>7. Types'
    BY <1>0, <1>2, <1>4, QuietTypes DEF Moves, Types
  <1>. QED
    BY <1>2, <1>3, <1>6, <1>7 DEF Inv, Stutters

\* log_write looks at the length of the log.
LEMMA StepLogCheck ==
    ASSUME Inv, NEW t \in Procs, LogCheck(t), ~Halts
    PROVE  Inv' /\ Stutters
  <1> DEFINE r == [th[t] EXCEPT !.pc = "append"]
  <1>0. Types /\ Control /\ Cache /\ th[t] \in Threads /\ RightBlocks(th[t])
    BY ThreadType DEF Inv, Cache
  <1>1. /\ th[t].pc = "modify" /\ Moves(t, r) /\ UNCHANGED <<disk, buf, mru, idequeue>>
        /\ UNCHANGED <<log, up, asleep, inop, ops>>
    BY <1>0, MovesLogCheck
  <1>2. Control'
    BY <1>0, ControlLogCheck
  <1>3. r.held = th[t].held /\ r.stage = th[t].stage /\ r.tail = th[t].tail /\ r.want = th[t].want /\ r.pc = "append"
    BY <1>0 DEF Threads
  <1>. HIDE DEF r
  <1>4. JobOf(r) = "append" /\ Job(t) = "modify"
    BY <1>1, <1>3 DEF JobOf, Job
  <1>5. RightBlocks(r)
    BY <1>0, <1>1, <1>3, <1>4 DEF RightBlocks, Cur, TwoBlocks
  <1>6. Cache' /\ Data' /\ OnDisk' /\ Seen' = Seen /\ Recovered(disk') = Recovered(disk)
    BY <1>1, <1>2, <1>3, <1>4, <1>5, QuietStep DEF Flushes
  <1>7. Types'
    BY <1>0, <1>1, QuietTypes DEF Moves, Types
  <1>. QED
    BY <1>1, <1>2, <1>6, <1>7 DEF Inv, Stutters

\* write_log or install_trans has its first block.
LEMMA StepFirst ==
    ASSUME Inv, NEW t \in Procs, First(t)
    PROVE  Inv' /\ Stutters
  <1> DEFINE r == [th[t] EXCEPT !.pc = "bget", !.want = log.lh[th[t].tail + 1], !.cont = "second"]
  <1>0. Types /\ Control /\ Cache /\ th[t] \in Threads /\ AtTail(th[t], log.lh)
    BY ThreadType, ControlOf DEF Inv
  <1>1. /\ th[t].pc = "first" /\ Moves(t, r) /\ UNCHANGED <<disk, buf, mru, idequeue>>
        /\ UNCHANGED <<log, up, asleep, inop, ops>>
    BY <1>0, MovesFirst
  <1>2. Control'
    BY <1>0, ControlFirst
  <1>3. r.held = th[t].held /\ r.stage = th[t].stage /\ r.tail = th[t].tail /\ r.pc = "bget" /\ r.cont = "second"
    BY <1>0 DEF Threads
  <1>. HIDE DEF r
  <1>4. JobOf(r) = "second" /\ Job(t) = "first" /\ JobOf(th[t]) = "first"
    BY <1>1, <1>3 DEF JobOf, Job
  <1>5. buf[th[t].held[1]].blockno = LogBlock(th[t].tail + 1)
    BY <1>0, <1>1, <1>4, HeldOne DEF OneBlock, AtTail
  <1>6. RightBlocks(r)
    BY <1>3, <1>5 DEF RightBlocks
  <1>7. Cache' /\ Data' /\ OnDisk' /\ Seen' = Seen /\ Recovered(disk') = Recovered(disk)
    BY <1>1, <1>2, <1>3, <1>4, <1>6, QuietStep DEF Flushes
  <1>8. Types'
    BY <1>0, <1>1, QuietTypes DEF Moves, Types
  <1>. QED
    BY <1>1, <1>2, <1>7, <1>8 DEF Inv, Stutters

\* The state of a process that has asked for a buffer and waits for its lock
LEMMA StepBget ==
    ASSUME Inv, NEW t \in Procs, bget(t), ~Halts
    PROVE  Inv' /\ Stutters
  <1>0. Types /\ Control /\ Cache /\ Data /\ OnDisk /\ th[t] \in Threads /\ InOrder(th[t])
    BY ThreadType, ControlOf DEF Inv
  <1>1. PICK b \in Bufs : /\ Moves(t, [th[t] EXCEPT !.pc = "lock", !.held = Append(@, b)])
                          /\ Taken(b, th[t].want)
    BY <1>0, BgetEffect
  <1> DEFINE r == [th[t] EXCEPT !.pc = "lock", !.held = Append(@, b)]
  <1>2. th[t].pc = "bget" /\ buf' \in [Bufs -> Buffers] /\ UNCHANGED <<disk, mru, idequeue, log, up, asleep, inop, ops>>
    BY <1>0, BgetEffect
  <1>3. Control'
    BY <1>0, ControlBget
  <1>4. /\ Moves(t, r) /\ r.pc = "lock" /\ r.want = th[t].want /\ r.tail = th[t].tail /\ r.stage = th[t].stage
        /\ r.cont = th[t].cont /\ r.held = Append(th[t].held, b)
    BY <1>0, <1>1 DEF Threads
  <1>. HIDE DEF r
  <1>5. JobOf(r) = Job(t) /\ Job(t) \in Fetches
    BY <1>0, <1>2, <1>4 DEF JobOf, Job, InOrder
  <1>6. JobOf(r) \notin Flushes /\ Job(t) # "headed"
    BY <1>5 DEF Fetches, Flushes
  <1>7. Cache'
    BY <1>0, <1>1, <1>2, <1>3, <1>4, <1>5, CacheBget
  <1>8. Data'
    BY <1>0, <1>1, <1>2, <1>4, <1>6, DataBget
  <1>9. \A c \in Bufs : \/ buf'[c].blockno = buf[c].blockno /\ (buf'[c].valid <=> buf[c].valid)
                             /\ buf'[c].data = buf[c].data
                        \/ ~buf[c].dirty /\ ~buf'[c].valid
    BY <1>1 DEF Taken
  <1>10. Seen' = Seen
    BY <1>0, <1>2, <1>7, <1>9, SeenSame
  <1>11. \A c \in Bufs : buf'[c].dirty => buf[c].dirty
    BY <1>1 DEF Taken
  <1>12. \A u \in Procs : HeaderOn(u) => HeaderOn(u)'
    BY <1>0, <1>4, <1>6, <1>11, HeaderOnKept
  <1>13. OnDisk'
    BY <1>0, <1>2, <1>4, <1>10, <1>12, OnDiskQuiet
  <1>14. Types'
    BY <1>0, <1>2, <1>4 DEF Types, Moves
  <1>. QED
    BY <1>2, <1>3, <1>7, <1>8, <1>10, <1>13, <1>14 DEF Inv, Stutters

\* A process gets the lock of its buffer and asks the disk for what it lacks.
LEMMA StepLock ==
    ASSUME Inv, NEW t \in Procs, Lock(t)
    PROVE  Inv' /\ Stutters
  <1> DEFINE b == Cur(th[t])
             r == [th[t] EXCEPT !.pc = IF buf[b].valid THEN th[t].cont ELSE "disk"]
  <1>0. Types /\ Control /\ Cache /\ Data /\ OnDisk /\ th[t] \in Threads /\ InOrder(th[t])
    BY ThreadType, ControlOf DEF Inv
  <1>1. /\ th[t].pc = "lock" /\ b \in Bufs /\ buf[b].owner = NoProc /\ Locked(b, t) /\ buf' \in [Bufs -> Buffers]
    BY <1>0, LockEffect
  <1>2. /\ Moves(t, r) /\ idequeue' = (IF buf[b].valid THEN idequeue ELSE Append(idequeue, b))
        /\ UNCHANGED <<disk, mru, log, up, asleep, inop, ops>>
    BY <1>0, MovesLock
  <1>3. Control'
    BY <1>0, ControlLock
  <1>4. /\ r.pc = (IF buf[b].valid THEN th[t].cont ELSE "disk") /\ r.want = th[t].want /\ r.tail = th[t].tail
        /\ r.stage = th[t].stage /\ r.cont = th[t].cont /\ r.held = th[t].held
    BY <1>0 DEF Threads
  <1>. HIDE DEF r
  <1>5. th[t].cont \in Fetches
    BY <1>0, <1>1 DEF InOrder
  <1>6. JobOf(r) = Job(t) /\ Job(t) \in Fetches
    BY <1>1, <1>4, <1>5 DEF JobOf, Job, Fetches
  <1>7. JobOf(r) \notin Flushes /\ Job(t) # "headed"
    BY <1>6 DEF Fetches, Flushes
  <1>8. idequeue \in Seq(Bufs)
    BY <1>0 DEF Types
  <1>9. idequeue' \in Seq(Bufs) /\ Queued \subseteq Queued'
    <2>1. b \notin Queued /\ \A i, j \in 1..Len(idequeue) : idequeue[i] = idequeue[j] => i = j
      BY <1>0, <1>1, LogAssumption DEF Cache, QueuedFor, QueuedOnce
    <2>2. \A i \in 1..Len(idequeue) : idequeue[i] # b
      BY <2>1 DEF Queued
    <2>3. CASE buf[b].valid
      BY <1>2, <1>8, <2>3 DEF Queued
    <2>4. CASE ~buf[b].valid
      <3> DEFINE p == Append(idequeue, b)
      <3>1. /\ p \in Seq(Bufs)
            /\ {p[i] : i \in 1..Len(p)} = {idequeue[i] : i \in 1..Len(idequeue)} \cup {b}
        BY <1>1, <1>8, <2>1, <2>2, QueueAppend
      <3>2. idequeue' = p
        BY <1>2, <2>4
      <3>. HIDE DEF p, b
      <3>. QED
        BY <3>1, <3>2 DEF Queued
    <2>. QED
      BY <2>3, <2>4
  <1>. HIDE DEF b
  <1>10. SameContents
    BY <1>1 DEF Locked, SameContents
  <1>11. Cache'
    BY <1>0, <1>1, <1>2, <1>3, <1>4, <1>5, CacheLock DEF b
  <1>12. HomeDirty'
    BY <1>0, <1>2, <1>4, <1>10, HomeDirtySame
  <1>13. Data'
    BY <1>0, <1>2, <1>7, <1>9, <1>10, <1>12, DataSame
  <1>14. Seen' = Seen
    BY <1>0, <1>2, <1>10, <1>11, SeenSame DEF SameContents
  <1>15. \A u \in Procs : HeaderOn(u) => HeaderOn(u)'
    BY <1>0, <1>2, <1>4, <1>7, <1>10, HeaderOnKept DEF SameContents
  <1>16. OnDisk'
    BY <1>0, <1>2, <1>4, <1>14, <1>15, OnDiskQuiet
  <1>17. Types'
    BY <1>0, <1>1, <1>2, <1>9 DEF Types, Moves
  <1>. QED
    BY <1>2, <1>3, <1>11, <1>13, <1>14, <1>16, <1>17 DEF Inv, Stutters

\* A buffer is handed to the disk, to be written.
LEMMA BwriteStep ==
    ASSUME Inv, Control', NEW t \in Procs, Commits(t), NEW r, Moves(t, r), NEW b, NEW d \in Seq(Nat), Mine(t, b),
           Written(b, d), buf' \in [Bufs -> Buffers], idequeue' = Append(idequeue, b), UNCHANGED <<disk, mru, log, up, asleep, inop, ops>>,
           r.held = th[t].held, r.stage = th[t].stage, r.tail = th[t].tail, r.pc = "disk",
           th[t].pc \notin {"lock", "disk"}, Job(t) \notin Flushes,
           JobOf(r) \in Flushes, Target(r) = b, RightBlocks(r),
           up => (buf[b].blockno \in Home => buf[b].data = d),
           buf[b].blockno \in Home => /\ th[t].tail + 1 \in 1..Len(log.lh)
                                      /\ buf[b].blockno = log.lh[th[t].tail + 1],
           JobOf(r) = "copied" => buf'[r.held[1]].data = buf'[r.held[2]].data,
           JobOf(r) = "headed" => buf'[r.held[1]].data = log.lh
    PROVE  Inv' /\ Stutters
  <1>0. Types /\ Control /\ Cache /\ Data /\ OnDisk
    BY DEF Inv
  <1>1. b \in Bufs /\ b \notin Queued /\ buf[b].valid
    BY DEF Mine
  <1>2. Cache'
    BY <1>0, CacheBwrite
  <1>3. idequeue' \in Seq(Bufs) /\ Queued' = Queued \cup {b}
    <2> DEFINE p == Append(idequeue, b)
    <2>1. idequeue \in Seq(Bufs) /\ \A i, j \in 1..Len(idequeue) : idequeue[i] = idequeue[j] => i = j
      BY <1>0 DEF Types, Cache, QueuedOnce
    <2>2. \A i \in 1..Len(idequeue) : idequeue[i] # b
      BY <1>1 DEF Queued
    <2>3. /\ p \in Seq(Bufs)
          /\ {p[i] : i \in 1..Len(p)} = {idequeue[i] : i \in 1..Len(idequeue)} \cup {b}
      BY <1>1, <2>1, <2>2, QueueAppend
    <2>4. idequeue' = p
      OBVIOUS
    <2>. HIDE DEF p
    <2>. QED
      BY <2>3, <2>4 DEF Queued
  <1>4. Data'
    BY <1>0, <1>1, <1>3, DataBwrite
  <1>5. \A c \in Bufs : /\ buf'[c].blockno = buf[c].blockno /\ (buf'[c].valid <=> buf[c].valid)
                        /\ (c # b => buf'[c] = buf[c])
    BY DEF Written
  <1>6. buf'[b].data = d
    BY DEF Written
  <1>7. Seen' = Seen
    <2>1. CASE ~up
      <3>1. \A x \in Home : Seen[x] = Recovered(disk)[x] /\ Seen'[x] = Recovered(disk)[x]
        BY <2>1 DEF Seen, Recovered
      <3>. QED
        BY <3>1, SeenEqual
    <2>2. CASE up
      <3> SUFFICES ASSUME NEW x \in Home PROVE Seen'[x] = Seen[x]
        BY SeenEqual
      <3>1. \A i \in Bufs : /\ buf'[i].blockno = buf[i].blockno
                            /\ buf[i].blockno = x => (buf'[i].valid <=> buf[i].valid) /\ buf'[i].data = buf[i].data
        BY <1>5, <1>6, <2>2
      <3>. QED
        BY <1>0, <1>2, <2>2, <3>1, SeenAt
    <2>. QED
      BY <2>1, <2>2
  <1>8. \A u \in Procs : HeaderOn(u) => HeaderOn(u)'
    <2> SUFFICES ASSUME NEW u \in Procs, HeaderOn(u) PROVE HeaderOn(u)'
      OBVIOUS
    <2>1. u = t
      BY <1>0, OneCommits DEF HeaderOn
    <2>2. th[t].stage \in {"readhead", "install", "clear"}
      BY <2>1 DEF HeaderOn, Flushes
    <2>. QED
      BY <2>1, <2>2 DEF HeaderOn, Moves
  <1>9. OnDisk'
    BY <1>0, <1>7, <1>8, OnDiskQuiet
  <1>10. Types'
    BY <1>0, <1>3 DEF Types, Moves
  <1>. QED
    BY <1>2, <1>4, <1>7, <1>9, <1>10 DEF Inv, Stutters

\* write_log and install_trans copy a block and write it.
LEMMA StepSecond ==
    ASSUME Inv, NEW t \in Procs, Second(t)
    PROVE  Inv' /\ Stutters
  <1> DEFINE r == [th[t] EXCEPT !.pc = "disk", !.cont = "copied"]
             one == th[t].held[1]
             two == th[t].held[2]
             k == th[t].tail + 1
  <1>0. Types /\ Control /\ Cache /\ Data /\ OnDisk /\ th[t] \in Threads
    BY ThreadType DEF Inv
  <1>1. /\ th[t].pc = "second" /\ Moves(t, r) /\ UNCHANGED <<disk, mru, log, up, asleep, inop, ops>>
        /\ \/ /\ th[t].stage = "writelog"
              /\ buf' = [buf EXCEPT ![one].data = buf[two].data, ![one].dirty = TRUE]
              /\ idequeue' = Append(idequeue, one)
           \/ /\ th[t].stage # "writelog"
              /\ buf' = [buf EXCEPT ![two].data = buf[one].data, ![two].dirty = TRUE]
              /\ idequeue' = Append(idequeue, two)
    BY <1>0, MovesSecond
  <1>2. Control'
    BY <1>0, ControlSecond
  <1>3. r.held = th[t].held /\ r.stage = th[t].stage /\ r.tail = th[t].tail /\ r.pc = "disk" /\ r.cont = "copied" /\ r.want = th[t].want
    BY <1>0 DEF Threads
  <1>4. /\ Len(th[t].held) = 2 /\ Cur(th[t]) = two /\ Job(t) = "second"
        /\ Mine(t, one) /\ Mine(t, two)
        /\ buf[one].blockno = LogBlock(k) /\ buf[two].blockno = log.lh[k]
        /\ k \in 1..Len(log.lh) /\ k \in 1..LOGSIZE
        /\ buf[two].blockno \in Home /\ buf[one].blockno \notin Home /\ one # two
        /\ th[t].stage \in {"writelog", "install"}
    BY <1>0, <1>1, HeldTwo DEF TwoBlocks
  <1>. HIDE DEF r, one, two, k
  <1>5. one \in Bufs /\ two \in Bufs /\ one \notin Queued /\ buf[one].valid /\ buf[two].valid
    BY <1>4 DEF Mine
  <1>6. buf[one].data \in Seq(Nat) /\ buf[two].data \in Seq(Nat)
    BY <1>0, <1>5, BufType
  <1>7. JobOf(r) = "copied" /\ Commits(t) /\ Job(t) \notin Flushes /\ r.held[1] = one /\ r.held[2] = two
    BY <1>3, <1>4 DEF JobOf, Commits, Flushes, one, two
  <1>8. Cur(r) = two
    BY <1>3, <1>4 DEF Cur
  <1>9. RightBlocks(r)
    <2>1. buf[two].blockno = r.want
      <3>1. RightBlocks(th[t]) /\ th[t].held # <<>>
        BY <1>0, <1>4 DEF Cache
      <3>. QED
        BY <1>1, <1>3, <1>4, <3>1 DEF RightBlocks
    <2>. QED
      BY <1>3, <1>4, <1>7, <1>8, <2>1 DEF RightBlocks, k
  <1>10. ~buf[one].dirty
    BY <1>0, <1>4, <1>5 DEF Data
  <1>11. buf[one].data = disk[LogBlock(k)]
    BY <1>0, <1>4, <1>5, <1>10 DEF Data
  <1>12. CASE th[t].stage = "writelog"
    <2>1. buf' = [buf EXCEPT ![one].data = buf[two].data, ![one].dirty = TRUE] /\ idequeue' = Append(idequeue, one)
      BY <1>1, <1>12
    <2>2. Written(one, buf[two].data) /\ buf' \in [Bufs -> Buffers]
      BY <1>0, <1>5, <1>6, <2>1, BwriteEffect
    <2>3. buf'[one].data = buf'[two].data
      BY <1>4, <1>5, <2>2 DEF Written
    <2>4. Target(r) = one
      BY <1>3, <1>7, <1>12 DEF Target
    <2>. QED
      BY <1>1, <1>2, <1>3, <1>4, <1>6, <1>7, <1>9, <2>1, <2>2, <2>3, <2>4, BwriteStep DEF Flushes
  <1>13. CASE th[t].stage = "install"
    <2>1. buf' = [buf EXCEPT ![two].data = buf[one].data, ![two].dirty = TRUE] /\ idequeue' = Append(idequeue, two)
      BY <1>1, <1>13
    <2>2. Written(two, buf[one].data) /\ buf' \in [Bufs -> Buffers]
      BY <1>0, <1>5, <1>6, <2>1, BwriteEffect
    <2>3. buf'[one].data = buf'[two].data
      BY <1>4, <1>5, <2>2 DEF Written
    <2>4. Target(r) = two
      BY <1>3, <1>7, <1>8, <1>13 DEF Target
    <2>5. up => buf[two].data = buf[one].data
      <3>1. up => disk[LogBlock(k)] = Seen[log.lh[k]]
        BY <1>0, <1>4, <1>13 DEF OnDisk
      <3>2. up => Seen[log.lh[k]] = buf[two].data
        BY <1>0, <1>4, <1>5, SeenCached
      <3>. QED
        BY <1>11, <3>1, <3>2
    <2>6. th[t].tail + 1 \in 1..Len(log.lh) /\ buf[two].blockno = log.lh[th[t].tail + 1]
      BY <1>4 DEF k
    <2>. QED
      BY <1>1, <1>2, <1>3, <1>4, <1>6, <1>7, <1>9, <2>1, <2>2, <2>3, <2>4, <2>5, <2>6, BwriteStep DEF Flushes
  <1>. QED
    BY <1>4, <1>12, <1>13

\* A list of block numbers is a list of numbers.
LEMMA ListOfNumbers ==
    ASSUME NEW s \in Seq(Home)
    PROVE  s \in Seq(Nat)
  <1>1. s \in [1..Len(s) -> Home] /\ Len(s) \in Nat
    OBVIOUS
  <1>2. s \in [1..Len(s) -> Nat]
    BY <1>1, BlockKinds
  <1>. QED
    BY <1>1, <1>2

\* write_head writes the header.
LEMMA StepWriteHead ==
    ASSUME Inv, NEW t \in Procs, WriteHead(t)
    PROVE  Inv' /\ Stutters
  <1> DEFINE r == [th[t] EXCEPT !.pc = "disk", !.cont = "headed"]
             one == th[t].held[1]
  <1>0. Types /\ Control /\ Cache /\ Data /\ OnDisk /\ th[t] \in Threads /\ InOrder(th[t])
    BY ThreadType, ControlOf DEF Inv
  <1>1. /\ th[t].pc = "head" /\ Moves(t, r) /\ UNCHANGED <<disk, mru, log, up, asleep, inop, ops>>
        /\ buf' = [buf EXCEPT ![one].data = log.lh, ![one].dirty = TRUE]
        /\ idequeue' = Append(idequeue, one)
    BY <1>0, MovesWriteHead
  <1>2. Control'
    BY <1>0, ControlWriteHead
  <1>3. r.held = th[t].held /\ r.stage = th[t].stage /\ r.tail = th[t].tail /\ r.pc = "disk" /\ r.cont = "headed" /\ r.want = th[t].want
    BY <1>0 DEF Threads
  <1>4. /\ Len(th[t].held) = 1 /\ Cur(th[t]) = one /\ Job(t) = "head"
        /\ Mine(t, one) /\ buf[one].blockno = th[t].want
    BY <1>0, <1>1, HeldOne DEF OneBlock
  <1>. HIDE DEF r, one
  <1>5. one \in Bufs
    BY <1>4 DEF Mine
  <1>6. log.lh \in Seq(Nat)
    BY <1>0, ListOfNumbers DEF Types
  <1>7. th[t].want = Header /\ th[t].stage # ""
    BY <1>0, <1>4 DEF InOrder, Job
  <1>8. JobOf(r) = "headed" /\ Commits(t) /\ Job(t) \notin Flushes /\ r.held[1] = one
    BY <1>3, <1>4, <1>7 DEF JobOf, Commits, Flushes, one
  <1>9. Cur(r) = one
    BY <1>3, <1>4 DEF Cur
  <1>10. Target(r) = one /\ RightBlocks(r)
    BY <1>3, <1>4, <1>8, <1>9 DEF Target, RightBlocks, TwoBlocks
  <1>11. Written(one, log.lh) /\ buf' \in [Bufs -> Buffers]
    BY <1>0, <1>1, <1>5, <1>6, BwriteEffect
  <1>12. buf'[one].data = log.lh /\ buf[one].blockno \notin Home
    BY <1>4, <1>7, <1>11, BlockKinds DEF Written
  <1>. QED
    BY <1>1, <1>2, <1>3, <1>4, <1>6, <1>8, <1>10, <1>11, <1>12, BwriteStep DEF Flushes

\* A step that releases buffers and changes nothing in them
LEMMA ReleaseCache ==
    ASSUME Types, Control, Cache, Control', NEW t \in Procs, NEW r, Moves(t, r), th[t].pc \notin {"lock", "disk"},
           r.held = <<>>, buf' = AfterRelease(buf, t), idequeue' = idequeue
    PROVE  Cache' /\ SameContents /\ buf' \in [Bufs -> Buffers]
  <1>1. buf \in [Bufs -> Buffers]
    BY DEF Types
  <1>2. /\ Freed(t) /\ buf' \in [Bufs -> Buffers]
        /\ \A c \in Bufs : buf'[c].data = buf[c].data /\ (buf'[c].dirty <=> buf[c].dirty)
    BY <1>1, ReleaseEffect
  <1>3. SameContents
    BY <1>2 DEF SameContents, Freed
  <1>4. \A c \in Bufs : buf'[c].dirty => buf[c].valid
    BY <1>2 DEF Cache
  <1>5. Cache'
    BY <1>2, <1>4, CacheRelease
  <1>. QED
    BY <1>2, <1>3, <1>5

\* Types after a step that releases buffers
LEMMA ReleaseTypes ==
    ASSUME Types, NEW t \in Procs, Len(th[t].held) \in {1, 2}, UNCHANGED <<disk, idequeue, asleep, inop, ops>>,
           buf' \in [Bufs -> Buffers], mru' = ListAfterRelease(t), th' \in [Procs -> Threads],
           log' \in [lh : Seq(Home), outstanding : Nat, committing : BOOLEAN], up' \in BOOLEAN
    PROVE  Types'
  <1>1. mru' \in [Bufs -> Bufs] /\ \A a, b \in Bufs : mru'[a] = mru'[b] => a = b
    BY ReleaseKeepsList
  <1>. QED
    BY <1>1 DEF Types

\* A read ends.
LEMMA StepEndRead ==
    ASSUME Inv, NEW t \in Procs, EndRead(t)
    PROVE  Inv' /\ Stutters
  <1>0. Types /\ Control /\ Cache /\ Data /\ OnDisk /\ InOrder(th[t])
    BY ControlOf DEF Inv
  <1>1. /\ th[t].pc = "read" /\ Moves(t, Idle) /\ buf' = AfterRelease(buf, t) /\ mru' = ListAfterRelease(t)
        /\ UNCHANGED <<disk, idequeue, log, up, asleep, inop, ops>>
    BY <1>0, MovesEndRead
  <1>2. Control'
    BY <1>0, ControlEndRead
  <1>3. Idle.held = <<>> /\ Idle.stage = "" /\ Idle.pc = "idle"
    BY DEF Idle
  <1>4. Len(th[t].held) = 1 /\ Job(t) = "read"
    BY <1>0, <1>1, HeldOne DEF OneBlock
  <1>5. th[t].stage = "" /\ JobOf(Idle) \notin Flushes
    BY <1>0, <1>3, <1>4 DEF InOrder, Job, JobOf, Flushes
  <1>6. Cache' /\ SameContents /\ buf' \in [Bufs -> Buffers]
    BY <1>0, <1>1, <1>2, <1>3, ReleaseCache
  <1>7. HomeDirty'
    BY <1>0, <1>1, <1>3, <1>6, HomeDirtySame
  <1>8. Queued' = Queued
    BY <1>1 DEF Queued
  <1>9. Data'
    BY <1>0, <1>1, <1>5, <1>6, <1>7, <1>8, DataSame
  <1>10. Seen' = Seen
    BY <1>0, <1>1, <1>6, SeenSame DEF SameContents
  <1>11. \A u \in Procs : HeaderOn(u) => HeaderOn(u)'
    BY <1>0, <1>1, <1>3, <1>4, <1>5, <1>6, HeaderOnKept DEF SameContents
  <1>12. OnDisk'
    BY <1>0, <1>1, <1>3, <1>5, <1>10, <1>11, OnDiskQuiet
  <1>13. Types'
    BY <1>0, <1>1, <1>4, <1>6, ReleaseTypes DEF Types, Moves
  <1>. QED
    BY <1>1, <1>2, <1>6, <1>9, <1>10, <1>12, <1>13 DEF Inv, Stutters

\* A block of the log is written, or installed.
LEMMA StepCopied ==
    ASSUME Inv, NEW t \in Procs, Copied(t)
    PROVE  Inv' /\ Stutters
  <1> DEFINE r == [th[t] EXCEPT !.pc = "loop", !.held = <<>>, !.tail = @ + 1]
             one == th[t].held[1]
             two == th[t].held[2]
             k == th[t].tail + 1
  <1>0. Types /\ Control /\ Cache /\ Data /\ OnDisk /\ InOrder(th[t]) /\ th[t] \in Threads /\ th[t].tail \in Nat
    BY ControlOf, ThreadType DEF Inv
  <1>1. /\ th[t].pc = "copied" /\ Moves(t, r) /\ buf' = AfterRelease(buf, t) /\ mru' = ListAfterRelease(t)
        /\ UNCHANGED <<disk, idequeue, log, up, asleep, inop, ops>>
    BY <1>0, MovesCopied
  <1>2. Control'
    BY <1>0, ControlCopied
  <1>3. r.held = <<>> /\ r.stage = th[t].stage /\ r.pc = "loop" /\ r.tail = k
    BY <1>0 DEF Threads
  <1>4. /\ Len(th[t].held) = 2 /\ Job(t) = "copied" /\ Mine(t, one) /\ Mine(t, two)
        /\ buf[one].blockno = LogBlock(k) /\ buf[two].blockno = log.lh[k]
        /\ k \in 1..Len(log.lh) /\ buf[two].blockno \in Home /\ buf[one].blockno \notin Home
        /\ th[t].stage \in {"writelog", "install"}
    BY <1>0, <1>1, HeldTwo DEF TwoBlocks
  <1>4a. \A j \in Nat : j <= k => j <= th[t].tail \/ j = k
    BY <1>0
  <1>4b. \A j \in Nat : th[t].tail < j => k < j \/ j = k
    BY <1>0
  <1>4c. \A j \in 1..Len(log.lh) : j \in Nat
    OBVIOUS
  <1>5. JobOf(r) \notin Flushes /\ Commits(t)
    BY <1>3, <1>4 DEF JobOf, Flushes, Commits
  <1>6. Cache' /\ SameContents /\ buf' \in [Bufs -> Buffers]
    BY <1>0, <1>1, <1>2, <1>3, ReleaseCache
  <1>7. Target(th[t]) = IF th[t].stage = "writelog" THEN one ELSE two
    BY <1>0, <1>4, BlockOfTarget DEF Flushes
  <1>. HIDE DEF r, one, two, k
  <1>8. one \in Bufs /\ two \in Bufs /\ buf[one].valid /\ buf[two].valid /\ one \notin Queued
    BY <1>4 DEF Mine
  <1>9. ~buf[one].dirty /\ buf[one].data = disk[LogBlock(k)]
    BY <1>0, <1>4, <1>8 DEF Data
  <1>10. buf[one].data = buf[two].data
    BY <1>0, <1>4 DEF Data, one, two
  <1>11. th[t].stage = "install" => ~buf[two].dirty /\ buf[two].data = disk[log.lh[k]]
    <2>1. ~buf[Target(th[t])].dirty
      BY <1>0, <1>1, FlushedIsClean DEF Flushes
    <2>. QED
      BY <1>0, <1>4, <1>7, <1>8, <2>1 DEF Data
  <1>12. \A u \in Procs \ {t} : th'[u].stage = "" /\ th[u].stage = ""
    BY <1>0, <1>1, <1>5, OneCommits DEF Moves
  <1>13. th'[t] = r
    BY <1>1 DEF Moves
  <1>14. ASSUME NEW c \in Bufs, buf'[c].dirty, buf'[c].blockno \in Home
         PROVE  \E j \in 1..Len(log'.lh) : /\ buf'[c].blockno = log'.lh[j]
                                           /\ \A u \in Procs : th'[u].stage = "install" => th'[u].tail < j
    <2>1. buf[c].dirty /\ buf[c].blockno \in Home /\ buf'[c].blockno = buf[c].blockno
      BY <1>6, <1>14 DEF SameContents
    <2>2. PICK j \in 1..Len(log.lh) : /\ buf[c].blockno = log.lh[j]
                                      /\ \A u \in Procs : th[u].stage = "install" => th[u].tail < j
      BY <1>0, <2>1 DEF Data
    <2>3. th[t].stage = "install" => j # k
      <3>1. SUFFICES ASSUME th[t].stage = "install", j = k PROVE FALSE
        OBVIOUS
      <3>2. buf[c].blockno = buf[two].blockno /\ buf[c].blockno # NoBlock
        BY <1>4, <2>1, <2>2, <3>1, BlockKinds
      <3>3. c = two
        BY <1>0, <1>8, <3>2 DEF Cache, Unique
      <3>. QED
        BY <1>11, <2>1, <3>1, <3>3
    <2>4. th[t].stage = "install" => k < j
      BY <1>4b, <1>4c, <2>2, <2>3
    <2>5. \A u \in Procs : th'[u].stage = "install" => th'[u].tail < j
      BY <1>3, <1>12, <1>13, <2>4
    <2>. QED
      BY <1>1, <2>1, <2>2, <2>5
  <1>15. HomeDirty'
    BY <1>14 DEF HomeDirty
  <1>16. Queued' = Queued
    BY <1>1 DEF Queued
  <1>17. Data'
    BY <1>0, <1>1, <1>5, <1>6, <1>15, <1>16, DataSame
  <1>18. Seen' = Seen
    BY <1>0, <1>1, <1>6, SeenSame DEF SameContents
  <1>19. ASSUME th[t].stage = "writelog" PROVE OnDisk'
    <2>1. disk[Header] = <<>>
      BY <1>0, <1>12, <1>19, HeaderOff
    <2>2. up
      BY <1>0, <1>19, UpWhenCommits
    <2>3. disk[LogBlock(k)] = Seen[log.lh[k]]
      BY <1>0, <1>4, <1>8, <1>9, <1>10, <2>2, SeenCached
    <2>4. \A j \in 1..Len(log.lh) : j <= th[t].tail => disk[LogBlock(j)] = Seen[log.lh[j]]
      BY <1>0, <1>19, <2>2 DEF OnDisk
    <2>5. \A j \in 1..Len(log.lh) : j <= k => disk[LogBlock(j)] = Seen[log.lh[j]]
      BY <1>4a, <1>4c, <2>3, <2>4
    <2>6. th'[t].stage = "writelog" /\ th'[t].tail = k
      BY <1>3, <1>13, <1>19
    <2>. QED
      BY <1>0, <1>1, <1>12, <1>18, <2>1, <2>5, <2>6, OnDiskStage
  <1>20. ASSUME th[t].stage = "install" PROVE OnDisk'
    <2>1. th'[t].stage = "install" /\ th'[t].tail = k
      BY <1>3, <1>13, <1>20
    <2>2. HeaderOn(t)'
      BY <2>1 DEF HeaderOn
    <2>3. disk[Header] = log.lh /\ \A j \in 1..Len(log.lh) : j <= th[t].tail => disk[log.lh[j]] = disk[LogBlock(j)]
      BY <1>0, <1>20 DEF OnDisk
    <2>4. disk[log.lh[k]] = disk[LogBlock(k)]
      BY <1>9, <1>10, <1>11, <1>20
    <2>5. \A j \in 1..Len(log.lh) : j <= k => disk[log.lh[j]] = disk[LogBlock(j)]
      BY <1>4a, <1>4c, <2>3, <2>4
    <2>6. up => \A j \in 1..Len(log.lh) : disk[LogBlock(j)] = Seen[log.lh[j]]
      BY <1>0, <1>20 DEF OnDisk
    <2>. QED
      BY <1>0, <1>1, <1>12, <1>18, <2>1, <2>2, <2>3, <2>5, <2>6, OnDiskStage
  <1>21. OnDisk'
    BY <1>4, <1>19, <1>20
  <1>22. Types'
    BY <1>0, <1>1, <1>4, <1>6, ReleaseTypes DEF Types, Moves
  <1>. QED
    BY <1>1, <1>2, <1>6, <1>17, <1>18, <1>21, <1>22 DEF Inv, Stutters

\* Recovery has the header.
LEMMA StepReadHead ==
    ASSUME Inv, NEW t \in Procs, ReadHead(t)
    PROVE  Inv' /\ Stutters
  <1> DEFINE r == AtLoop("install")
             one == th[t].held[1]
  <1>0. Types /\ Control /\ Cache /\ Data /\ OnDisk /\ InOrder(th[t]) /\ AtTail(th[t], log.lh)
    BY ControlOf DEF Inv
  <1>1. /\ th[t].pc = "head" /\ th[t].stage = "readhead" /\ Moves(t, r)
        /\ log' = [log EXCEPT !.lh = buf[one].data]
        /\ buf' = AfterRelease(buf, t) /\ mru' = ListAfterRelease(t)
        /\ UNCHANGED <<disk, idequeue, asleep, inop, ops>> /\ up' = up
    BY <1>0, MovesReadHead DEF AtLoop
  <1>2. Control'
    BY <1>0, ControlReadHead
  <1>3. r.held = <<>> /\ r.stage = "install" /\ r.pc = "loop" /\ r.tail = 0
    BY EntryFields
  <1>4. Len(th[t].held) = 1 /\ Job(t) = "head"
    BY <1>0, <1>1, HeldOne DEF OneBlock
  <1>5. BlockList(buf[one].data) /\ buf[one].data = disk[Header]
    BY <1>0, <1>1, HeaderRead
  <1>. HIDE DEF r, one
  <1>6. JobOf(r) \notin Flushes /\ Commits(t)
    BY <1>1, <1>3 DEF JobOf, Flushes, Commits
  <1>7. Cache' /\ SameContents /\ buf' \in [Bufs -> Buffers]
    BY <1>0, <1>1, <1>2, <1>3, ReleaseCache
  <1>8. log.lh = <<>> /\ ~up
    BY <1>0, <1>1 DEF AtTail, Control
  <1>9. \A j \in 1..Len(log.lh) : FALSE
    BY <1>8
  <1>10. HomeDirty'
    <2>1. \A c \in Bufs : ~(buf[c].dirty /\ buf[c].blockno \in Home)
      BY <1>0, <1>9 DEF Data
    <2>. QED
      BY <1>7, <2>1 DEF HomeDirty, SameContents
  <1>11. \A u \in Procs \ {t} : th[u].stage = "" /\ th'[u].stage = ""
    BY <1>0, <1>1, <1>6, OneCommits DEF Moves
  <1>12. \A u \in Procs : Job(u) # "headed"
    <2>1. \A u \in Procs : Job(u) = "headed" => Commits(u)
      BY <1>0, FlusherHolds DEF Flushes
    <2>2. \A u \in Procs : Commits(u) => u = t
      BY <1>0, <1>6 DEF Control
    <2>. QED
      BY <1>4, <2>1, <2>2
  <1>13. Queued' = Queued
    BY <1>1 DEF Queued
  <1>14. Data'
    BY <1>0, <1>1, <1>6, <1>7, <1>10, <1>12, <1>13, DataSame
  <1>15. Seen' = Seen
    BY <1>0, <1>1, <1>7, SeenSame DEF SameContents
  <1>16. th'[t].stage = "install" /\ th'[t].tail = 0
    BY <1>1, <1>3 DEF Moves
  <1>17. HeaderOn(t)'
    BY <1>16 DEF HeaderOn
  <1>18. log \in [lh : Seq(Home), outstanding : Nat, committing : BOOLEAN] /\ buf[one].data \in Seq(Home)
    BY <1>0, <1>5 DEF Types, BlockList
  <1>19. log'.lh = disk[Header] /\ log' \in [lh : Seq(Home), outstanding : Nat, committing : BOOLEAN]
    BY <1>1, <1>5, <1>18
  <1>20. \A j \in 1..Len(log'.lh) : ~(j <= 0)
    OBVIOUS
  <1>21. OnDisk'
    BY <1>0, <1>1, <1>8, <1>11, <1>16, <1>17, <1>19, <1>20, OnDiskStage
  <1>22. Types'
    BY <1>0, <1>1, <1>4, <1>7, <1>19, ReleaseTypes DEF Types, Moves
  <1>. QED
    BY <1>1, <1>2, <1>7, <1>14, <1>15, <1>21, <1>22 DEF Inv, Stutters

\* The header is on disk.
LEMMA StepHeaded ==
    ASSUME Inv, NEW t \in Procs, Headed(t)
    PROVE  Inv' /\ Stutters
  <1> DEFINE one == th[t].held[1]
             r == th'[t]
  <1>0. Types /\ Control /\ Cache /\ Data /\ OnDisk /\ InOrder(th[t]) /\ AtTail(th[t], log.lh)
    BY ControlOf DEF Inv
  <1>1. /\ th[t].pc = "headed" /\ buf' = AfterRelease(buf, t) /\ mru' = ListAfterRelease(t)
        /\ UNCHANGED <<disk, idequeue, log, asleep, inop, ops>>
        /\ \/ th[t].stage = "head" /\ up' = up /\ Moves(t, AtLoop("install"))
           \/ th[t].stage = "clear" /\ up' = TRUE /\ Moves(t, IF up THEN AtEnd ELSE Idle)
    BY <1>0, MovesHeaded DEF AtLoop, AtEnd
  <1>2. Control'
    BY <1>0, ControlHeaded
  <1>3. /\ r.held = <<>> /\ Moves(t, r) /\ JobOf(r) \notin Flushes
        /\ \/ th[t].stage = "head" /\ up' = up /\ r.stage = "install" /\ r.tail = 0
           \/ th[t].stage = "clear" /\ up' = TRUE /\ r.stage = ""
    <2>1. CASE th[t].stage = "head" /\ up' = up /\ Moves(t, AtLoop("install"))
      <3>1. r = AtLoop("install")
        BY <2>1 DEF Moves
      <3>. HIDE DEF r
      <3>2. r.held = <<>> /\ r.stage = "install" /\ r.tail = 0 /\ r.pc = "loop"
        BY <3>1, EntryFields
      <3>. QED
        BY <2>1, <3>1, <3>2 DEF JobOf, Flushes
    <2>2. CASE th[t].stage = "clear" /\ up' = TRUE /\ Moves(t, IF up THEN AtEnd ELSE Idle)
      <3>1. r = IF up THEN AtEnd ELSE Idle
        BY <2>2 DEF Moves
      <3>. HIDE DEF r
      <3>2. r.held = <<>> /\ r.stage = "" /\ r.pc \in {"idle", "committed"}
        BY <3>1, EntryFields
      <3>. QED
        BY <2>2, <3>1, <3>2 DEF JobOf, Flushes
    <2>. QED
      BY <1>1, <2>1, <2>2
  <1>4. /\ Len(th[t].held) = 1 /\ Job(t) = "headed" /\ Mine(t, one)
    BY <1>0, <1>1, HeldOne DEF OneBlock
  <1>5. buf[one].blockno = Header /\ Target(th[t]) = one
    BY <1>0, <1>4, BlockOfTarget DEF Flushes
  <1>6. ~buf[one].dirty
    BY <1>0, <1>1, <1>5, FlushedIsClean DEF Flushes
  <1>7. buf[one].data = disk[Header] /\ buf[one].data = log.lh
    <2>1. buf[one].valid /\ one \in Bufs
      BY <1>4 DEF Mine
    <2>. QED
      BY <1>0, <1>4, <1>5, <1>6, <2>1 DEF Data
  <1>. HIDE DEF r, one
  <1>8. Commits(t)
    BY <1>3 DEF Commits
  <1>9. Cache' /\ SameContents /\ buf' \in [Bufs -> Buffers]
    BY <1>0, <1>1, <1>2, <1>3, ReleaseCache
  <1>10. HomeDirty'
    BY <1>0, <1>1, <1>3, <1>9, HomeDirtySame
  <1>11. Queued' = Queued
    BY <1>1 DEF Queued
  <1>12. Data'
    BY <1>0, <1>1, <1>3, <1>9, <1>10, <1>11, DataSame
  <1>13. \A u \in Procs \ {t} : th'[u].stage = ""
    BY <1>0, <1>3, <1>8, OneCommits DEF Moves
  <1>14. Types'
    BY <1>0, <1>1, <1>3, <1>4, <1>9, ReleaseTypes DEF Types, Moves
  <1>15. CASE th[t].stage = "head"
    <2>1. th'[t].stage = "install" /\ th'[t].tail = 0 /\ up' = up
      BY <1>3, <1>15 DEF r
    <2>2. Seen' = Seen
      BY <1>0, <1>1, <1>9, <2>1, SeenSame DEF SameContents
    <2>3. HeaderOn(t)'
      BY <2>1 DEF HeaderOn
    <2>4. up => \A j \in 1..Len(log.lh) : disk[LogBlock(j)] = Seen[log.lh[j]]
      BY <1>0, <1>15 DEF OnDisk
    <2>5. \A j \in 1..Len(log'.lh) : ~(j <= 0)
      OBVIOUS
    <2>6. OnDisk'
      BY <1>0, <1>1, <1>7, <1>13, <2>1, <2>2, <2>3, <2>4, <2>5, OnDiskStage
    <2>. QED
      BY <1>1, <1>2, <1>9, <1>12, <1>14, <2>2, <2>6 DEF Inv, Stutters
  <1>16. CASE th[t].stage = "clear"
    <2>1. th'[t].stage = "" /\ up'
      BY <1>3, <1>16 DEF r
    <2>2. log.lh = <<>> /\ disk[Header] = <<>>
      BY <1>0, <1>7, <1>16 DEF AtTail
    <2>3. \A j \in 1..Len(<<>>) : FALSE
      OBVIOUS
    <2>4. OnDisk'
      BY <1>0, <1>1, <1>13, <2>1, <2>2, OnDiskStage
    <2>5. CASE up
      <3>1. Seen' = Seen
        BY <1>0, <1>1, <1>9, <2>1, <2>5, SeenSame DEF SameContents, Types
      <3>. QED
        BY <1>1, <1>2, <1>9, <1>12, <1>14, <2>4, <3>1 DEF Inv, Stutters
    <2>6. CASE ~up
      <3>1. ASSUME NEW x \in Home PROVE Seen'[x] = Seen[x]
        <4>1. Seen[x] = Recovered(disk)[x]
          BY <2>6 DEF Seen
        <4>2. Recovered(disk)[x] = disk[x]
          BY <1>0, <2>2, <2>3, RecoveredBlock DEF OnDisk
        <4>3. \A i \in Bufs : ~(buf'[i].blockno = x /\ buf'[i].dirty)
          BY <1>1, <1>12, <2>2, <2>3 DEF Data
        <4>4. Seen'[x] = disk'[x]
          <5>1. CASE \E i \in Bufs : buf'[i].blockno = x /\ buf'[i].valid
            <6>1. PICK i \in Bufs : buf'[i].blockno = x /\ buf'[i].valid
              BY <5>1
            <6>2. Seen'[x] = buf'[i].data
              BY <1>9, <2>1, <6>1, SeenCachedNext
            <6>3. buf'[i].data = disk'[x]
              BY <1>12, <4>3, <6>1 DEF Data
            <6>. QED
              BY <6>2, <6>3
          <5>2. CASE ~\E i \in Bufs : buf'[i].blockno = x /\ buf'[i].valid
            BY <2>1, <5>2, SeenUncachedNext
          <5>. QED
            BY <5>1, <5>2
        <4>. QED
          BY <1>1, <4>1, <4>2, <4>4
      <3>2. Seen' = Seen
        BY <3>1, SeenEqual
      <3>. QED
        BY <1>1, <1>2, <1>9, <1>12, <1>14, <2>4, <3>2 DEF Inv, Stutters
    <2>. QED
      BY <2>5, <2>6
  <1>. QED
    BY <1>3, <1>15, <1>16

\* log_write changes one block, as the system calls see it.
LEMMA StepLogWrite ==
    ASSUME Inv, NEW t \in Procs, log_write(t)
    PROVE  /\ Inv' /\ t \in inop /\ inop' = inop /\ Recovered(disk') = Recovered(disk)
           /\ \E x \in Home, v \in {<<n>> : n \in 1..MaxOps} : Seen' = [Seen EXCEPT ![x] = v]
  <1> DEFINE r == [th[t] EXCEPT !.pc = "work", !.held = <<>>, !.left = @ - 1]
             b == th[t].held[1]
             x == buf[b].blockno
             v == <<th[t].op>>
             f == [buf EXCEPT ![b].data = v, ![b].dirty = TRUE]
  <1>0. Types /\ Control /\ Cache /\ Data /\ OnDisk /\ InOrder(th[t]) /\ th[t] \in Threads /\ th[t].op \in Nat
    BY ControlOf, ThreadType DEF Inv
  <1>1. /\ th[t].pc = "append" /\ Moves(t, r) /\ log' = [log EXCEPT !.lh = Absorbed(x)]
        /\ buf' = AfterRelease(f, t) /\ mru' = ListAfterRelease(t)
        /\ UNCHANGED <<disk, idequeue, up, asleep, inop, ops>>
    BY <1>0, MovesLogWrite
  <1>2. Control'
    BY <1>0, ControlLogWrite
  <1>3. r.held = <<>> /\ r.stage = th[t].stage /\ r.pc = "work"
    BY <1>0 DEF Threads
  <1>4. Len(th[t].held) = 1 /\ Job(t) = "append" /\ Mine(t, b) /\ x = th[t].want
    BY <1>0, <1>1, HeldOne DEF OneBlock
  <1>5. x \in Home /\ th[t].op \in 1..MaxOps /\ th[t].stage = ""
    BY <1>0, <1>4 DEF InOrder, Job
  <1>6. t \in inop
    BY <1>0, <1>4 DEF Control
  <1>7. up
    BY <1>0, <1>6, NobodyCommits
  <1>8. b \in Bufs /\ buf[b].valid
    BY <1>4 DEF Mine
  <1>. HIDE DEF r, b
  <1>9. v \in Seq(Nat)
    BY <1>0
  <1>10. f \in [Bufs -> Buffers] /\ f[b].data = v /\ f[b].dirty
         /\ \A c \in Bufs : /\ f[c].blockno = buf[c].blockno /\ (f[c].valid <=> buf[c].valid)
                            /\ f[c].refcnt = buf[c].refcnt /\ (c # b => f[c] = buf[c])
    <2> DEFINE e == [buf[b] EXCEPT !.data = v, !.dirty = TRUE]
    <2>1. buf[b] \in Buffers
      BY <1>0, <1>8, BufType
    <2>2. e \in Buffers
      BY <1>9, <2>1 DEF Buffers
    <2>3. f = [buf EXCEPT ![b] = e]
      BY <1>0, <1>8 DEF Types, Buffers
    <2>4. f \in [Bufs -> Buffers] /\ f[b] = e /\ \A c \in Bufs \ {b} : f[c] = buf[c]
      BY <1>0, <1>8, <2>2, <2>3 DEF Types
    <2>5. /\ e.blockno = buf[b].blockno /\ e.valid = buf[b].valid /\ e.refcnt = buf[b].refcnt
          /\ e.data = v /\ e.dirty
      BY <2>1 DEF Buffers
    <2>. HIDE DEF f, e
    <2>. QED
      BY <2>4, <2>5
  <1>. HIDE DEF f
  <1>11. \A c \in Bufs : (\A i \in 1..Len(th[t].held) : th[t].held[i] # c) => f[c] = buf[c]
    BY <1>4, <1>10 DEF b
  <1>12. /\ Freed(t) /\ buf' \in [Bufs -> Buffers]
         /\ \A c \in Bufs : buf'[c].data = f[c].data /\ (buf'[c].dirty <=> f[c].dirty)
    BY <1>0, <1>1, <1>10, <1>11, ReleaseEffect
  <1>13. \A c \in Bufs : buf'[c].blockno = buf[c].blockno /\ (buf'[c].valid <=> buf[c].valid)
    BY <1>12 DEF Freed
  <1>14. \A c \in Bufs : c # b => buf'[c].data = buf[c].data /\ (buf'[c].dirty <=> buf[c].dirty)
    BY <1>10, <1>12
  <1>15. buf'[b].dirty /\ buf'[b].data = v
    BY <1>8, <1>10, <1>12
  <1>16. \A c \in Bufs : buf'[c].dirty => buf[c].valid
    BY <1>0, <1>8, <1>14 DEF Cache
  <1>17. Cache'
    BY <1>0, <1>1, <1>2, <1>3, <1>12, <1>16, CacheRelease
  <1>18. log \in [lh : Seq(Home), outstanding : Nat, committing : BOOLEAN] /\ log.lh \in Seq(Home)
    BY <1>0 DEF Types
  <1>19. Absorbed(x) \in Seq(Home)
    BY <1>5, <1>18, AbsorbedHas
  <1>20. log'.lh = Absorbed(x) /\ log' \in [lh : Seq(Home), outstanding : Nat, committing : BOOLEAN]
    BY <1>1, <1>18, <1>19
  <1>21. JobOf(r) \notin Flushes /\ r.stage = ""
    BY <1>3, <1>5 DEF JobOf, Flushes
  <1>22. Data'
    <2>1. \A c \in Bufs : /\ buf'[c].blockno = buf[c].blockno
                          /\ c # b => /\ buf'[c].data = buf[c].data /\ (buf'[c].valid <=> buf[c].valid)
                                      /\ (buf'[c].dirty <=> buf[c].dirty)
      BY <1>13, <1>14
    <2>2. /\ buf'[b].dirty /\ buf[b].blockno \in Home /\ disk' = disk /\ idequeue' = idequeue
          /\ log'.lh = Absorbed(buf[b].blockno)
      BY <1>1, <1>5, <1>15, <1>20
    <2>3. Moves(t, r) /\ b \in Bufs /\ t \in inop
      BY <1>1, <1>6, <1>8
    <2>. HIDE DEF x, v
    <2>. QED
      BY <1>0, <1>21, <2>1, <2>2, <2>3, DataLogWrite
  <1>23. \A u \in Procs : th[u].stage = "" /\ th'[u].stage = ""
    BY <1>0, <1>1, <1>6, <1>21, NobodyCommits DEF Moves
  <1>24. disk[Header] = <<>>
    BY <1>0, <1>23, HeaderOff
  <1>25. OnDisk'
    BY <1>0, <1>1, <1>23, <1>24, OnDiskStage
  <1>26. Types'
    BY <1>0, <1>1, <1>4, <1>12, <1>20, ReleaseTypes DEF Types, Moves
  <1>27. Seen'[x] = v
    BY <1>1, <1>5, <1>7, <1>8, <1>13, <1>15, <1>17, SeenCachedNext
  <1>28. ASSUME NEW y \in Home, y # x PROVE Seen'[y] = Seen[y]
    <2>1. \A i \in Bufs : /\ buf'[i].blockno = buf[i].blockno
                          /\ buf[i].blockno = y => (buf'[i].valid <=> buf[i].valid) /\ buf'[i].data = buf[i].data
      BY <1>13, <1>14, <1>28
    <2>. QED
      BY <1>0, <1>1, <1>7, <1>17, <2>1, SeenAt
  <1>. HIDE DEF x, v
  <1>29. Seen' = [Seen EXCEPT ![x] = v]
    <2>1. Seen = [y \in Home |-> Seen[y]] /\ Seen' = [y \in Home |-> Seen'[y]]
      BY ViewsAreFunctions
    <2>2. [Seen EXCEPT ![x] = v] = [y \in Home |-> IF y = x THEN v ELSE Seen[y]]
      BY <2>1
    <2>3. [y \in Home |-> Seen'[y]] = [y \in Home |-> IF y = x THEN v ELSE Seen[y]]
      BY <1>27, <1>28
    <2>. QED
      BY <2>1, <2>2, <2>3
  <1>30. v \in {<<n>> : n \in 1..MaxOps}
    BY <1>5 DEF v
  <1>. QED
    BY <1>1, <1>2, <1>5, <1>6, <1>17, <1>22, <1>25, <1>26, <1>29, <1>30 DEF Inv

\* A step of t that leaves the disk and the buffers alone and begins or ends a stage
LEMMA StageStep ==
    ASSUME Inv, Control', NEW t \in Procs, NEW r, Moves(t, r),
           th[t].pc \in {"idle", "begin", "work", "committed", "loop"}, r.held = <<>>,
           UNCHANGED <<disk, buf, mru, idequeue>>, up' = up, HomeDirty',
           log'.lh = log.lh \/ \A u \in Procs : Job(u) # "headed"
    PROVE  Cache' /\ Data' /\ Seen' = Seen /\ Recovered(disk') = Recovered(disk)
  <1>0. Types /\ Control /\ Cache /\ Data /\ OnDisk
    BY DEF Inv
  <1>1. th[t].held = <<>> /\ Job(t) \notin Flushes
    BY <1>0, IdleHands
  <1>2. InOrder(r)
    BY DEF Control, Moves
  <1>3. RightBlocks(r) /\ JobOf(r) \notin Flushes
    BY <1>2, EmptyHands
  <1>4. \A b \in Queued : buf[b].owner # t
    BY <1>0 DEF Cache, QueuedFor
  <1>5. Cache'
    BY <1>0, <1>1, <1>3, <1>4, CacheQuiet
  <1>6. SameContents /\ Queued' = Queued
    BY DEF SameContents, Queued
  <1>7. Data'
    BY <1>0, <1>3, <1>6, DataSame
  <1>8. Seen' = Seen
    BY <1>0, <1>5, SeenSame
  <1>. QED
    BY <1>5, <1>7, <1>8

\* end_op
LEMMA StepEndOp ==
    ASSUME Inv, NEW t \in Procs, end_op(t), ~Halts
    PROVE  /\ Inv' /\ Seen' = Seen /\ Recovered(disk') = Recovered(disk)
           /\ t \in inop /\ inop' = inop \ {t}
  <1> DEFINE r == IF log.outstanding # 1 THEN Idle ELSE IF log.lh = <<>> THEN AtEnd ELSE AtLoop("writelog")
  <1>0. Types /\ Control /\ Cache /\ Data /\ OnDisk
    BY DEF Inv
  <1>1. /\ th[t].pc = "work" /\ Moves(t, r)
        /\ log' = [log EXCEPT !.outstanding = @ - 1, !.committing = (log.outstanding = 1)]
        /\ inop' = inop \ {t} /\ UNCHANGED <<disk, buf, mru, idequeue>>
        /\ UNCHANGED <<up, ops>> /\ asleep' \subseteq asleep
    BY <1>0, MovesEndOp DEF AtEnd, AtLoop
  <1>2. Control'
    BY <1>0, ControlEndOp
  <1>3. r.held = <<>> /\ r.stage \in {"", "writelog"} /\ r.tail = 0
    BY EntryFields
  <1>. HIDE DEF r
  <1>4. Job(t) = "work"
    BY <1>0, <1>1, IdleHands
  <1>5. t \in inop
    BY <1>0, <1>4 DEF Control
  <1>6. log.outstanding = Cardinality(inop) /\ log.outstanding # 0
    <2>1. IsFiniteSet(inop)
      BY <1>0, InopFinite
    <2>. QED
      BY <1>0, <1>5, <2>1, FS_EmptySet DEF Control
  <1>7. log \in [lh : Seq(Home), outstanding : Nat, committing : BOOLEAN] /\ log.outstanding \in Nat
    BY <1>0 DEF Types
  <1>8. log.outstanding - 1 \in Nat
    BY <1>6, <1>7
  <1>9. log'.lh = log.lh /\ log' \in [lh : Seq(Home), outstanding : Nat, committing : BOOLEAN]
    BY <1>1, <1>7, <1>8
  <1>10. SameContents
    BY <1>1 DEF SameContents
  <1>11. HomeDirty'
    BY <1>0, <1>1, <1>3, <1>9, <1>10, HomeDirtySame
  <1>12. Cache' /\ Data' /\ Seen' = Seen /\ Recovered(disk') = Recovered(disk)
    BY <1>1, <1>2, <1>3, <1>9, <1>11, StageStep
  <1>13. \A u \in Procs : th[u].stage = ""
    BY <1>0, <1>5, NobodyCommits
  <1>14. /\ \A u \in Procs \ {t} : th'[u].stage = ""
         /\ th'[t].stage \in {"", "writelog"} /\ th'[t].tail = 0
    BY <1>1, <1>3, <1>13 DEF Moves
  <1>15. disk[Header] = <<>>
    BY <1>0, <1>13, HeaderOff
  <1>16. \A j \in 1..Len(log'.lh) : ~(j <= 0)
    OBVIOUS
  <1>17. OnDisk'
    BY <1>0, <1>1, <1>14, <1>15, <1>16, OnDiskStage
  <1>18. asleep' \subseteq Procs /\ inop' \subseteq Procs
    BY <1>0, <1>1 DEF Types
  <1>19. Types'
    BY <1>0, <1>1, <1>9, <1>18, QuietTypes DEF Moves, Types
  <1>. QED
    BY <1>1, <1>2, <1>5, <1>12, <1>17, <1>19 DEF Inv

\* end_op after the commit
LEMMA StepCommitted ==
    ASSUME Inv, NEW t \in Procs, Committed(t)
    PROVE  Inv' /\ Stutters
  <1>0. Types /\ Control /\ Cache /\ Data /\ OnDisk /\ InOrder(th[t])
    BY ControlOf DEF Inv
  <1>1. /\ th[t].pc = "committed" /\ Moves(t, Idle) /\ log' = [log EXCEPT !.committing = FALSE]
        /\ UNCHANGED <<disk, buf, mru, idequeue>> /\ UNCHANGED <<up, inop, ops>> /\ asleep' = {}
    BY <1>0, MovesCommitted
  <1>2. Control'
    BY <1>0, ControlCommitted
  <1>3. Idle.held = <<>> /\ Idle.stage = ""
    BY EntryFields
  <1>4. log \in [lh : Seq(Home), outstanding : Nat, committing : BOOLEAN]
    BY <1>0 DEF Types
  <1>5. log'.lh = log.lh /\ log' \in [lh : Seq(Home), outstanding : Nat, committing : BOOLEAN]
    BY <1>1, <1>4
  <1>6. SameContents
    BY <1>1 DEF SameContents
  <1>7. HomeDirty'
    BY <1>0, <1>1, <1>3, <1>5, <1>6, HomeDirtySame
  <1>8. Cache' /\ Data' /\ Seen' = Seen /\ Recovered(disk') = Recovered(disk)
    BY <1>1, <1>2, <1>3, <1>5, <1>7, StageStep
  <1>9. Commits(t) /\ JobOf(th[t]) = "committed"
    BY <1>1 DEF Commits, JobOf
  <1>10. \A u \in Procs : th[u].stage = "" /\ th'[u].stage = ""
    BY <1>0, <1>1, <1>3, <1>9, OneCommits DEF Moves, InOrder
  <1>11. disk[Header] = <<>>
    BY <1>0, <1>10, HeaderOff
  <1>12. OnDisk'
    BY <1>0, <1>1, <1>10, <1>11, OnDiskStage
  <1>13. Types'
    BY <1>0, <1>1, <1>5, QuietTypes DEF Moves, Types
  <1>. QED
    BY <1>1, <1>2, <1>8, <1>12, <1>13 DEF Inv, Stutters

\* write_log and install_trans go on with the next block or end.
LEMMA StepLoop ==
    ASSUME Inv, NEW t \in Procs, Loop(t)
    PROVE  Inv' /\ Stutters
  <1>0. /\ Types /\ Control /\ Cache /\ Data /\ OnDisk /\ InOrder(th[t]) /\ AtTail(th[t], log.lh)
        /\ th[t] \in Threads /\ th[t].tail \in Nat
    BY ControlOf, ThreadType DEF Inv
  <1>1. /\ th[t].pc = "loop" /\ up' = up
        /\ \/ /\ th[t].tail < Len(log.lh) /\ log' = log
              /\ Moves(t, [th[t] EXCEPT !.pc = "bget", !.want = LogBlock(th[t].tail + 1),
                                        !.cont = "first", !.held = <<>>])
           \/ /\ th[t].tail = Len(log.lh) /\ log' = log /\ th[t].stage = "writelog"
              /\ Moves(t, AtHead("head"))
           \/ /\ th[t].tail = Len(log.lh) /\ log' = [log EXCEPT !.lh = <<>>] /\ th[t].stage = "install"
              /\ Moves(t, AtHead("clear"))
        /\ UNCHANGED <<disk, buf, mru, idequeue>> /\ UNCHANGED <<asleep, inop, ops>>
    BY <1>0, MovesLoop DEF AtHead
  <1>2. Control'
    BY <1>0, ControlLoop
  <1>3. log \in [lh : Seq(Home), outstanding : Nat, committing : BOOLEAN] /\ log.lh \in Seq(Home)
    BY <1>0 DEF Types
  <1>4. log' \in [lh : Seq(Home), outstanding : Nat, committing : BOOLEAN]
    <2>1. <<>> \in Seq(Home)
      OBVIOUS
    <2>2. log' = log \/ log' = [log EXCEPT !.lh = <<>>]
      BY <1>1
    <2>. QED
      BY <1>3, <2>1, <2>2
  <1>5. Types'
    <2>1. th' \in [Procs -> Threads]
      BY <1>1 DEF Moves
    <2>. QED
      BY <1>0, <1>1, <1>4, <2>1, QuietTypes DEF Types
  <1>6. th[t].stage \in {"writelog", "install"} /\ Job(t) = "loop" /\ Len(log.lh) \in Nat
    <2>1. Len(log.lh) \in Nat
      BY <1>3
    <2>2. JobOf(th[t]) = "loop"
      BY <1>1 DEF JobOf
    <2>. QED
      BY <1>0, <2>1, <2>2 DEF InOrder, Job
  <1>7. Commits(t)
    BY <1>6 DEF Commits
  <1>8. \A u \in Procs \ {t} : th[u].stage = ""
    BY <1>0, <1>7, OneCommits
  <1>9. SameContents
    BY <1>1 DEF SameContents
  <1>10. ASSUME th[t].tail < Len(log.lh) PROVE Cache' /\ Data' /\ OnDisk' /\ Seen' = Seen /\ Recovered(disk') = Recovered(disk)
    <2> DEFINE r == [th[t] EXCEPT !.pc = "bget", !.want = LogBlock(th[t].tail + 1), !.cont = "first", !.held = <<>>]
    <2>1. r.held = <<>> /\ r.stage = th[t].stage /\ r.tail = th[t].tail
      BY <1>0 DEF Threads
    <2>2. Moves(t, r) /\ log' = log
      BY <1>0, <1>1, <1>6, <1>10
    <2>. HIDE DEF r
    <2>. QED
      BY <1>1, <1>2, <2>1, <2>2, OutsideStep
  <1>11. ASSUME th[t].tail = Len(log.lh), th[t].stage = "writelog"
         PROVE  Cache' /\ Data' /\ OnDisk' /\ Seen' = Seen /\ Recovered(disk') = Recovered(disk)
    <2> DEFINE r == AtHead("head")
    <2>1. r.held = <<>> /\ r.stage = "head" /\ r.tail = 0
      BY EntryFields
    <2>2. Moves(t, r) /\ log' = log
      BY <1>0, <1>1, <1>6, <1>11
    <2>. HIDE DEF r
    <2>3. HomeDirty'
      BY <1>0, <1>9, <2>1, <2>2, HomeDirtySame
    <2>4. Cache' /\ Data' /\ Seen' = Seen /\ Recovered(disk') = Recovered(disk)
      BY <1>1, <1>2, <2>1, <2>2, <2>3, StageStep
    <2>5. (\A u \in Procs \ {t} : th'[u].stage = "") /\ th'[t].stage = "head"
      BY <1>8, <2>1, <2>2 DEF Moves
    <2>6. disk[Header] = <<>>
      BY <1>0, <1>8, <1>11, HeaderOff
    <2>7. up' => \A j \in 1..Len(log'.lh) : disk[LogBlock(j)] = Seen'[log'.lh[j]]
      <3>1. up => \A j \in 1..Len(log.lh) : j <= th[t].tail => disk[LogBlock(j)] = Seen[log.lh[j]]
        BY <1>0, <1>11 DEF OnDisk
      <3>2. up => \A j \in 1..Len(log.lh) : disk[LogBlock(j)] = Seen[log.lh[j]]
        BY <1>6, <1>11, <3>1
      <3>. QED
        BY <1>1, <2>2, <2>4, <3>2
    <2>8. OnDisk'
      BY <1>0, <1>1, <2>5, <2>6, <2>7, OnDiskStage
    <2>. QED
      BY <2>4, <2>8
  <1>12. ASSUME th[t].tail = Len(log.lh), th[t].stage = "install"
         PROVE  Cache' /\ Data' /\ OnDisk' /\ Seen' = Seen /\ Recovered(disk') = Recovered(disk)
    <2> DEFINE r == AtHead("clear")
    <2>1. r.held = <<>> /\ r.stage = "clear" /\ r.tail = 0
      BY EntryFields
    <2>2. Moves(t, r)
      BY <1>0, <1>1, <1>6, <1>12
    <2>. HIDE DEF r
    <2>3. HomeDirty'
      <3>1. ASSUME NEW b \in Bufs, buf[b].dirty, buf[b].blockno \in Home PROVE FALSE
        <4>1. PICK j \in 1..Len(log.lh) : th[t].tail < j
          BY <1>0, <1>12, <3>1 DEF Data
        <4>. QED
          BY <1>6, <1>12, <4>1
      <3>. QED
        BY <1>1, <3>1 DEF HomeDirty
    <2>4. \A u \in Procs : Job(u) # "headed"
      <3> SUFFICES ASSUME NEW u \in Procs, Job(u) = "headed" PROVE FALSE
        OBVIOUS
      <3>1. Commits(u)
        BY <1>0, FlusherHolds DEF Flushes
      <3>. QED
        BY <1>0, <1>6, <1>7, <3>1, OneCommits
    <2>5. Cache' /\ Data' /\ Seen' = Seen /\ Recovered(disk') = Recovered(disk)
      BY <1>1, <1>2, <2>1, <2>2, <2>3, <2>4, StageStep
    <2>6. (\A u \in Procs \ {t} : th'[u].stage = "") /\ th'[t].stage = "clear"
      BY <1>8, <2>1, <2>2 DEF Moves
    <2>7. \A j \in 1..Len(disk[Header]) : disk[disk[Header][j]] = disk[LogBlock(j)]
      <3>1. /\ disk[Header] = log.lh
            /\ \A j \in 1..Len(log.lh) : j <= th[t].tail => disk[log.lh[j]] = disk[LogBlock(j)]
        BY <1>0, <1>12 DEF OnDisk
      <3>2. \A j \in 1..Len(log.lh) : disk[log.lh[j]] = disk[LogBlock(j)]
        BY <1>6, <1>12, <3>1
      <3>. QED
        BY <3>1, <3>2
    <2>8. HeaderOn(t)'
      BY <2>6 DEF HeaderOn
    <2>9. OnDisk'
      BY <1>0, <1>1, <2>6, <2>7, <2>8, OnDiskStage
    <2>. QED
      BY <2>5, <2>9
  <1>13. Cache' /\ Data' /\ OnDisk' /\ Seen' = Seen /\ Recovered(disk') = Recovered(disk)
    BY <1>1, <1>10, <1>11, <1>12
  <1>. QED
    BY <1>1, <1>2, <1>5, <1>13 DEF Inv, Stutters

\* The state of the processes and of the log is what Control is about.
LEMMA ControlKept ==
    ASSUME Control, UNCHANGED <<log, up, th, inop>>
    PROVE  Control'
  <1>1. (\A u \in Procs : Commits(u)' = Commits(u) /\ Job(u)' = Job(u)) /\ Reserved' = Reserved
    BY DEF Commits, Job, Reserved
  <1>. QED
    BY <1>1 DEF Control

\* The disk finishes a request: a transaction becomes durable or nothing is seen.
LEMMA StepIdeintr ==
    ASSUME Inv, ideintr
    PROVE  /\ Inv' /\ Seen' = Seen /\ inop' = inop
           /\ Recovered(disk') = Recovered(disk) \/ (inop = {} /\ Recovered(disk') = Seen)
  <1> DEFINE b == Head(idequeue)
  <1>0. Types /\ Control /\ Cache /\ Data /\ OnDisk
    BY DEF Inv
  <1>1. /\ b \in Queued /\ b \in Bufs /\ Served(b)
        /\ buf' \in [Bufs -> Buffers] /\ disk' \in [Blocks -> Seq(Nat)] /\ idequeue' \in Seq(Bufs)
        /\ Queued' = Queued \ {b} /\ QueuedOnce'
        /\ \A x \in Blocks : disk'[x] = IF buf[b].dirty /\ x = buf[b].blockno THEN buf[b].data ELSE disk[x]
        /\ UNCHANGED <<mru, log, up, th, asleep, inop, ops>>
    BY <1>0, IdeintrEffect
  <1>. HIDE DEF b
  <1>2. Control'
    BY <1>0, <1>1, ControlKept
  <1>3. Cache'
    BY <1>0, <1>1, CacheIdeintr
  <1>4. Data'
    BY <1>0, <1>1, DataIdeintr
  <1>5. /\ OnDisk' /\ Seen' = Seen
        /\ Recovered(disk') = Recovered(disk) \/ (inop = {} /\ Recovered(disk') = Seen)
    BY <1>0, <1>1, <1>3, OnDiskIdeintr
  <1>6. Types'
    BY <1>0, <1>1 DEF Types
  <1>. QED
    BY <1>1, <1>2, <1>3, <1>4, <1>5, <1>6 DEF Inv
-----------------------------------------------------------------------------
(* Power on *)

\* The memory after power on, with a disk whose header names blocks
PowerOn ==
    /\ disk \in [Blocks -> Seq(Nat)] /\ BlockList(disk[Header]) /\ ops \in Nat
    /\ buf = [b \in Bufs |-> FreshBuf] /\ mru = [i \in Bufs |-> i]
    /\ idequeue = <<>> /\ log = FreshLog
    /\ up = FALSE /\ th = [t \in Procs |-> Booting(t)]
    /\ asleep = {} /\ inop = {}

\* The system calls will see what recovery makes of the disk.
SeesDisk == Seen = Recovered(disk)

\* The invariant holds after power on.
LEMMA PowerOnInv == PowerOn => Inv /\ SeesDisk
  <1> SUFFICES ASSUME PowerOn PROVE Inv /\ SeesDisk
    OBVIOUS
  <1>1. Control
    BY ControlBoot DEF PowerOn
  <1>2. Cache
    BY CacheBoot DEF PowerOn
  <1>3. Data
    BY DataBoot DEF PowerOn
  <1>4. Types
    <2>1. /\ disk \in [Blocks -> Seq(Nat)] /\ buf \in [Bufs -> Buffers] /\ mru \in [Bufs -> Bufs]
          /\ log \in [lh : Seq(Home), outstanding : Nat, committing : BOOLEAN] /\ th \in [Procs -> Threads]
          /\ up \in BOOLEAN /\ asleep \subseteq Procs /\ inop \subseteq Procs /\ ops \in Nat
      BY BootTypes DEF PowerOn
    <2>2. (\A a, b \in Bufs : mru[a] = mru[b] => a = b) /\ idequeue \in Seq(Bufs)
      BY DEF PowerOn
    <2>. QED
      BY <2>1, <2>2 DEF Types
  <1>5. /\ th[Boot].stage = "readhead" /\ \A t \in Procs \ {Boot} : th[t].stage = ""
        /\ Boot \in Procs
    BY LogAssumption DEF PowerOn, Booting, Idle
  <1>6. HeaderOn(Boot)
    BY <1>5 DEF HeaderOn
  <1>7. \A t \in Procs : th[t].stage \in {"", "readhead"}
    BY <1>5
  <1>8. OnDisk
    BY <1>5, <1>6, <1>7 DEF OnDisk, PowerOn
  <1>9. Seen = Recovered(disk)
    <2>1. Seen = [b \in Home |-> Recovered(disk)[b]]
      BY DEF Seen, PowerOn
    <2>. QED
      BY <2>1, ViewsAreFunctions
  <1>. QED
    BY <1>1, <1>2, <1>3, <1>4, <1>8, <1>9 DEF Inv, SeesDisk

\* The same in the next state
LEMMA PowerOnNext == PowerOn' => Inv' /\ SeesDisk'
  BY PowerOnInv, PTL

\* A crash loses what has not been committed.
LEMMA StepCrash ==
    ASSUME Inv, Crash
    PROVE  Inv' /\ Seen' = Recovered(disk) /\ Recovered(disk') = Recovered(disk) /\ inop' = {}
  <1>1. PowerOn'
    BY DEF Crash, PowerOn, Inv, Types, OnDisk
  <1>2. disk' = disk /\ inop' = {}
    BY DEF Crash
  <1>3. Recovered(disk)' = Recovered(disk)
    BY <1>2, RecoveredSame
  <1>4. Inv' /\ Seen' = Recovered(disk)'
    BY <1>1, PowerOnNext DEF SeesDisk
  <1>. QED
    BY <1>2, <1>3, <1>4

\* The first power on: all blocks are blank.
LEMMA InitBlank ==
    ASSUME Init
    PROVE  Inv /\ Seen = [b \in Home |-> Blank] /\ Recovered(disk) = [b \in Home |-> Blank] /\ inop = {}
  <1>1. disk \in [Blocks -> Seq(Nat)] /\ disk[Header] = <<>> /\ \A b \in Home : disk[b] = Blank
    <2>1. <<>> \in Seq(Nat)
      OBVIOUS
    <2>. QED
      BY <2>1, BlockKinds DEF Init, Blank, Blocks
  <1>2. BlockList(disk[Header])
    BY <1>1, LogAssumption DEF BlockList
  <1>3. PowerOn
    BY <1>1, <1>2 DEF Init, PowerOn
  <1>4. Inv /\ Seen = Recovered(disk) /\ inop = {}
    BY <1>3, PowerOnInv DEF PowerOn, SeesDisk
  <1>5. \A j \in 1..Len(<<>>) : FALSE
    OBVIOUS
  <1>6. \A b \in Home : Recovered(disk)[b] = Blank
    BY <1>1, <1>2, <1>5, RecoveredBlock
  <1>7. Recovered(disk) = [b \in Home |-> Recovered(disk)[b]]
    BY ViewsAreFunctions
  <1>8. [b \in Home |-> Recovered(disk)[b]] = [b \in Home |-> Blank]
    BY <1>6
  <1>. QED
    BY <1>4, <1>7, <1>8
-----------------------------------------------------------------------------
(* The theorems *)

\* What a step does to the disk the file system sees
AtomicStep ==
    \/ Stutters
    \/ \E t \in Procs : t \notin inop /\ inop' = inop \cup {t} /\ Seen' = Seen /\ Recovered(disk') = Recovered(disk)
    \/ \E t \in Procs : t \in inop /\ inop' = inop \ {t} /\ Seen' = Seen /\ Recovered(disk') = Recovered(disk)
    \/ \E t \in Procs : /\ t \in inop /\ inop' = inop /\ Recovered(disk') = Recovered(disk)
                        /\ \E x \in Home, v \in {<<n>> : n \in 1..MaxOps} : Seen' = [Seen EXCEPT ![x] = v]
    \/ inop = {} /\ inop' = inop /\ Seen' = Seen /\ Recovered(disk') = Seen
    \/ Seen' = Recovered(disk) /\ Recovered(disk') = Recovered(disk) /\ inop' = {}

\* The kernel's panic changes nothing.
LEMMA StepHalts ==
    ASSUME Inv, Halts
    PROVE  Inv' /\ AtomicStep
  <1>1. asleep' \subseteq Procs /\ UNCHANGED <<disk, buf, mru, idequeue, log, up, th, inop, ops>>
    BY DEF Halts, Inv, Types
  <1>. QED
    BY <1>1, SameState DEF AtomicStep

\* Each step of a process keeps the invariant and is a step of the atomic disk.
LEMMA ProcessStep ==
    ASSUME Inv, NEW t \in Procs, Step(t) \/ CallBegin(t) \/ CallRead(t)
    PROVE  Inv' /\ AtomicStep
  <1>1. CASE Halts
    BY <1>1, StepHalts
  <1>2. CASE ~Halts
    <2>1. CASE bget(t)
      BY <1>2, <2>1, StepBget DEF AtomicStep
    <2>2. CASE Lock(t)
      BY <2>2, StepLock DEF AtomicStep
    <2>3. CASE DiskDone(t)
      BY <2>3, StepDiskDone DEF AtomicStep
    <2>4. CASE begin_op(t) /\ th' = th
      BY <2>4, StepSleep DEF AtomicStep
    <2>5. CASE begin_op(t) /\ th' # th
      BY <2>5, StepBeginOp DEF AtomicStep
    <2>6. CASE NextBlock(t)
      BY <2>6, StepNextBlock DEF AtomicStep
    <2>7. CASE LogCheck(t)
      BY <1>2, <2>7, StepLogCheck DEF AtomicStep
    <2>8. CASE log_write(t)
      BY <2>8, StepLogWrite DEF AtomicStep
    <2>9. CASE end_op(t)
      BY <1>2, <2>9, StepEndOp DEF AtomicStep
    <2>10. CASE Committed(t)
      BY <2>10, StepCommitted DEF AtomicStep
    <2>11. CASE Loop(t)
      BY <2>11, StepLoop DEF AtomicStep
    <2>12. CASE First(t)
      BY <2>12, StepFirst DEF AtomicStep
    <2>13. CASE Second(t)
      BY <2>13, StepSecond DEF AtomicStep
    <2>14. CASE Copied(t)
      BY <2>14, StepCopied DEF AtomicStep
    <2>15. CASE ReadHead(t)
      BY <2>15, StepReadHead DEF AtomicStep
    <2>16. CASE WriteHead(t)
      BY <2>16, StepWriteHead DEF AtomicStep
    <2>17. CASE Headed(t)
      BY <2>17, StepHeaded DEF AtomicStep
    <2>18. CASE EndRead(t)
      BY <2>18, StepEndRead DEF AtomicStep
    <2>19. CASE CallBegin(t)
      BY <2>19, StepCallBegin DEF AtomicStep
    <2>20. CASE CallRead(t)
      BY <2>20, StepCallRead DEF AtomicStep
    <2>. QED
      BY <2>1, <2>2, <2>3, <2>4, <2>5, <2>6, <2>7, <2>8, <2>9, <2>10, <2>11, <2>12, <2>13, <2>14,
         <2>15, <2>16, <2>17, <2>18, <2>19, <2>20 DEF Step
  <1>. QED
    BY <1>1, <1>2

\* Every step keeps the invariant and is a step of the atomic disk.
LEMMA EveryStep ==
    ASSUME Inv, [Next]_vars
    PROVE  Inv' /\ AtomicStep
  <1>1. CASE UNCHANGED vars
    <2>1. Halts
      BY <1>1 DEF vars, memVars, Halts
    <2>. QED
      BY <2>1, StepHalts
  <1>2. CASE \E t \in Procs : Step(t) \/ CallBegin(t) \/ CallRead(t)
    BY <1>2, ProcessStep
  <1>3. CASE ideintr
    BY <1>3, StepIdeintr DEF AtomicStep, Stutters
  <1>4. CASE Crash
    BY <1>4, StepCrash DEF AtomicStep
  <1>. QED
    BY <1>1, <1>2, <1>3, <1>4 DEF Next

\* Inductive invariant of cache, log, commit and recovery: what processes hold
\* and reserve, what buffers and log contain, and what is on disk, at every
\* stage of a commit and of a recovery.
THEOREM LogInductive == Spec => []Inv
  <1>1. Init => Inv
    BY InitBlank
  <1>2. Inv /\ [Next]_vars => Inv'
    BY EveryStep
  <1>. QED
    BY <1>1, <1>2, PTL DEF Spec

\* The part of the invariant that log_write and bget rely on
LEMMA InvIsSafe ==
    ASSUME Inv
    PROVE  CacheSafe
  <1>0. Types /\ Control /\ Cache
    BY DEF Inv
  <1>1. IsFiniteSet(Procs) /\ Cardinality(Procs) \in Nat
    BY LogAssumption, FS_CardinalityType
  <1>2. \A b : Cardinality(Holders(b)) \in 0..Cardinality(Procs)
    <2> SUFFICES ASSUME NEW b PROVE Cardinality(Holders(b)) \in 0..Cardinality(Procs)
      OBVIOUS
    <2>1. Holders(b) \subseteq Procs
      BY DEF Holders
    <2>2. IsFiniteSet(Holders(b)) /\ Cardinality(Holders(b)) <= Cardinality(Procs)
      BY <1>1, <2>1, FS_Subset
    <2>3. Cardinality(Holders(b)) \in Nat
      BY <2>2, FS_CardinalityType
    <2>. QED
      BY <1>1, <2>2, <2>3
  <1>3. log.outstanding \in 0..Cardinality(Procs)
    <2>1. inop \subseteq Procs /\ log.outstanding = Cardinality(inop)
      BY <1>0 DEF Types, Control
    <2>2. IsFiniteSet(inop) /\ Cardinality(inop) <= Cardinality(Procs)
      BY <1>1, <2>1, FS_Subset
    <2>3. Cardinality(inop) \in Nat
      BY <2>2, FS_CardinalityType
    <2>. QED
      BY <1>1, <2>1, <2>2, <2>3
  <1>4. ToSet(idequeue) \subseteq Bufs /\ ToSet(log.lh) \subseteq Home
    <2>1. idequeue \in Seq(Bufs) /\ log.lh \in Seq(Home)
      BY <1>0 DEF Types
    <2>. QED
      BY <2>1 DEF ToSet
  <1>5. \A b \in Bufs : /\ buf[b].blockno \in Home \cup 0..LOGSIZE \cup {NoBlock}
                        /\ buf[b].refcnt \in 0..Cardinality(Procs)
                        /\ buf[b].owner \in Procs \cup {NoProc}
    <2>1. \A b \in Bufs : buf[b].refcnt = Cardinality(Holders(b))
      BY <1>0 DEF Cache, Counted
    <2>2. \A b \in Bufs : buf[b].blockno \in Blocks \cup {NoBlock} /\ buf[b].owner \in Procs \cup {NoProc}
      BY <1>0, BufType
    <2>. QED
      BY <1>2, <2>1, <2>2 DEF Blocks
  <1>6. TypeOK
    BY <1>0, <1>3, <1>4, <1>5 DEF TypeOK, Types
  <1>7. \A t \in Procs : DOMAIN th[t].held = 1..Len(th[t].held)
    <2>1. \A t \in Procs : th[t].held \in Seq(Bufs)
      BY <1>0, ThreadType
    <2>. QED
      BY <2>1
  <1>8. \A b : Holders(b) = {t \in Procs : b \in ToSet(th[t].held)}
    <2>1. \A b : \A t \in Procs : b \in ToSet(th[t].held) <=> \E i \in 1..Len(th[t].held) : th[t].held[i] = b
      BY <1>7 DEF ToSet
    <2>. QED
      BY <2>1 DEF Holders
  <1>9. \A t \in Procs : \A i \in DOMAIN th[t].held :
            \/ buf[th[t].held[i]].owner = t
            \/ th[t].pc = "lock" /\ i = Len(th[t].held)
    BY <1>0, <1>7 DEF Cache, Owned, Waits
  <1>10. \A b \in Bufs : buf[b].refcnt = Cardinality({t \in Procs : b \in ToSet(th[t].held)})
    BY <1>0, <1>8 DEF Cache, Counted
  <1>11. OneBuffer
    BY <1>0, <1>9, <1>10 DEF OneBuffer, Cache, Unique
  <1>12. LogFits
    BY <1>0 DEF Control, BlockList, LogFits
  <1>. QED
    BY <1>6, <1>11, <1>12 DEF CacheSafe

\* The cache has one buffer for a block, which one process at a time uses and
\* which bget does not recycle while a process counts on it, and the blocks
\* that begin_op reserves keep the log within its header, through every
\* interleaving of bread, bwrite, brelse, begin_op, log_write and commit and
\* every crash.
THEOREM LogCacheSafe == Spec => []CacheSafe
  <1>1. Inv => CacheSafe
    BY InvIsSafe
  <1>. QED
    BY <1>1, LogInductive, PTL

\* log.c and bio.c implement the atomic disk: the write of the header on disk is
\* the one moment at which the writes of a group of operations become durable,
\* and recovery from any crash sees all of them or none.
THEOREM LogIsAtomicDisk == Spec => IsAtomicDisk
  <1>1. Init => Atomic!Init
    BY InitBlank DEF Atomic!Init
  <1>2. Inv /\ [Next]_vars => [Atomic!Next]_(<<Seen, Recovered(disk), inop>>)
    <2> SUFFICES ASSUME Inv, [Next]_vars PROVE [Atomic!Next]_(<<Seen, Recovered(disk), inop>>)
      OBVIOUS
    <2>1. AtomicStep
      BY EveryStep
    <2>. QED
      BY <2>1 DEF AtomicStep, Stutters, Atomic!Next, Atomic!BeginOp, Atomic!EndOp, Atomic!Write, Atomic!Commit, Atomic!Crash
  <1>. QED
    BY <1>1, <1>2, LogInductive, PTL DEF Spec, IsAtomicDisk, Atomic!Spec
-----------------------------------------------------------------------------
(* Panics *)

\* begin_op reserves enough: log_write finds room in the log.
LEMMA RoomInLog ==
    ASSUME Types, Control, nlog + Spare > LOGSIZE, NEW t \in Procs, th[t].pc = "modify"
    PROVE  ~(Len(log.lh) >= LOGSIZE \/ Len(log.lh) >= nlog - 1) /\ ~(log.outstanding < 1)
  <1>1. InOrder(th[t]) /\ Job(t) = "modify" /\ JobOf(th[t]) = "modify" /\ th[t].left \in Nat
    BY ControlOf, ThreadType DEF Job, JobOf
  <1>2. t \in inop /\ th[t].left > 0 /\ th[t].left <= MaxWrites
    BY <1>1 DEF Control, InOrder
  <1>3. /\ Spare \in Nat /\ MaxWrites + Spare = MAXOPBLOCKS /\ nlog \in Nat /\ LOGSIZE \in Nat
        /\ MaxWrites \in Nat /\ MAXOPBLOCKS \in Nat
    BY LogAssumption DEF Spare
  <1>. DEFINE R == {t} \X (1..(1 + Spare))
  <1>4. \A n \in 1..(1 + Spare) : n \in 1..MAXOPBLOCKS /\ n <= th[t].left + Spare
    BY <1>1, <1>2, <1>3
  <1>5. R \subseteq Reserved
    BY <1>2, <1>4 DEF Reserved
  <1>6. Cardinality(R) = 1 + Spare
    <2>1. IsFiniteSet({t}) /\ Cardinality({t}) = 1
      BY FS_Singleton
    <2>2. IsFiniteSet(1..(1 + Spare)) /\ Cardinality(1..(1 + Spare)) = 1 + Spare
      BY <1>3, FS_Interval
    <2>3. Cardinality(R) = Cardinality({t}) * Cardinality(1..(1 + Spare))
      BY <2>1, <2>2, FS_Product
    <2>. QED
      BY <1>3, <2>1, <2>2, <2>3
  <1>. HIDE DEF R
  <1>7. IsFiniteSet(Reserved) /\ Cardinality(Reserved) \in Nat
    <2>1. Reserved \in SUBSET (inop \X (1..MAXOPBLOCKS))
      BY DEF Reserved
    <2>. QED
      BY <2>1, InopFinite, ReservedIsSmall
  <1>8. Cardinality(R) <= Cardinality(Reserved)
    BY <1>5, <1>7, FS_Subset
  <1>9. Len(log.lh) + Cardinality(Reserved) <= LOGSIZE /\ log.lh \in Seq(Home)
    BY DEF Control, Types
  <1>10. Len(log.lh) \in Nat
    BY <1>9
  <1>11. ~(Len(log.lh) >= LOGSIZE \/ Len(log.lh) >= nlog - 1)
    BY <1>3, <1>6, <1>7, <1>8, <1>9, <1>10
  <1>12. log.outstanding = Cardinality(inop) /\ Cardinality(inop) \in Nat /\ Cardinality(inop) # 0
    BY <1>2, InopFinite, FS_EmptySet DEF Control
  <1>13. ~(log.outstanding < 1)
    BY <1>12
  <1>. QED
    BY <1>11, <1>13

\* The buffers that the log has not installed are at most as many as its blocks.
LEMMA FewDirty ==
    ASSUME Types, Control, Cache, Data, NEW D, D = {b \in Bufs : buf[b].dirty /\ buf[b].blockno \in Home}
    PROVE  IsFiniteSet(D) /\ Cardinality(D) <= LOGSIZE
  <1> DEFINE P(b, j) == log.lh[j] = buf[b].blockno
             f == [b \in D |-> CHOOSE j \in 1..LOGSIZE : P(b, j)]
  <1>1. Len(log.lh) \in Nat /\ Len(log.lh) <= LOGSIZE /\ LOGSIZE \in Nat
    BY LogAssumption DEF Control, BlockList, Types
  <1>2. ASSUME NEW b \in D PROVE f[b] \in 1..LOGSIZE /\ P(b, f[b])
    <2>1. \E j \in 1..Len(log.lh) : P(b, j)
      BY DEF Data
    <2>2. \E j \in 1..LOGSIZE : P(b, j)
      BY <1>1, <2>1
    <2>. QED
      BY <2>2
  <1>3. ASSUME NEW a \in D, NEW b \in D, f[a] = f[b] PROVE a = b
    <2>1. buf[a].blockno = buf[b].blockno /\ buf[a].blockno # NoBlock
      BY <1>2, <1>3, BlockKinds
    <2>. QED
      BY <2>1 DEF Cache, Unique
  <1>4. f \in [D -> 1..LOGSIZE]
    BY <1>2
  <1>. HIDE DEF f, P
  <1>5. f \in Injection(D, 1..LOGSIZE)
    BY <1>3, <1>4 DEF Injection, IsInjective
  <1>6. IsFiniteSet(1..LOGSIZE) /\ Cardinality(1..LOGSIZE) = LOGSIZE
    BY <1>1, FS_Interval
  <1>. QED
    BY <1>5, <1>6, FS_Injection

\* While a process is in bget, processes hold at most one buffer each, or it
\* holds one less than it could.
LEMMA FewHeld ==
    ASSUME Types, Control, NEW t \in Procs, th[t].pc = "bget", NEW H, H = {b \in Bufs : Holders(b) # {}}
    PROVE  IsFiniteSet(H) /\ Cardinality(H) <= Cardinality(Procs)
  <1> DEFINE Second2(u, b) == Len(th[u].held) = 2 /\ th[u].held[2] = b
             First1(u, b) == Len(th[u].held) >= 1 /\ th[u].held[1] = b
             f == [b \in H |-> IF \E u \in Procs : Second2(u, b) THEN t ELSE CHOOSE u \in Procs : First1(u, b)]
  <1>1. \A u \in Procs : /\ Len(th[u].held) \in {0, 1, 2}
                         /\ Len(th[u].held) = 2 => Commits(u) /\ th[u].pc # "bget"
                         /\ Len(th[u].held) # 0 /\ th[u].pc = "bget" => Commits(u)
    <2> SUFFICES ASSUME NEW u \in Procs
                 PROVE  /\ Len(th[u].held) \in {0, 1, 2}
                        /\ Len(th[u].held) = 2 => Commits(u) /\ th[u].pc # "bget"
                        /\ Len(th[u].held) # 0 /\ th[u].pc = "bget" => Commits(u)
      OBVIOUS
    <2>1. Len(th[u].held) = Holds(th[u]) /\ InOrder(th[u])
      BY ControlOf DEF InOrder
    <2>2. JobOf(th[u]) \in TwoBlocks => Commits(u)
      BY <2>1 DEF InOrder, TwoBlocks, Commits
    <2>. QED
      BY <2>1, <2>2 DEF Holds
  <1>2. ASSUME NEW b \in H PROVE \E u \in Procs : Second2(u, b) \/ First1(u, b)
    <2>1. PICK u \in Procs : \E i \in 1..Len(th[u].held) : th[u].held[i] = b
      BY DEF Holders
    <2>2. PICK i \in 1..Len(th[u].held) : th[u].held[i] = b
      BY <2>1
    <2>3. i = 1 \/ (i = 2 /\ Len(th[u].held) = 2)
      BY <1>1, <2>2
    <2>4. Len(th[u].held) >= 1
      BY <1>1, <2>2
    <2>. QED
      BY <2>2, <2>3, <2>4
  <1>3. \A u, w \in Procs : Commits(u) /\ Commits(w) => u = w
    BY DEF Control
  <1>4. ASSUME NEW b \in H, ~\E u \in Procs : Second2(u, b) PROVE f[b] \in Procs /\ First1(f[b], b)
    <2>1. \E u \in Procs : First1(u, b)
      BY <1>2, <1>4
    <2>. QED
      BY <1>4, <2>1
  <1>5. ASSUME NEW b \in H, NEW u \in Procs, Second2(u, b)
        PROVE  f[b] = t /\ Commits(u) /\ u # t
    BY <1>1, <1>5
  <1>6. ASSUME NEW b \in H PROVE f[b] \in Procs
    BY <1>4, <1>5
  <1>7. f \in [H -> Procs]
    BY <1>6
  <1>8. ASSUME NEW a \in H, NEW b \in H, f[a] = f[b], NEW u \in Procs, Second2(u, a)
        PROVE  a = b
    <2>1. f[a] = t /\ Commits(u) /\ u # t
      BY <1>5, <1>8
    <2>2. CASE \E w \in Procs : Second2(w, b)
      <3>1. PICK w \in Procs : Second2(w, b)
        BY <2>2
      <3>2. w = u
        BY <1>3, <1>5, <2>1, <3>1
      <3>. QED
        BY <1>8, <3>1, <3>2
    <2>3. CASE ~\E w \in Procs : Second2(w, b)
      <3>1. First1(t, b)
        BY <1>4, <1>8, <2>1, <2>3
      <3>2. Len(th[t].held) # 0
        BY <1>1, <3>1
      <3>. QED
        BY <1>1, <1>3, <2>1, <3>2
    <2>. QED
      BY <2>2, <2>3
  <1>9. ASSUME NEW a \in H, NEW b \in H, f[a] = f[b] PROVE a = b
    <2>1. CASE \E u \in Procs : Second2(u, a)
      BY <1>8, <1>9, <2>1
    <2>2. CASE \E u \in Procs : Second2(u, b)
      BY <1>8, <1>9, <2>2
    <2>3. CASE (~\E u \in Procs : Second2(u, a)) /\ ~\E u \in Procs : Second2(u, b)
      <3>1. First1(f[a], a) /\ First1(f[b], b)
        BY <1>4, <2>3
      <3>. HIDE DEF f
      <3>. QED
        BY <1>9, <3>1
    <2>. QED
      BY <2>1, <2>2, <2>3
  <1>. HIDE DEF f
  <1>10. f \in Injection(H, Procs)
    BY <1>7, <1>9 DEF Injection, IsInjective
  <1>. QED
    BY <1>10, LogAssumption, FS_Injection

\* A cache that has more buffers than the log has blocks and the system has
\* processes can recycle one.
LEMMA RoomInCache ==
    ASSUME Types, Control, Cache, Data, NBUF > LOGSIZE + Cardinality(Procs), NEW t \in Procs, th[t].pc = "bget"
    PROVE  Recyclable # {}
  <1> SUFFICES ASSUME Recyclable = {} PROVE FALSE
    OBVIOUS
  <1> DEFINE D == {b \in Bufs : buf[b].dirty /\ buf[b].blockno \in Home}
             H == {b \in Bufs : Holders(b) # {}}
  <1>1. IsFiniteSet(D) /\ Cardinality(D) <= LOGSIZE
    BY FewDirty
  <1>2. IsFiniteSet(H) /\ Cardinality(H) <= Cardinality(Procs)
    BY FewHeld
  <1>3. ASSUME NEW b \in Bufs PROVE b \in D \cup H
    <2>1. buf[b].refcnt # 0 \/ buf[b].dirty
      BY DEF Recyclable
    <2>2. buf[b].refcnt = Cardinality(Holders(b))
      BY DEF Cache, Counted
    <2>3. buf[b].refcnt # 0 => b \in H
      BY <2>2, FS_EmptySet
    <2>4. (buf[b].dirty /\ buf[b].blockno \notin Home) => b \in Queued
      BY DEF Data
    <2>5. b \in Queued => b \in H
      <3> SUFFICES ASSUME b \in Queued PROVE b \in H
        OBVIOUS
      <3>1. \E u \in Procs : u \in Holders(b)
        BY QueuedIsHeld
      <3>. QED
        BY <3>1
    <2>. QED
      BY <2>1, <2>3, <2>4, <2>5
  <1>. HIDE DEF D, H
  <1>4. /\ IsFiniteSet(D \cup H)
        /\ Cardinality(D \cup H) = Cardinality(D) + Cardinality(H) - Cardinality(D \cap H)
    BY <1>1, <1>2, FS_Union
  <1>5. Cardinality(D \cap H) \in Nat /\ Cardinality(D) \in Nat /\ Cardinality(H) \in Nat /\ Cardinality(D \cup H) \in Nat
    BY <1>1, <1>2, <1>4, FS_Intersection, FS_CardinalityType
  <1>6. Bufs \subseteq D \cup H
    BY <1>3
  <1>7. NBUF \in Nat /\ LOGSIZE \in Nat /\ Cardinality(Procs) \in Nat
    BY LogAssumption, FS_CardinalityType
  <1>8. IsFiniteSet(Bufs) /\ Cardinality(Bufs) = NBUF
    BY <1>7, FS_Interval DEF Bufs
  <1>9. Cardinality(Bufs) <= Cardinality(D \cup H)
    BY <1>4, <1>6, FS_Subset
  <1>. QED
    BY <1>1, <1>2, <1>4, <1>5, <1>7, <1>8, <1>9

\* Steps that do not panic
OtherPanic == panic' \in {panic, "none"}

\* Only bget, log_write and end_op panic.
LEMMA PanicSteps ==
    ASSUME [Next]_vars
    PROVE  OtherPanic \/ \E t \in Procs : bget(t) \/ LogCheck(t) \/ end_op(t)
  <1>1. CASE UNCHANGED vars
    BY <1>1 DEF vars, memVars, OtherPanic
  <1>2. ASSUME NEW t \in Procs, Step(t) \/ CallBegin(t) \/ CallRead(t), ~(bget(t) \/ LogCheck(t) \/ end_op(t))
        PROVE  OtherPanic
    <2>1. panic' = panic
      BY <1>2 DEF Step, Lock, DiskDone, begin_op, NextBlock, log_write, Committed, Loop, First, Second, Copied, ReadHead,
                  WriteHead, Headed, EndRead, CallBegin, CallRead
    <2>. QED
      BY <2>1 DEF OtherPanic
  <1>3. CASE ideintr \/ Crash
    BY <1>3 DEF ideintr, Crash, OtherPanic
  <1>. QED
    BY <1>1, <1>2, <1>3 DEF Next

\* The list of blocks fits in the log on disk, with the blocks to spare that
\* an operation reserved and did not write.
Room(s) == s = <<>> \/ Len(s) + Spare <= LOGSIZE
InRegion == Room(log.lh) /\ Room(disk[Header])

\* A block that log_write adds was reserved.
LEMMA RoomToWrite ==
    ASSUME Types, Control, NEW t \in Procs, t \in inop
    PROVE  Room(log.lh)
  <1>1. th[t].left \in Nat
    BY ThreadType
  <1>2. Spare \in Nat /\ Spare <= MAXOPBLOCKS /\ LOGSIZE \in Nat /\ MAXOPBLOCKS \in Nat
    BY LogAssumption DEF Spare
  <1>. DEFINE R == {t} \X (1..Spare)
  <1>3. \A n \in 1..Spare : n \in 1..MAXOPBLOCKS /\ n <= th[t].left + Spare
    BY <1>1, <1>2
  <1>4. R \subseteq Reserved
    BY <1>3 DEF Reserved
  <1>5. Cardinality(R) = Spare
    <2>1. IsFiniteSet({t}) /\ Cardinality({t}) = 1
      BY FS_Singleton
    <2>2. IsFiniteSet(1..Spare) /\ Cardinality(1..Spare) = Spare
      BY <1>2, FS_Interval
    <2>3. Cardinality(R) = Cardinality({t}) * Cardinality(1..Spare)
      BY <2>1, <2>2, FS_Product
    <2>. QED
      BY <1>2, <2>1, <2>2, <2>3
  <1>. HIDE DEF R
  <1>6. IsFiniteSet(Reserved) /\ Cardinality(Reserved) \in Nat
    <2>1. Reserved \in SUBSET (inop \X (1..MAXOPBLOCKS))
      BY DEF Reserved
    <2>. QED
      BY <2>1, InopFinite, ReservedIsSmall
  <1>7. Cardinality(R) <= Cardinality(Reserved)
    BY <1>4, <1>6, FS_Subset
  <1>8. Len(log.lh) + Cardinality(Reserved) <= LOGSIZE /\ log.lh \in Seq(Home)
    BY DEF Control, Types
  <1>9. Len(log.lh) \in Nat
    BY <1>8
  <1>. QED
    BY <1>2, <1>5, <1>6, <1>7, <1>8, <1>9 DEF Room

\* So there is room while an operation runs.
InOpHasRoom == \A t \in inop : Room(log.lh)

\* The reservations see to that.
LEMMA OpsHaveRoom == Inv => InOpHasRoom
  BY RoomToWrite DEF Inv, InOpHasRoom, Types

\* What the disk writes to the header is the list in memory.
LEMMA HeaderData ==
    ASSUME Types, Control, Cache, Data, NEW b \in Queued, buf[b].dirty, buf[b].blockno = Header
    PROVE  buf[b].data = log.lh
  <1> DEFINE u == buf[b].owner
             k == th[u].tail + 1
  <1>1. u \in Procs /\ Job(u) \in Flushes /\ Target(th[u]) = b
    BY DEF Cache, QueuedFor
  <1>2. /\ Job(u) = "copied" => th[u].stage \in {"writelog", "install"}
        /\ Job(u) = "headed" => th[u].stage \in {"head", "clear"}
    BY <1>1, FlusherHolds
  <1>3. LOGSIZE \in Nat /\ Len(log.lh) <= LOGSIZE /\ log.lh \in Seq(Home)
    BY LogAssumption DEF Control, BlockList
  <1>. HIDE DEF u
  <1>4. Job(u) # "copied"
    <2>1. CASE th[u].stage = "writelog"
      <3>1. Job(u) = "copied" => buf[b].blockno = LogBlock(k) /\ k \in 1..LOGSIZE
        BY <1>1, <2>1, BlockOfTarget
      <3>. HIDE DEF k
      <3>. QED
        BY <3>1, BlockKinds
    <2>2. CASE th[u].stage = "install"
      <3>1. Job(u) = "copied" => buf[b].blockno = log.lh[k] /\ k \in 1..Len(log.lh)
        BY <1>1, <2>2, BlockOfTarget
      <3>. HIDE DEF k
      <3>2. \A j \in 1..Len(log.lh) : log.lh[j] \in Home
        BY <1>3
      <3>. QED
        BY <3>1, <3>2, BlockKinds
    <2>. QED
      BY <1>2, <2>1, <2>2
  <1>5. Job(u) = "headed"
    BY <1>1, <1>4 DEF Flushes
  <1>6. b = th[u].held[1]
    BY <1>1, <1>2, <1>5, BlockOfTarget
  <1>. QED
    BY <1>1, <1>5, <1>6 DEF Data

\* Only log_write makes the list of blocks longer; recovery takes it from disk,
\* and a commit puts it there.
LEMMA ListSteps ==
    ASSUME Inv, [Next]_vars
    PROVE  /\ (log'.lh \in {log.lh, <<>>, disk[Header]}) \/ (\E t \in inop : inop' = inop /\ log_write(t))
           /\ disk'[Header] \in {disk[Header], log.lh}
  <1>0. Types /\ Control /\ Cache /\ Data
    BY DEF Inv
  <1>. DEFINE Goal == /\ (log'.lh \in {log.lh, <<>>, disk[Header]}) \/ (\E t \in inop : inop' = inop /\ log_write(t))
                      /\ disk'[Header] \in {disk[Header], log.lh}
  <1>1. CASE UNCHANGED vars
    BY <1>1 DEF vars, memVars
  <1>2. ASSUME NEW t \in Procs, Step(t) \/ CallBegin(t) \/ CallRead(t) PROVE Goal
    <2>1. disk' = disk
      BY <1>2 DEF Step, bget, Lock, DiskDone, begin_op, NextBlock, LogCheck, log_write, end_op, Committed, Loop, First, Second,
                  Copied, ReadHead, WriteHead, Headed, EndRead, CallBegin, CallRead
    <2>2. CASE log_write(t)
      <3>1. th[t].pc = "append" /\ inop' = inop
        BY <2>2 DEF log_write, Running
      <3>2. t \in inop
        BY <1>0, <3>1 DEF Control, Job, JobOf
      <3>. QED
        BY <2>1, <2>2, <3>1, <3>2
    <2>3. CASE ReadHead(t)
      <3>1. th[t].pc = "head" /\ th[t].stage = "readhead" /\ log' = [log EXCEPT !.lh = buf[th[t].held[1]].data]
        BY <2>3 DEF ReadHead, Running
      <3>2. buf[th[t].held[1]].data = disk[Header]
        BY <3>1, HeaderRead DEF Inv
      <3>3. log'.lh = disk[Header]
        BY <1>0, <3>1, <3>2 DEF Types
      <3>. QED
        BY <2>1, <3>3
    <2>4. CASE ~log_write(t) /\ ~ReadHead(t)
      <3>1. \/ log' = log
            \/ log' = [log EXCEPT !.outstanding = @ + 1]
            \/ log' = [log EXCEPT !.outstanding = @ - 1, !.committing = MustCommit]
            \/ log' = [log EXCEPT !.committing = FALSE]
            \/ log' = [log EXCEPT !.lh = <<>>]
        BY <1>2, <2>4 DEF Step, bget, Lock, DiskDone, begin_op, NextBlock, LogCheck, end_op, Committed, Loop, First, Second,
                  Copied, WriteHead, Headed, EndRead, CallBegin, CallRead, Panic
      <3>2. log'.lh \in {log.lh, <<>>}
        BY <1>0, <3>1 DEF Types
      <3>. QED
        BY <2>1, <3>2
    <2>. QED
      BY <2>2, <2>3, <2>4
  <1>3. CASE ideintr
    <2> DEFINE b == Head(idequeue)
    <2>1. /\ b \in Queued /\ b \in Bufs /\ log' = log
          /\ \A x \in Blocks : disk'[x] = IF buf[b].dirty /\ x = buf[b].blockno THEN buf[b].data ELSE disk[x]
      BY <1>0, <1>3, IdeintrEffect
    <2>. HIDE DEF b
    <2>2. Header \in Blocks
      BY BlockKinds
    <2>3. CASE ~(buf[b].dirty /\ buf[b].blockno = Header)
      BY <2>1, <2>2, <2>3
    <2>4. CASE buf[b].dirty /\ buf[b].blockno = Header
      <3>1. buf[b].data = log.lh
        BY <1>0, <2>1, <2>4, HeaderData
      <3>. QED
        BY <2>1, <2>2, <3>1
    <2>. QED
      BY <2>3, <2>4
  <1>4. CASE Crash
    <2>1. log'.lh = <<>> /\ disk' = disk
      BY <1>4 DEF Crash, FreshLog
    <2>. QED
      BY <2>1
  <1>. QED
    BY <1>1, <1>2, <1>3, <1>4 DEF Next

\* The list of blocks stays within the log on disk.
LEMMA RegionKept ==
    ASSUME Inv, InRegion, [Next]_vars
    PROVE  InRegion'
  <1>1. Inv'
    BY EveryStep
  <1>2. InOpHasRoom'
    <2>1. Inv' => InOpHasRoom'
      BY OpsHaveRoom, PTL
    <2>. QED
      BY <1>1, <2>1
  <1>. QED
    BY <1>2, ListSteps DEF InOpHasRoom, InRegion, Room, Spare, Header

\* The panics that are left when the log has room for what begin_op reserves
LogPanics == panic \in {"none", "bget: no buffers"}

\* The log that mkfs makes has one block less than begin_op counts on; it is
\* enough whenever operations write less than they reserve: log_write and end_op
\* never panic, and a commit stays within the log on disk, although log_write
\* looks at the length of the log without its lock.
THEOREM LogHasRoom ==
    ASSUME nlog + (MAXOPBLOCKS - MaxWrites) > LOGSIZE
    PROVE  Spec => []/\ panic \in {"none", "bget: no buffers"}
                     /\ log.lh = <<>> \/ Len(log.lh) < nlog
  <1>1. Init => LogPanics
    BY DEF Init, LogPanics
  <1>2. Inv /\ LogPanics /\ [Next]_vars => LogPanics'
    <2> SUFFICES ASSUME Inv, LogPanics, [Next]_vars PROVE LogPanics'
      OBVIOUS
    <2>0. Types /\ Control
      BY DEF Inv
    <2>1. ASSUME NEW t \in Procs, LogCheck(t) PROVE LogPanics'
      <3>1. th[t].pc = "modify"
        BY <2>1 DEF LogCheck, Running
      <3>2. ~(Len(log.lh) >= LOGSIZE \/ Len(log.lh) >= nlog - 1) /\ ~(log.outstanding < 1)
        BY <2>0, <3>1, RoomInLog DEF Spare
      <3>3. panic' = panic
        BY <2>1, <3>2 DEF LogCheck
      <3>. QED
        BY <3>3 DEF LogPanics
    <2>2. ASSUME NEW t \in Procs, end_op(t) PROVE LogPanics'
      <3>1. th[t].pc = "work"
        BY <2>2 DEF end_op, Running
      <3>2. Job(t) = "work"
        BY <3>1 DEF Job, JobOf
      <3>3. t \in inop
        BY <2>0, <3>2 DEF Control
      <3>4. ~log.committing
        BY <2>0, <3>3, NobodyCommits
      <3>5. panic' = panic
        BY <2>2, <3>4 DEF end_op
      <3>. QED
        BY <3>5 DEF LogPanics
    <2>3. ASSUME NEW t \in Procs, bget(t) PROVE LogPanics'
      <3>1. panic' = panic \/ panic' = "bget: no buffers"
        BY <2>3 DEF bget, Panic
      <3>. QED
        BY <3>1 DEF LogPanics
    <2>4. CASE OtherPanic
      BY <2>4 DEF OtherPanic, LogPanics
    <2>. QED
      BY <2>1, <2>2, <2>3, <2>4, PanicSteps
  <1>3. Init => InRegion
    <2> SUFFICES ASSUME Init PROVE InRegion
      OBVIOUS
    <2>1. log.lh = <<>> /\ disk[Header] = <<>>
      BY LogAssumption DEF Init, FreshLog, Blank, Header
    <2>. QED
      BY <2>1 DEF InRegion, Room
  <1>4. Inv /\ InRegion /\ [Next]_vars => InRegion'
    BY RegionKept
  <1>5. Inv /\ InRegion /\ LogPanics => /\ panic \in {"none", "bget: no buffers"}
                                        /\ log.lh = <<>> \/ Len(log.lh) < nlog
    <2> SUFFICES ASSUME Inv, InRegion, log.lh # <<>> PROVE Len(log.lh) < nlog
      BY DEF LogPanics
    <2>1. Len(log.lh) + Spare <= LOGSIZE /\ log.lh \in Seq(Home)
      BY DEF InRegion, Room, Inv, Types
    <2>2. Len(log.lh) \in Nat /\ nlog \in Nat /\ LOGSIZE \in Nat /\ Spare \in Int /\ nlog + Spare > LOGSIZE
      BY <2>1, LogAssumption DEF Spare
    <2>. QED
      BY <2>1, <2>2
  <1>. QED
    BY <1>1, <1>2, <1>3, <1>4, <1>5, LogInductive, PTL DEF Spec

\* A cache with a buffer for each block of the log and each process, and one
\* more, never runs out of buffers: then the kernel does not panic at all.
THEOREM LogNoPanic ==
    ASSUME nlog + (MAXOPBLOCKS - MaxWrites) > LOGSIZE, NBUF > LOGSIZE + Cardinality(Procs)
    PROVE  Spec => []NoPanic
  <1>1. Init => NoPanic
    BY DEF Init, NoPanic
  <1>2. Inv /\ LogPanics' /\ NoPanic /\ [Next]_vars => NoPanic'
    <2> SUFFICES ASSUME Inv, LogPanics', NoPanic, [Next]_vars PROVE NoPanic'
      OBVIOUS
    <2>1. ASSUME NEW t \in Procs, bget(t) PROVE NoPanic'
      <3>1. th[t].pc = "bget"
        BY <2>1 DEF bget, Running
      <3>2. Recyclable # {}
        BY <3>1, RoomInCache DEF Inv
      <3>3. panic' = panic
        BY <2>1, <3>2 DEF bget
      <3>. QED
        BY <3>3 DEF NoPanic
    <2>2. ASSUME NEW t \in Procs, LogCheck(t) \/ end_op(t) PROVE NoPanic'
      <3>1. panic' \in {panic, "too big a transaction", "log_write outside of trans", "log.committing"}
        BY <2>2 DEF LogCheck, end_op, Panic
      <3>. QED
        BY <3>1 DEF NoPanic, LogPanics
    <2>3. CASE OtherPanic
      BY <2>3 DEF OtherPanic, NoPanic
    <2>. QED
      BY <2>1, <2>2, <2>3, PanicSteps
  <1>3. Spec => []LogPanics
    <2>1. (panic \in {"none", "bget: no buffers"} /\ (log.lh = <<>> \/ Len(log.lh) < nlog)) => LogPanics
      BY DEF LogPanics
    <2>. QED
      BY <2>1, LogHasRoom, PTL
  <1>. QED
    BY <1>1, <1>2, <1>3, LogInductive, PTL DEF Spec
=============================================================================
