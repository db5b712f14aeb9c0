------------------------------- MODULE XvLog -------------------------------
(***************************************************************************)
(* The storage layers of cs537/P5/xv6 below the file system: the disk      *)
(* driver's queue (ide.c), the buffer cache (bio.c) and the write-ahead    *)
(* log with group commit and recovery (log.c), with crashes at any moment. *)
(*                                                                         *)
(* What is done under a spinlock is one step.  Waiting for a buffer's      *)
(* sleep lock and for the disk is a guard; waiting in begin_op is a sleep  *)
(* that needs a wakeup.  A block is written to disk, whole, when the disk  *)
(* finishes its request: a crash before that loses it.                     *)
(*                                                                         *)
(* A process does reads and operations; an operation writes blocks         *)
(* between begin_op and end_op, all with its own number.                   *)
(***************************************************************************)
EXTENDS Integers, Sequences, FiniteSets, SequencesExt

CONSTANTS Procs, Boot,     \* Boot is the process that runs initlog
          Home,            \* numbers of the blocks the file system uses
          NBUF, LOGSIZE, MAXOPBLOCKS,
          nlog,            \* blocks of the log on disk, its header included
          MaxWrites,       \* blocks that an operation really writes
          MaxOps, MaxReads, MaxCrashes  \* bounds

Header == 0
LogBlock(i) == i
NoBlock == -1
NoProc == "no process"
Bufs == 1..NBUF

ASSUME LogAssumption ==
    /\ IsFiniteSet(Procs) /\ Boot \in Procs /\ NoProc \notin Procs
    /\ NBUF \in Nat /\ LOGSIZE \in Nat /\ nlog \in Nat
    /\ Home \subseteq Nat /\ Home \cap 0..LOGSIZE = {}
    /\ MaxWrites \in Nat /\ MAXOPBLOCKS \in Nat /\ MaxWrites <= MAXOPBLOCKS
    /\ MaxOps \in Nat /\ MaxReads \in Nat /\ MaxCrashes \in Nat

VARIABLES disk,      \* block number -> contents
          buf,       \* the buffers: [blockno, data, valid, dirty, refcnt, owner]
          mru,       \* buffer -> its place in the list, the most recently used is 1
          idequeue,  \* buffers that wait for the disk
          log,       \* [lh, outstanding, committing]
          up,        \* recovery is over
          th,        \* process -> [pc, cont, want, held, stage, tail, op, left]
          asleep,    \* processes that sleep in begin_op
          inop,      \* processes between begin_op and end_op
          panic,     \* what a kernel panic said, or "none"
          ops, reads, crashes

memVars == <<buf, mru, idequeue, log, up, th, asleep, inop, panic>>
vars == <<disk, memVars, ops, reads, crashes>>

Idle == [pc |-> "idle", cont |-> "", want |-> NoBlock, held |-> <<>>,
         stage |-> "", tail |-> 0, op |-> 0, left |-> 0]

-----------------------------------------------------------------------------
(* Memory after power on: no buffer holds a block, Boot runs initlog *)

\* Contents are sequences of numbers: of blocks in the header, the number of
\* the operation that wrote the block elsewhere.
Blank == <<>>
FreshBuf == [blockno |-> NoBlock, data |-> Blank, valid |-> FALSE, dirty |-> FALSE,
             refcnt |-> 0, owner |-> NoProc]
FreshLog == [lh |-> <<>>, outstanding |-> 0, committing |-> FALSE]
Bread(t, blk, cont) == [th EXCEPT ![t].pc = "bget", ![t].want = blk, ![t].cont = cont]

Booting(t) == IF t = Boot THEN [Idle EXCEPT !.pc = "bget", !.want = Header, !.cont = "head",
                                            !.stage = "readhead"]
              ELSE Idle

Init ==
    /\ disk = [b \in Home \cup 0..LOGSIZE |-> Blank]
    /\ buf = [b \in Bufs |-> FreshBuf]
    /\ mru = [i \in Bufs |-> i]
    /\ idequeue = <<>> /\ log = FreshLog
    /\ up = FALSE /\ th = [t \in Procs |-> Booting(t)]
    /\ asleep = {} /\ inop = {} /\ panic = "none"
    /\ ops = 0 /\ reads = 0 /\ crashes = 0

Crash ==
    /\ crashes < MaxCrashes /\ crashes' = crashes + 1
    /\ buf' = [b \in Bufs |-> FreshBuf] /\ mru' = [i \in Bufs |-> i]
    /\ idequeue' = <<>> /\ log' = FreshLog
    /\ up' = FALSE /\ th' = [t \in Procs |-> Booting(t)]
    /\ asleep' = {} /\ inop' = {} /\ panic' = "none"
    /\ UNCHANGED <<disk, ops, reads>>

-----------------------------------------------------------------------------
(* bio.c and ide.c *)

Running(t, pc) == panic = "none" /\ t \notin asleep /\ th[t].pc = pc
Panic(what) == panic' = what /\ UNCHANGED <<buf, mru, idequeue, log, up, th, asleep, inop>>
Bounds == UNCHANGED <<ops, reads, crashes>>

\* Variant: a buffer in use is recycled.
RecyclableUsed == {b \in Bufs : ~buf[b].dirty}

\* The buffers bget may recycle; it takes the least recently used one.
Recyclable == {b \in Bufs : buf[b].refcnt = 0 /\ ~buf[b].dirty}

bget(t) ==
    LET hits == {b \in Bufs : buf[b].blockno = th[t].want}
        Got(b) == /\ th' = [th EXCEPT ![t].pc = "lock", ![t].held = Append(@, b)]
                  /\ UNCHANGED <<mru, idequeue, log, up, asleep, inop, panic>>
    IN  /\ Running(t, "bget")
        /\ \/ \E b \in hits : Got(b) /\ buf' = [buf EXCEPT ![b].refcnt = @ + 1]
           \/ /\ hits = {}
              /\ IF Recyclable = {} THEN Panic("bget: no buffers")
                 ELSE \E b \in Recyclable :
                        /\ \A c \in Recyclable : mru[c] <= mru[b]
                        /\ Got(b)
                        /\ buf' = [buf EXCEPT ![b] =
                                     [FreshBuf EXCEPT !.blockno = th[t].want, !.refcnt = 1]]
        /\ Bounds /\ UNCHANGED disk

\* acquiresleep; bread asks the disk for a buffer that is not valid (iderw)
Lock(t) ==
    LET b == Last(th[t].held)
    IN  /\ Running(t, "lock") /\ buf[b].owner = NoProc
        /\ buf' = [buf EXCEPT ![b].owner = t]
        /\ idequeue' = IF buf[b].valid THEN idequeue ELSE Append(idequeue, b)
        /\ th' = [th EXCEPT ![t].pc = IF buf[b].valid THEN th[t].cont ELSE "disk"]
        /\ Bounds /\ UNCHANGED <<disk, mru, log, up, asleep, inop, panic>>

\* iderw returns: the buffer it waited for is valid and clean
InFlight(t) == {th[t].held[i] : i \in DOMAIN th[t].held} \cap ToSet(idequeue)

DiskDone(t) ==
    /\ Running(t, "disk") /\ InFlight(t) = {}
    /\ th' = [th EXCEPT ![t].pc = th[t].cont]
    /\ Bounds /\ UNCHANGED <<disk, buf, mru, idequeue, log, up, asleep, inop, panic>>

\* The disk finishes the first request.
ideintr ==
    LET b == Head(idequeue)
    IN  /\ panic = "none" /\ idequeue # <<>>
        /\ idequeue' = Tail(idequeue)
        /\ buf' = [buf EXCEPT ![b].valid = TRUE, ![b].dirty = FALSE,
                              ![b].data = IF buf[b].dirty THEN @ ELSE disk[buf[b].blockno]]
        /\ disk' = IF buf[b].dirty THEN [disk EXCEPT ![buf[b].blockno] = buf[b].data] ELSE disk
        /\ Bounds /\ UNCHANGED <<mru, log, up, th, asleep, inop, panic>>

\* The buffers and the list after t released all it holds: the ones nobody
\* waits for move to the front, the last one released to the very front. That
\* is the buffer it wrote: install_trans releases the log's buffer first,
\* write_log the home block's.
Released(t) == {th[t].held[i] : i \in DOMAIN th[t].held}
AfterRelease(f, t) ==
    [b \in Bufs |-> IF b \in Released(t)
                    THEN [f[b] EXCEPT !.refcnt = @ - 1, !.owner = NoProc] ELSE f[b]]
ToFront(places, b) ==
    IF buf[b].refcnt # 1 THEN places
    ELSE [c \in Bufs |-> IF c = b THEN 1
                         ELSE IF places[c] < places[b] THEN places[c] + 1 ELSE places[c]]
ListAfterRelease(t) ==
    LET a == th[t].held[1]  z == Last(th[t].held)
    IN  IF Len(th[t].held) = 1 THEN ToFront(mru, a)
        ELSE IF th[t].stage = "writelog" THEN ToFront(ToFront(mru, z), a)
        ELSE ToFront(ToFront(mru, a), z)

\* bwrite: mark the buffer dirty and hand it to the disk (iderw)
Bwrite(t, b, data, cont) ==
    /\ buf' = [buf EXCEPT ![b].data = data, ![b].dirty = TRUE]
    /\ idequeue' = Append(idequeue, b)
    /\ th' = [th EXCEPT ![t].pc = "disk", ![t].cont = cont]

-----------------------------------------------------------------------------
(* log.c: operations *)

CallBegin(t) ==
    /\ Running(t, "idle") /\ up /\ ops < MaxOps
    /\ ops' = ops + 1
    /\ th' = [th EXCEPT ![t].pc = "begin", ![t].op = ops + 1, ![t].left = MaxWrites]
    /\ UNCHANGED <<disk, buf, mru, idequeue, log, up, asleep, inop, panic, reads, crashes>>

NoSpace == Len(log.lh) + (log.outstanding + 1) * MAXOPBLOCKS > LOGSIZE

begin_op(t) ==
    /\ Running(t, "begin")
    /\ \/ /\ log.committing \/ NoSpace
          /\ asleep' = asleep \cup {t}
          /\ UNCHANGED <<log, th, inop>>
       \/ /\ ~log.committing /\ ~NoSpace
          /\ log' = [log EXCEPT !.outstanding = @ + 1]
          /\ th' = [th EXCEPT ![t].pc = "work"]
          /\ inop' = inop \cup {t}
          /\ UNCHANGED asleep
    /\ Bounds /\ UNCHANGED <<disk, buf, mru, idequeue, up, panic>>

\* The operation reads the next block it will change ...
NextBlock(t) ==
    /\ Running(t, "work") /\ th[t].left > 0
    /\ \E blk \in Home : th' = Bread(t, blk, "modify")
    /\ Bounds /\ UNCHANGED <<disk, buf, mru, idequeue, log, up, asleep, inop, panic>>

\* ... and calls log_write, which looks at the length of the log before it takes
\* log.lock.
LogCheck(t) ==
    /\ Running(t, "modify")
    /\ IF Len(log.lh) >= LOGSIZE \/ Len(log.lh) >= nlog - 1
       THEN Panic("too big a transaction")
       ELSE IF log.outstanding < 1 THEN Panic("log_write outside of trans")
       ELSE /\ th' = [th EXCEPT ![t].pc = "append"]
            /\ UNCHANGED <<buf, mru, idequeue, log, up, asleep, inop, panic>>
    /\ Bounds /\ UNCHANGED disk

\* The rest of log_write, under log.lock, with the change of the block, which
\* the buffer's lock hides until then, and brelse.
Absorbed(blk) == IF blk \in ToSet(log.lh) THEN log.lh ELSE Append(log.lh, blk)

log_write(t) ==
    LET b == th[t].held[1]
    IN  /\ Running(t, "append")
        /\ log' = [log EXCEPT !.lh = Absorbed(buf[b].blockno)]
        /\ buf' = AfterRelease([buf EXCEPT ![b].data = <<th[t].op>>, ![b].dirty = TRUE], t)
        /\ mru' = ListAfterRelease(t)
        /\ th' = [th EXCEPT ![t].pc = "work", ![t].held = <<>>, ![t].left = @ - 1]
        /\ Bounds /\ UNCHANGED <<disk, idequeue, up, asleep, inop, panic>>

\* The last operation commits; the others leave that to it.
MustCommit == log.outstanding = 1

end_op(t) ==
    LET last == MustCommit
    IN  /\ Running(t, "work")
        /\ IF log.committing THEN Panic("log.committing")
           ELSE /\ log' = [log EXCEPT !.outstanding = @ - 1, !.committing = last]
                /\ asleep' = IF last THEN asleep ELSE {}
                /\ inop' = inop \ {t}
                /\ th' = [th EXCEPT ![t] = IF ~last THEN Idle
                            ELSE IF log.lh = <<>> THEN [Idle EXCEPT !.pc = "committed"]
                            ELSE [Idle EXCEPT !.pc = "loop", !.stage = "writelog"]]
                /\ UNCHANGED <<buf, mru, idequeue, up, panic>>
        /\ Bounds /\ UNCHANGED disk

\* Variant: without the wakeup.
CommittedSilent(t) ==
    /\ Running(t, "committed")
    /\ log' = [log EXCEPT !.committing = FALSE]
    /\ th' = [th EXCEPT ![t] = Idle]
    /\ Bounds /\ UNCHANGED <<disk, buf, mru, idequeue, up, asleep, inop, panic>>

\* end_op after commit()
Committed(t) ==
    /\ Running(t, "committed")
    /\ log' = [log EXCEPT !.committing = FALSE]
    /\ asleep' = {}
    /\ th' = [th EXCEPT ![t] = Idle]
    /\ Bounds /\ UNCHANGED <<disk, buf, mru, idequeue, up, inop, panic>>

-----------------------------------------------------------------------------
(* log.c: commit and recover_from_log, stage by stage *)

\* Variant: the blocks are installed without the header that commits them.
NextStageNoHead(stage) ==
    CASE stage \in {"readhead", "writelog", "head"} -> "install"
      [] stage = "install" -> "clear"
      [] stage = "clear" -> "done"

\* What follows a stage.
NextStage(stage) ==
    CASE stage = "readhead" -> "install"
      [] stage = "writelog" -> "head"
      [] stage = "head" -> "install"
      [] stage = "install" -> "clear"
      [] stage = "clear" -> "done"

\* The process enters a stage: write_head begins with bread of the header; the
\* last stage has set log.lh.n to 0 before.
Enter(t, stage) ==
    /\ th' = [th EXCEPT ![t] =
                CASE stage \in {"head", "clear"} ->
                        [Idle EXCEPT !.pc = "bget", !.want = Header, !.cont = "head", !.stage = stage]
                  [] stage \in {"writelog", "install"} -> [Idle EXCEPT !.pc = "loop", !.stage = stage]
                  [] stage = "done" -> IF up THEN [Idle EXCEPT !.pc = "committed"] ELSE Idle]
    /\ up' = (up \/ stage = "done")

\* write_log and install_trans: the next block of the log, or the next stage
Loop(t) ==
    LET more == th[t].tail < Len(log.lh)
        next == NextStage(th[t].stage)
    IN  /\ Running(t, "loop")
        /\ \/ /\ more
              /\ th' = [Bread(t, LogBlock(th[t].tail + 1), "first") EXCEPT ![t].held = <<>>]
              /\ UNCHANGED <<log, up>>
           \/ /\ ~more /\ Enter(t, next)
              /\ log' = IF next = "clear" THEN [log EXCEPT !.lh = <<>>] ELSE log
        /\ Bounds /\ UNCHANGED <<disk, buf, mru, idequeue, asleep, inop, panic>>

First(t) ==
    /\ Running(t, "first")
    /\ th' = Bread(t, log.lh[th[t].tail + 1], "second")
    /\ Bounds /\ UNCHANGED <<disk, buf, mru, idequeue, log, up, asleep, inop, panic>>

\* Both blocks are here: write_log copies the second to the first, the block of
\* the log; install_trans the first to the second, the block in its place.
Second(t) ==
    LET logged == th[t].held[1]  home == th[t].held[2]
    IN  /\ Running(t, "second")
        /\ IF th[t].stage = "writelog" THEN Bwrite(t, logged, buf[home].data, "copied")
           ELSE Bwrite(t, home, buf[logged].data, "copied")
        /\ Bounds /\ UNCHANGED <<disk, mru, log, up, asleep, inop, panic>>

Copied(t) ==
    /\ Running(t, "copied")
    /\ buf' = AfterRelease(buf, t) /\ mru' = ListAfterRelease(t)
    /\ th' = [th EXCEPT ![t].pc = "loop", ![t].held = <<>>, ![t].tail = @ + 1]
    /\ Bounds /\ UNCHANGED <<disk, idequeue, log, up, asleep, inop, panic>>

\* read_head takes the header over; write_head writes it.
ReadHead(t) ==
    /\ Running(t, "head") /\ th[t].stage = "readhead"
    /\ log' = [log EXCEPT !.lh = buf[th[t].held[1]].data]
    /\ buf' = AfterRelease(buf, t) /\ mru' = ListAfterRelease(t)
    /\ Enter(t, NextStage("readhead"))
    /\ Bounds /\ UNCHANGED <<disk, idequeue, asleep, inop, panic>>

WriteHead(t) ==
    /\ Running(t, "head") /\ th[t].stage # "readhead"
    /\ Bwrite(t, th[t].held[1], log.lh, "headed")
    /\ Bounds /\ UNCHANGED <<disk, mru, log, up, asleep, inop, panic>>

Headed(t) ==
    /\ Running(t, "headed")
    /\ buf' = AfterRelease(buf, t) /\ mru' = ListAfterRelease(t)
    /\ Enter(t, NextStage(th[t].stage))
    /\ Bounds /\ UNCHANGED <<disk, idequeue, log, asleep, inop, panic>>

-----------------------------------------------------------------------------
(* A read of the file system outside an operation *)

CallRead(t) ==
    /\ Running(t, "idle") /\ up /\ reads < MaxReads
    /\ reads' = reads + 1
    /\ \E blk \in Home : th' = Bread(t, blk, "read")
    /\ UNCHANGED <<disk, buf, mru, idequeue, log, up, asleep, inop, panic, ops, crashes>>

EndRead(t) ==
    /\ Running(t, "read")
    /\ buf' = AfterRelease(buf, t) /\ mru' = ListAfterRelease(t)
    /\ th' = [th EXCEPT ![t] = Idle]
    /\ Bounds /\ UNCHANGED <<disk, idequeue, log, up, asleep, inop, panic>>

Step(t) ==
    \/ bget(t) \/ Lock(t) \/ DiskDone(t)
    \/ begin_op(t) \/ NextBlock(t) \/ LogCheck(t) \/ log_write(t)
    \/ end_op(t) \/ Committed(t)
    \/ Loop(t) \/ First(t) \/ Second(t) \/ Copied(t)
    \/ ReadHead(t) \/ WriteHead(t) \/ Headed(t) \/ EndRead(t)

Next ==
    \/ \E t \in Procs : Step(t) \/ CallBegin(t) \/ CallRead(t)
    \/ ideintr \/ Crash

Spec == Init /\ [][Next]_vars

\* Processes in the kernel go on and the disk answers.
Fairness == (\A t \in Procs : WF_vars(Step(t))) /\ WF_vars(ideintr)
FairSpec == Spec /\ Fairness

-----------------------------------------------------------------------------
(* Properties *)

\* Type invariant of disk, cache, log and processes.
TypeOK ==
    /\ \A b \in Bufs : /\ buf[b].blockno \in Home \cup 0..LOGSIZE \cup {NoBlock}
                       /\ buf[b].refcnt \in 0..Cardinality(Procs)
                       /\ buf[b].owner \in Procs \cup {NoProc}
    /\ mru \in [Bufs -> Bufs] /\ \A a, b \in Bufs : mru[a] = mru[b] => a = b
    /\ ToSet(idequeue) \subseteq Bufs
    /\ ToSet(log.lh) \subseteq Home /\ log.outstanding \in 0..Cardinality(Procs)
    /\ asleep \subseteq Procs /\ inop \subseteq Procs

\* What recovery makes of a disk: the blocks the header names come from the log.
Recovered(d) ==
    [b \in Home |-> IF b \in ToSet(d[Header])
                    THEN d[LogBlock(CHOOSE i \in DOMAIN d[Header] : d[Header][i] = b)]
                    ELSE d[b]]

\* The blocks as system calls see them: the cached copy before the disk's
Seen ==
    [b \in Home |-> IF ~up THEN Recovered(disk)[b]
                    ELSE LET c == {i \in Bufs : buf[i].blockno = b /\ buf[i].valid}
                         IN  IF c = {} THEN disk[b] ELSE buf[CHOOSE i \in c : TRUE].data]

Atomic == INSTANCE AtomicDisk WITH Callers <- Procs, Contents <- {<<n>> : n \in 1..MaxOps},
              view <- Seen, durable <- Recovered(disk), active <- inop

\* Cache, log, commit and recovery together are a disk whose operations become
\* durable as a whole: a crash at any moment, in the middle of write_log, of
\* install_trans or of an earlier recovery, loses a group of operations
\* completely or not at all.
IsAtomicDisk == Atomic!Spec

\* bio.c: "Only one process at a time can use a buffer", and there is one
\* buffer for a block: no two buffers have the same block, and the list never
\* recycles one that a process counts on or that the log has not installed.
OneBuffer ==
    /\ \A a, b \in Bufs : (a # b /\ buf[a].blockno = buf[b].blockno) => buf[a].blockno = NoBlock
    /\ \A t \in Procs : \A i \in DOMAIN th[t].held :
        \/ buf[th[t].held[i]].owner = t
        \/ th[t].pc = "lock" /\ i = Len(th[t].held)
    /\ \A b \in Bufs :
        buf[b].refcnt = Cardinality({t \in Procs : b \in ToSet(th[t].held)})

\* The blocks that begin_op reserves keep the list of blocks within the header's
\* array, although log_write looks at its length without the lock.
LogFits == Len(log.lh) <= LOGSIZE

\* With a log and a cache of these sizes no operation of the file system makes
\* the kernel panic, although the log has room for one block less than begin_op
\* counts on.
NoPanic == panic = "none"

\* Everyone who waits in begin_op, for a buffer or for the disk gets on: every
\* operation, its commit included, every read and every recovery ends, and
\* none ends in a panic.
OpEnds == []NoPanic /\ \A t \in Procs : th[t].pc # "idle" ~> th[t].pc = "idle"

\* Cache and log keep their invariants through every interleaving and crash.
CacheSafe == TypeOK /\ OneBuffer /\ LogFits
=============================================================================
