------------------------------ MODULE XvSched ------------------------------
(***************************************************************************)
(* The process table and the nice-aware scheduler of cs537/P5/xv6          *)
(* (proc.c, sysproc.c, the timer case of trap.c) on one CPU, the build's   *)
(* default.                                                                *)
(*                                                                         *)
(* Everything done between acquire(&ptable.lock) and the matching release  *)
(* is one step; where the kernel gives the lock up inside an operation     *)
(* (fork between allocproc and the final state change, sleep, wait) the    *)
(* operation is several steps and a timer tick may come in between.        *)
(* Page tables are identities: which are allocated, which process runs on  *)
(* which, and the reference counts that clone and freevm keep of those     *)
(* that threads share.                                                     *)
(* Slot 0 is init.  What a process computes in user space is left out; it  *)
(* may make any system call next.                                          *)
(***************************************************************************)
EXTENDS Integers, FiniteSets

CONSTANTS NPROC,
          MinNice, MaxNice, \* -20 and 19 in the code
          MaxSleep,         \* largest argument of sleep()
          Classes           \* sets of calls: the processes of a run keep to one

ASSUME SchedAssumption ==
    /\ NPROC \in Nat \ {0} /\ MaxSleep \in Nat
    /\ MinNice \in Int /\ MaxNice \in Int /\ MinNice <= 0 /\ 0 <= MaxNice

Slots == 0..(NPROC - 1)
init == 0
None == -1

VARIABLES state, parent, killed, priority, elevated, \* fields of struct proc
          sleepticks,
          at,         \* the system call a process is in, "user" outside one
          child,      \* the slot a process in fork allocated
          asked,      \* the argument of the sleep() it is in
          elapsed,    \* ticks since that sleep() began, up to asked + 1
          running,    \* c->proc, or None while the scheduler runs
          p,          \* scheduler(): where its loop over the table stands
          startIndex, \* scheduler(): where the next priority scan starts
          pgdir,      \* the page table of a process
          live,       \* the page tables that are allocated
          uvmrefcount,\* vm.c: counts of the page tables that threads share
          entry,      \* the free entry of it that a process in clone has found
          calls       \* the class of this run

sleepVars == <<sleepticks, asked, elapsed>>
schedVars == <<running, p, startIndex>>
vmVars == <<pgdir, live, uvmrefcount, entry, calls>>
procVars == <<state, parent, killed, priority, elevated, at, child, vmVars>>
vars == <<state, parent, killed, priority, elevated, at, child,
          sleepticks, asked, elapsed, running, p, startIndex,
          pgdir, live, uvmrefcount, entry, calls>>

Pgdirs == 0..NPROC
FreeEntry == [refcount |-> -1, pgdir |-> None]

Init ==
    /\ state = [s \in Slots |-> IF s = init THEN "RUNNABLE" ELSE "UNUSED"]
    /\ parent = [s \in Slots |-> None]
    /\ killed = [s \in Slots |-> FALSE]
    /\ priority = [s \in Slots |-> 0]
    /\ elevated = [s \in Slots |-> 0]
    /\ at = [s \in Slots |-> "user"]
    /\ child = [s \in Slots |-> None]
    /\ sleepticks = [s \in Slots |-> -1]
    /\ asked = [s \in Slots |-> 0]
    /\ elapsed = [s \in Slots |-> 0]
    /\ running = None /\ p = 0 /\ startIndex = 0
    /\ pgdir = [s \in Slots |-> IF s = init THEN 0 ELSE None]
    /\ live = {0}
    /\ uvmrefcount = [i \in Slots |-> FreeEntry]
    /\ entry = [s \in Slots |-> None]
    /\ calls \in Classes

----------------------------------------------------------------------------
(* scheduler() *)

Runnable == {s \in Slots : state[s] = "RUNNABLE"}

\* the first runnable slot the loop reaches from where it stands
Reached(s) == s \in Runnable /\ s >= p /\ \A t \in Runnable : t >= p => s <= t

\* position of a slot in the scan that starts at startIndex
ScanPos(s) == (s - startIndex) % NPROC

\* Variant: the scan compares nothing and keeps the slot the loop reached.
HighPFirst(first, s) == s = first

\* "highP->elevated > p1->elevated" moves to strictly better processes only:
\* the scan ends at the slot it began with unless a better one exists, and
\* then at the best one that it meets first.
HighP(first, s) ==
    LET better == {t \in Runnable : elevated[t] < elevated[first]} IN
    IF better = {} THEN s = first
    ELSE /\ s \in better
         /\ \A t \in better : \/ elevated[s] < elevated[t]
                              \/ elevated[s] = elevated[t] /\ ScanPos(s) <= ScanPos(t)

Pick(s) ==
    /\ running = None
    /\ \E first \in Slots :
          /\ Reached(first)
          /\ HighP(first, s)
          /\ startIndex' = IF s = first THEN 0 ELSE s + 1
    /\ p' = s
    /\ running' = s
    /\ state' = [state EXCEPT ![s] = "RUNNING"]
    /\ UNCHANGED <<parent, killed, priority, elevated, at, child, sleepVars, vmVars>>

\* the loop reaches the end of the table: release the lock and start over
Restart ==
    /\ running = None /\ p # 0
    /\ \A s \in Runnable : s < p
    /\ p' = 0
    /\ UNCHANGED <<procVars, sleepVars, running, startIndex>>

\* sched(): the process gives up the CPU in state st, the loop goes on
Leave(s, st) ==
    /\ state' = [state EXCEPT ![s] = st]
    /\ running' = None
    /\ p' = p + 1
    /\ UNCHANGED startIndex

\* wakeup1(): the sleepers among who become runnable
WakeIn(st, who) ==
    [s \in Slots |-> IF s \in who /\ st[s] = "SLEEPING" THEN "RUNNABLE" ELSE st[s]]

----------------------------------------------------------------------------
(* The timer interrupt: sleep_proc_notify(), then yield() *)

OnTicks(s) == state[s] = "SLEEPING" /\ at[s] = "sleep"

\* Variant: the countdown is expected to pass zero, where it stops.
DueBelowZero(s) == OnTicks(s) /\ sleepticks[s] < 0

Due(s) == OnTicks(s) /\ sleepticks[s] = 0

\* Interrupts are off while ptable.lock is held: a tick arrives while a process
\* runs, or at the top of the scheduler's endless loop.
Tick ==
    /\ running # None \/ p = 0
    /\ state' = [s \in Slots |->
          IF s = running \/ Due(s) THEN "RUNNABLE" ELSE state[s]]
    /\ sleepticks' = [s \in Slots |->
          IF OnTicks(s) /\ sleepticks[s] # 0 THEN sleepticks[s] - 1 ELSE sleepticks[s]]
    /\ elapsed' = [s \in Slots |->
          IF at[s] = "sleep" /\ elapsed[s] <= asked[s] THEN elapsed[s] + 1 ELSE elapsed[s]]
    /\ running' = None
    /\ p' = IF running = None THEN p ELSE p + 1
    /\ UNCHANGED <<parent, killed, priority, elevated, at, child, asked, startIndex, vmVars>>

----------------------------------------------------------------------------
(* System calls of the running process s *)

InUser(s) == running = s /\ at[s] = "user" /\ ~killed[s]

\* Variant: no clamping.
clampNot(n) == n

\* sys_nice()
clamp(n) == IF n < MinNice THEN MinNice ELSE IF n > MaxNice THEN MaxNice ELSE n

Nice(s, inc) ==
    /\ InUser(s)
    /\ priority' = [priority EXCEPT ![s] = clamp(@ + inc)]
    /\ elevated' = [elevated EXCEPT ![s] = clamp(priority[s] + inc)]
    /\ UNCHANGED <<state, parent, killed, at, child, sleepVars, schedVars, vmVars>>

\* Variant: the countdown starts one too low.
SleepCallShort(s, n) ==
    /\ InUser(s)
    /\ IF n = 0
       THEN Leave(s, "RUNNABLE") /\ UNCHANGED <<at, sleepVars>>
       ELSE /\ Leave(s, "SLEEPING")
            /\ at' = [at EXCEPT ![s] = "sleep"]
            /\ sleepticks' = [sleepticks EXCEPT ![s] = n - 1]
            /\ asked' = [asked EXCEPT ![s] = n]
            /\ elapsed' = [elapsed EXCEPT ![s] = 0]
    /\ UNCHANGED <<parent, killed, priority, elevated, child, vmVars>>

\* sys_sleep(): n = 0 only yields
SleepCall(s, n) ==
    /\ InUser(s)
    /\ IF n = 0
       THEN Leave(s, "RUNNABLE") /\ UNCHANGED <<at, sleepVars>>
       ELSE /\ Leave(s, "SLEEPING")
            /\ at' = [at EXCEPT ![s] = "sleep"]
            /\ sleepticks' = [sleepticks EXCEPT ![s] = n]
            /\ asked' = [asked EXCEPT ![s] = n]
            /\ elapsed' = [elapsed EXCEPT ![s] = 0]
    /\ UNCHANGED <<parent, killed, priority, elevated, child, vmVars>>

\* back in the loop of sys_sleep after sched() returned
EndSleep(s, ticksLeft) ==
    /\ at' = [at EXCEPT ![s] = "user"]
    /\ sleepticks' = [sleepticks EXCEPT ![s] = ticksLeft]
    /\ asked' = [asked EXCEPT ![s] = 0]
    /\ elapsed' = [elapsed EXCEPT ![s] = 0]
    /\ UNCHANGED <<state, schedVars>>

SleepResume(s) ==
    /\ running = s /\ at[s] = "sleep"
    /\ IF elapsed[s] >= asked[s] THEN EndSleep(s, -1)
       ELSE IF killed[s] THEN EndSleep(s, sleepticks[s])
       ELSE Leave(s, "SLEEPING") /\ UNCHANGED <<at, sleepVars>>
    /\ UNCHANGED <<parent, killed, priority, elevated, child, vmVars>>

\* fork() and clone(): allocproc() takes the first unused slot...
FirstUnused(s) == state[s] = "UNUSED" /\ \A t \in Slots : t < s => state[t] # "UNUSED"

ForkAlloc(s, call) ==
    /\ InUser(s)
    /\ \E np \in Slots :
          /\ FirstUnused(np)
          /\ state' = [state EXCEPT ![np] = "EMBRYO"]
          /\ child' = [child EXCEPT ![s] = np]
          /\ sleepticks' = [sleepticks EXCEPT ![np] = -1]
    /\ at' = [at EXCEPT ![s] = call]
    /\ UNCHANGED <<parent, killed, priority, elevated, asked, elapsed, schedVars, vmVars>>

\* ... an allocation fails ...
ForkFail(s) ==
    /\ running = s /\ at[s] \in {"fork", "clone"}
    /\ state' = [state EXCEPT ![child[s]] = "UNUSED"]
    /\ at' = [at EXCEPT ![s] = "user"]
    /\ child' = [child EXCEPT ![s] = None]
    /\ UNCHANGED <<parent, killed, priority, elevated, sleepVars, schedVars, vmVars>>

\* ... or the child is ready to run, on page table pg
ChildReady(s, pg) ==
    /\ state' = [state EXCEPT ![child[s]] = "RUNNABLE"]
    /\ parent' = [parent EXCEPT ![child[s]] = s]
    /\ pgdir' = [pgdir EXCEPT ![child[s]] = pg]
    /\ at' = [at EXCEPT ![s] = "user", ![child[s]] = "user"]
    /\ child' = [child EXCEPT ![s] = None]
    /\ UNCHANGED <<killed, priority, elevated, sleepVars, schedVars>>

\* setupkvm(): a page table nobody has, named after slot s if that name is free
NewPgdir(s, used) == IF s \notin used THEN s ELSE CHOOSE pg \in Pgdirs \ used : TRUE

\* fork(): copyuvm() makes the child a page table of its own.
ForkDone(s) ==
    /\ running = s /\ at[s] = "fork"
    /\ ChildReady(s, NewPgdir(child[s], live))
    /\ live' = live \cup {NewPgdir(child[s], live)}
    /\ UNCHANGED <<uvmrefcount, entry, calls>>

\* clone(): the thread shares the caller's page table, which is counted from
\* the first clone on.
Located(pg) == {i \in Slots : uvmrefcount[i].refcount # -1 /\ uvmrefcount[i].pgdir = pg}

CloneCounted(s) ==
    /\ running = s /\ at[s] = "clone"
    /\ \E i \in Located(pgdir[s]) :
          uvmrefcount' = [uvmrefcount EXCEPT ![i].refcount = @ + 1]
    /\ ChildReady(s, pgdir[s])
    /\ UNCHANGED <<live, entry, calls>>

\* allocate_uvmrefcount(): a free entry is found ...
FreeEntries == {i \in Slots : uvmrefcount[i].refcount = -1}

CloneFind(s) ==
    /\ running = s /\ at[s] = "clone" /\ Located(pgdir[s]) = {}
    /\ \E i \in FreeEntries :
          /\ \A k \in FreeEntries : i <= k
          /\ entry' = [entry EXCEPT ![s] = i]
    /\ at' = [at EXCEPT ![s] = "claim"]
    /\ UNCHANGED <<state, parent, killed, priority, elevated, child, sleepVars, schedVars,
                   pgdir, live, uvmrefcount, calls>>

\* ... and filled in; there is no lock around the two.
CloneClaim(s) ==
    /\ running = s /\ at[s] = "claim"
    /\ uvmrefcount' = [uvmrefcount EXCEPT ![entry[s]] = [refcount |-> 2, pgdir |-> pgdir[s]]]
    /\ entry' = [entry EXCEPT ![s] = None]
    /\ ChildReady(s, pgdir[s])
    /\ UNCHANGED <<live, calls>>

\* Variant: the count is not looked at.
freevmAlways(pg) == [live |-> live \ {pg}, uvm |-> uvmrefcount]

\* freevm(): what is left allocated, and counted.  A page table that is shared
\* goes with the last that runs on it, and its entry is free again.
freevm(pg) ==
    LET i == CHOOSE i \in Located(pg) : TRUE
    IN  CASE Located(pg) = {} -> [live |-> live \ {pg}, uvm |-> uvmrefcount]
          [] Located(pg) # {} /\ uvmrefcount[i].refcount > 1 ->
               [live |-> live, uvm |-> [uvmrefcount EXCEPT ![i].refcount = @ - 1]]
          [] OTHER -> [live |-> live \ {pg}, uvm |-> [uvmrefcount EXCEPT ![i] = FreeEntry]]

\* exec(): the process moves to a new page table and lets go of its old one,
\* whose name the new one may get if it goes.
Exec(s) ==
    LET left == freevm(pgdir[s])
        new == NewPgdir(s, left.live)
    IN  /\ InUser(s)
        /\ pgdir' = [pgdir EXCEPT ![s] = new]
        /\ live' = left.live \cup {new}
        /\ uvmrefcount' = left.uvm
        /\ UNCHANGED <<state, parent, killed, priority, elevated, at, child,
                       sleepVars, schedVars, entry, calls>>

\* exit(): wake the parent, hand the children to init, become a zombie
Children(s) == {c \in Slots : parent[c] = s}

\* Variant: the parent is not woken.
ExitSilent(s) ==
    /\ running = s /\ at[s] = "user" /\ s # init
    /\ state' = [state EXCEPT ![s] = "ZOMBIE"]
    /\ parent' = [c \in Slots |-> IF c \in Children(s) THEN init ELSE parent[c]]
    /\ running' = None
    /\ p' = p + 1
    /\ UNCHANGED <<killed, priority, elevated, at, child, sleepVars, startIndex, vmVars>>

Exit(s) ==
    /\ running = s /\ at[s] = "user" /\ s # init
    /\ LET orphanZombie == \E c \in Children(s) : state[c] = "ZOMBIE"
           woken == {t \in Slots : at[t] = "wait" /\ (t = parent[s] \/ (orphanZombie /\ t = init))}
       IN  state' = [WakeIn(state, woken) EXCEPT ![s] = "ZOMBIE"]
    /\ parent' = [c \in Slots |-> IF c \in Children(s) THEN init ELSE parent[c]]
    /\ running' = None
    /\ p' = p + 1
    /\ UNCHANGED <<killed, priority, elevated, at, child, sleepVars, startIndex, vmVars>>

\* wait(): the scan of the table, on the call and again after each wakeup
FirstZombie(s, c) ==
    /\ c \in Children(s) /\ state[c] = "ZOMBIE"
    /\ \A d \in Children(s) : state[d] = "ZOMBIE" => c <= d

WaitCall(s) ==
    /\ InUser(s)
    /\ at' = [at EXCEPT ![s] = "wait"]
    /\ UNCHANGED <<state, parent, killed, priority, elevated, child, sleepVars, schedVars, vmVars>>

WaitReap(s) ==
    /\ running = s /\ at[s] = "wait"
    /\ \E c \in Slots :
          /\ FirstZombie(s, c)
          /\ live' = freevm(pgdir[c]).live /\ uvmrefcount' = freevm(pgdir[c]).uvm
          /\ pgdir' = [pgdir EXCEPT ![c] = None]
          /\ state' = [state EXCEPT ![c] = "UNUSED"]
          /\ parent' = [parent EXCEPT ![c] = None]
          /\ killed' = [killed EXCEPT ![c] = FALSE]
    /\ at' = [at EXCEPT ![s] = "user"]
    /\ UNCHANGED <<priority, elevated, child, sleepVars, schedVars, entry, calls>>

NoZombie(s) == \A c \in Children(s) : state[c] # "ZOMBIE"

WaitNone(s) ==
    /\ running = s /\ at[s] = "wait" /\ NoZombie(s)
    /\ Children(s) = {} \/ killed[s]
    /\ at' = [at EXCEPT ![s] = "user"]
    /\ UNCHANGED <<state, parent, killed, priority, elevated, child, sleepVars, schedVars, vmVars>>

WaitSleep(s) ==
    /\ running = s /\ at[s] = "wait" /\ NoZombie(s)
    /\ Children(s) # {} /\ ~killed[s]
    /\ Leave(s, "SLEEPING")
    /\ UNCHANGED <<parent, killed, priority, elevated, at, child, sleepVars, vmVars>>

\* kill(): a pid exists from allocproc to wait; killing init would panic
Kill(s, t) ==
    /\ InUser(s)
    /\ t # init /\ state[t] # "UNUSED"
    /\ killed' = [killed EXCEPT ![t] = TRUE]
    /\ state' = WakeIn(state, {t})
    /\ UNCHANGED <<parent, priority, elevated, at, child, sleepVars, schedVars, vmVars>>

Kernel(s) ==
    \/ SleepResume(s) \/ ForkFail(s) \/ ForkDone(s)
    \/ CloneCounted(s) \/ CloneFind(s) \/ CloneClaim(s)
    \/ WaitReap(s) \/ WaitNone(s) \/ WaitSleep(s)
    \/ (killed[s] /\ Exit(s))

User(s) ==
    \/ \E inc \in {-1, 1} : "nice" \in calls /\ Nice(s, inc)
    \/ \E n \in 0..MaxSleep : "sleep" \in calls /\ SleepCall(s, n)
    \/ \E call \in calls \cap {"fork", "clone"} : ForkAlloc(s, call)
    \/ "exec" \in calls /\ Exec(s)
    \/ WaitCall(s) \/ Exit(s)
    \/ \E t \in Slots : "kill" \in calls /\ Kill(s, t)

Next ==
    \/ Tick \/ Restart
    \/ \E s \in Slots : Pick(s) \/ Kernel(s) \/ User(s)

Spec == Init /\ [][Next]_vars

\* The CPU always does something: the scheduler loop goes on, ticks keep
\* coming, and a process in the kernel finishes what it is doing.  A process
\* in user space need never make a system call.
Fairness ==
    /\ SF_vars(Tick) /\ WF_vars(Restart) /\ WF_vars(\E s \in Slots : Pick(s))
    /\ \A s \in Slots : SF_vars(Kernel(s))

FairSpec == Spec /\ Fairness
----------------------------------------------------------------------------
(* Properties *)

ProcTypeOK ==
    /\ state \in [Slots -> {"UNUSED", "EMBRYO", "SLEEPING", "RUNNABLE", "RUNNING", "ZOMBIE"}]
    /\ parent \in [Slots -> Slots \cup {None}]
    /\ killed \in [Slots -> BOOLEAN]
    /\ priority \in [Slots -> MinNice..MaxNice]
    /\ elevated \in [Slots -> MinNice..MaxNice]
    /\ sleepticks \in [Slots -> -1..MaxSleep]
    /\ at \in [Slots -> {"user", "sleep", "fork", "clone", "claim", "wait"}]
    /\ child \in [Slots -> Slots \cup {None}]
    /\ asked \in [Slots -> 0..MaxSleep]
    /\ elapsed \in [Slots -> 0..(MaxSleep + 1)]
    /\ running \in Slots \cup {None}
    /\ p \in 0..NPROC
    /\ startIndex \in 0..NPROC

VmTypeOK ==
    /\ pgdir \in [Slots -> Pgdirs \cup {None}] /\ live \subseteq Pgdirs
    /\ uvmrefcount \in [Slots -> [refcount : -1..NPROC, pgdir : Pgdirs \cup {None}]]
    /\ entry \in [Slots -> Slots \cup {None}]

TypeOK == ProcTypeOK /\ VmTypeOK

\* instructions.md: "the scheduler must select the thread or process with the
\* lowest niceness value to run next", wherever its loop and scan stand.
RunsBest ==
    [][\A s \in Slots : (running = None /\ running' = s) =>
          \A t \in Runnable : elevated[s] <= elevated[t]]_vars

\* Every process that can still run or be waited for has a parent other than
\* itself that is alive and not a zombie, so exit() leaves nobody that no wait()
\* can find.
ParentStays ==
    \A s \in Slots \ {init} :
        state[s] \notin {"UNUSED", "EMBRYO"} =>
            /\ parent[s] # None /\ parent[s] # s
            /\ state[parent[s]] \notin {"UNUSED", "EMBRYO", "ZOMBIE"}

\* No wakeup of a parent is lost: a parent asleep in wait() has a child and no
\* zombie child.
NoMissedExit ==
    \A s \in Slots : (state[s] = "SLEEPING" /\ at[s] = "wait") =>
        Children(s) # {} /\ NoZombie(s)

\* A page table is allocated exactly while a process, thread or zombie is on it:
\* "Only free the vm if reference count for its pgdir reaches 0" (freevm), and
\* then do.
PgdirsInUse ==
    live = {pgdir[s] : s \in {t \in Slots : state[t] \notin {"UNUSED", "EMBRYO"}}}

\* sys_sleep returns early only to a killed process, and a sleeper's countdown
\* never runs past the ticks it asked for.
SleepCounts ==
    \A s \in Slots :
        /\ OnTicks(s) => sleepticks[s] + elapsed[s] = asked[s]
        /\ (at[s] = "sleep" /\ state[s] \in {"RUNNABLE", "RUNNING"} /\ ~killed[s])
              => elapsed[s] > asked[s]

\* instructions.md: among processes that "share the same lowest niceness value"
\* the scheduler is round-robin, "ensuring fair CPU time distribution among
\* them", so a process that stays among the best does get the CPU.
Best(s) == s \in Runnable /\ \A t \in Runnable : elevated[s] <= elevated[t]
NoStarvation == \A s \in Slots : []<>~Best(s)

\* A process in sleep() is woken however the others behave.
SleepersWake == \A s \in Slots : OnTicks(s) ~> ~OnTicks(s)

\* exit() and wait() together lose no child: each has a parent that can wait for
\* it, and a parent that sleeps in wait() is woken by the child it waits for.
Reapable == ParentStays /\ NoMissedExit
============================================================================
