---------------------------- MODULE XvSchedProofs ----------------------------
(***************************************************************************)
(* The process table for every number of slots, range of nice values and   *)
(* class of programs.                                                      *)
(***************************************************************************)
EXTENDS XvSched, FiniteSetTheorems, TLAPS

\* One CPU: the scheduler's loop stands at the process that runs, and no other
\* process is in state RUNNING.
OneRuns ==
    /\ running # None => p = running
    /\ \A s \in Slots : state[s] = "RUNNING" <=> s = running

Forking(s) == at[s] \in {"fork", "clone", "claim"}

\* The slot a process allocated in fork or clone stays its own until the child is
\* ready; processes that are not alive are in no system call.
Embryos ==
    /\ \A s \in Slots :
          /\ Forking(s) => child[s] \in Slots /\ state[child[s]] = "EMBRYO"
          /\ state[s] \in {"UNUSED", "EMBRYO", "ZOMBIE"} => at[s] = "user"
    /\ \A s, t \in Slots : Forking(s) /\ Forking(t) /\ s # t => child[s] # child[t]

\* SleepCounts, and that the countdown of a sleeper has not passed zero.
Countdown ==
    /\ SleepCounts
    /\ \A s \in Slots : OnTicks(s) => sleepticks[s] >= 0

CpuInv == ProcTypeOK /\ OneRuns /\ Embryos /\ Countdown

------------------------------------------------------------------------------

\* Slot numbers, as far as the proofs need them.
LEMMA SlotFacts ==
  /\ init \in Slots /\ init = 0 /\ None \notin Slots
  /\ \A s \in Slots : s \in 0..NPROC /\ s + 1 \in 0..NPROC
  /\ 0 \in 0..NPROC
  BY SchedAssumption DEF Slots, init, None

\* The nice values of sys_nice stay in range.
LEMMA ClampInRange == \A n \in Int : clamp(n) \in MinNice..MaxNice
  BY SchedAssumption DEF clamp

\* The table starts with init alone, runnable.
LEMMA CpuInit == Init => CpuInv
  BY SchedAssumption, SlotFacts
  DEF Init, CpuInv, ProcTypeOK, OneRuns, Embryos, Forking, Countdown, SleepCounts, OnTicks, None

\* Every step keeps the fields in range and one process on the CPU.
LEMMA CpuStep == CpuInv /\ [Next]_vars => CpuInv'
<1> SUFFICES ASSUME CpuInv, [Next]_vars PROVE CpuInv'
  OBVIOUS
<1> USE SchedAssumption, SlotFacts
    DEF CpuInv, ProcTypeOK, OneRuns, Embryos, Forking, Countdown, SleepCounts, OnTicks,
        sleepVars, schedVars, vmVars, procVars
<1>1. ASSUME Tick PROVE CpuInv'
  BY <1>1 DEF Tick, Due
<1>2. ASSUME Restart PROVE CpuInv'
  BY <1>2 DEF Restart
<1>3. ASSUME NEW s \in Slots, Pick(s) PROVE CpuInv'
  BY <1>3 DEF Pick, Reached, HighP, Runnable
<1>4. ASSUME NEW s \in Slots, SleepResume(s) PROVE CpuInv'
  <2>1. CASE elapsed[s] >= asked[s]
    BY <1>4, <2>1 DEF SleepResume, EndSleep
  <2>2. CASE ~(elapsed[s] >= asked[s]) /\ killed[s]
    BY <1>4, <2>2 DEF SleepResume, EndSleep
  <2>3. CASE ~(elapsed[s] >= asked[s]) /\ ~killed[s]
    BY <1>4, <2>3 DEF SleepResume
  <2> QED
    BY <2>1, <2>2, <2>3
<1>5. ASSUME NEW s \in Slots, ForkFail(s) PROVE CpuInv'
  BY <1>5 DEF ForkFail
<1>6. ASSUME NEW s \in Slots, ForkDone(s) PROVE CpuInv'
  BY <1>6 DEF ForkDone, ChildReady
<1>7. ASSUME NEW s \in Slots, CloneCounted(s) PROVE CpuInv'
  BY <1>7 DEF CloneCounted, ChildReady
<1>8. ASSUME NEW s \in Slots, CloneFind(s) PROVE CpuInv'
  BY <1>8 DEF CloneFind
<1>9. ASSUME NEW s \in Slots, CloneClaim(s) PROVE CpuInv'
  BY <1>9 DEF CloneClaim, ChildReady
<1>10. ASSUME NEW s \in Slots, WaitReap(s) PROVE CpuInv'
  BY <1>10 DEF WaitReap, FirstZombie
<1>11. ASSUME NEW s \in Slots, WaitNone(s) PROVE CpuInv'
  BY <1>11 DEF WaitNone
<1>12. ASSUME NEW s \in Slots, WaitSleep(s) PROVE CpuInv'
  BY <1>12 DEF WaitSleep, Leave
<1>13. ASSUME NEW s \in Slots, Exit(s) PROVE CpuInv'
  BY <1>13 DEF Exit, WakeIn
<1>14. ASSUME NEW s \in Slots, NEW inc \in {-1, 1}, Nice(s, inc) PROVE CpuInv'
  BY <1>14, ClampInRange DEF Nice, InUser
<1>15. ASSUME NEW s \in Slots, NEW n \in 0..MaxSleep, SleepCall(s, n) PROVE CpuInv'
  <2>1. p + 1 \in 0..NPROC
    BY <1>15 DEF SleepCall, InUser
  <2>2. CASE n = 0
    <3>1. UNCHANGED <<at, sleepVars, parent, killed, priority, elevated, child>>
          /\ Leave(s, "RUNNABLE")
      BY <1>15, <2>2 DEF SleepCall
    <3>2. ProcTypeOK'
      BY <3>1, <2>1 DEF Leave
    <3>3. OneRuns'
      BY <3>1, <1>15 DEF Leave, SleepCall, InUser
    <3>4. Embryos'
      BY <3>1, <1>15 DEF Leave, SleepCall, InUser
    <3>5. Countdown'
      BY <3>1, <1>15 DEF Leave, SleepCall, InUser
    <3> QED
      BY <3>2, <3>3, <3>4, <3>5
  <2>3. CASE n # 0
    <3>1. /\ state[s] = "RUNNING" /\ child' = child
          /\ at' = [at EXCEPT ![s] = "sleep"]
          /\ state' = [state EXCEPT ![s] = "SLEEPING"]
      BY <1>15, <2>3 DEF SleepCall, InUser, Leave
    <3>2. ProcTypeOK'
      BY <1>15, <2>3, <2>1 DEF Leave, SleepCall
    <3>3. OneRuns'
      BY <2>3, <1>15 DEF Leave, SleepCall, InUser
    <3>4. Embryos'
      BY <3>1
    <3>5. Countdown'
      BY <2>3, <1>15 DEF Leave, SleepCall, InUser
    <3> QED
      BY <3>2, <3>3, <3>4, <3>5
  <2> QED
    BY <2>2, <2>3
<1>16. ASSUME NEW s \in Slots, NEW call \in {"fork", "clone"}, ForkAlloc(s, call) PROVE CpuInv'
  BY <1>16 DEF ForkAlloc, InUser, FirstUnused
<1>17. ASSUME NEW s \in Slots, Exec(s) PROVE CpuInv'
  BY <1>17 DEF Exec, InUser
<1>18. ASSUME NEW s \in Slots, WaitCall(s) PROVE CpuInv'
  BY <1>18 DEF WaitCall, InUser
<1>19. ASSUME NEW s \in Slots, NEW t \in Slots, Kill(s, t) PROVE CpuInv'
  BY <1>19 DEF Kill, InUser, WakeIn
<1>20. CASE UNCHANGED vars
  BY <1>20 DEF vars
<1> QED
  BY <1>1, <1>2, <1>3, <1>4, <1>5, <1>6, <1>7, <1>8, <1>9, <1>10, <1>11, <1>12, <1>13,
     <1>14, <1>15, <1>16, <1>17, <1>18, <1>19, <1>20
  DEF Next, Kernel, User

\* A sleep() ends early only for a killed process, and the countdown of a sleeper
\* agrees with the ticks that have passed, for every table and every sleep.
THEOREM SchedSleepCounts == Spec => []SleepCounts
<1>1. CpuInv => SleepCounts
  BY DEF CpuInv, Countdown
<1> QED
  BY CpuInit, CpuStep, <1>1, PTL DEF Spec

------------------------------------------------------------------------------
(* The scheduler picks the best *)

\* Whatever slot the loop has reached and wherever the scan starts, the scan ends
\* at a runnable process that no runnable process is better than.
LEMMA HighPIsBest ==
  ASSUME ProcTypeOK, NEW first \in Slots, NEW s \in Slots,
         first \in Runnable, HighP(first, s)
  PROVE  s \in Runnable /\ \A t \in Runnable : elevated[s] <= elevated[t]
  BY SchedAssumption DEF ProcTypeOK, HighP, Runnable

\* Only the scheduler's loop puts a process on the CPU.
LEMMA RunsBestStep ==
  CpuInv /\ [Next]_vars =>
    [\A s \in Slots : (running = None /\ running' = s) =>
        \A t \in Runnable : elevated[s] <= elevated[t]]_vars
<1> SUFFICES ASSUME CpuInv, [Next]_vars, NEW s \in Slots, running = None, running' = s
             PROVE  \A t \in Runnable : elevated[s] <= elevated[t]
  OBVIOUS
<1>1. Next
  BY SlotFacts DEF vars
<1>2. ~Tick /\ ~Restart
  BY SlotFacts DEF Tick, Restart
<1>3. \A q \in Slots : ~Kernel(q) /\ ~User(q)
  BY SlotFacts
  DEF Kernel, User, SleepResume, ForkFail, ForkDone, CloneCounted, CloneFind, CloneClaim,
      WaitReap, WaitNone, WaitSleep, Exit, Nice, SleepCall, ForkAlloc, Exec, WaitCall, Kill,
      InUser
<1>4. PICK q \in Slots : Pick(q)
  BY <1>1, <1>2, <1>3 DEF Next
<1>5. q = s
  BY <1>4 DEF Pick
<1> QED
  BY <1>4, <1>5, HighPIsBest DEF Pick, Reached, CpuInv

\* The scheduler runs a process of the lowest nice value among the runnable ones,
\* whatever the table, wherever its loop and its scan stand.
THEOREM SchedRunsBest == Spec => RunsBest
  BY CpuInit, CpuStep, RunsBestStep, PTL DEF Spec, RunsBest

------------------------------------------------------------------------------
(* exit() and wait() *)

\* Reapable, and what it rests on: init is no child and does not end, and a slot
\* has a parent only from the moment its process is ready.
FamilyInv ==
    /\ state[init] \notin {"UNUSED", "EMBRYO", "ZOMBIE"} /\ parent[init] = None
    /\ \A s \in Slots : state[s] \in {"UNUSED", "EMBRYO"} => parent[s] = None
    /\ ParentStays
    /\ NoMissedExit

\* At boot init is the only process.
LEMMA FamilyInit == Init => FamilyInv
  BY SlotFacts DEF Init, FamilyInv, ParentStays, NoMissedExit

\* Every step keeps the parents: exit() hands the children over and wakes whoever
\* sleeps in wait() for one of them.
LEMMA FamilyStep == CpuInv /\ FamilyInv /\ [Next]_vars => FamilyInv'
<1> SUFFICES ASSUME CpuInv, FamilyInv, [Next]_vars PROVE FamilyInv'
  OBVIOUS
<1> USE SlotFacts
    DEF CpuInv, ProcTypeOK, OneRuns, Embryos, Forking, FamilyInv, ParentStays, NoMissedExit,
        Children, NoZombie, sleepVars, schedVars, vmVars, procVars
<1>1. ASSUME Tick PROVE FamilyInv'
  BY <1>1 DEF Tick, Due, OnTicks
<1>2. ASSUME Restart PROVE FamilyInv'
  BY <1>2 DEF Restart
<1>3. ASSUME NEW s \in Slots, Pick(s) PROVE FamilyInv'
  BY <1>3 DEF Pick, Reached, HighP, Runnable
<1>4. ASSUME NEW s \in Slots, SleepResume(s) PROVE FamilyInv'
  <2>1. /\ state[s] = "RUNNING" /\ at[s] = "sleep" /\ parent' = parent
        /\ state' = state \/ state' = [state EXCEPT ![s] = "SLEEPING"]
        /\ at' = at \/ at' = [at EXCEPT ![s] = "user"]
    BY <1>4 DEF SleepResume, Leave, EndSleep
  <2>2. \A t \in Slots : t # s => state'[t] = state[t] /\ at'[t] = at[t]
    BY <2>1
  <2>3. state'[s] \in {"RUNNING", "SLEEPING"} /\ at'[s] # "wait"
    BY <2>1
  <2>4. \A t \in Slots : \A st \in {"UNUSED", "EMBRYO", "ZOMBIE"} :
          state'[t] = st <=> state[t] = st
    BY <2>1, <2>2, <2>3
  <2>5. parent' = parent
    BY <2>1
  <2>6. ParentStays'
    <3> SUFFICES ASSUME NEW t \in Slots \ {init}, state'[t] \notin {"UNUSED", "EMBRYO"}
                 PROVE  /\ parent[t] # None /\ parent[t] # t
                        /\ state'[parent[t]] \notin {"UNUSED", "EMBRYO", "ZOMBIE"}
      BY <2>5
    <3>1. /\ parent[t] \in Slots /\ parent[t] # t
          /\ state[parent[t]] \notin {"UNUSED", "EMBRYO", "ZOMBIE"}
      BY <2>4
    <3> QED
      BY <3>1, <2>4
  <2>7. NoMissedExit'
    BY <2>1, <2>2, <2>3
  <2> QED
    BY <2>4, <2>5, <2>6, <2>7
<1>5. ASSUME NEW s \in Slots, ForkFail(s) PROVE FamilyInv'
  BY <1>5 DEF ForkFail
<1>6. ASSUME NEW s \in Slots, ForkDone(s) PROVE FamilyInv'
  <2>1. PICK pg : ChildReady(s, pg)
    BY <1>6 DEF ForkDone
  <2>2. running = s /\ at[s] = "fork"
    BY <1>6 DEF ForkDone
  <2> DEFINE c == child[s]
  <2>3. /\ c \in Slots /\ state[c] = "EMBRYO" /\ at[c] = "user" /\ state[s] = "RUNNING"
        /\ state' = [state EXCEPT ![c] = "RUNNABLE"]
        /\ parent' = [parent EXCEPT ![c] = s]
        /\ at' = [at EXCEPT ![s] = "user", ![c] = "user"]
    BY <2>1, <2>2 DEF ChildReady
  <2>4. \A t \in Slots : at'[t] # at[t] => t = s
    BY <2>3
  <2> HIDE DEF c
  <2> QED
    BY <2>2, <2>3, <2>4
<1>7. ASSUME NEW s \in Slots, CloneCounted(s) PROVE FamilyInv'
  BY <1>7 DEF CloneCounted, ChildReady
<1>8. ASSUME NEW s \in Slots, CloneFind(s) PROVE FamilyInv'
  BY <1>8 DEF CloneFind
<1>9. ASSUME NEW s \in Slots, CloneClaim(s) PROVE FamilyInv'
  BY <1>9 DEF CloneClaim, ChildReady
<1>10. ASSUME NEW s \in Slots, WaitReap(s) PROVE FamilyInv'
  BY <1>10 DEF WaitReap, FirstZombie
<1>11. ASSUME NEW s \in Slots, WaitNone(s) PROVE FamilyInv'
  BY <1>11 DEF WaitNone
<1>12. ASSUME NEW s \in Slots, WaitSleep(s) PROVE FamilyInv'
  BY <1>12 DEF WaitSleep, Leave
<1>13. ASSUME NEW s \in Slots, Exit(s) PROVE FamilyInv'
  <2> DEFINE orphanZombie == \E c \in Slots : parent[c] = s /\ state[c] = "ZOMBIE"
  <2>1. /\ state[s] = "RUNNING" /\ at[s] = "user" /\ s # init /\ at' = at
        /\ parent' = [c \in Slots |-> IF parent[c] = s THEN init ELSE parent[c]]
    BY <1>13 DEF Exit
  <2>2. state' = [t \in Slots |->
          IF t = s THEN "ZOMBIE"
          ELSE IF at[t] = "wait" /\ (t = parent[s] \/ (orphanZombie /\ t = init))
                  /\ state[t] = "SLEEPING" THEN "RUNNABLE" ELSE state[t]]
    BY <1>13 DEF Exit, WakeIn
  <2> HIDE DEF orphanZombie
  <2>3. \A t \in Slots : t # s =>
          /\ state'[t] # state[t] => state[t] = "SLEEPING" /\ state'[t] = "RUNNABLE"
          /\ state'[t] \in {"UNUSED", "EMBRYO", "ZOMBIE"}
               <=> state[t] \in {"UNUSED", "EMBRYO", "ZOMBIE"}
    BY <2>2
  <2>4. state'[init] \notin {"UNUSED", "EMBRYO", "ZOMBIE"} /\ parent'[init] = None
    BY <2>1, <2>3
  <2>5. \A t \in Slots : state'[t] \in {"UNUSED", "EMBRYO"} => parent'[t] = None
    BY <2>1, <2>2
  <2>6. ParentStays'
    BY <2>1, <2>2
  <2>7. NoMissedExit'
    <3> SUFFICES ASSUME NEW t \in Slots, state'[t] = "SLEEPING", at[t] = "wait"
                 PROVE  (Children(t) # {} /\ NoZombie(t))'
      BY <2>1
    <3>1. t # s /\ state[t] = "SLEEPING" /\ t # parent[s] /\ (orphanZombie => t # init)
      BY <2>2
    <3>2. PICK c \in Slots : parent[c] = t
      <4>1. Children(t) # {}
        BY <3>1
      <4> QED
        BY <4>1
    <3>3. parent'[c] = t
      BY <2>1, <3>1, <3>2
    <3>4. ASSUME NEW d \in Slots, parent'[d] = t PROVE state'[d] # "ZOMBIE"
      <4>1. CASE parent[d] = s
        BY <4>1, <3>4, <3>1, <2>1, <2>2 DEF orphanZombie
      <4>2. CASE parent[d] # s
        BY <4>2, <3>4, <3>1, <2>1, <2>2
      <4> QED
        BY <4>1, <4>2
    <3> QED
      BY <3>2, <3>3, <3>4
  <2> QED
    BY <2>4, <2>5, <2>6, <2>7
<1>14. ASSUME NEW s \in Slots, NEW inc \in {-1, 1}, Nice(s, inc) PROVE FamilyInv'
  BY <1>14 DEF Nice, InUser
<1>15. ASSUME NEW s \in Slots, NEW n \in 0..MaxSleep, SleepCall(s, n) PROVE FamilyInv'
  <2>1. /\ state[s] = "RUNNING" /\ at[s] = "user" /\ parent' = parent
        /\ \E st \in {"RUNNABLE", "SLEEPING"} : state' = [state EXCEPT ![s] = st]
        /\ at' = at \/ at' = [at EXCEPT ![s] = "sleep"]
    BY <1>15 DEF SleepCall, Leave, InUser
  <2> QED
    BY <2>1
<1>16. ASSUME NEW s \in Slots, NEW call \in {"fork", "clone"}, ForkAlloc(s, call) PROVE FamilyInv'
  BY <1>16 DEF ForkAlloc, InUser, FirstUnused
<1>17. ASSUME NEW s \in Slots, Exec(s) PROVE FamilyInv'
  BY <1>17 DEF Exec, InUser
<1>18. ASSUME NEW s \in Slots, WaitCall(s) PROVE FamilyInv'
  BY <1>18 DEF WaitCall, InUser
<1>19. ASSUME NEW s \in Slots, NEW t \in Slots, Kill(s, t) PROVE FamilyInv'
  BY <1>19 DEF Kill, InUser, WakeIn
<1>20. CASE UNCHANGED vars
  BY <1>20 DEF vars
<1> QED
  BY <1>1, <1>2, <1>3, <1>4, <1>5, <1>6, <1>7, <1>8, <1>9, <1>10, <1>11, <1>12, <1>13,
     <1>14, <1>15, <1>16, <1>17, <1>18, <1>19, <1>20
  DEF Next, Kernel, User

\* exit() and wait() lose no child, in a table of any size: every process has a
\* parent that is alive, and no parent sleeps in wait() while a zombie is its child.
THEOREM SchedReapable == Spec => []Reapable
<1>1. FamilyInv => Reapable
  BY DEF FamilyInv, Reapable
<1> QED
  BY CpuInit, CpuStep, FamilyInit, FamilyStep, <1>1, PTL DEF Spec

------------------------------------------------------------------------------
(* Page tables: names never run out and none is leaked *)

InUse(s) == state[s] \notin {"UNUSED", "EMBRYO"}
Users(pg) == {s \in Slots : InUse(s) /\ pgdir[s] = pg}
Claimers(pg) == {s \in Slots : at[s] = "claim" /\ pgdir[s] = pg}

\* What the entries of uvm count for a page table, one pair for each count.
Counts(uvm, pg) ==
    {x \in Slots \X (1..NPROC) : uvm[x[1]].pgdir = pg /\ x[2] <= uvm[x[1]].refcount}

UvmType == [Slots -> [refcount : (1..NPROC) \cup {-1}, pgdir : Pgdirs \cup {None}]]

\* The entries together never count more than the users of a page table, even
\* with the claims of processes that have found a free entry and not filled it:
\* two of them may take the same one, and then there are fewer.
Counted ==
    \A pg \in Pgdirs :
        Cardinality(Counts(uvmrefcount, pg)) + Cardinality(Claimers(pg))
            <= Cardinality(Users(pg))

\* Every allocated page table is in use.
NoLeak == \A pg \in live : Users(pg) # {}

VmInv ==
    /\ VmTypeOK
    /\ uvmrefcount \in UvmType
    /\ \A s \in Slots : /\ InUse(s) => pgdir[s] \in Pgdirs
                        /\ at[s] = "claim" => entry[s] \in Slots
    /\ Counted
    /\ NoLeak

\* The counts of uvmrefcount stay within -1..NPROC.
LEMMA UvmIsTyped ==
  ASSUME NEW uvm \in UvmType
  PROVE  uvm \in [Slots -> [refcount : -1..NPROC, pgdir : Pgdirs \cup {None}]]
<1>1. (1..NPROC) \cup {-1} \subseteq -1..NPROC
  BY SchedAssumption
<1> QED
  BY <1>1 DEF UvmType

\* The sets counted are finite, and their sizes numbers.
LEMMA VmFinite ==
  ASSUME NEW uvm, NEW pg
  PROVE  /\ IsFiniteSet(Slots) /\ Cardinality(Slots) = NPROC
         /\ IsFiniteSet(Users(pg)) /\ Cardinality(Users(pg)) \in Nat
         /\ Cardinality(Users(pg)) <= NPROC
         /\ IsFiniteSet(Claimers(pg)) /\ Cardinality(Claimers(pg)) \in Nat
         /\ IsFiniteSet(Counts(uvm, pg)) /\ Cardinality(Counts(uvm, pg)) \in Nat
<1>1. IsFiniteSet(Slots) /\ Cardinality(Slots) = NPROC
  BY SchedAssumption, FS_Interval DEF Slots
<1>2. IsFiniteSet(Users(pg)) /\ Cardinality(Users(pg)) <= Cardinality(Slots)
  BY <1>1, FS_Subset DEF Users
<1>3. IsFiniteSet(Claimers(pg))
  BY <1>1, FS_Subset DEF Claimers
<1>4. IsFiniteSet(Slots \X (1..NPROC))
  <2>1. IsFiniteSet(1..NPROC)
    BY SchedAssumption, FS_Interval
  <2> QED
    BY <1>1, <2>1, FS_Product, Zenon
<1>5. IsFiniteSet(Counts(uvm, pg))
  BY <1>4, FS_Subset DEF Counts
<1> QED
  BY <1>1, <1>2, <1>3, <1>5, FS_CardinalityType

\* A subset is no larger.
LEMMA CardLeq ==
  ASSUME NEW S, NEW T, IsFiniteSet(T), S \subseteq T
  PROVE  IsFiniteSet(S) /\ Cardinality(S) <= Cardinality(T)
  BY FS_Subset

\* There are more names of page tables than slots, so one is always free.
LEMMA FreePgdir ==
  ASSUME NoLeak, live \subseteq Pgdirs, NEW used \in SUBSET live, NEW s \in Slots
  PROVE  NewPgdir(s, used) \in Pgdirs \ used
<1>1. IsFiniteSet(Pgdirs) /\ Cardinality(Pgdirs) = NPROC + 1
  BY SchedAssumption, FS_Interval DEF Pgdirs
<1>2. Pgdirs \ live # {}
  <2> SUFFICES ASSUME Pgdirs \subseteq live PROVE FALSE
    OBVIOUS
  <2> DEFINE f == [pg \in Pgdirs |-> CHOOSE q \in Slots : q \in Users(pg)]
  <2>1. \A pg \in Pgdirs : f[pg] \in Users(pg)
    <3> SUFFICES ASSUME NEW pg \in Pgdirs PROVE f[pg] \in Users(pg)
      OBVIOUS
    <3>1. \E q \in Slots : q \in Users(pg)
      BY DEF NoLeak, Users
    <3> QED
      BY <3>1
  <2>2. f \in [Pgdirs -> Slots]
    BY <2>1 DEF Users
  <2>3. PICK x \in Pgdirs, y \in Pgdirs : x # y /\ f[x] = f[y]
    <3>1. Cardinality(Slots) < Cardinality(Pgdirs) /\ IsFiniteSet(Slots)
      BY <1>1, VmFinite, SchedAssumption
    <3> HIDE DEF f
    <3> QED
      BY <1>1, <2>2, <3>1, FS_PigeonHole, Zenon
  <2> QED
    BY <2>1, <2>3 DEF Users
<1>3. Slots \subseteq Pgdirs
  BY SchedAssumption DEF Slots, Pgdirs
<1> QED
  BY <1>2, <1>3 DEF NewPgdir

\* Initially only init has a page table, and nothing is shared.
LEMMA VmInit == Init => VmInv
<1> SUFFICES ASSUME Init PROVE VmInv
  OBVIOUS
<1> USE SchedAssumption, SlotFacts DEF Init, FreeEntry
<1>1. 0 \in Pgdirs
  BY DEF Pgdirs
<1>2. VmTypeOK /\ uvmrefcount \in UvmType
  BY <1>1 DEF VmTypeOK, UvmType
<1>3. \A s \in Slots : (InUse(s) => pgdir[s] \in Pgdirs) /\ at[s] # "claim"
  BY <1>1 DEF InUse
<1>4. Counted
  <2> SUFFICES ASSUME NEW pg \in Pgdirs
               PROVE  Cardinality(Counts(uvmrefcount, pg)) + Cardinality(Claimers(pg))
                        <= Cardinality(Users(pg))
    BY DEF Counted
  <2>1. Claimers(pg) = {}
    BY DEF Claimers
  <2>2. ASSUME NEW y \in Counts(uvmrefcount, pg) PROVE FALSE
    <3>1. y[1] \in Slots /\ y[2] \in 1..NPROC /\ y[2] <= uvmrefcount[y[1]].refcount
      BY <2>2 DEF Counts
    <3> QED
      BY <3>1
  <2>3. Counts(uvmrefcount, pg) = {}
    BY <2>2
  <2>4. Cardinality(Users(pg)) \in Nat
    BY VmFinite
  <2>5. Cardinality(Counts(uvmrefcount, pg)) = 0 /\ Cardinality(Claimers(pg)) = 0
    BY <2>1, <2>3, FS_EmptySet, Zenon
  <2> QED
    BY <2>4, <2>5
<1>5. NoLeak
  BY DEF NoLeak, Users, InUse
<1> QED
  BY <1>2, <1>3, <1>4, <1>5 DEF VmInv

\* Most steps touch no page table, no entry and no claim.
LEMMA VmQuiet ==
  ASSUME VmInv, UNCHANGED <<pgdir, live, uvmrefcount, entry>>,
         \A s \in Slots : InUse(s)' = InUse(s) /\ (at'[s] = "claim" <=> at[s] = "claim")
  PROVE  VmInv'
<1>1. \A pg : Users(pg)' = Users(pg) /\ Claimers(pg)' = Claimers(pg)
  BY DEF Users, Claimers
<1>2. \A pg : Counts(uvmrefcount, pg)' = Counts(uvmrefcount, pg)
  BY DEF Counts
<1>3. Counted'
  BY <1>1, <1>2 DEF VmInv, Counted
<1>4. NoLeak'
  BY <1>1 DEF VmInv, NoLeak
<1> QED
  BY <1>3, <1>4 DEF VmInv, VmTypeOK

\* An entry that counts one less, or that is given up with its last count, loses
\* one count for its page table and none for the others.
LEMMA CountsDrop ==
  ASSUME NEW uvm \in UvmType, NEW new \in UvmType, NEW i \in Slots, NEW pg,
         uvm[i].pgdir = pg, uvm[i].refcount \in 1..NPROC,
         \A k \in Slots : k # i => new[k] = uvm[k],
         \/ new[i].pgdir = pg /\ new[i].refcount = uvm[i].refcount - 1
         \/ uvm[i].refcount = 1 /\ new[i].refcount = -1
  PROVE  /\ <<i, uvm[i].refcount>> \in Counts(uvm, pg)
         /\ Counts(new, pg) = Counts(uvm, pg) \ {<<i, uvm[i].refcount>>}
         /\ \A q : q # pg => Counts(new, q) = Counts(uvm, q)
<1> USE SchedAssumption
<1>1. <<i, uvm[i].refcount>> \in Counts(uvm, pg)
  BY DEF Counts
<1>2. ASSUME NEW k \in Slots, NEW n \in 1..NPROC
      PROVE  /\ <<k, n>> \in Counts(new, pg)
                   <=> <<k, n>> \in Counts(uvm, pg) \ {<<i, uvm[i].refcount>>}
             /\ \A q : q # pg => (<<k, n>> \in Counts(new, q) <=> <<k, n>> \in Counts(uvm, q))
  <2>1. CASE k = i
    BY <2>1 DEF Counts
  <2>2. CASE k # i
    BY <2>2 DEF Counts
  <2> QED
    BY <2>1, <2>2
<1>3. \A u, q : \A y \in Counts(u, q) :
        y[1] \in Slots /\ y[2] \in 1..NPROC /\ y = <<y[1], y[2]>>
  BY DEF Counts
<1>4. Counts(new, pg) = Counts(uvm, pg) \ {<<i, uvm[i].refcount>>}
  <2>1. ASSUME NEW y \in Counts(new, pg)
        PROVE  y \in Counts(uvm, pg) \ {<<i, uvm[i].refcount>>}
    BY <1>2, <1>3
  <2>2. ASSUME NEW y \in Counts(uvm, pg) \ {<<i, uvm[i].refcount>>}
        PROVE  y \in Counts(new, pg)
    BY <1>2, <1>3
  <2> QED
    BY <2>1, <2>2
<1>5. ASSUME NEW q, q # pg PROVE Counts(new, q) = Counts(uvm, q)
  <2>1. ASSUME NEW y \in Counts(new, q) PROVE y \in Counts(uvm, q)
    BY <1>2, <1>3, <1>5
  <2>2. ASSUME NEW y \in Counts(uvm, q) PROVE y \in Counts(new, q)
    BY <1>2, <1>3, <1>5
  <2> QED
    BY <2>1, <2>2
<1> QED
  BY <1>1, <1>4, <1>5

\* freevm() on behalf of a process that leaves its page table: the count goes down
\* with the users, and a page table that is kept has another user.
LEMMA Leaving ==
  ASSUME CpuInv, VmInv, NEW x \in Slots, InUse(x), at[x] # "claim"
  PROVE  LET pg == pgdir[x]
             left == freevm(pg)
         IN  /\ left.live \subseteq live
             /\ left.uvm \in UvmType
             /\ \A q : Counts(left.uvm, q) \subseteq Counts(uvmrefcount, q)
             /\ Cardinality(Counts(left.uvm, pg)) + Cardinality(Claimers(pg))
                  <= Cardinality(Users(pg) \ {x})
             /\ pg \in left.live => Users(pg) \ {x} # {}
<1> DEFINE pg == pgdir[x]
           left == freevm(pg)
<1>1. pg \in Pgdirs /\ x \in Users(pg) /\ x \notin Claimers(pg)
  BY DEF VmInv, Users, Claimers
<1>2. Cardinality(Users(pg) \ {x}) = Cardinality(Users(pg)) - 1
  BY <1>1, VmFinite, FS_RemoveElement
<1>3. IsFiniteSet(Users(pg) \ {x})
  BY VmFinite, FS_RemoveElement
<1>4. CASE Located(pg) = {}
  <2>1. left = [live |-> live \ {pg}, uvm |-> uvmrefcount]
    BY <1>4 DEF freevm
  <2>2. Counts(uvmrefcount, pg) = {}
    BY <1>4, SchedAssumption DEF Counts, Located, VmInv, UvmType
  <2>3. Claimers(pg) \subseteq Users(pg) \ {x}
    BY <1>1 DEF Claimers, Users, InUse, CpuInv, ProcTypeOK, Embryos
  <2>4. Cardinality(Claimers(pg)) <= Cardinality(Users(pg) \ {x})
    BY <1>3, <2>3, CardLeq
  <2> QED
    BY <2>1, <2>2, <2>4, FS_EmptySet, VmFinite DEF VmInv
<1>5. CASE Located(pg) # {}
  <2> DEFINE i == CHOOSE k \in Located(pg) : TRUE
             r == uvmrefcount[i].refcount
             old == <<i, r>>
  <2>1. i \in Slots /\ r \in 1..NPROC /\ uvmrefcount[i].pgdir = pg
    BY <1>5 DEF Located, VmInv, UvmType
  <2>2. left = IF r > 1
               THEN [live |-> live, uvm |-> [uvmrefcount EXCEPT ![i].refcount = @ - 1]]
               ELSE [live |-> live \ {pg}, uvm |-> [uvmrefcount EXCEPT ![i] = FreeEntry]]
    BY <1>5 DEF freevm
  <2> HIDE DEF i, left
  <2>3. left.uvm \in UvmType
    <3>1. CASE r > 1
      BY <3>1, <2>1, <2>2, SchedAssumption DEF VmInv, UvmType
    <3>2. CASE ~(r > 1)
      BY <3>2, <2>1, <2>2 DEF VmInv, UvmType, FreeEntry
    <3> QED
      BY <3>1, <3>2
  <2>4. /\ \A k \in Slots : k # i => left.uvm[k] = uvmrefcount[k]
        /\ \/ left.uvm[i].pgdir = pg /\ left.uvm[i].refcount = r - 1
           \/ r = 1 /\ left.uvm[i].refcount = -1
    BY <2>1, <2>2 DEF VmInv, UvmType, FreeEntry
  <2>5. /\ old \in Counts(uvmrefcount, pg)
        /\ Counts(left.uvm, pg) = Counts(uvmrefcount, pg) \ {old}
        /\ \A q : q # pg => Counts(left.uvm, q) = Counts(uvmrefcount, q)
    BY <2>1, <2>3, <2>4, CountsDrop DEF VmInv
  <2>6. Cardinality(Counts(left.uvm, pg)) = Cardinality(Counts(uvmrefcount, pg)) - 1
    <3>1. IsFiniteSet(Counts(uvmrefcount, pg))
      BY VmFinite
    <3> HIDE DEF old
    <3> QED
      BY <2>5, <3>1, FS_RemoveElement
  <2>7. Cardinality(Counts(left.uvm, pg)) + Cardinality(Claimers(pg))
          <= Cardinality(Users(pg) \ {x})
    BY <1>1, <1>2, <2>6, VmFinite DEF VmInv, Counted
  <2>8. ASSUME pg \in left.live PROVE Users(pg) \ {x} # {}
    <3>1. r > 1
      BY <2>2, <2>8
    <3>2. <<i, 1>> \in Counts(left.uvm, pg)
      BY <3>1, <2>1, <2>5, SchedAssumption DEF Counts
    <3>3. Cardinality(Counts(left.uvm, pg)) > 0
      BY <3>2, VmFinite, FS_EmptySet
    <3> QED
      BY <3>3, <2>7, VmFinite, FS_EmptySet
  <2>9. left.live \subseteq live
    BY <2>2
  <2>10. \A q : Counts(left.uvm, q) \subseteq Counts(uvmrefcount, q)
    BY <2>5
  <2> QED
    BY <2>3, <2>7, <2>8, <2>9, <2>10 DEF left
<1> QED
  BY <1>4, <1>5

\* The child of fork() or clone() becomes a user of its page table, and its parent
\* claims no entry any more.
LEMMA ReadyUsers ==
  ASSUME CpuInv, VmInv, NEW s \in Slots, running = s, Forking(s), NEW pg \in Pgdirs,
         ChildReady(s, pg)
  PROVE  /\ child[s] \in Slots /\ child[s] # s /\ child[s] \notin Users(pg)
         /\ Users(pg)' = Users(pg) \cup {child[s]}
         /\ \A q : q # pg => Users(q)' = Users(q)
         /\ \A q : Claimers(q)' = Claimers(q) \ {s}
         /\ pgdir' \in [Slots -> Pgdirs \cup {None}]
         /\ \A t \in Slots : InUse(t)' => pgdir'[t] \in Pgdirs
<1> DEFINE c == child[s]
<1>1. /\ c \in Slots /\ state[c] = "EMBRYO" /\ at[c] = "user" /\ state[s] = "RUNNING"
      /\ state' = [state EXCEPT ![c] = "RUNNABLE"]
      /\ pgdir' = [pgdir EXCEPT ![c] = pg]
      /\ at' = [at EXCEPT ![s] = "user", ![c] = "user"]
  BY DEF CpuInv, Embryos, OneRuns, ChildReady
<1>2. pgdir \in [Slots -> Pgdirs \cup {None}] /\ \A t \in Slots : InUse(t) => pgdir[t] \in Pgdirs
  BY DEF VmInv, VmTypeOK
<1> HIDE DEF c
<1>3. /\ state \in [Slots -> {"UNUSED", "EMBRYO", "SLEEPING", "RUNNABLE", "RUNNING", "ZOMBIE"}]
      /\ at \in [Slots -> {"user", "sleep", "fork", "clone", "claim", "wait"}]
  BY DEF CpuInv, ProcTypeOK
<1>4. \A t \in Slots : t # c => state'[t] = state[t] /\ pgdir'[t] = pgdir[t]
  BY <1>1, <1>2, <1>3
<1>5. state'[c] = "RUNNABLE" /\ pgdir'[c] = pg
  BY <1>1, <1>2, <1>3
<1>6. Users(pg)' = Users(pg) \cup {c} /\ \A q : q # pg => Users(q)' = Users(q)
  BY <1>1, <1>4, <1>5 DEF Users, InUse
<1>7. \A q : Claimers(q)' = Claimers(q) \ {s}
  BY <1>1, <1>3, <1>4 DEF Claimers
<1>8. c # s /\ c \notin Users(pg)
  BY <1>1 DEF Users, InUse
<1>9. /\ pgdir' \in [Slots -> Pgdirs \cup {None}]
      /\ \A t \in Slots : InUse(t)' => pgdir'[t] \in Pgdirs
  BY <1>1, <1>2, <1>4, <1>5 DEF InUse
<1> QED
  BY <1>1, <1>6, <1>7, <1>8, <1>9 DEF c

\* The counts stay within the users when at most the new user is counted.
LEMMA VmReady ==
  ASSUME CpuInv, VmInv, NEW s \in Slots, running = s, Forking(s), NEW pg \in Pgdirs,
         ChildReady(s, pg), live' \subseteq live \cup {pg}, uvmrefcount' \in UvmType,
         entry' \in [Slots -> Slots \cup {None}],
         \A t \in Slots : t # s => entry'[t] = entry[t],
         \A q : q # pg => Counts(uvmrefcount', q) \subseteq Counts(uvmrefcount, q),
         Cardinality(Counts(uvmrefcount', pg)) + Cardinality(Claimers(pg) \ {s})
            <= Cardinality(Users(pg)) + 1
  PROVE  VmInv'
<1>1. /\ child[s] \in Slots /\ child[s] # s /\ child[s] \notin Users(pg)
      /\ Users(pg)' = Users(pg) \cup {child[s]}
      /\ \A q : q # pg => Users(q)' = Users(q)
      /\ \A q : Claimers(q)' = Claimers(q) \ {s}
      /\ pgdir' \in [Slots -> Pgdirs \cup {None}]
      /\ \A t \in Slots : InUse(t)' => pgdir'[t] \in Pgdirs
  BY ReadyUsers, Zenon
<1>2. VmTypeOK'
  BY <1>1, UvmIsTyped DEF VmInv, VmTypeOK
<1>3. \A t \in Slots : at'[t] = "claim" => entry'[t] \in Slots
  <2> SUFFICES ASSUME NEW t \in Slots, at'[t] = "claim" PROVE entry'[t] \in Slots
    OBVIOUS
  <2>1. t # s /\ at[t] = "claim"
    BY DEF ChildReady, CpuInv, ProcTypeOK
  <2> QED
    BY <2>1 DEF VmInv
<1>4. Counted'
  <2> SUFFICES ASSUME NEW q \in Pgdirs
               PROVE  Cardinality(Counts(uvmrefcount', q)) + Cardinality(Claimers(q)')
                        <= Cardinality(Users(q)')
    BY DEF Counted, Counts
  <2>1. CASE q = pg
    <3>1. Cardinality(Users(pg) \cup {child[s]}) = Cardinality(Users(pg)) + 1
      BY <1>1, VmFinite, FS_AddElement
    <3> QED
      BY <1>1, <2>1, <3>1
  <2>2. CASE q # pg
    <3>1. Cardinality(Counts(uvmrefcount', q)) <= Cardinality(Counts(uvmrefcount, q))
      BY <2>2, VmFinite, CardLeq
    <3>2. Cardinality(Claimers(q) \ {s}) <= Cardinality(Claimers(q))
      BY VmFinite, CardLeq
    <3>3. Cardinality(Claimers(q) \ {s}) \in Nat
      BY VmFinite, CardLeq, FS_CardinalityType
    <3>4. /\ Cardinality(Counts(uvmrefcount', q)) \in Nat
          /\ Cardinality(Counts(uvmrefcount, q)) \in Nat
          /\ Cardinality(Claimers(q)) \in Nat /\ Cardinality(Users(q)) \in Nat
      BY VmFinite
    <3>5. Cardinality(Counts(uvmrefcount, q)) + Cardinality(Claimers(q))
            <= Cardinality(Users(q))
      BY DEF VmInv, Counted
    <3> QED
      BY <1>1, <2>2, <3>1, <3>2, <3>3, <3>4, <3>5
  <2> QED
    BY <2>1, <2>2
<1>5. NoLeak'
  BY <1>1 DEF VmInv, NoLeak
<1> QED
  BY <1>1, <1>2, <1>3, <1>4, <1>5 DEF VmInv, UvmType

\* fork(): the new page table is nobody's.
LEMMA VmForkDone ==
  ASSUME CpuInv, VmInv, NEW s \in Slots, ForkDone(s)
  PROVE  VmInv'
<1> DEFINE pg == NewPgdir(child[s], live)
<1>1. running = s /\ Forking(s) /\ child[s] \in Slots
  BY DEF ForkDone, Forking, CpuInv, Embryos
<1>2. pg \in Pgdirs
  BY <1>1, FreePgdir DEF VmInv, VmTypeOK
<1>3. /\ ChildReady(s, pg) /\ live' = live \cup {pg}
      /\ uvmrefcount' = uvmrefcount /\ entry' = entry
  BY DEF ForkDone
<1> HIDE DEF pg
<1>4. Cardinality(Counts(uvmrefcount, pg)) + Cardinality(Claimers(pg) \ {s})
        <= Cardinality(Users(pg)) + 1
  <2>1. Cardinality(Claimers(pg) \ {s}) <= Cardinality(Claimers(pg))
    BY VmFinite, CardLeq
  <2>2. Cardinality(Claimers(pg) \ {s}) \in Nat
    BY VmFinite, CardLeq, FS_CardinalityType
  <2> QED
    BY <1>2, <2>1, <2>2, VmFinite DEF VmInv, Counted
<1> QED
  BY <1>1, <1>2, <1>3, <1>4, VmReady DEF VmInv, VmTypeOK

\* clone() of a page table that is counted: one count more, for the new user.
LEMMA VmCloneCounted ==
  ASSUME CpuInv, VmInv, NEW s \in Slots, CloneCounted(s)
  PROVE  VmInv'
<1> DEFINE pg == pgdir[s]
<1>1. running = s /\ Forking(s) /\ child[s] \in Slots /\ state[s] = "RUNNING"
  BY DEF CloneCounted, Forking, CpuInv, Embryos, OneRuns
<1>2. pg \in Pgdirs
  BY <1>1 DEF VmInv, InUse
<1>3. ChildReady(s, pg) /\ live' = live /\ entry' = entry
  BY DEF CloneCounted
<1>4. PICK i \in Located(pg) : uvmrefcount' = [uvmrefcount EXCEPT ![i].refcount = @ + 1]
  BY DEF CloneCounted
<1> DEFINE r == uvmrefcount[i].refcount
<1>5. i \in Slots /\ r \in 1..NPROC /\ uvmrefcount[i].pgdir = pg
  BY DEF Located, VmInv, UvmType
<1>6. /\ IsFiniteSet(Counts(uvmrefcount, pg)) /\ Cardinality(Counts(uvmrefcount, pg)) \in Nat
      /\ IsFiniteSet(Users(pg)) /\ Cardinality(Users(pg)) \in Nat
      /\ Cardinality(Claimers(pg)) \in Nat
      /\ IsFiniteSet(Slots) /\ Cardinality(Slots) = NPROC
  BY VmFinite
<1>7. r + 1 \in 1..NPROC
  <2>1. r <= Cardinality(Counts(uvmrefcount, pg))
    <3>1. IsFiniteSet(1..r) /\ Cardinality(1..r) = r
      <4> HIDE DEF r
      <4>1. r \in Int /\ ~(1 > r) /\ r - 1 + 1 = r
        BY <1>5, SchedAssumption
      <4> QED
        BY <4>1, FS_Interval
    <3>2. IsFiniteSet({i}) /\ Cardinality({i}) = 1
      BY FS_Singleton
    <3>3. Cardinality({i} \X (1..r)) = Cardinality({i}) * Cardinality(1..r)
      <4> HIDE DEF r
      <4> QED
        BY <3>1, <3>2, FS_Product, Zenon
    <3>4. {i} \X (1..r) \subseteq Counts(uvmrefcount, pg)
      BY <1>5, SchedAssumption DEF Counts
    <3>5. Cardinality({i} \X (1..r)) <= Cardinality(Counts(uvmrefcount, pg))
      BY <3>4, <1>6, CardLeq
    <3> HIDE DEF r
    <3> QED
      BY <3>1, <3>2, <3>3, <3>5, <1>5
  <2>2. Cardinality(Users(pg)) <= NPROC - 1
    <3>1. Users(pg) \subseteq Slots \ {child[s]}
      BY <1>1 DEF Users, InUse, CpuInv, Embryos
    <3>2. IsFiniteSet(Slots \ {child[s]}) /\ Cardinality(Slots \ {child[s]}) = NPROC - 1
      BY <1>1, <1>6, FS_RemoveElement
    <3> QED
      BY <3>1, <3>2, CardLeq
  <2>3. Cardinality(Counts(uvmrefcount, pg)) <= Cardinality(Users(pg))
    BY <1>2, <1>6 DEF VmInv, Counted
  <2> QED
    BY <2>1, <2>2, <2>3, <1>5, <1>6, SchedAssumption
<1>8. uvmrefcount' \in UvmType
  BY <1>4, <1>5, <1>7 DEF VmInv, UvmType
<1>9. /\ uvmrefcount'[i].pgdir = pg /\ uvmrefcount'[i].refcount = r + 1
      /\ \A k \in Slots : k # i => uvmrefcount[k] = uvmrefcount'[k]
  BY <1>4, <1>5 DEF VmInv, UvmType
<1> DEFINE new == <<i, r + 1>>
<1>10. /\ new \in Counts(uvmrefcount', pg)
       /\ Counts(uvmrefcount, pg) = Counts(uvmrefcount', pg) \ {new}
       /\ \A q : q # pg => Counts(uvmrefcount, q) = Counts(uvmrefcount', q)
  <2>1. r = (r + 1) - 1
    BY <1>5
  <2> QED
    BY <1>5, <1>7, <1>8, <1>9, <2>1, CountsDrop DEF VmInv
<1> HIDE DEF new, pg
<1>11. Cardinality(Counts(uvmrefcount', pg)) = Cardinality(Counts(uvmrefcount, pg)) + 1
  <2>1. IsFiniteSet(Counts(uvmrefcount', pg)) /\ Cardinality(Counts(uvmrefcount', pg)) \in Nat
    BY VmFinite
  <2>2. Cardinality(Counts(uvmrefcount', pg) \ {new})
          = Cardinality(Counts(uvmrefcount', pg)) - 1
    BY <1>10, <2>1, FS_RemoveElement
  <2> QED
    BY <1>10, <2>1, <2>2
<1>12. Cardinality(Counts(uvmrefcount', pg)) + Cardinality(Claimers(pg) \ {s})
         <= Cardinality(Users(pg)) + 1
  <2>1. Cardinality(Claimers(pg) \ {s}) <= Cardinality(Claimers(pg))
    BY VmFinite, CardLeq
  <2>2. Cardinality(Claimers(pg) \ {s}) \in Nat
    <3>1. IsFiniteSet(Claimers(pg) \ {s})
      BY VmFinite, CardLeq
    <3> QED
      BY <3>1, FS_CardinalityType
  <2>3. Cardinality(Counts(uvmrefcount, pg)) + Cardinality(Claimers(pg))
          <= Cardinality(Users(pg))
    BY <1>2 DEF VmInv, Counted
  <2> QED
    BY <1>6, <1>11, <2>1, <2>2, <2>3
<1> QED
  BY <1>1, <1>2, <1>3, <1>8, <1>10, <1>12, VmReady DEF VmInv, VmTypeOK

\* The first clone() of a page table finds a free entry: nothing is counted yet, and
\* whoever claims an entry is a user.
LEMMA VmCloneFind ==
  ASSUME CpuInv, VmInv, NEW s \in Slots, CloneFind(s)
  PROVE  VmInv'
<1>1. /\ state[s] = "RUNNING" /\ Located(pgdir[s]) = {}
      /\ at' = [at EXCEPT ![s] = "claim"]
      /\ UNCHANGED <<state, pgdir, live, uvmrefcount>>
      /\ \E i \in Slots : entry' = [entry EXCEPT ![s] = i]
  BY DEF CloneFind, CpuInv, OneRuns, FreeEntries
<1>2. PICK pg \in Pgdirs : pg = pgdir[s]
  BY <1>1 DEF VmInv, InUse
<1>3. VmTypeOK' /\ uvmrefcount' \in UvmType
  BY <1>1 DEF VmInv, VmTypeOK
<1>4. \A t \in Slots : /\ InUse(t)' => pgdir'[t] \in Pgdirs
                       /\ at'[t] = "claim" => entry'[t] \in Slots
  BY <1>1 DEF VmInv, VmTypeOK, InUse, CpuInv, ProcTypeOK
<1>5. \A q : Users(q)' = Users(q) /\ Counts(uvmrefcount', q) = Counts(uvmrefcount, q)
  BY <1>1 DEF Users, InUse
<1>6. \A q : q # pg => Claimers(q)' = Claimers(q)
  BY <1>1, <1>2 DEF Claimers, CpuInv, ProcTypeOK
<1>7. Claimers(pg)' \subseteq Users(pg)
  BY <1>1, <1>2 DEF Claimers, Users, InUse, CpuInv, ProcTypeOK, Embryos
<1>8. Counts(uvmrefcount, pg) = {}
  BY <1>1, <1>2, SchedAssumption DEF Counts, Located, VmInv, UvmType
<1>9. Counted'
  <2> SUFFICES ASSUME NEW q \in Pgdirs
               PROVE  Cardinality(Counts(uvmrefcount', q)) + Cardinality(Claimers(q)')
                        <= Cardinality(Users(q)')
    BY DEF Counted, Counts
  <2>1. CASE q = pg
    <3>1. Cardinality(Claimers(pg)') <= Cardinality(Users(pg)) /\ IsFiniteSet(Claimers(pg)')
      BY <1>7, VmFinite, CardLeq
    <3>2. Cardinality(Counts(uvmrefcount, pg)) = 0 /\ Cardinality(Users(pg)) \in Nat
      BY <1>8, FS_EmptySet, VmFinite
    <3>3. Cardinality(Claimers(pg)') \in Nat
      BY <3>1, FS_CardinalityType
    <3> QED
      BY <2>1, <1>5, <3>1, <3>2, <3>3
  <2>2. CASE q # pg
    BY <2>2, <1>5, <1>6 DEF VmInv, Counted
  <2> QED
    BY <2>1, <2>2
<1>10. NoLeak'
  BY <1>1, <1>5 DEF VmInv, NoLeak
<1> QED
  BY <1>3, <1>4, <1>9, <1>10 DEF VmInv, UvmType

\* The entry is filled in with two counts, whatever it held by then: for the claimer,
\* which was not counted, and for the new user.
LEMMA VmCloneClaim ==
  ASSUME CpuInv, VmInv, NEW s \in Slots, CloneClaim(s)
  PROVE  VmInv'
<1> DEFINE pg == pgdir[s]
           e == entry[s]
<1>1. /\ running = s /\ Forking(s) /\ at[s] = "claim" /\ state[s] = "RUNNING"
      /\ child[s] \in Slots /\ state[child[s]] = "EMBRYO"
  BY DEF CloneClaim, Forking, CpuInv, Embryos, OneRuns
<1>2. pg \in Pgdirs /\ e \in Slots
  BY <1>1 DEF VmInv, InUse
<1>3. /\ ChildReady(s, pg) /\ live' = live /\ entry' = [entry EXCEPT ![s] = None]
      /\ uvmrefcount' = [uvmrefcount EXCEPT ![e] = [refcount |-> 2, pgdir |-> pg]]
  BY DEF CloneClaim
<1>4. 2 \in 1..NPROC
  BY <1>1, SchedAssumption DEF Slots
<1> HIDE DEF pg, e
<1>5. uvmrefcount' \in UvmType
  BY <1>2, <1>3, <1>4 DEF VmInv, UvmType
<1>6. /\ \A k \in Slots : k # e => uvmrefcount'[k] = uvmrefcount[k]
      /\ uvmrefcount'[e] = [refcount |-> 2, pgdir |-> pg]
  BY <1>2, <1>3 DEF VmInv, UvmType
<1>7. \A q : q # pg => Counts(uvmrefcount', q) \subseteq Counts(uvmrefcount, q)
  BY <1>6 DEF Counts
<1>8. Counts(uvmrefcount', pg) \subseteq (Counts(uvmrefcount, pg) \cup {<<e, 1>>}) \cup {<<e, 2>>}
  <2> SUFFICES ASSUME NEW y \in Counts(uvmrefcount', pg), y \notin Counts(uvmrefcount, pg)
               PROVE  y \in {<<e, 1>>, <<e, 2>>}
    OBVIOUS
  <2>1. /\ y[1] \in Slots /\ y[2] \in 1..NPROC /\ y = <<y[1], y[2]>>
        /\ y[2] <= uvmrefcount'[y[1]].refcount
    BY DEF Counts
  <2>2. y[1] = e
    BY <1>6 DEF Counts
  <2>3. y[2] = 1 \/ y[2] = 2
    BY <1>6, <2>1, <2>2, SchedAssumption
  <2> QED
    BY <2>1, <2>2, <2>3
<1>9. Cardinality(Counts(uvmrefcount', pg)) <= Cardinality(Counts(uvmrefcount, pg)) + 2
  <2> DEFINE C1 == Counts(uvmrefcount, pg) \cup {<<e, 1>>}
             C2 == C1 \cup {<<e, 2>>}
  <2>1. IsFiniteSet(Counts(uvmrefcount, pg)) /\ Cardinality(Counts(uvmrefcount, pg)) \in Nat
    BY VmFinite
  <2>2. IsFiniteSet(C1) /\ Cardinality(C1) <= Cardinality(Counts(uvmrefcount, pg)) + 1
    <3> DEFINE x == <<e, 1>>
    <3> HIDE DEF x
    <3>1. C1 = Counts(uvmrefcount, pg) \cup {x}
      BY DEF x
    <3> HIDE DEF C1
    <3> QED
      BY <2>1, <3>1, FS_AddElement
  <2>3. Cardinality(C1) \in Nat
    BY <2>2, FS_CardinalityType
  <2> HIDE DEF C1
  <2>4. IsFiniteSet(C2) /\ Cardinality(C2) <= Cardinality(C1) + 1
    <3> DEFINE x == <<e, 2>>
    <3> HIDE DEF x
    <3>1. C2 = C1 \cup {x}
      BY DEF x
    <3> HIDE DEF C2
    <3> QED
      BY <2>2, <2>3, <3>1, FS_AddElement
  <2>5. Cardinality(C2) \in Nat
    BY <2>4, FS_CardinalityType
  <2>6. Counts(uvmrefcount', pg) \subseteq C2
    BY <1>8 DEF C1
  <2> HIDE DEF C2
  <2>7. IsFiniteSet(Counts(uvmrefcount', pg))
        /\ Cardinality(Counts(uvmrefcount', pg)) <= Cardinality(C2)
    BY <2>4, <2>6, CardLeq
  <2>8. Cardinality(Counts(uvmrefcount', pg)) \in Nat
    BY <2>7, FS_CardinalityType
  <2> QED
    BY <2>1, <2>2, <2>3, <2>4, <2>5, <2>7, <2>8
<1>10. Cardinality(Counts(uvmrefcount', pg)) + Cardinality(Claimers(pg) \ {s})
         <= Cardinality(Users(pg)) + 1
  <2>1. s \in Claimers(pg)
    BY <1>1 DEF Claimers, pg
  <2>2. IsFiniteSet(Claimers(pg)) /\ Cardinality(Claimers(pg)) \in Nat
    BY VmFinite
  <2>3. Cardinality(Claimers(pg) \ {s}) = Cardinality(Claimers(pg)) - 1
    BY <2>1, <2>2, FS_RemoveElement
  <2>4. /\ Cardinality(Counts(uvmrefcount, pg)) \in Nat /\ Cardinality(Users(pg)) \in Nat
        /\ Cardinality(Counts(uvmrefcount', pg)) \in Nat
    BY VmFinite
  <2>5. Cardinality(Counts(uvmrefcount, pg)) + Cardinality(Claimers(pg))
          <= Cardinality(Users(pg))
    BY <1>2 DEF VmInv, Counted
  <2> QED
    BY <1>9, <2>2, <2>3, <2>4, <2>5
<1>11. /\ entry' \in [Slots -> Slots \cup {None}]
       /\ \A t \in Slots : t # s => entry'[t] = entry[t]
       /\ live' \subseteq live \cup {pg}
  BY <1>3 DEF VmInv, VmTypeOK
<1> QED
  BY <1>1, <1>2, <1>3, <1>5, <1>7, <1>10, <1>11, VmReady

\* A step in which one process leaves its page table through freevm().
LEMMA VmLeft ==
  ASSUME CpuInv, VmInv, NEW x \in Slots, InUse(x), at[x] # "claim",
         NEW left, left = freevm(pgdir[x]), uvmrefcount' = left.uvm, entry' = entry,
         pgdir' \in [Slots -> Pgdirs \cup {None}],
         \A t \in Slots : /\ InUse(t)' => pgdir'[t] \in Pgdirs
                          /\ at'[t] = "claim" <=> at[t] = "claim"
                          /\ t # x => (InUse(t)' <=> InUse(t)) /\ pgdir'[t] = pgdir[t],
         live' \subseteq Pgdirs,
         \A q \in live' : q \in left.live \/ x \in Users(q)'
  PROVE  VmInv'
<1>1. PICK pg \in Pgdirs : pg = pgdir[x]
  BY DEF VmInv
<1>2. /\ left.live \subseteq live /\ left.uvm \in UvmType
      /\ \A q : Counts(left.uvm, q) \subseteq Counts(uvmrefcount, q)
      /\ Cardinality(Counts(left.uvm, pg)) + Cardinality(Claimers(pg))
           <= Cardinality(Users(pg) \ {x})
      /\ pg \in left.live => Users(pg) \ {x} # {}
  BY <1>1, Leaving
<1>3. \A q : Users(q) \ {x} \subseteq Users(q)' /\ Claimers(q)' = Claimers(q)
  BY DEF Users, Claimers
<1>4. VmTypeOK' /\ uvmrefcount' \in UvmType
  BY <1>2, UvmIsTyped DEF VmInv, VmTypeOK
<1>5. \A t \in Slots : /\ InUse(t)' => pgdir'[t] \in Pgdirs
                       /\ at'[t] = "claim" => entry'[t] \in Slots
  BY DEF VmInv
<1>6. Counted'
  <2> SUFFICES ASSUME NEW q \in Pgdirs
               PROVE  Cardinality(Counts(uvmrefcount', q)) + Cardinality(Claimers(q)')
                        <= Cardinality(Users(q)')
    BY DEF Counted, Counts
  <2>1. IsFiniteSet(Users(q)')
    <3>1. Users(q)' \subseteq Slots /\ IsFiniteSet(Slots)
      BY VmFinite DEF Users
    <3> QED
      BY <3>1, CardLeq
  <2>2. Cardinality(Users(q) \ {x}) <= Cardinality(Users(q)')
    BY <1>3, <2>1, CardLeq
  <2>3. Cardinality(Users(q) \ {x}) \in Nat /\ Cardinality(Users(q)') \in Nat
    <3>1. IsFiniteSet(Users(q) \ {x})
      BY <1>3, <2>1, CardLeq
    <3> QED
      BY <2>1, <3>1, FS_CardinalityType
  <2>4. /\ Cardinality(Counts(left.uvm, q)) \in Nat /\ Cardinality(Counts(uvmrefcount, q)) \in Nat
        /\ Cardinality(Claimers(q)) \in Nat /\ IsFiniteSet(Counts(uvmrefcount, q))
        /\ Cardinality(Users(q)) \in Nat
    BY VmFinite
  <2>5. CASE q = pg
    BY <1>2, <1>3, <2>2, <2>3, <2>4, <2>5
  <2>6. CASE q # pg
    <3>1. Users(q) \ {x} = Users(q)
      BY <1>1, <2>6 DEF Users
    <3>2. Cardinality(Counts(left.uvm, q)) <= Cardinality(Counts(uvmrefcount, q))
      BY <1>2, <2>4, CardLeq
    <3>3. Cardinality(Counts(uvmrefcount, q)) + Cardinality(Claimers(q))
            <= Cardinality(Users(q))
      BY DEF VmInv, Counted
    <3>4. Cardinality(Users(q)) <= Cardinality(Users(q)')
      BY <2>2, <3>1
    <3>5. Counts(uvmrefcount', q) = Counts(left.uvm, q) /\ Claimers(q)' = Claimers(q)
      BY <1>3
    <3> QED
      BY <2>3, <2>4, <3>2, <3>3, <3>4, <3>5
  <2> QED
    BY <2>5, <2>6
<1>7. NoLeak'
  <2> SUFFICES ASSUME NEW q \in live', x \notin Users(q)' PROVE Users(q)' # {}
    BY DEF NoLeak
  <2>1. q \in left.live /\ q \in live
    BY <1>2
  <2>2. Users(q) \ {x} # {}
    BY <1>1, <1>2, <2>1 DEF Users, VmInv, NoLeak
  <2> QED
    BY <1>3, <2>2
<1> QED
  BY <1>4, <1>5, <1>6, <1>7 DEF VmInv, UvmType

\* wait() reaps a zombie, which leaves its page table and its slot.
LEMMA VmWaitReap ==
  ASSUME CpuInv, VmInv, NEW s \in Slots, WaitReap(s)
  PROVE  VmInv'
<1>1. PICK c \in Slots :
        /\ state[c] = "ZOMBIE"
        /\ live' = freevm(pgdir[c]).live /\ uvmrefcount' = freevm(pgdir[c]).uvm
        /\ pgdir' = [pgdir EXCEPT ![c] = None]
        /\ state' = [state EXCEPT ![c] = "UNUSED"]
  BY DEF WaitReap, FirstZombie
<1>2. at[s] = "wait" /\ at' = [at EXCEPT ![s] = "user"] /\ entry' = entry
  BY DEF WaitReap
<1>3. InUse(c) /\ at[c] # "claim"
  BY <1>1 DEF InUse, CpuInv, Embryos
<1>4. /\ pgdir' \in [Slots -> Pgdirs \cup {None}]
      /\ \A t \in Slots : t # c => (InUse(t)' <=> InUse(t)) /\ pgdir'[t] = pgdir[t]
      /\ ~InUse(c)'
  BY <1>1 DEF InUse, VmInv, VmTypeOK, CpuInv, ProcTypeOK
<1>5. \A t \in Slots : at'[t] = "claim" <=> at[t] = "claim"
  BY <1>2 DEF CpuInv, ProcTypeOK
<1>6. \A t \in Slots : InUse(t)' => pgdir'[t] \in Pgdirs
  BY <1>4 DEF VmInv
<1> DEFINE left == freevm(pgdir[c])
<1>7. left.live \subseteq live
  BY <1>3, Leaving
<1>8. live' \subseteq Pgdirs
  BY <1>1, <1>7 DEF VmInv, VmTypeOK
<1>9. uvmrefcount' = left.uvm /\ \A q \in live' : q \in left.live
  BY <1>1
<1> HIDE DEF left
<1>10. left = freevm(pgdir[c])
  BY DEF left
<1> QED
  BY <1>2, <1>3, <1>4, <1>5, <1>6, <1>8, <1>9, <1>10, VmLeft

\* exec() leaves the old page table for one that nobody has.
LEMMA VmExec ==
  ASSUME CpuInv, VmInv, NEW s \in Slots, Exec(s)
  PROVE  VmInv'
<1> DEFINE left == freevm(pgdir[s])
           new == NewPgdir(s, left.live)
<1>1. /\ running = s /\ at[s] = "user" /\ state[s] = "RUNNING"
      /\ pgdir' = [pgdir EXCEPT ![s] = new]
      /\ live' = left.live \cup {new} /\ uvmrefcount' = left.uvm
      /\ UNCHANGED <<state, at, entry>>
  BY DEF Exec, InUser, CpuInv, OneRuns
<1>2. InUse(s)
  BY <1>1 DEF InUse
<1>3. left.live \subseteq live
  BY <1>1, <1>2, Leaving
<1>4. new \in Pgdirs
  BY <1>3, FreePgdir DEF VmInv, VmTypeOK
<1> HIDE DEF left, new
<1>5. /\ pgdir' \in [Slots -> Pgdirs \cup {None}] /\ pgdir'[s] = new
      /\ \A t \in Slots : t # s => pgdir'[t] = pgdir[t]
  BY <1>1, <1>4 DEF VmInv, VmTypeOK
<1>6. \A t \in Slots : InUse(t)' <=> InUse(t)
  BY <1>1 DEF InUse
<1>7. \A t \in Slots : InUse(t)' => pgdir'[t] \in Pgdirs
  BY <1>4, <1>5, <1>6 DEF VmInv
<1>8. live' \subseteq Pgdirs
  BY <1>1, <1>3, <1>4 DEF VmInv, VmTypeOK
<1>9. \A q \in live' : q \in left.live \/ s \in Users(q)'
  BY <1>1, <1>2, <1>5, <1>6 DEF Users
<1>10. left = freevm(pgdir[s])
  BY DEF left
<1> QED
  BY <1>1, <1>2, <1>5, <1>6, <1>7, <1>8, <1>9, <1>10, VmLeft

\* Every step keeps the counts of page tables within their users.
LEMMA VmStep == CpuInv /\ VmInv /\ [Next]_vars => VmInv'
<1> SUFFICES ASSUME CpuInv, VmInv, [Next]_vars PROVE VmInv'
  OBVIOUS
<1> USE SlotFacts
    DEF CpuInv, ProcTypeOK, OneRuns, Embryos, Forking, InUse, sleepVars, schedVars, vmVars,
        procVars
<1>1. ASSUME Tick PROVE VmInv'
  BY <1>1, VmQuiet DEF Tick, Due, OnTicks
<1>2. ASSUME Restart PROVE VmInv'
  BY <1>2, VmQuiet DEF Restart
<1>3. ASSUME NEW s \in Slots, Pick(s) PROVE VmInv'
  BY <1>3, VmQuiet DEF Pick, Reached, HighP, Runnable
<1>4. ASSUME NEW s \in Slots, SleepResume(s) PROVE VmInv'
  BY <1>4, VmQuiet DEF SleepResume, Leave, EndSleep
<1>5. ASSUME NEW s \in Slots, ForkFail(s) PROVE VmInv'
  BY <1>5, VmQuiet DEF ForkFail
<1>6. ASSUME NEW s \in Slots, ForkDone(s) PROVE VmInv'
  BY <1>6, VmForkDone
<1>7. ASSUME NEW s \in Slots, CloneCounted(s) PROVE VmInv'
  BY <1>7, VmCloneCounted
<1>8. ASSUME NEW s \in Slots, CloneFind(s) PROVE VmInv'
  BY <1>8, VmCloneFind
<1>9. ASSUME NEW s \in Slots, CloneClaim(s) PROVE VmInv'
  BY <1>9, VmCloneClaim
<1>10. ASSUME NEW s \in Slots, WaitReap(s) PROVE VmInv'
  BY <1>10, VmWaitReap
<1>11. ASSUME NEW s \in Slots, WaitNone(s) PROVE VmInv'
  BY <1>11, VmQuiet DEF WaitNone
<1>12. ASSUME NEW s \in Slots, WaitSleep(s) PROVE VmInv'
  BY <1>12, VmQuiet DEF WaitSleep, Leave
<1>13. ASSUME NEW s \in Slots, Exit(s) PROVE VmInv'
  BY <1>13, VmQuiet DEF Exit, WakeIn
<1>14. ASSUME NEW s \in Slots, NEW inc \in {-1, 1}, Nice(s, inc) PROVE VmInv'
  BY <1>14, VmQuiet DEF Nice, InUser
<1>15. ASSUME NEW s \in Slots, NEW n \in 0..MaxSleep, SleepCall(s, n) PROVE VmInv'
  BY <1>15, VmQuiet DEF SleepCall, Leave, InUser
<1>16. ASSUME NEW s \in Slots, NEW call \in {"fork", "clone"}, ForkAlloc(s, call) PROVE VmInv'
  BY <1>16, VmQuiet DEF ForkAlloc, InUser, FirstUnused
<1>17. ASSUME NEW s \in Slots, Exec(s) PROVE VmInv'
  BY <1>17, VmExec
<1>18. ASSUME NEW s \in Slots, WaitCall(s) PROVE VmInv'
  BY <1>18, VmQuiet DEF WaitCall, InUser
<1>19. ASSUME NEW s \in Slots, NEW t \in Slots, Kill(s, t) PROVE VmInv'
  BY <1>19, VmQuiet DEF Kill, InUser, WakeIn
<1>20. CASE UNCHANGED vars
  BY <1>20, VmQuiet DEF vars
<1> QED
  BY <1>1, <1>2, <1>3, <1>4, <1>5, <1>6, <1>7, <1>8, <1>9, <1>10, <1>11, <1>12, <1>13,
     <1>14, <1>15, <1>16, <1>17, <1>18, <1>19, <1>20
  DEF Next, Kernel, User

\* The fields of the process table, the scheduler's variables and the counts of
\* shared page tables stay in range, in a table of any size.
THEOREM SchedTypeCorrect == Spec => []TypeOK
<1>1. CpuInv /\ VmInv => TypeOK
  BY DEF CpuInv, VmInv, TypeOK
<1> QED
  BY CpuInit, CpuStep, VmInit, VmStep, <1>1, PTL DEF Spec

\* No page table is leaked: one that is allocated has a process, thread or zombie on
\* it.  This holds even when two first calls of clone() take the same entry.
THEOREM SchedNoLeak == Spec => []NoLeak
<1>1. VmInv => NoLeak
  BY DEF VmInv
<1> QED
  BY CpuInit, CpuStep, VmInit, VmStep, <1>1, PTL DEF Spec

------------------------------------------------------------------------------
(* Page tables in use exactly, when claims do not overlap *)

\* What a lock around allocate_uvmrefcount would ensure: no two processes are
\* between finding a free entry and filling it.
OneClaims == \A s, t \in Slots : at[s] = "claim" /\ at[t] = "claim" => s = t

Entries(uvm, pg) == {i \in Slots : uvm[i].refcount # -1 /\ uvm[i].pgdir = pg}

\* The entries uvm and the allocated page tables lv fit the users of each page
\* table: one is allocated while it has users, has one entry when it has several
\* and the entry counts them.
Matches(uvm, lv, users) ==
    /\ \A pg \in Pgdirs : pg \in lv <=> users[pg] # {}
    /\ \A pg \in Pgdirs : Entries(uvm, pg) = {} => \A s, t \in users[pg] : s = t
    /\ \A i \in Slots : uvm[i].refcount # -1 =>
          uvm[i].pgdir \in Pgdirs /\ uvm[i].refcount = Cardinality(users[uvm[i].pgdir])
    /\ \A i, k \in Slots :
          uvm[i].refcount # -1 /\ uvm[k].refcount # -1 /\ uvm[i].pgdir = uvm[k].pgdir => i = k

UsersOf == [pg \in Pgdirs |-> Users(pg)]
UserSets == [Pgdirs -> SUBSET Slots]

ExactInv ==
    /\ Matches(uvmrefcount, live, UsersOf)
    /\ \A s \in Slots : at[s] = "claim" =>
          uvmrefcount[entry[s]].refcount = -1 /\ Located(pgdir[s]) = {}

\* A set of users is finite.
LEMMA UsersFinite ==
  ASSUME NEW users \in UserSets, NEW pg \in Pgdirs
  PROVE  /\ users[pg] \subseteq Slots
         /\ IsFiniteSet(users[pg]) /\ Cardinality(users[pg]) \in Nat
         /\ Cardinality(users[pg]) = 0 <=> users[pg] = {}
<1>1. users[pg] \subseteq Slots
  BY DEF UserSets
<1>2. IsFiniteSet(users[pg])
  BY <1>1, VmFinite, CardLeq
<1> QED
  BY <1>1, <1>2, FS_CardinalityType, FS_EmptySet

\* A page table that is not allocated gets its first user.
LEMMA MatchNew ==
  ASSUME NEW uvm \in UvmType, NEW lv, NEW users \in UserSets, Matches(uvm, lv, users),
         NEW pg \in Pgdirs \ lv, NEW x \in Slots
  PROVE  /\ Entries(uvm, pg) = {}
         /\ Matches(uvm, lv \cup {pg}, [users EXCEPT ![pg] = @ \cup {x}])
<1> DEFINE after == [users EXCEPT ![pg] = @ \cup {x}]
<1>1. users[pg] = {}
  BY DEF Matches
<1>2. ASSUME NEW i \in Entries(uvm, pg) PROVE FALSE
  <2>1. uvm[i].refcount = Cardinality(users[pg]) /\ uvm[i].refcount \in 1..NPROC
    BY <1>2 DEF Matches, Entries, UvmType
  <2> QED
    BY <1>1, <2>1, FS_EmptySet, SchedAssumption
<1>3. after[pg] = {x} /\ \A q \in Pgdirs : q # pg => after[q] = users[q]
  BY <1>1 DEF UserSets
<1> HIDE DEF after
<1>4. \A i \in Slots : uvm[i].refcount # -1 => uvm[i].pgdir # pg
  BY <1>2 DEF Entries
<1> QED
  BY <1>2, <1>3, <1>4 DEF Matches, after

\* The clone of a counted page table is counted.
LEMMA MatchCounted ==
  ASSUME NEW uvm \in UvmType, NEW new, NEW lv, NEW users \in UserSets,
         Matches(uvm, lv, users), NEW pg \in Pgdirs, NEW x \in Slots \ users[pg],
         NEW i \in Entries(uvm, pg), new = [uvm EXCEPT ![i].refcount = @ + 1]
  PROVE  Matches(new, lv, [users EXCEPT ![pg] = @ \cup {x}])
<1> DEFINE after == [users EXCEPT ![pg] = @ \cup {x}]
<1>1. /\ after[pg] = users[pg] \cup {x}
      /\ \A q \in Pgdirs : q # pg => after[q] = users[q]
  BY DEF UserSets
<1>2. /\ i \in Slots /\ uvm[i].refcount \in 1..NPROC /\ uvm[i].pgdir = pg
      /\ uvm[i].refcount = Cardinality(users[pg])
  BY DEF Entries, UvmType, Matches
<1>3. /\ new[i].pgdir = pg /\ new[i].refcount = uvm[i].refcount + 1
      /\ \A k \in Slots : k # i => new[k] = uvm[k]
  BY <1>2 DEF UvmType
<1>4. Cardinality(users[pg] \cup {x}) = Cardinality(users[pg]) + 1
  BY UsersFinite, FS_AddElement
<1>5. users[pg] # {}
  BY <1>2, UsersFinite, SchedAssumption
<1>6. new[i].refcount # -1 /\ uvm[i].refcount # -1
  BY <1>2, <1>3, SchedAssumption
<1>7. \A q : Entries(new, q) = Entries(uvm, q)
  BY <1>2, <1>3, <1>6 DEF Entries
<1> HIDE DEF after
<1>8. \A q \in Pgdirs : q \in lv <=> after[q] # {}
  BY <1>1, <1>5 DEF Matches
<1>9. \A q \in Pgdirs : Entries(new, q) = {} => \A s, t \in after[q] : s = t
  BY <1>1, <1>7 DEF Matches
<1>10. ASSUME NEW k \in Slots, new[k].refcount # -1
       PROVE  new[k].pgdir \in Pgdirs /\ new[k].refcount = Cardinality(after[new[k].pgdir])
  <2>1. CASE k = i
    BY <2>1, <1>1, <1>2, <1>3, <1>4
  <2>2. CASE k # i
    <3>1. new[k] = uvm[k] /\ uvm[k].refcount # -1
      BY <2>2, <1>3, <1>10
    <3>2. uvm[k].pgdir \in Pgdirs /\ uvm[k].pgdir # pg
      BY <2>2, <3>1, <1>2, <1>6 DEF Matches
    <3>3. after[uvm[k].pgdir] = users[uvm[k].pgdir]
      BY <3>2, <1>1
    <3> QED
      BY <3>1, <3>2, <3>3 DEF Matches
  <2> QED
    BY <2>1, <2>2
<1>11. \A k, m \in Slots :
         new[k].refcount # -1 /\ new[m].refcount # -1 /\ new[k].pgdir = new[m].pgdir => k = m
  BY <1>2, <1>3, <1>6 DEF Matches
<1> QED
  BY <1>8, <1>9, <1>10, <1>11 DEF Matches, after

\* The first clone of a page table fills a free entry with two counts.
LEMMA MatchClaim ==
  ASSUME NEW uvm \in UvmType, NEW new, NEW lv, NEW users \in UserSets,
         Matches(uvm, lv, users), NEW pg \in Pgdirs, NEW s \in users[pg],
         NEW x \in Slots \ users[pg], Entries(uvm, pg) = {}, NEW e \in Slots,
         uvm[e].refcount = -1,
         new = [uvm EXCEPT ![e] = [refcount |-> 2, pgdir |-> pg]]
  PROVE  Matches(new, lv, [users EXCEPT ![pg] = @ \cup {x}])
<1> DEFINE after == [users EXCEPT ![pg] = @ \cup {x}]
<1>1. /\ after[pg] = users[pg] \cup {x}
      /\ \A q \in Pgdirs : q # pg => after[q] = users[q]
  BY DEF UserSets
<1>2. users[pg] = {s}
  BY DEF Matches
<1>3. Cardinality(users[pg] \cup {x}) = 2
  <2>1. Cardinality({s}) = 1 /\ IsFiniteSet({s}) /\ x \notin {s}
    BY <1>2, FS_Singleton
  <2>2. Cardinality({s} \cup {x}) = Cardinality({s}) + 1
    <3> DEFINE S == {s}
    <3> HIDE DEF S
    <3>1. Cardinality(S) = 1 /\ IsFiniteSet(S) /\ x \notin S
      BY <2>1 DEF S
    <3>2. Cardinality(S \cup {x}) = Cardinality(S) + 1
      BY <3>1, FS_AddElement
    <3> QED
      BY <3>2 DEF S
  <2> QED
    BY <1>2, <2>1, <2>2
<1>4. /\ new[e].pgdir = pg /\ new[e].refcount = 2
      /\ \A k \in Slots : k # e => new[k] = uvm[k]
  BY DEF UvmType
<1>5. \A k \in Slots : uvm[k].refcount # -1 => uvm[k].pgdir # pg
  BY DEF Entries
<1>6. e \in Entries(new, pg) /\ \A q : Entries(uvm, q) \subseteq Entries(new, q)
  BY <1>4 DEF Entries
<1> HIDE DEF after
<1>7. \A q \in Pgdirs : q \in lv <=> after[q] # {}
  BY <1>1, <1>2 DEF Matches
<1>8. \A q \in Pgdirs : Entries(new, q) = {} => \A t, u \in after[q] : t = u
  BY <1>1, <1>6 DEF Matches
<1>9. ASSUME NEW k \in Slots, new[k].refcount # -1
      PROVE  new[k].pgdir \in Pgdirs /\ new[k].refcount = Cardinality(after[new[k].pgdir])
  <2>1. CASE k = e
    BY <2>1, <1>1, <1>3, <1>4
  <2>2. CASE k # e
    <3>1. new[k] = uvm[k] /\ uvm[k].refcount # -1
      BY <2>2, <1>4, <1>9
    <3>2. uvm[k].pgdir \in Pgdirs /\ uvm[k].pgdir # pg
      BY <3>1, <1>5 DEF Matches
    <3>3. after[uvm[k].pgdir] = users[uvm[k].pgdir]
      BY <3>2, <1>1
    <3> QED
      BY <3>1, <3>2, <3>3 DEF Matches
  <2> QED
    BY <2>1, <2>2
<1>10. \A k, m \in Slots :
         new[k].refcount # -1 /\ new[m].refcount # -1 /\ new[k].pgdir = new[m].pgdir => k = m
  BY <1>4, <1>5 DEF Matches
<1> QED
  BY <1>7, <1>8, <1>9, <1>10 DEF Matches, after

\* freevm() for a user that leaves: the page table goes with the last one.
LEMMA MatchLeave ==
  ASSUME uvmrefcount \in UvmType, NEW users \in UserSets,
         Matches(uvmrefcount, live, users), NEW pg \in Pgdirs, NEW x \in users[pg],
         NEW left, left = freevm(pg)
  PROVE  /\ Matches(left.uvm, left.live, [users EXCEPT ![pg] = @ \ {x}])
         /\ left.uvm \in UvmType /\ left.live \subseteq live
         /\ \A k \in Slots : uvmrefcount[k].refcount = -1 => left.uvm[k].refcount = -1
         /\ \A q : Entries(left.uvm, q) \subseteq Entries(uvmrefcount, q)
<1> DEFINE after == [users EXCEPT ![pg] = @ \ {x}]
<1>1. /\ after[pg] = users[pg] \ {x}
      /\ \A q \in Pgdirs : q # pg => after[q] = users[q]
  BY DEF UserSets
<1>2. Located(pg) = Entries(uvmrefcount, pg)
  BY DEF Located, Entries
<1>3. CASE Located(pg) = {}
  <2>1. left = [live |-> live \ {pg}, uvm |-> uvmrefcount]
    BY <1>3 DEF freevm
  <2>2. users[pg] = {x}
    BY <1>2, <1>3 DEF Matches
  <2>3. \A k \in Slots : uvmrefcount[k].refcount # -1 => uvmrefcount[k].pgdir # pg
    BY <1>3 DEF Located
  <2> HIDE DEF after
  <2>4. Matches(left.uvm, left.live, after)
    BY <1>1, <2>1, <2>2, <2>3 DEF Matches
  <2> QED
    BY <2>1, <2>4 DEF after
<1>4. CASE Located(pg) # {}
  <2> DEFINE i == CHOOSE k \in Located(pg) : TRUE
             r == uvmrefcount[i].refcount
  <2>1. i \in Slots /\ r \in 1..NPROC /\ uvmrefcount[i].pgdir = pg
    BY <1>4 DEF Located, UvmType
  <2>2. left = IF r > 1
               THEN [live |-> live, uvm |-> [uvmrefcount EXCEPT ![i].refcount = @ - 1]]
               ELSE [live |-> live \ {pg}, uvm |-> [uvmrefcount EXCEPT ![i] = FreeEntry]]
    BY <1>4 DEF freevm
  <2> HIDE DEF i, after
  <2>3. left.uvm \in UvmType
    <3>1. CASE r > 1
      BY <3>1, <2>1, <2>2, SchedAssumption DEF UvmType
    <3>2. CASE ~(r > 1)
      BY <3>2, <2>1, <2>2 DEF UvmType, FreeEntry
    <3> QED
      BY <3>1, <3>2
  <2>4. /\ \A k \in Slots : k # i => left.uvm[k] = uvmrefcount[k]
        /\ r > 1 => left.uvm[i].pgdir = pg /\ left.uvm[i].refcount = r - 1 /\ left.live = live
        /\ ~(r > 1) => left.uvm[i].refcount = -1 /\ left.live = live \ {pg}
    BY <2>1, <2>2 DEF UvmType, FreeEntry
  <2>5. r = Cardinality(users[pg]) /\ r # -1
    BY <2>1, SchedAssumption DEF Matches
  <2>6. Cardinality(after[pg]) = r - 1
    <3>1. IsFiniteSet(users[pg])
      BY UsersFinite
    <3>2. Cardinality(users[pg] \ {x}) = Cardinality(users[pg]) - 1
      BY <3>1, FS_RemoveElement
    <3> QED
      BY <1>1, <2>5, <3>2
  <2>7. after \in UserSets
    BY DEF after, UserSets
  <2>8. after[pg] = {} <=> ~(r > 1)
    <3>1. Cardinality(after[pg]) = 0 <=> after[pg] = {}
      BY <2>7, UsersFinite
    <3> QED
      BY <2>1, <2>6, <3>1, SchedAssumption
  <2>9. \A q \in Pgdirs : q \in left.live <=> after[q] # {}
    BY <1>1, <2>1, <2>4, <2>8 DEF Matches
  <2>10. \A k \in Slots : uvmrefcount[k].refcount = -1 => left.uvm[k].refcount = -1
    BY <2>4, <2>5
  <2>11. ASSUME NEW k \in Slots, left.uvm[k].refcount # -1
         PROVE  /\ uvmrefcount[k].refcount # -1 /\ left.uvm[k].pgdir = uvmrefcount[k].pgdir
                /\ left.uvm[k].refcount = Cardinality(after[left.uvm[k].pgdir])
                /\ left.uvm[k].pgdir \in Pgdirs
    <3>1. CASE k = i
      BY <3>1, <2>1, <2>4, <2>5, <2>6, <2>11
    <3>2. CASE k # i
      <4>1. left.uvm[k] = uvmrefcount[k] /\ uvmrefcount[k].refcount # -1
        BY <3>2, <2>4, <2>11
      <4>2. uvmrefcount[k].pgdir \in Pgdirs /\ uvmrefcount[k].pgdir # pg
        BY <3>2, <4>1, <2>1, <2>5 DEF Matches
      <4>3. after[uvmrefcount[k].pgdir] = users[uvmrefcount[k].pgdir]
        BY <4>2, <1>1
      <4> QED
        BY <4>1, <4>2, <4>3 DEF Matches
    <3> QED
      BY <3>1, <3>2
  <2>12. ASSUME NEW q \in Pgdirs, Entries(left.uvm, q) = {}, NEW s \in after[q], NEW t \in after[q]
         PROVE  s = t
    <3>1. CASE q = pg
      <4>1. r > 1
        BY <3>1, <2>8, <2>12
      <4>2. i \in Entries(left.uvm, pg)
        BY <4>1, <2>1, <2>4 DEF Entries
      <4> QED
        BY <3>1, <4>2, <2>12
    <3>2. CASE q # pg
      <4>1. Entries(uvmrefcount, q) = {}
        <5> SUFFICES ASSUME NEW k \in Entries(uvmrefcount, q) PROVE FALSE
          OBVIOUS
        <5>1. k \in Entries(left.uvm, q)
          BY <3>2, <2>1, <2>4 DEF Entries
        <5> QED
          BY <5>1, <2>12
      <4> QED
        BY <4>1, <3>2, <1>1, <2>12 DEF Matches
    <3> QED
      BY <3>1, <3>2
  <2>13. \A k, m \in Slots :
           left.uvm[k].refcount # -1 /\ left.uvm[m].refcount # -1
           /\ left.uvm[k].pgdir = left.uvm[m].pgdir => k = m
    BY <2>11 DEF Matches
  <2>14. Matches(left.uvm, left.live, after)
    BY <2>9, <2>11, <2>12, <2>13 DEF Matches
  <2>15. \A q : Entries(left.uvm, q) \subseteq Entries(uvmrefcount, q)
    BY <2>11 DEF Entries
  <2>16. left.live \subseteq live
    BY <2>4
  <2> QED
    BY <2>3, <2>10, <2>14, <2>15, <2>16 DEF after
<1> QED
  BY <1>3, <1>4

\* The users of page tables are sets of slots.
LEMMA UsersTyped == UsersOf \in UserSets
  BY DEF UsersOf, UserSets, Users

\* Initially init is the one user of the one page table.
LEMMA ExactInit == Init => ExactInv
<1> SUFFICES ASSUME Init PROVE ExactInv
  OBVIOUS
<1> USE SlotFacts DEF Init, FreeEntry
<1>1. \A pg \in Pgdirs : UsersOf[pg] = IF pg = 0 THEN {init} ELSE {}
  BY DEF UsersOf, Users, InUse
<1> QED
  BY <1>1 DEF ExactInv, Matches

\* Most steps touch no page table, no entry and no claim.
LEMMA ExactQuiet ==
  ASSUME ExactInv, UNCHANGED <<pgdir, live, uvmrefcount, entry>>,
         \A s \in Slots : InUse(s)' = InUse(s) /\ (at'[s] = "claim" <=> at[s] = "claim")
  PROVE  ExactInv'
<1>1. UsersOf' = UsersOf
  BY DEF UsersOf, Users
<1>2. Matches(uvmrefcount, live, UsersOf)'
  BY <1>1 DEF ExactInv, Matches, Entries
<1> QED
  BY <1>2 DEF ExactInv, Located

\* The child of fork() or clone() joins the users of its page table.
LEMMA ExactReady ==
  ASSUME CpuInv, VmInv, NEW s \in Slots, running = s, Forking(s), NEW pg \in Pgdirs,
         ChildReady(s, pg)
  PROVE  /\ child[s] \in Slots \ UsersOf[pg]
         /\ UsersOf' = [UsersOf EXCEPT ![pg] = @ \cup {child[s]}]
         /\ \A t \in Slots : at'[t] = "claim" => t # s /\ at[t] = "claim" /\ pgdir'[t] = pgdir[t]
<1>1. /\ child[s] \in Slots /\ child[s] \notin Users(pg)
      /\ Users(pg)' = Users(pg) \cup {child[s]}
      /\ \A q : q # pg => Users(q)' = Users(q)
  BY ReadyUsers, Zenon
<1>2. UsersOf' = [UsersOf EXCEPT ![pg] = @ \cup {child[s]}]
  BY <1>1 DEF UsersOf
<1>3. \A t \in Slots : at'[t] = "claim" => t # s /\ at[t] = "claim" /\ pgdir'[t] = pgdir[t]
  BY <1>1 DEF ChildReady, CpuInv, ProcTypeOK, VmInv, VmTypeOK
<1> QED
  BY <1>1, <1>2, <1>3 DEF UsersOf

\* fork counts the page directory it copied in no entry.
LEMMA ExactForkDone ==
  ASSUME CpuInv, VmInv, ExactInv, NEW s \in Slots, ForkDone(s)
  PROVE  ExactInv'
<1>1. running = s /\ Forking(s) /\ child[s] \in Slots
  BY DEF ForkDone, Forking, CpuInv, Embryos
<1>2. PICK pg \in Pgdirs \ live : pg = NewPgdir(child[s], live)
  BY <1>1, FreePgdir DEF VmInv, VmTypeOK
<1>3. /\ ChildReady(s, pg) /\ live' = live \cup {pg}
      /\ uvmrefcount' = uvmrefcount /\ entry' = entry
  BY <1>2 DEF ForkDone
<1>4. /\ child[s] \in Slots \ UsersOf[pg]
      /\ UsersOf' = [UsersOf EXCEPT ![pg] = @ \cup {child[s]}]
      /\ \A t \in Slots : at'[t] = "claim" => t # s /\ at[t] = "claim" /\ pgdir'[t] = pgdir[t]
  BY <1>1, <1>3, ExactReady
<1>5. Matches(uvmrefcount, live \cup {pg}, [UsersOf EXCEPT ![pg] = @ \cup {child[s]}])
  BY <1>4, UsersTyped, MatchNew DEF VmInv, ExactInv
<1>6. Matches(uvmrefcount', live', UsersOf')
  BY <1>3, <1>4, <1>5
<1>7. \A t \in Slots : at'[t] = "claim" =>
        uvmrefcount'[entry'[t]].refcount = -1 /\ Entries(uvmrefcount', pgdir'[t]) = {}
  BY <1>3, <1>4 DEF ExactInv, Located, Entries
<1> QED
  BY <1>6, <1>7 DEF ExactInv, Matches, Entries, Located

\* clone of a page directory that has an entry adds one to its count.
LEMMA ExactCloneCounted ==
  ASSUME CpuInv, VmInv, ExactInv, NEW s \in Slots, CloneCounted(s)
  PROVE  ExactInv'
<1>1. running = s /\ Forking(s) /\ state[s] = "RUNNING"
  BY DEF CloneCounted, Forking, CpuInv, OneRuns
<1>2. PICK pg \in Pgdirs : pg = pgdir[s]
  BY <1>1 DEF VmInv, InUse
<1>3. PICK i \in Located(pg) : uvmrefcount' = [uvmrefcount EXCEPT ![i].refcount = @ + 1]
  BY <1>2 DEF CloneCounted
<1>4. ChildReady(s, pg) /\ live' = live /\ entry' = entry
  BY <1>2 DEF CloneCounted
<1>5. /\ child[s] \in Slots \ UsersOf[pg]
      /\ UsersOf' = [UsersOf EXCEPT ![pg] = @ \cup {child[s]}]
      /\ \A t \in Slots : at'[t] = "claim" => t # s /\ at[t] = "claim" /\ pgdir'[t] = pgdir[t]
  BY <1>1, <1>4, ExactReady
<1>6. i \in Entries(uvmrefcount, pg)
  BY DEF Located, Entries
<1>7. Matches(uvmrefcount', live, [UsersOf EXCEPT ![pg] = @ \cup {child[s]}])
  BY <1>3, <1>5, <1>6, UsersTyped, MatchCounted DEF VmInv, ExactInv
<1>8. Matches(uvmrefcount', live', UsersOf')
  BY <1>4, <1>5, <1>7
<1>9. /\ i \in Slots /\ uvmrefcount[i].pgdir = pg /\ uvmrefcount'[i].pgdir = pg
      /\ uvmrefcount[i].refcount # -1
      /\ \A k \in Slots : k # i => uvmrefcount'[k] = uvmrefcount[k]
  BY <1>3 DEF Located, VmInv, UvmType
<1>10. ASSUME NEW t \in Slots, at'[t] = "claim"
       PROVE  uvmrefcount'[entry'[t]].refcount = -1 /\ Located(pgdir[t])' = {}
  <2>1. uvmrefcount[entry[t]].refcount = -1 /\ Located(pgdir[t]) = {} /\ entry[t] \in Slots
    BY <1>5, <1>10 DEF ExactInv, VmInv
  <2>2. pgdir'[t] = pgdir[t]
    BY <1>5, <1>10
  <2> QED
    BY <1>4, <1>9, <2>1, <2>2 DEF Located
<1> QED
  BY <1>8, <1>10 DEF ExactInv, Matches, Entries

\* clone looks for a free entry and changes no count.
LEMMA ExactCloneFind ==
  ASSUME CpuInv, VmInv, ExactInv, NEW s \in Slots, CloneFind(s)
  PROVE  ExactInv'
<1>1. /\ Located(pgdir[s]) = {}
      /\ at' = [at EXCEPT ![s] = "claim"]
      /\ UNCHANGED <<state, pgdir, live, uvmrefcount>>
  BY DEF CloneFind
<1>2. PICK e \in Slots : entry' = [entry EXCEPT ![s] = e] /\ uvmrefcount[e].refcount = -1
  BY DEF CloneFind, FreeEntries
<1>3. UsersOf' = UsersOf
  BY <1>1 DEF UsersOf, Users, InUse
<1>4. Matches(uvmrefcount, live, UsersOf)'
  BY <1>1, <1>3 DEF ExactInv, Matches, Entries
<1> QED
  BY <1>1, <1>2, <1>4 DEF ExactInv, Located, VmInv, VmTypeOK, CpuInv, ProcTypeOK

\* clone claims the entry it found, for a directory that still has none: here
\* one process at a time is between the search and the claim.
LEMMA ExactCloneClaim ==
  ASSUME CpuInv, VmInv, ExactInv, OneClaims, NEW s \in Slots, CloneClaim(s)
  PROVE  ExactInv'
<1>1. running = s /\ Forking(s) /\ at[s] = "claim" /\ state[s] = "RUNNING"
  BY DEF CloneClaim, Forking, CpuInv, OneRuns
<1>2. PICK pg \in Pgdirs : pg = pgdir[s]
  BY <1>1 DEF VmInv, InUse
<1>3. PICK e \in Slots : e = entry[s]
  BY <1>1 DEF VmInv
<1>4. /\ ChildReady(s, pg) /\ live' = live
      /\ uvmrefcount' = [uvmrefcount EXCEPT ![e] = [refcount |-> 2, pgdir |-> pg]]
  BY <1>2, <1>3 DEF CloneClaim
<1>5. /\ child[s] \in Slots \ UsersOf[pg]
      /\ UsersOf' = [UsersOf EXCEPT ![pg] = @ \cup {child[s]}]
      /\ \A t \in Slots : at'[t] = "claim" => t # s /\ at[t] = "claim" /\ pgdir'[t] = pgdir[t]
  BY <1>1, <1>4, ExactReady
<1>6. Entries(uvmrefcount, pg) = {} /\ uvmrefcount[e].refcount = -1
  BY <1>1, <1>2, <1>3 DEF ExactInv, Located, Entries
<1>7. s \in UsersOf[pg]
  BY <1>1, <1>2 DEF UsersOf, Users, InUse
<1>8. Matches(uvmrefcount', live, [UsersOf EXCEPT ![pg] = @ \cup {child[s]}])
  BY <1>4, <1>5, <1>6, <1>7, UsersTyped, MatchClaim DEF VmInv, ExactInv
<1>9. Matches(uvmrefcount', live', UsersOf')
  BY <1>4, <1>5, <1>8
<1>10. \A t \in Slots : at'[t] # "claim"
  BY <1>1, <1>5 DEF OneClaims
<1> QED
  BY <1>9, <1>10 DEF ExactInv, Matches, Entries

\* wait drops the reaped process from its directory's count.
LEMMA ExactWaitReap ==
  ASSUME CpuInv, VmInv, ExactInv, NEW s \in Slots, WaitReap(s)
  PROVE  ExactInv'
<1>1. PICK c \in Slots :
        /\ state[c] = "ZOMBIE"
        /\ live' = freevm(pgdir[c]).live /\ uvmrefcount' = freevm(pgdir[c]).uvm
        /\ pgdir' = [pgdir EXCEPT ![c] = None]
        /\ state' = [state EXCEPT ![c] = "UNUSED"]
  BY DEF WaitReap, FirstZombie
<1>2. at[s] = "wait" /\ at' = [at EXCEPT ![s] = "user"] /\ entry' = entry
  BY DEF WaitReap
<1>3. PICK pg \in Pgdirs : pg = pgdir[c]
  BY <1>1 DEF VmInv, InUse
<1>4. PICK left : left = freevm(pg)
  OBVIOUS
<1>5. /\ live' = left.live /\ uvmrefcount' = left.uvm
  BY <1>1, <1>3, <1>4
<1>6. c \in UsersOf[pg]
  BY <1>1, <1>3 DEF UsersOf, Users, InUse
<1>7. UsersOf' = [UsersOf EXCEPT ![pg] = @ \ {c}]
  <2>1. /\ state'[c] = "UNUSED"
        /\ \A t \in Slots : t # c => state'[t] = state[t] /\ pgdir'[t] = pgdir[t]
    BY <1>1 DEF CpuInv, ProcTypeOK, VmInv, VmTypeOK
  <2>2. Users(pg)' = Users(pg) \ {c} /\ \A q : q # pg => Users(q)' = Users(q)
    BY <1>1, <1>3, <2>1 DEF Users, InUse
  <2> QED
    BY <2>2 DEF UsersOf
<1>8. /\ Matches(left.uvm, left.live, [UsersOf EXCEPT ![pg] = @ \ {c}])
      /\ \A k \in Slots : uvmrefcount[k].refcount = -1 => left.uvm[k].refcount = -1
      /\ \A q : Entries(left.uvm, q) \subseteq Entries(uvmrefcount, q)
  BY <1>4, <1>6, UsersTyped, MatchLeave DEF VmInv, ExactInv
<1>9. Matches(uvmrefcount', live', UsersOf')
  BY <1>5, <1>7, <1>8
<1>10. ASSUME NEW t \in Slots, at'[t] = "claim"
       PROVE  uvmrefcount'[entry'[t]].refcount = -1 /\ Entries(uvmrefcount', pgdir'[t]) = {}
  <2>1. at[t] = "claim" /\ t # c /\ pgdir'[t] = pgdir[t]
    BY <1>1, <1>2, <1>10 DEF CpuInv, ProcTypeOK, Embryos, VmInv, VmTypeOK
  <2>2. uvmrefcount[entry[t]].refcount = -1 /\ Entries(uvmrefcount, pgdir[t]) = {}
        /\ entry[t] \in Slots
    BY <2>1 DEF ExactInv, VmInv, Located, Entries
  <2> QED
    BY <1>2, <1>5, <1>8, <2>1, <2>2
<1> QED
  BY <1>9, <1>10 DEF ExactInv, Matches, Entries, Located

\* exec drops the process from its old directory's count.
LEMMA ExactExec ==
  ASSUME CpuInv, VmInv, ExactInv, NEW s \in Slots, Exec(s)
  PROVE  ExactInv'
<1>1. state[s] = "RUNNING" /\ at[s] = "user"
  BY DEF Exec, InUser, CpuInv, OneRuns
<1>2. PICK pg \in Pgdirs : pg = pgdir[s]
  BY <1>1 DEF VmInv, InUse
<1>3. PICK left : left = freevm(pg)
  OBVIOUS
<1>4. s \in UsersOf[pg]
  BY <1>1, <1>2 DEF UsersOf, Users, InUse
<1> DEFINE mid == [UsersOf EXCEPT ![pg] = @ \ {s}]
<1>5. /\ Matches(left.uvm, left.live, mid)
      /\ left.uvm \in UvmType /\ left.live \subseteq live
      /\ \A k \in Slots : uvmrefcount[k].refcount = -1 => left.uvm[k].refcount = -1
      /\ \A q : Entries(left.uvm, q) \subseteq Entries(uvmrefcount, q)
  BY <1>3, <1>4, UsersTyped, MatchLeave DEF VmInv, ExactInv
<1>6. PICK new \in Pgdirs \ left.live : new = NewPgdir(s, left.live)
  BY <1>5, FreePgdir DEF VmInv, VmTypeOK
<1>7. /\ pgdir' = [pgdir EXCEPT ![s] = new]
      /\ live' = left.live \cup {new} /\ uvmrefcount' = left.uvm
      /\ UNCHANGED <<state, at, entry>>
  BY <1>2, <1>3, <1>6 DEF Exec
<1>8. mid \in UserSets
  BY UsersTyped DEF UserSets
<1>9. Matches(left.uvm, left.live \cup {new}, [mid EXCEPT ![new] = @ \cup {s}])
  <2> HIDE DEF mid
  <2> QED
    BY <1>5, <1>8, MatchNew
<1>10. UsersOf' = [mid EXCEPT ![new] = @ \cup {s}]
  <2>1. pgdir'[s] = new /\ \A t \in Slots : t # s => pgdir'[t] = pgdir[t]
    BY <1>7 DEF VmInv, VmTypeOK
  <2>2. \A q \in Pgdirs : Users(q)' = IF q = new THEN (Users(q) \ {s}) \cup {s} ELSE Users(q) \ {s}
    BY <1>1, <1>7, <2>1 DEF Users, InUse
  <2>3. \A q \in Pgdirs : mid[q] = Users(q) \ {s}
    BY <1>2 DEF UsersOf, Users
  <2>4. ASSUME NEW q \in Pgdirs PROVE UsersOf'[q] = [mid EXCEPT ![new] = @ \cup {s}][q]
    <3> HIDE DEF mid
    <3> QED
      BY <1>8, <2>2, <2>3 DEF UsersOf, UserSets
  <2>5. UsersOf' = [q \in Pgdirs |-> UsersOf'[q]]
    BY DEF UsersOf
  <2>6. [mid EXCEPT ![new] = @ \cup {s}] = [q \in Pgdirs |-> [mid EXCEPT ![new] = @ \cup {s}][q]]
    BY <1>8 DEF UserSets
  <2> HIDE DEF mid
  <2> QED
    BY <2>4, <2>5, <2>6
<1>11. Matches(uvmrefcount', live', UsersOf')
  BY <1>7, <1>9, <1>10
<1>12. ASSUME NEW t \in Slots, at'[t] = "claim"
       PROVE  uvmrefcount'[entry'[t]].refcount = -1 /\ Entries(uvmrefcount', pgdir'[t]) = {}
  <2>1. at[t] = "claim" /\ t # s /\ pgdir'[t] = pgdir[t]
    BY <1>1, <1>7, <1>12 DEF VmInv, VmTypeOK
  <2>2. uvmrefcount[entry[t]].refcount = -1 /\ Entries(uvmrefcount, pgdir[t]) = {}
        /\ entry[t] \in Slots
    BY <2>1 DEF ExactInv, VmInv, Located, Entries
  <2> QED
    BY <1>5, <1>7, <2>1, <2>2
<1> QED
  BY <1>11, <1>12 DEF ExactInv, Matches, Entries, Located

\* Every step keeps the counts exact, as long as claims do not overlap.
LEMMA ExactStep == CpuInv /\ VmInv /\ ExactInv /\ OneClaims /\ [Next]_vars => ExactInv'
<1> SUFFICES ASSUME CpuInv, VmInv, ExactInv, OneClaims, [Next]_vars PROVE ExactInv'
  OBVIOUS
<1> USE SlotFacts
    DEF CpuInv, ProcTypeOK, OneRuns, Embryos, Forking, InUse, sleepVars, schedVars, vmVars,
        procVars
<1>1. ASSUME Tick PROVE ExactInv'
  BY <1>1, ExactQuiet DEF Tick, Due, OnTicks
<1>2. ASSUME Restart PROVE ExactInv'
  BY <1>2, ExactQuiet DEF Restart
<1>3. ASSUME NEW s \in Slots, Pick(s) PROVE ExactInv'
  BY <1>3, ExactQuiet DEF Pick, Reached, HighP, Runnable
<1>4. ASSUME NEW s \in Slots, SleepResume(s) PROVE ExactInv'
  BY <1>4, ExactQuiet DEF SleepResume, Leave, EndSleep
<1>5. ASSUME NEW s \in Slots, ForkFail(s) PROVE ExactInv'
  BY <1>5, ExactQuiet DEF ForkFail
<1>6. ASSUME NEW s \in Slots, ForkDone(s) PROVE ExactInv'
  BY <1>6, ExactForkDone
<1>7. ASSUME NEW s \in Slots, CloneCounted(s) PROVE ExactInv'
  BY <1>7, ExactCloneCounted
<1>8. ASSUME NEW s \in Slots, CloneFind(s) PROVE ExactInv'
  BY <1>8, ExactCloneFind
<1>9. ASSUME NEW s \in Slots, CloneClaim(s) PROVE ExactInv'
  BY <1>9, ExactCloneClaim
<1>10. ASSUME NEW s \in Slots, WaitReap(s) PROVE ExactInv'
  BY <1>10, ExactWaitReap
<1>11. ASSUME NEW s \in Slots, WaitNone(s) PROVE ExactInv'
  BY <1>11, ExactQuiet DEF WaitNone
<1>12. ASSUME NEW s \in Slots, WaitSleep(s) PROVE ExactInv'
  BY <1>12, ExactQuiet DEF WaitSleep, Leave
<1>13. ASSUME NEW s \in Slots, Exit(s) PROVE ExactInv'
  BY <1>13, ExactQuiet DEF Exit, WakeIn
<1>14. ASSUME NEW s \in Slots, NEW inc \in {-1, 1}, Nice(s, inc) PROVE ExactInv'
  BY <1>14, ExactQuiet DEF Nice, InUser
<1>15. ASSUME NEW s \in Slots, NEW n \in 0..MaxSleep, SleepCall(s, n) PROVE ExactInv'
  BY <1>15, ExactQuiet DEF SleepCall, Leave, InUser
<1>16. ASSUME NEW s \in Slots, NEW call \in {"fork", "clone"}, ForkAlloc(s, call) PROVE ExactInv'
  BY <1>16, ExactQuiet DEF ForkAlloc, InUser, FirstUnused
<1>17. ASSUME NEW s \in Slots, Exec(s) PROVE ExactInv'
  BY <1>17, ExactExec
<1>18. ASSUME NEW s \in Slots, WaitCall(s) PROVE ExactInv'
  BY <1>18, ExactQuiet DEF WaitCall, InUser
<1>19. ASSUME NEW s \in Slots, NEW t \in Slots, Kill(s, t) PROVE ExactInv'
  BY <1>19, ExactQuiet DEF Kill, InUser, WakeIn
<1>20. CASE UNCHANGED vars
  BY <1>20, ExactQuiet DEF vars
<1> QED
  BY <1>1, <1>2, <1>3, <1>4, <1>5, <1>6, <1>7, <1>8, <1>9, <1>10, <1>11, <1>12, <1>13,
     <1>14, <1>15, <1>16, <1>17, <1>18, <1>19, <1>20
  DEF Next, Kernel, User

\* freevm() frees a page table exactly with its last user, in a table of any size,
\* in every behaviour in which no two processes fill an entry of uvmrefcount at the
\* same time.  The code has no lock that ensures it; nothing else is missing.
THEOREM SchedPgdirsInUse == Spec /\ []OneClaims => []PgdirsInUse
<1>1. CpuInv /\ VmInv /\ ExactInv => PgdirsInUse
  BY DEF VmInv, VmTypeOK, ExactInv, Matches, UsersOf, Users, InUse, PgdirsInUse
<1>2. Spec => [](CpuInv /\ VmInv)
  BY CpuInit, CpuStep, VmInit, VmStep, PTL DEF Spec
<1> QED
  BY ExactInit, ExactStep, <1>1, <1>2, PTL DEF Spec
==============================================================================
