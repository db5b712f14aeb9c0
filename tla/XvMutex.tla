------------------------------ MODULE XvMutex ------------------------------
(***************************************************************************)
(* The user-space sleep lock of cs537/P5/xv6 with priority inheritance:    *)
(* sys_macquire, sys_mrelease and sys_nice (sysproc.c) with sleep and      *)
(* wakeup (proc.c).                                                        *)
(*                                                                         *)
(* Each mutex has a spinlock lk.  Interrupts are off while it is held, so  *)
(* on one CPU nothing comes between the steps of a holder, while on        *)
(* several CPUs other threads run and contend for lk: that is what is      *)
(* modelled, any thread that is not asleep may take the next step.  What   *)
(* happens under ptable.lock is one step.  The field elevated is written   *)
(* under no common lock, so reading it and writing it are separate steps.  *)
(*                                                                         *)
(* Threads release only mutexes they hold, as the programs that use the    *)
(* lock do, and ask for mutexes in a fixed order, so that the programs do  *)
(* not deadlock by themselves.  A use of the lock is [held, steps, kills]: *)
(* how many mutexes a thread holds at a time (16 in the assignment), the   *)
(* arguments of nice() it uses, and whether threads are killed.            *)
(***************************************************************************)
EXTENDS Integers, FiniteSets

CONSTANTS Threads, Mutexes,
          Rank,      \* mutex -> its place in the order of acquisition
          Uses,      \* how programs use the lock
          Nices,     \* the nice values threads start with
          MinNice, MaxNice

NoThread == "no thread"
NoMutex == "no mutex"

ASSUME MutexAssumption ==
    /\ NoThread \notin Threads /\ NoMutex \notin Mutexes /\ IsFiniteSet(Mutexes)
    /\ MinNice \in Int /\ MaxNice \in Int /\ MinNice <= MaxNice
    /\ Nices \subseteq MinNice..MaxNice
    /\ \A u \in Uses : u.held \in Nat /\ u.steps \subseteq Int /\ u.kills \in BOOLEAN
    /\ Rank \in [Mutexes -> Nat]

VARIABLES use,            \* how the programs of this run use the lock
          killed,         \* threads whose field killed is set
          locked, holder, \* fields of mutex
          lk,             \* which thread holds the mutex's spinlock
          priority, elevated, \* fields of struct proc
          asleep,         \* threads in state SLEEPING
          at,             \* the next access of each thread, or "dead"
          on              \* the mutex its system call is about

fixedVars == <<use, killed>>
vars == <<use, killed, locked, holder, lk, priority, elevated, asleep, at, on>>

\* minit() for every mutex; threads outside the kernel
Init ==
    /\ use \in Uses /\ killed = {}
    /\ locked = [m \in Mutexes |-> FALSE]
    /\ holder = [m \in Mutexes |-> NoThread]
    /\ lk = [m \in Mutexes |-> NoThread]
    /\ priority \in [Threads -> Nices]
    /\ elevated = priority
    /\ asleep = {}
    /\ at = [t \in Threads |-> "user"]
    /\ on = [t \in Threads |-> NoMutex]

Held(t) == {m \in Mutexes : holder[m] = t}

acquire(t, m) ==
    /\ lk[m] = NoThread
    /\ lk' = [lk EXCEPT ![m] = t]

release(m) == lk' = [lk EXCEPT ![m] = NoThread]

Goto(t, from, to) ==
    /\ t \notin asleep /\ at[t] = from
    /\ at' = [at EXCEPT ![t] = to]

----------------------------------------------------------------------------
(* sys_macquire *)

CallAcquire(t, m) ==
    /\ t \notin killed
    /\ Goto(t, "user", "acquire")
    /\ Cardinality(Held(t)) < use.held
    /\ \A h \in Held(t) : Rank[h] < Rank[m]
    /\ on' = [on EXCEPT ![t] = m]
    /\ UNCHANGED <<locked, holder, lk, priority, elevated, asleep>>

\* acquire(&lock->lk), on the call and again when sleep() returns
AcquireSpin(t) ==
    /\ Goto(t, "acquire", "test")
    /\ acquire(t, on[t])
    /\ UNCHANGED <<locked, holder, priority, elevated, asleep, on>>

\* the loop's test fails: take the mutex and leave
TakeMutex(t) ==
    /\ Goto(t, "test", "user")
    /\ ~locked[on[t]]
    /\ locked' = [locked EXCEPT ![on[t]] = TRUE]
    /\ holder' = [holder EXCEPT ![on[t]] = t]
    /\ release(on[t])
    /\ on' = [on EXCEPT ![t] = NoMutex]
    /\ UNCHANGED <<priority, elevated, asleep>>

\* the mutex is taken: compare elevated with the holder's...
Compare(t) ==
    /\ at[t] = "test" /\ locked[on[t]]
    /\ Goto(t, "test",
            IF elevated[t] < elevated[holder[on[t]]] THEN "elevate" ELSE "sleep")
    /\ UNCHANGED <<locked, holder, lk, priority, elevated, asleep, on>>

\* Variant: the holder is left as it is.
ElevateNot(t) ==
    /\ Goto(t, "elevate", "sleep")
    /\ UNCHANGED <<locked, holder, lk, priority, elevated, asleep, on>>

\* ... raise the holder's ...
Elevate(t) ==
    /\ Goto(t, "elevate", "sleep")
    /\ elevated' = [elevated EXCEPT ![holder[on[t]]] = elevated[t]]
    /\ UNCHANGED <<locked, holder, lk, priority, asleep, on>>

\* ... and sleep(lock, &lock->lk): under ptable.lock, give up lk and sleep
Sleep(t) ==
    /\ Goto(t, "sleep", "acquire")
    /\ release(on[t])
    /\ asleep' = asleep \cup {t}
    /\ UNCHANGED <<locked, holder, priority, elevated, on>>

----------------------------------------------------------------------------
(* sys_mrelease *)

CallRelease(t, m) ==
    /\ m \in Held(t) /\ t \notin killed
    /\ Goto(t, "user", "restore")
    /\ acquire(t, m)
    /\ on' = [on EXCEPT ![t] = m]
    /\ UNCHANGED <<locked, holder, priority, elevated, asleep>>

Restore(t) ==
    /\ Goto(t, "restore", "unlock")
    /\ elevated' = [elevated EXCEPT ![t] = priority[t]]
    /\ UNCHANGED <<locked, holder, lk, priority, asleep, on>>

\* clear the mutex ...
Unlock(t) ==
    /\ Goto(t, "unlock", "wake")
    /\ locked' = [locked EXCEPT ![on[t]] = FALSE]
    /\ holder' = [holder EXCEPT ![on[t]] = NoThread]
    /\ UNCHANGED <<lk, priority, elevated, asleep, on>>

\* Variant: one sleeper is woken.
WakeupOne(t) ==
    LET sleepers == {w \in asleep : on[w] = on[t]} IN
    /\ Goto(t, "wake", "user")
    /\ IF sleepers = {} THEN UNCHANGED asleep
       ELSE \E w \in sleepers : asleep' = asleep \ {w}
    /\ release(on[t])
    /\ on' = [on EXCEPT ![t] = NoMutex]
    /\ UNCHANGED <<locked, holder, priority, elevated>>

\* Variant: wakeup spins on a lock that its caller holds.
WakeupStuck(t) == at[t] = "wake" /\ UNCHANGED <<locked, holder, lk, priority, elevated, asleep, at, on>>

\* ... wakeup(lock), then release(&lock->lk)
Wakeup(t) ==
    /\ Goto(t, "wake", "user")
    /\ asleep' = {w \in asleep : on[w] # on[t]}
    /\ release(on[t])
    /\ on' = [on EXCEPT ![t] = NoMutex]
    /\ UNCHANGED <<locked, holder, priority, elevated>>

----------------------------------------------------------------------------
(* sys_nice *)

clamp(n) == IF n < MinNice THEN MinNice ELSE IF n > MaxNice THEN MaxNice ELSE n

\* Variant: the elevated value is forgotten.
NiceBaseOnly(t, inc) ==
    /\ t \notin asleep /\ at[t] = "user" /\ t \notin killed
    /\ priority' = [priority EXCEPT ![t] = clamp(@ + inc)]
    /\ UNCHANGED <<locked, holder, lk, elevated, asleep, at, on>>

Nice(t, inc) ==
    /\ t \notin asleep /\ at[t] = "user" /\ t \notin killed
    /\ priority' = [priority EXCEPT ![t] = clamp(@ + inc)]
    /\ elevated' = [elevated EXCEPT ![t] = clamp(priority[t] + inc)]
    /\ UNCHANGED <<locked, holder, lk, asleep, at, on>>

----------------------------------------------------------------------------
(* kill and the exit of a killed thread, which leaves its mutexes taken *)

Kill(t) ==
    /\ use.kills
    /\ killed' = killed \cup {t}
    /\ asleep' = asleep \ {t}
    /\ UNCHANGED <<use, locked, holder, lk, priority, elevated, at, on>>

\* at the next trap or at the end of its system call
Exit(t) ==
    /\ t \in killed
    /\ Goto(t, "user", "dead")
    /\ UNCHANGED <<fixedVars, locked, holder, lk, priority, elevated, asleep, on>>

Kernel(t) ==
    /\ \/ AcquireSpin(t) \/ TakeMutex(t) \/ Compare(t) \/ Elevate(t) \/ Sleep(t)
       \/ Restore(t) \/ Unlock(t) \/ Wakeup(t)
    /\ UNCHANGED fixedVars

Next ==
    \E t \in Threads :
        \/ Kernel(t)
        \/ \E m \in Mutexes : (CallAcquire(t, m) \/ CallRelease(t, m)) /\ UNCHANGED fixedVars
        \/ \E inc \in use.steps : Nice(t, inc) /\ UNCHANGED fixedVars
        \/ Kill(t) \/ Exit(t)

Spec == Init /\ [][Next]_vars

\* A thread that runs in the kernel keeps running; nothing obliges a thread to
\* make another system call, nor a holder to release.
Fairness == \A t \in Threads : WF_vars(Kernel(t))

FairSpec == Spec /\ Fairness

----------------------------------------------------------------------------
(* Properties *)

TypeOK ==
    /\ locked \in [Mutexes -> BOOLEAN]
    /\ holder \in [Mutexes -> Threads \cup {NoThread}]
    /\ lk \in [Mutexes -> Threads \cup {NoThread}]
    /\ priority \in [Threads -> MinNice..MaxNice]
    /\ elevated \in [Threads -> MinNice..MaxNice]
    /\ asleep \subseteq Threads
    /\ at \in [Threads -> {"user", "acquire", "test", "elevate", "sleep",
                           "restore", "unlock", "wake", "dead"}]
    /\ killed \subseteq Threads
    /\ on \in [Threads -> Mutexes \cup {NoMutex}]

\* A mutex is marked taken exactly while a thread is recorded as its holder: the
\* field the elevation follows is never empty when it is used.
HolderKnown == \A m \in Mutexes : locked[m] <=> holder[m] # NoThread

\* No wakeup is lost: while a thread sleeps on a mutex, the mutex is taken or a
\* release of it is about to wake the sleepers.
NoLostWakeup ==
    \A t \in asleep : locked[on[t]] \/ \E r \in Threads : at[r] = "wake" /\ on[r] = on[t]

\* A thread that wants a mutex gets a chance at it: a free mutex with somebody
\* asking for it does not stay free.
Asks(t, m) == at[t] \in {"acquire", "test"} /\ on[t] = m

FreeMutexIsTaken ==
    \A m \in Mutexes : (~locked[m] /\ \E t \in Threads : Asks(t, m)) ~> locked[m]

\* instructions.md: the nice value of a lock holder is adjusted "to match the
\* highest priority (lowest niceness value) among all threads waiting for that
\* lock"; with more than one lock, "among all threads waiting for any of the
\* locks it holds".  Checked while threads hold one mutex at a time and do not
\* call nice; also when waiters and holders are killed.
Releasing(t, m) == at[t] = "unlock" /\ on[t] = m

WaitersElevateHolder ==
  (use.held = 1 /\ use.steps = {}) =>
    \A t \in asleep :
        locked[on[t]] => \/ elevated[holder[on[t]]] <= priority[t]
                         \/ Releasing(holder[on[t]], on[t])

\* instructions.md: "After the lock holder releases the lock, it's priority
\* should be restored": a thread that holds no mutex runs at its own nice value.
Restored ==
    \A t \in Threads :
        (at[t] = "user" /\ Held(t) = {}) => elevated[t] = priority[t]

\* instructions.md, formula of elevated_nice: an elevated holder has the nice
\* value of some thread that waits for a mutex it holds, and no better one.
ElevatedByWaiter ==
  (use.held = 1 /\ use.steps = {}) =>
    \A t \in Threads :
        \/ elevated[t] = priority[t]
        \/ \E w \in Threads : elevated[t] = priority[w]
              /\ \E m \in Held(t) : on[w] = m

\* The fields of a mutex and its sleepers agree, whoever is killed in between.
MutexSafe == TypeOK /\ HolderKnown /\ NoLostWakeup

\* The holder of a mutex has exactly the priority its waiters ask for.
ElevationExact == WaitersElevateHolder /\ ElevatedByWaiter
============================================================================
