---------------------------- MODULE XvMutexProofs ----------------------------
(***************************************************************************)
(* The sleep lock for every set of threads, every finite set of mutexes    *)
(* and every use of the lock.  Everything rests on the mutex's spinlock:   *)
(* between acquire(&lk) and release(&lk) a thread's knowledge of the mutex *)
(* stays true, so no fact about it is lost between two steps of a holder.  *)
(***************************************************************************)
EXTENDS XvMutex, FiniteSetTheorems, TLAPS

InCall(t) == at[t] \notin {"user", "dead"}
HasSpin(t) == at[t] \in {"test", "elevate", "sleep", "restore", "unlock", "wake"}

\* A thread in a system call is about one mutex; between acquire and release of
\* the mutex's spinlock it owns it.
SpinOwner ==
    \A t \in Threads :
        /\ InCall(t) => on[t] \in Mutexes
        /\ HasSpin(t) => lk[on[t]] = t

\* What a thread learned about the mutex under the spinlock is still so.
KnownUnderSpin ==
    \A t \in Threads :
        /\ at[t] \in {"elevate", "sleep"} => locked[on[t]]
        /\ at[t] \in {"restore", "unlock"} => holder[on[t]] = t

\* Sleepers are inside sleep(), called by sys_macquire.
SleepersAcquire == \A t \in asleep : at[t] = "acquire"

SafeInv ==
    /\ use \in Uses
    /\ TypeOK /\ SpinOwner /\ KnownUnderSpin /\ SleepersAcquire /\ HolderKnown /\ NoLostWakeup

------------------------------------------------------------------------------

\* The nice values of sys_nice stay in range, whatever is added to them.
LEMMA ClampInRange == \A n \in Int : clamp(n) \in MinNice..MaxNice
  BY MutexAssumption DEF clamp

\* Initially no mutex is taken and nobody is in a call.
LEMMA SafeInit == Init => SafeInv
  BY MutexAssumption
  DEF Init, SafeInv, TypeOK, SpinOwner, KnownUnderSpin, SleepersAcquire, HolderKnown,
      NoLostWakeup, InCall, HasSpin

\* Every step of every thread keeps the invariant.
LEMMA SafeStep == SafeInv /\ [Next]_vars => SafeInv'
<1> SUFFICES ASSUME SafeInv, [Next]_vars PROVE SafeInv'
  OBVIOUS
<1> USE MutexAssumption
    DEF SafeInv, TypeOK, SpinOwner, KnownUnderSpin, SleepersAcquire, HolderKnown,
        NoLostWakeup, InCall, HasSpin, Goto, acquire, release, fixedVars
<1>1. ASSUME NEW t \in Threads, AcquireSpin(t), UNCHANGED fixedVars PROVE SafeInv'
  BY <1>1 DEF AcquireSpin
<1>2. ASSUME NEW t \in Threads, TakeMutex(t), UNCHANGED fixedVars PROVE SafeInv'
  BY <1>2 DEF TakeMutex
<1>3. ASSUME NEW t \in Threads, Compare(t), UNCHANGED fixedVars PROVE SafeInv'
  BY <1>3 DEF Compare
<1>4. ASSUME NEW t \in Threads, Elevate(t), UNCHANGED fixedVars PROVE SafeInv'
  BY <1>4 DEF Elevate
<1>5. ASSUME NEW t \in Threads, Sleep(t), UNCHANGED fixedVars PROVE SafeInv'
  BY <1>5 DEF Sleep
<1>6. ASSUME NEW t \in Threads, Restore(t), UNCHANGED fixedVars PROVE SafeInv'
  BY <1>6 DEF Restore
<1>7. ASSUME NEW t \in Threads, Unlock(t), UNCHANGED fixedVars PROVE SafeInv'
  BY <1>7 DEF Unlock
<1>8. ASSUME NEW t \in Threads, Wakeup(t), UNCHANGED fixedVars PROVE SafeInv'
  BY <1>8 DEF Wakeup
<1>9. ASSUME NEW t \in Threads, NEW m \in Mutexes, CallAcquire(t, m), UNCHANGED fixedVars
      PROVE  SafeInv'
  BY <1>9 DEF CallAcquire
<1>10. ASSUME NEW t \in Threads, NEW m \in Mutexes, CallRelease(t, m), UNCHANGED fixedVars
       PROVE  SafeInv'
  BY <1>10 DEF CallRelease, Held
<1>11. ASSUME NEW t \in Threads, NEW inc \in use.steps, Nice(t, inc), UNCHANGED fixedVars
       PROVE  SafeInv'
  BY <1>11, ClampInRange DEF Nice
<1>12. ASSUME NEW t \in Threads, Kill(t) PROVE SafeInv'
  BY <1>12 DEF Kill
<1>13. ASSUME NEW t \in Threads, Exit(t) PROVE SafeInv'
  BY <1>13 DEF Exit
<1>14. CASE UNCHANGED vars
  BY <1>14 DEF vars
<1> QED
  BY <1>1, <1>2, <1>3, <1>4, <1>5, <1>6, <1>7, <1>8, <1>9, <1>10, <1>11, <1>12,
     <1>13, <1>14
  DEF Next, Kernel

\* The fields of a mutex and its sleepers agree for every number of threads and
\* mutexes: the holder is known while the mutex is taken, and no thread sleeps on
\* a mutex that nobody will wake it from, also when threads are killed.
THEOREM MutexIsSafe == Spec => []MutexSafe
<1>1. SafeInv => MutexSafe
  BY DEF SafeInv, MutexSafe
<1> QED
  BY SafeInit, SafeStep, <1>1, PTL DEF Spec

------------------------------------------------------------------------------
(* sys_mrelease restores the priority *)

\* A thread without a mutex, or about to give up its last one, runs at its own
\* nice value: only the owner of a mutex's spinlock raises the mutex's holder.
RestoredInv ==
    \A t \in Threads :
        (\A m \in Mutexes : holder[m] = t => at[t] = "unlock" /\ on[t] = m)
            => elevated[t] = priority[t]

\* No thread starts elevated.
LEMMA RestoredInit == Init => RestoredInv
  BY DEF Init, RestoredInv

\* sys_macquire elevates only a holder, and sys_mrelease drops the elevation
\* before it gives the mutex up.
LEMMA RestoredStep == SafeInv /\ RestoredInv /\ [Next]_vars => RestoredInv'
<1> SUFFICES ASSUME SafeInv, RestoredInv, [Next]_vars PROVE RestoredInv'
  OBVIOUS
<1> USE MutexAssumption
    DEF SafeInv, TypeOK, SpinOwner, KnownUnderSpin, SleepersAcquire, HolderKnown,
        InCall, HasSpin, RestoredInv, Goto, acquire, release, fixedVars
<1>1. ASSUME NEW t \in Threads, AcquireSpin(t) PROVE RestoredInv'
  BY <1>1 DEF AcquireSpin
<1>2. ASSUME NEW t \in Threads, TakeMutex(t) PROVE RestoredInv'
  BY <1>2 DEF TakeMutex
<1>3. ASSUME NEW t \in Threads, Compare(t) PROVE RestoredInv'
  BY <1>3 DEF Compare
<1>4. ASSUME NEW t \in Threads, Elevate(t) PROVE RestoredInv'
  BY <1>4 DEF Elevate
<1>5. ASSUME NEW t \in Threads, Sleep(t) PROVE RestoredInv'
  BY <1>5 DEF Sleep
<1>6. ASSUME NEW t \in Threads, Restore(t) PROVE RestoredInv'
  BY <1>6 DEF Restore
<1>7. ASSUME NEW t \in Threads, Unlock(t) PROVE RestoredInv'
  BY <1>7 DEF Unlock
<1>8. ASSUME NEW t \in Threads, Wakeup(t) PROVE RestoredInv'
  BY <1>8 DEF Wakeup
<1>9. ASSUME NEW t \in Threads, NEW m \in Mutexes, CallAcquire(t, m) PROVE RestoredInv'
  BY <1>9 DEF CallAcquire
<1>10. ASSUME NEW t \in Threads, NEW m \in Mutexes, CallRelease(t, m) PROVE RestoredInv'
  BY <1>10 DEF CallRelease, Held
<1>11. ASSUME NEW t \in Threads, NEW inc \in use.steps, Nice(t, inc) PROVE RestoredInv'
  BY <1>11 DEF Nice
<1>12. ASSUME NEW t \in Threads, Kill(t) PROVE RestoredInv'
  BY <1>12 DEF Kill
<1>13. ASSUME NEW t \in Threads, Exit(t) PROVE RestoredInv'
  BY <1>13 DEF Exit
<1>14. CASE UNCHANGED vars
  BY <1>14 DEF vars
<1> QED
  BY <1>1, <1>2, <1>3, <1>4, <1>5, <1>6, <1>7, <1>8, <1>9, <1>10, <1>11, <1>12,
     <1>13, <1>14
  DEF Next, Kernel

\* A thread that holds no mutex runs at its own nice value, however many mutexes
\* it held and in whatever order they were released.
THEOREM MutexRestored == Spec => []Restored
<1>1. RestoredInv => Restored
  BY DEF RestoredInv, Restored, Held
<1> QED
  BY SafeInit, SafeStep, RestoredInit, RestoredStep, <1>1, PTL DEF Spec
------------------------------------------------------------------------------
(* Priority inheritance, with one mutex at a time *)

Acquiring(t) == at[t] \in {"acquire", "test", "elevate", "sleep"}

\* The nice value of a holder follows its waiters.  Needed besides the two
\* conjuncts of ElevationExact: who asks for a mutex holds none, nobody holds two,
\* what a waiter found out when it compared is still so when it elevates or
\* sleeps, and the waiter that elevated a holder still waits for its mutex.
ElevationInv ==
    /\ \A t \in Threads : Acquiring(t) => \A m \in Mutexes : holder[m] # t
    /\ \A m, n \in Mutexes : holder[m] # NoThread /\ holder[m] = holder[n] => m = n
    /\ \A t \in Threads :
          /\ at[t] = "elevate" => elevated[t] < elevated[holder[on[t]]]
          /\ at[t] = "sleep" => elevated[holder[on[t]]] <= elevated[t]
    /\ \A t \in asleep :
          locked[on[t]] => \/ elevated[holder[on[t]]] <= priority[t]
                           \/ Releasing(holder[on[t]], on[t])
    /\ \A t \in Threads :
          \/ elevated[t] = priority[t]
          \/ \E w \in Threads : /\ Acquiring(w) /\ holder[on[w]] = t
                                /\ elevated[t] = priority[w]

\* A thread that may take its first mutex holds none.
LEMMA HoldsNothing ==
  ASSUME NEW t, Cardinality(Held(t)) < 1
  PROVE  \A m \in Mutexes : holder[m] # t
<1>1. IsFiniteSet(Held(t))
  BY MutexAssumption, FS_Subset DEF Held
<1>2. Held(t) = {}
  BY <1>1, FS_CardinalityType, FS_EmptySet
<1> QED
  BY <1>2 DEF Held

\* No thread starts elevated or waiting.
LEMMA ElevationInit == Init => ElevationInv
  BY MutexAssumption DEF Init, ElevationInv, Acquiring

\* With one mutex a thread and no call to nice, every step keeps a holder at
\* the best nice value of itself and its waiters.
LEMMA ElevationStep ==
  SafeInv /\ RestoredInv /\ use.held = 1 /\ use.steps = {} /\ ElevationInv /\ [Next]_vars
      => ElevationInv'
<1> SUFFICES ASSUME SafeInv, RestoredInv, use.held = 1, use.steps = {}, ElevationInv,
                    [Next]_vars
             PROVE  ElevationInv'
  OBVIOUS
<1> USE MutexAssumption
    DEF SafeInv, TypeOK, SpinOwner, KnownUnderSpin, SleepersAcquire, HolderKnown,
        NoLostWakeup, InCall, HasSpin, RestoredInv, ElevationInv, Acquiring, Releasing,
        Goto, acquire, release, fixedVars
<1>1. ASSUME NEW t \in Threads, AcquireSpin(t) PROVE ElevationInv'
  BY <1>1 DEF AcquireSpin
<1>2. ASSUME NEW t \in Threads, TakeMutex(t) PROVE ElevationInv'
  BY <1>2 DEF TakeMutex
<1>3. ASSUME NEW t \in Threads, Compare(t) PROVE ElevationInv'
  BY <1>3 DEF Compare
<1>4. ASSUME NEW t \in Threads, Elevate(t) PROVE ElevationInv'
  BY <1>4 DEF Elevate
<1>5. ASSUME NEW t \in Threads, Sleep(t) PROVE ElevationInv'
  BY <1>5 DEF Sleep
<1>6. ASSUME NEW t \in Threads, Restore(t) PROVE ElevationInv'
  BY <1>6 DEF Restore
<1>7. ASSUME NEW t \in Threads, Unlock(t) PROVE ElevationInv'
  BY <1>7 DEF Unlock
<1>8. ASSUME NEW t \in Threads, Wakeup(t) PROVE ElevationInv'
  BY <1>8 DEF Wakeup
<1>9. ASSUME NEW t \in Threads, NEW m \in Mutexes, CallAcquire(t, m) PROVE ElevationInv'
  BY <1>9, HoldsNothing DEF CallAcquire
<1>10. ASSUME NEW t \in Threads, NEW m \in Mutexes, CallRelease(t, m) PROVE ElevationInv'
  BY <1>10 DEF CallRelease, Held
<1>11. ASSUME NEW t \in Threads, NEW inc \in use.steps, Nice(t, inc) PROVE ElevationInv'
  BY <1>11 DEF Nice
<1>12. ASSUME NEW t \in Threads, Kill(t) PROVE ElevationInv'
  BY <1>12 DEF Kill
<1>13. ASSUME NEW t \in Threads, Exit(t) PROVE ElevationInv'
  BY <1>13 DEF Exit
<1>14. CASE UNCHANGED vars
  BY <1>14 DEF vars
<1> QED
  BY <1>1, <1>2, <1>3, <1>4, <1>5, <1>6, <1>7, <1>8, <1>9, <1>10, <1>11, <1>12,
     <1>13, <1>14
  DEF Next, Kernel

\* Programs keep using the lock the way they started.
LEMMA UseFixed == [Next]_vars => use' = use
  BY DEF Next, Kernel, Kill, Exit, fixedVars, vars

\* Priority inheritance is exact for every number of threads and mutexes, when
\* threads hold one mutex at a time and do not call nice: a holder is as urgent as
\* every thread asleep on its mutex, and no more urgent than one that waits.
THEOREM MutexElevationExact == Spec => []ElevationExact
<1> DEFINE OneMutex == use.held = 1 /\ use.steps = {}
           Inv == SafeInv /\ RestoredInv /\ (OneMutex => ElevationInv)
<1>1. Init => Inv
  BY SafeInit, RestoredInit, ElevationInit
<1>2. Inv /\ [Next]_vars => Inv'
  BY SafeStep, RestoredStep, ElevationStep, UseFixed
<1>3. Inv => ElevationExact
  BY DEF SafeInv, TypeOK, SpinOwner, SleepersAcquire, InCall, ElevationInv, Acquiring,
         ElevationExact, WaitersElevateHolder, ElevatedByWaiter, Held
<1> QED
  BY <1>1, <1>2, <1>3, PTL DEF Spec
==============================================================================
