----------------------------- MODULE MCXvSched -----------------------------
(***************************************************************************)
(* Small instances of XvSched for TLC.  The Static specifications start    *)
(* from a table that is already full, with any nice values, and leave out  *)
(* the calls that create, end and renice processes: they ask what the      *)
(* scheduler does with a given set of processes that sleep and wake.       *)
(***************************************************************************)
EXTENDS XvSched

CONSTANT Lowest  \* the lowest nice value is -Lowest

MCMinNice == 0 - Lowest

\* Processes that sleep and renice, and threads that come and go
MCClasses == {{"nice", "sleep", "fork"}, {"sleep", "fork", "kill"},
              {"fork", "clone", "kill"}, {"fork", "clone", "exec"}}

StaticInit ==
    /\ \E nice \in [Slots -> MinNice..MaxNice] : priority = nice /\ elevated = nice
    /\ state = [s \in Slots |-> "RUNNABLE"]
    /\ parent = [s \in Slots |-> IF s = init THEN None ELSE init]
    /\ killed = [s \in Slots |-> FALSE]
    /\ at = [s \in Slots |-> "user"]
    /\ child = [s \in Slots |-> None]
    /\ sleepticks = [s \in Slots |-> -1]
    /\ asked = [s \in Slots |-> 0]
    /\ elapsed = [s \in Slots |-> 0]
    /\ running = None /\ p = 0 /\ startIndex = 0
    /\ pgdir = [s \in Slots |-> s] /\ live = Slots
    /\ uvmrefcount = [i \in Slots |-> FreeEntry]
    /\ entry = [s \in Slots |-> None]
    /\ calls \in Classes

StaticNext ==
    \/ Tick \/ Restart
    \/ \E s \in Slots :
          Pick(s) \/ SleepResume(s) \/ \E n \in 0..MaxSleep : SleepCall(s, n)

StaticFair == StaticInit /\ [][StaticNext]_vars /\ Fairness
============================================================================
