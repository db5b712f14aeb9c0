----------------------------- MODULE AtomicDisk -----------------------------
(***************************************************************************)
(* What log.c promises to the file system: system calls change blocks      *)
(* inside begin_op ... end_op; the changes become durable together, at a   *)
(* moment when no system call is in the middle of its changes; a crash     *)
(* takes the disk back to the last such moment.                            *)
(***************************************************************************)
CONSTANTS Callers, Home, Contents, Blank

VARIABLES view,     \* the blocks as the system calls see them
          durable,  \* the blocks as they would be after a crash
          active    \* callers between begin_op and end_op

Init ==
    /\ view = [b \in Home |-> Blank] /\ durable = view
    /\ active = {}

BeginOp(c) ==
    /\ c \notin active /\ active' = active \cup {c}
    /\ UNCHANGED <<view, durable>>

Write(c, b, v) ==
    /\ c \in active
    /\ view' = [view EXCEPT ![b] = v]
    /\ UNCHANGED <<durable, active>>

EndOp(c) ==
    /\ c \in active /\ active' = active \ {c}
    /\ UNCHANGED <<view, durable>>

Commit ==
    /\ active = {}
    /\ durable' = view
    /\ UNCHANGED <<view, active>>

Crash ==
    /\ view' = durable /\ active' = {}
    /\ UNCHANGED durable

Next ==
    \/ \E c \in Callers : \/ BeginOp(c) \/ EndOp(c)
                          \/ \E b \in Home, v \in Contents : Write(c, b, v)
    \/ Commit \/ Crash

Spec == Init /\ [][Next]_<<view, durable, active>>
=============================================================================
