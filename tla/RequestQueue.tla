---------------------------- MODULE RequestQueue ----------------------------
(***************************************************************************)
(* What cs537/P6/ring_buffer.h promises of the shared ring: a bounded FIFO *)
(* queue of request descriptors.  A submitter offers a descriptor and its  *)
(* call ends when the descriptor is in the queue; a getter takes the       *)
(* oldest descriptor and its call ends when it hands that descriptor to    *)
(* its caller.  Submitters wait while the queue holds Capacity entries,    *)
(* getters wait while it is empty.                                         *)
(***************************************************************************)
EXTENDS Naturals, Sequences

CONSTANTS Submitters, Getters, Items, NoItem, Capacity

VARIABLES queue, \* the descriptors submitted and not yet taken, oldest first
          offer, \* what each submitter is submitting, or NoItem
          taken  \* what each getter has taken and not yet returned, or NoItem

vars == <<queue, offer, taken>>

Init ==
    /\ queue = <<>>
    /\ offer = [p \in Submitters |-> NoItem]
    /\ taken = [c \in Getters |-> NoItem]

Offer(p, d) ==
    /\ offer[p] = NoItem
    /\ offer' = [offer EXCEPT ![p] = d]
    /\ UNCHANGED <<queue, taken>>

Enqueue(p) ==
    /\ offer[p] # NoItem
    /\ Len(queue) < Capacity
    /\ queue' = Append(queue, offer[p])
    /\ offer' = [offer EXCEPT ![p] = NoItem]
    /\ UNCHANGED taken

Take(c) ==
    /\ taken[c] = NoItem
    /\ queue # <<>>
    /\ taken' = [taken EXCEPT ![c] = Head(queue)]
    /\ queue' = Tail(queue)
    /\ UNCHANGED offer

Return(c) ==
    /\ taken[c] # NoItem
    /\ taken' = [taken EXCEPT ![c] = NoItem]
    /\ UNCHANGED <<queue, offer>>

Next ==
    \/ \E p \in Submitters : Enqueue(p) \/ \E d \in Items : Offer(p, d)
    \/ \E c \in Getters : Take(c) \/ Return(c)

Spec == Init /\ [][Next]_vars
=============================================================================
