------------------------------- MODULE ShmRing -------------------------------
(***************************************************************************)
(* The request ring in shared memory (cs537/P6/ring_buffer.c).             *)
(*                                                                         *)
(* Client threads are the Producers, server threads the Consumers.  Every  *)
(* access to one of the four atomic counters, and every access to a slot   *)
(* of the buffer, is a step of its own; local computation is folded into   *)
(* the access it follows.  The counters run freely and a slot is the       *)
(* counter modulo RING_SIZE, as in the code.                               *)
(*                                                                         *)
(* MaxInFlight is what the callers guarantee: how many requests may be     *)
(* between the call of ring_submit and the end of the ring_get that takes  *)
(* them (client.c keeps num_threads * win_size).  NumRequests is the       *)
(* length of the workload.                                                 *)
(***************************************************************************)
EXTENDS Integers, Sequences, FiniteSets

CONSTANTS Producers, Consumers, Items, NoItem, RING_SIZE, MaxInFlight,
          NumRequests

ASSUME ThreadsAssumption ==
    /\ IsFiniteSet(Producers)
    /\ Producers \cap Consumers = {}

ASSUME SizeAssumption ==
    /\ RING_SIZE \in Nat \ {0}
    /\ MaxInFlight \in Nat
    /\ NumRequests \in Nat

ASSUME NoItemAssumption == NoItem \notin Items

VARIABLES p_head, p_tail, c_head, c_tail, \* the counters of struct ring
          buffer,                         \* its slots
          pc,    \* the next access of each thread
          head,  \* its local copy of p_head (prod_head) or c_head (cons_head)
          bd     \* the descriptor it is submitting, or has read

counters == <<p_head, p_tail, c_head, c_tail>>
vars == <<p_head, p_tail, c_head, c_tail, buffer, pc, head, bd>>

Threads == Producers \cup Consumers

SubmitSteps == {"s_head", "s_check", "s_cas", "s_write", "s_wait", "s_tail"}
GetSteps    == {"g_head", "g_check", "g_cas", "g_read", "g_wait", "g_tail"}

slot(i) == i % RING_SIZE

\* init_ring: memset of the whole structure to zero
Init ==
    /\ p_head = 0 /\ p_tail = 0 /\ c_head = 0 /\ c_tail = 0
    /\ buffer = [i \in 0..(RING_SIZE - 1) |-> NoItem]
    /\ pc = [t \in Threads |-> "idle"]
    /\ head = [t \in Threads |-> 0]
    /\ bd = [t \in Threads |-> NoItem]

Goto(t, from, to) ==
    /\ pc[t] = from
    /\ pc' = [pc EXCEPT ![t] = to]

------------------------------------------------------------------------------
(* ring_submit *)

BeginSubmit(p, d) ==
    /\ Goto(p, "idle", "s_head")
    /\ bd' = [bd EXCEPT ![p] = d]
    /\ UNCHANGED <<counters, buffer, head>>

SubmitLoadHead(p) ==
    /\ Goto(p, "s_head", "s_check")
    /\ head' = [head EXCEPT ![p] = p_head]
    /\ UNCHANGED <<counters, buffer, bd>>

\* c_tail is loaded after p_head: the two values need not belong together
RingFull(prod_head, cons_tail) == prod_head + 1 = cons_tail

SubmitCheck(p) ==
    /\ Goto(p, "s_check", IF RingFull(head[p], c_tail) THEN "s_head" ELSE "s_cas")
    /\ UNCHANGED <<counters, buffer, head, bd>>

\* Variant: store instead of compare-and-swap.
SubmitCasBlind(p) ==
    /\ Goto(p, "s_cas", "s_write")
    /\ p_head' = head[p] + 1
    /\ UNCHANGED <<p_tail, c_head, c_tail, buffer, head, bd>>

SubmitCas(p) ==
    /\ \/ /\ p_head = head[p]
          /\ Goto(p, "s_cas", "s_write")
          /\ p_head' = head[p] + 1
       \/ /\ p_head # head[p]
          /\ Goto(p, "s_cas", "s_head")
          /\ UNCHANGED p_head
    /\ UNCHANGED <<p_tail, c_head, c_tail, buffer, head, bd>>

SubmitWrite(p) ==
    /\ Goto(p, "s_write", "s_wait")
    /\ buffer' = [buffer EXCEPT ![slot(head[p])] = bd[p]]
    /\ UNCHANGED <<counters, head, bd>>

\* Variant: publish without waiting for the earlier producers.
SubmitNoWait(p) ==
    /\ Goto(p, "s_wait", "s_tail")
    /\ UNCHANGED <<counters, buffer, head, bd>>

\* the spin loop on p_tail ends
SubmitWait(p) ==
    /\ p_tail = head[p]
    /\ Goto(p, "s_wait", "s_tail")
    /\ UNCHANGED <<counters, buffer, head, bd>>

\* Variant: the tail is set to the position itself, one short.
SubmitTailShort(p) ==
    /\ Goto(p, "s_tail", "idle")
    /\ p_tail' = head[p]
    /\ UNCHANGED <<p_head, c_head, c_tail, buffer, head, bd>>

SubmitTail(p) ==
    /\ Goto(p, "s_tail", "idle")
    /\ p_tail' = p_tail + 1
    /\ UNCHANGED <<p_head, c_head, c_tail, buffer, head, bd>>

SubmitStep(p) ==
    \/ SubmitLoadHead(p) \/ SubmitCheck(p) \/ SubmitCas(p)
    \/ SubmitWrite(p) \/ SubmitWait(p) \/ SubmitTail(p)

------------------------------------------------------------------------------
(* ring_get *)

BeginGet(c) ==
    /\ Goto(c, "idle", "g_head")
    /\ UNCHANGED <<counters, buffer, head, bd>>

GetLoadHead(c) ==
    /\ Goto(c, "g_head", "g_check")
    /\ head' = [head EXCEPT ![c] = c_head]
    /\ UNCHANGED <<counters, buffer, bd>>

\* Variant: the empty test is dropped.
RingNeverEmpty(cons_head, prod_tail) == FALSE

RingEmpty(cons_head, prod_tail) == cons_head = prod_tail

GetCheck(c) ==
    /\ Goto(c, "g_check", IF RingEmpty(head[c], p_tail) THEN "g_head" ELSE "g_cas")
    /\ UNCHANGED <<counters, buffer, head, bd>>

GetCas(c) ==
    /\ \/ /\ c_head = head[c]
          /\ Goto(c, "g_cas", "g_read")
          /\ c_head' = head[c] + 1
       \/ /\ c_head # head[c]
          /\ Goto(c, "g_cas", "g_head")
          /\ UNCHANGED c_head
    /\ UNCHANGED <<p_head, p_tail, c_tail, buffer, head, bd>>

GetRead(c) ==
    /\ Goto(c, "g_read", "g_wait")
    /\ bd' = [bd EXCEPT ![c] = buffer[slot(head[c])]]
    /\ UNCHANGED <<counters, buffer, head>>

GetWait(c) ==
    /\ c_tail = head[c]
    /\ Goto(c, "g_wait", "g_tail")
    /\ UNCHANGED <<counters, buffer, head, bd>>

\* Variant: atomic_fetch_sub for atomic_fetch_add.
GetTailSub(c) ==
    /\ Goto(c, "g_tail", "idle")
    /\ c_tail' = c_tail - 1
    /\ UNCHANGED <<p_head, p_tail, c_head, buffer, head, bd>>

GetTail(c) ==
    /\ Goto(c, "g_tail", "idle")
    /\ c_tail' = c_tail + 1
    /\ UNCHANGED <<p_head, p_tail, c_head, buffer, head, bd>>

GetStep(c) ==
    \/ GetLoadHead(c) \/ GetCheck(c) \/ GetCas(c)
    \/ GetRead(c) \/ GetWait(c) \/ GetTail(c)

------------------------------------------------------------------------------
(* The callers: producers that keep their promise, consumers in a loop *)

\* producers inside ring_submit that have not won a slot yet
Reserving == {p \in Producers : pc[p] \in {"s_head", "s_check", "s_cas"}}

Submitted == p_head + Cardinality(Reserving)

CallSubmit(p, d) ==
    /\ Submitted < c_tail + MaxInFlight
    /\ Submitted < NumRequests
    /\ BeginSubmit(p, d)

ProducerNext(p) == SubmitStep(p) \/ \E d \in Items : CallSubmit(p, d)
ConsumerNext(c) == GetStep(c) \/ BeginGet(c)

Next ==
    \/ \E p \in Producers : ProducerNext(p)
    \/ \E c \in Consumers : ConsumerNext(c)

Spec == Init /\ [][Next]_vars

\* Each thread is scheduled again and again; it may lose every CAS it tries.
\* Nothing obliges a caller to submit another request.
Fairness ==
    /\ \A p \in Producers : WF_vars(SubmitStep(p))
    /\ \A c \in Consumers : WF_vars(ConsumerNext(c))

FairSpec == Spec /\ Fairness

------------------------------------------------------------------------------
(* Properties *)

TypeOK ==
    /\ p_head \in Nat /\ p_tail \in Nat /\ c_head \in Nat /\ c_tail \in Nat
    /\ buffer \in [0..(RING_SIZE - 1) -> Items \cup {NoItem}]
    /\ pc \in [Threads -> {"idle"} \cup SubmitSteps \cup GetSteps]
    /\ \A p \in Producers : pc[p] \notin GetSteps
    /\ \A c \in Consumers : pc[c] \notin SubmitSteps
    /\ head \in [Threads -> Nat]
    /\ bd \in [Threads -> Items \cup {NoItem}]

\* ring_buffer.h: p_head is "always ahead of p_tail"; getters stay behind the
\* published entries, and the ring never holds more than RING_SIZE entries.
CounterOrder ==
    /\ c_tail <= c_head /\ c_head <= p_tail /\ p_tail <= p_head
    /\ p_head <= c_tail + RING_SIZE

\* The copy into buffer[prod_head % RING_SIZE] races with no other access: no
\* thread that won another position is about to write or read that slot.
SlotRaceFree ==
    \A p \in Producers, t \in Threads :
        (pc[p] = "s_write" /\ t # p /\ pc[t] \in {"s_write", "g_read"})
            => slot(head[t]) # slot(head[p])

\* The ring implements the bounded FIFO queue that ring_buffer.h describes.
Published ==
    [i \in 1..(p_tail - c_head) |-> buffer[slot(c_head + i - 1)]]

InOffer == [p \in Producers |-> IF pc[p] = "idle" THEN NoItem ELSE bd[p]]

InHand ==
    [c \in Consumers |->
        CASE pc[c] = "g_read" -> buffer[slot(head[c])]
          [] pc[c] \in {"g_wait", "g_tail"} -> bd[c]
          [] OTHER -> NoItem]

Queue == INSTANCE RequestQueue WITH
    Submitters <- Producers, Getters <- Consumers, Capacity <- RING_SIZE,
    queue <- Published, offer <- InOffer, taken <- InHand

IsFifoQueue == Queue!Spec

SubmitEnds == \A p \in Producers : pc[p] # "idle" ~> pc[p] = "idle"
Drains == \A n \in 1..NumRequests : p_head >= n ~> c_tail >= n

\* A ring_submit that has started ends, and what it published is taken: no
\* thread waits for ever on p_tail or c_tail, and none loses every
\* compare-and-swap while the others have nothing left to win.
Progress == SubmitEnds /\ Drains

\* ring_buffer.h: ring_submit "will block the calling thread if there's not
\* enough space", so winning a position means a slot was free.
BlocksWhenFull == [][p_head' # p_head => p_head < c_tail + RING_SIZE]_vars
==============================================================================
