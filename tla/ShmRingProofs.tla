---------------------------- MODULE ShmRingProofs ----------------------------
(***************************************************************************)
(* Invariants of the shared ring for every number of threads, ring size    *)
(* and workload.  The ring itself never checks for room, so what it relies *)
(* on is the callers' bound: MaxInFlight <= RING_SIZE.                     *)
(***************************************************************************)
EXTENDS ShmRing, FiniteSetTheorems, TLAPS

\* The positions between the tail and the head of one side belong to the
\* threads that won them, each to one thread; a thread about to bump a tail
\* holds exactly that tail.
WonSubmit(p) == pc[p] \in {"s_write", "s_wait", "s_tail"}
WonGet(c) == pc[c] \in {"g_read", "g_wait", "g_tail"}

Ordered == c_tail <= c_head /\ c_head <= p_tail /\ p_tail <= p_head

Windowed == Submitted <= c_tail + MaxInFlight

SubmitPositions ==
    \A p \in Producers :
        /\ pc[p] \in {"s_check", "s_cas"} => head[p] <= p_head
        /\ WonSubmit(p) => p_tail <= head[p] /\ head[p] < p_head
        /\ pc[p] = "s_tail" => head[p] = p_tail
        /\ \A q \in Producers :
              (q # p /\ WonSubmit(p) /\ WonSubmit(q)) => head[p] # head[q]

GetPositions ==
    \A c \in Consumers :
        /\ pc[c] \in {"g_check", "g_cas"} => head[c] <= c_head
        /\ pc[c] = "g_cas" => head[c] < p_tail
        /\ WonGet(c) => c_tail <= head[c] /\ head[c] < c_head
        /\ pc[c] = "g_tail" => head[c] = c_tail
        /\ \A e \in Consumers :
              (e # c /\ WonGet(c) /\ WonGet(e)) => head[c] # head[e]

IInv == TypeOK /\ Ordered /\ Windowed /\ SubmitPositions /\ GetPositions

------------------------------------------------------------------------------

\* A slot index computed from a counter is a slot of the buffer.
LEMMA SlotInRange == \A i \in Nat : slot(i) \in 0..(RING_SIZE - 1)
  BY SizeAssumption DEF slot

\* Init establishes the type invariant, and every step keeps it.
LEMMA TypeInit == Init => TypeOK
  BY SizeAssumption, ThreadsAssumption
  DEF Init, TypeOK, Threads, SubmitSteps, GetSteps

\* Every step of a client or server thread keeps the types.
LEMMA TypeStep == TypeOK /\ [Next]_vars => TypeOK'
<1> SUFFICES ASSUME TypeOK, [Next]_vars PROVE TypeOK'
  OBVIOUS
<1> USE ThreadsAssumption DEF Threads, SubmitSteps, GetSteps, counters, Goto
<1>1. ASSUME NEW p \in Producers, NEW d \in Items, CallSubmit(p, d) PROVE TypeOK'
  BY <1>1 DEF TypeOK, CallSubmit, BeginSubmit
<1>2. ASSUME NEW p \in Producers, SubmitLoadHead(p) PROVE TypeOK'
  BY <1>2 DEF TypeOK, SubmitLoadHead
<1>3. ASSUME NEW p \in Producers, SubmitCheck(p) PROVE TypeOK'
  BY <1>3 DEF TypeOK, SubmitCheck
<1>4. ASSUME NEW p \in Producers, SubmitCas(p) PROVE TypeOK'
  BY <1>4 DEF TypeOK, SubmitCas
<1>5. ASSUME NEW p \in Producers, SubmitWrite(p) PROVE TypeOK'
  BY <1>5, SlotInRange DEF TypeOK, SubmitWrite
<1>6. ASSUME NEW p \in Producers, SubmitWait(p) PROVE TypeOK'
  BY <1>6 DEF TypeOK, SubmitWait
<1>7. ASSUME NEW p \in Producers, SubmitTail(p) PROVE TypeOK'
  BY <1>7 DEF TypeOK, SubmitTail
<1>8. ASSUME NEW c \in Consumers, BeginGet(c) PROVE TypeOK'
  BY <1>8 DEF TypeOK, BeginGet
<1>9. ASSUME NEW c \in Consumers, GetLoadHead(c) PROVE TypeOK'
  BY <1>9 DEF TypeOK, GetLoadHead
<1>10. ASSUME NEW c \in Consumers, GetCheck(c) PROVE TypeOK'
  BY <1>10 DEF TypeOK, GetCheck
<1>11. ASSUME NEW c \in Consumers, GetCas(c) PROVE TypeOK'
  BY <1>11 DEF TypeOK, GetCas
<1>12. ASSUME NEW c \in Consumers, GetRead(c) PROVE TypeOK'
  <2>1. slot(head[c]) \in 0..(RING_SIZE - 1)
    BY SlotInRange DEF TypeOK
  <2>2. buffer[slot(head[c])] \in Items \cup {NoItem}
    BY <2>1 DEF TypeOK
  <2> QED
    BY <1>12, <2>2 DEF TypeOK, GetRead
<1>13. ASSUME NEW c \in Consumers, GetWait(c) PROVE TypeOK'
  BY <1>13 DEF TypeOK, GetWait
<1>14. ASSUME NEW c \in Consumers, GetTail(c) PROVE TypeOK'
  BY <1>14 DEF TypeOK, GetTail
<1>15. CASE UNCHANGED vars
  BY <1>15 DEF TypeOK, vars
<1> QED
  BY <1>1, <1>2, <1>3, <1>4, <1>5, <1>6, <1>7, <1>8, <1>9, <1>10, <1>11,
     <1>12, <1>13, <1>14, <1>15
  DEF Next, ProducerNext, ConsumerNext, SubmitStep, GetStep

\* The counters, slots and locals of the ring keep their types for ever.
THEOREM RingTypeCorrect == Spec => []TypeOK
  BY TypeInit, TypeStep, PTL DEF Spec

------------------------------------------------------------------------------
(* The counters keep their order *)

\* Every step is a step of one thread, so a fact about a step is shown action
\* by action.
LEMMA OrderedStep ==
  TypeOK /\ Ordered /\ SubmitPositions /\ GetPositions /\ [Next]_vars => Ordered'
<1> SUFFICES ASSUME TypeOK, Ordered, SubmitPositions, GetPositions, [Next]_vars
             PROVE  Ordered'
  OBVIOUS
<1> USE DEF TypeOK, Ordered, counters, Threads
<1>1. ASSUME NEW p \in Producers, SubmitCas(p) PROVE Ordered'
  BY <1>1 DEF SubmitCas
<1>2. ASSUME NEW p \in Producers, SubmitTail(p) PROVE Ordered'
  BY <1>2 DEF SubmitTail, Goto, SubmitPositions, WonSubmit
<1>3. ASSUME NEW c \in Consumers, GetCas(c) PROVE Ordered'
  BY <1>3 DEF GetCas, Goto, GetPositions
<1>4. ASSUME NEW c \in Consumers, GetTail(c) PROVE Ordered'
  BY <1>4 DEF GetTail, Goto, GetPositions, WonGet
<1>5. CASE UNCHANGED counters
  BY <1>5
<1> QED
  BY <1>1, <1>2, <1>3, <1>4, <1>5
  DEF Next, ProducerNext, ConsumerNext, SubmitStep, GetStep, CallSubmit,
      BeginSubmit, SubmitLoadHead, SubmitCheck, SubmitWrite, SubmitWait,
      BeginGet, GetLoadHead, GetCheck, GetRead, GetWait, vars

\* A position between p_tail and p_head has one owner, in submission order.
LEMMA SubmitPositionsStep ==
  TypeOK /\ Ordered /\ SubmitPositions /\ [Next]_vars => SubmitPositions'
<1> SUFFICES ASSUME TypeOK, Ordered, SubmitPositions, [Next]_vars
             PROVE  SubmitPositions'
  OBVIOUS
<1> USE ThreadsAssumption
    DEF TypeOK, Ordered, counters, Threads, SubmitPositions, WonSubmit, Goto,
        SubmitSteps, GetSteps
<1>1. ASSUME NEW p \in Producers, NEW d \in Items, CallSubmit(p, d)
      PROVE  SubmitPositions'
  BY <1>1 DEF CallSubmit, BeginSubmit
<1>2. ASSUME NEW p \in Producers, SubmitLoadHead(p) PROVE SubmitPositions'
  BY <1>2 DEF SubmitLoadHead
<1>3. ASSUME NEW p \in Producers, SubmitCheck(p) PROVE SubmitPositions'
  BY <1>3 DEF SubmitCheck
<1>4. ASSUME NEW p \in Producers, SubmitCas(p) PROVE SubmitPositions'
  BY <1>4 DEF SubmitCas
<1>5. ASSUME NEW p \in Producers, SubmitWrite(p) PROVE SubmitPositions'
  BY <1>5 DEF SubmitWrite
<1>6. ASSUME NEW p \in Producers, SubmitWait(p) PROVE SubmitPositions'
  BY <1>6 DEF SubmitWait
<1>7. ASSUME NEW p \in Producers, SubmitTail(p) PROVE SubmitPositions'
  BY <1>7 DEF SubmitTail
<1>8. ASSUME NEW c \in Consumers, ConsumerNext(c) PROVE SubmitPositions'
  BY <1>8 DEF ConsumerNext, GetStep, BeginGet, GetLoadHead, GetCheck, GetCas,
              GetRead, GetWait, GetTail
<1>9. CASE UNCHANGED vars
  BY <1>9 DEF vars
<1> QED
  BY <1>1, <1>2, <1>3, <1>4, <1>5, <1>6, <1>7, <1>8, <1>9
  DEF Next, ProducerNext, SubmitStep

\* The same for the consumers, who only pass published entries.
LEMMA GetPositionsStep ==
  TypeOK /\ Ordered /\ SubmitPositions /\ GetPositions /\ [Next]_vars => GetPositions'
<1> SUFFICES ASSUME TypeOK, Ordered, SubmitPositions, GetPositions, [Next]_vars
             PROVE  GetPositions'
  OBVIOUS
<1> USE ThreadsAssumption
    DEF TypeOK, Ordered, counters, Threads, GetPositions, WonGet, Goto,
        SubmitSteps, GetSteps
<1>1. ASSUME NEW p \in Producers, ProducerNext(p) PROVE GetPositions'
  BY <1>1 DEF ProducerNext, CallSubmit, SubmitStep, BeginSubmit,
              SubmitLoadHead, SubmitCheck, SubmitCas, SubmitWrite, SubmitWait,
              SubmitTail
<1>2. ASSUME NEW c \in Consumers, BeginGet(c) PROVE GetPositions'
  BY <1>2 DEF BeginGet
<1>3. ASSUME NEW c \in Consumers, GetLoadHead(c) PROVE GetPositions'
  BY <1>3 DEF GetLoadHead
<1>4. ASSUME NEW c \in Consumers, GetCheck(c) PROVE GetPositions'
  BY <1>4 DEF GetCheck, RingEmpty
<1>5. ASSUME NEW c \in Consumers, GetCas(c) PROVE GetPositions'
  BY <1>5 DEF GetCas
<1>6. ASSUME NEW c \in Consumers, GetRead(c) PROVE GetPositions'
  BY <1>6 DEF GetRead
<1>7. ASSUME NEW c \in Consumers, GetWait(c) PROVE GetPositions'
  BY <1>7 DEF GetWait
<1>8. ASSUME NEW c \in Consumers, GetTail(c) PROVE GetPositions'
  BY <1>8 DEF GetTail
<1>9. CASE UNCHANGED vars
  BY <1>9 DEF vars
<1> QED
  BY <1>1, <1>2, <1>3, <1>4, <1>5, <1>6, <1>7, <1>8, <1>9
  DEF Next, ConsumerNext, GetStep

------------------------------------------------------------------------------
(* The callers' bound *)

\* The producers that are still reserving are finitely many.
LEMMA ReservingFinite == IsFiniteSet(Reserving) /\ Cardinality(Reserving) \in Nat
  BY ThreadsAssumption, FS_Subset, FS_CardinalityType DEF Reserving

\* A call of ring_submit adds one to what is submitted.
LEMMA SubmittedGrows ==
  ASSUME TypeOK, NEW p \in Producers, NEW d, BeginSubmit(p, d)
  PROVE  Submitted' = Submitted + 1 /\ c_tail' = c_tail
<1> DEFINE R == Reserving
<1>0. IsFiniteSet(R) /\ Cardinality(R) \in Nat /\ p_head \in Nat
  BY ReservingFinite DEF TypeOK
<1>1. R' = R \cup {p} /\ p \notin R
  BY ThreadsAssumption DEF BeginSubmit, Goto, Reserving, TypeOK, Threads
<1>2. Cardinality(R') = Cardinality(R) + 1
  BY <1>0, <1>1, FS_AddElement
<1>3. p_head' = p_head /\ c_tail' = c_tail
  BY DEF BeginSubmit, counters
<1> QED
  BY <1>0, <1>2, <1>3 DEF Submitted

\* Nothing else changes it: the step that wins a position leaves Reserving and
\* moves p_head.
LEMMA SubmittedSame ==
  ASSUME TypeOK,
         \/ \E p \in Producers : SubmitStep(p)
         \/ \E c \in Consumers : ConsumerNext(c)
         \/ UNCHANGED vars
  PROVE  Submitted' = Submitted
<1> DEFINE R == Reserving
<1>0. IsFiniteSet(R) /\ Cardinality(R) \in Nat /\ p_head \in Nat
  BY ReservingFinite DEF TypeOK
<1> USE ThreadsAssumption
    DEF TypeOK, Threads, Goto, counters, SubmitSteps, GetSteps
<1>1. ASSUME NEW p \in Producers, SubmitCas(p), p_head = head[p]
      PROVE  Submitted' = Submitted
  <2>1. R' = R \ {p} /\ p \in R
    BY <1>1 DEF SubmitCas, Reserving
  <2>2. Cardinality(R') = Cardinality(R) - 1
    BY <1>0, <2>1, FS_RemoveElement
  <2>3. p_head' = p_head + 1
    BY <1>1 DEF SubmitCas
  <2> QED
    BY <1>0, <2>2, <2>3 DEF Submitted
<1>2. ASSUME NEW p \in Producers,
             \/ SubmitCas(p) /\ p_head # head[p]
             \/ SubmitLoadHead(p) \/ SubmitCheck(p) \/ SubmitWrite(p)
             \/ SubmitWait(p) \/ SubmitTail(p)
      PROVE  Submitted' = Submitted
  <2>1. R' = R /\ p_head' = p_head
    BY <1>2 DEF Reserving, SubmitCas, SubmitLoadHead, SubmitCheck, SubmitWrite,
                SubmitWait, SubmitTail
  <2> QED
    BY <2>1 DEF Submitted
<1>3. ASSUME NEW c \in Consumers, ConsumerNext(c) PROVE Submitted' = Submitted
  <2>1. R' = R /\ p_head' = p_head
    BY <1>3 DEF Reserving, ConsumerNext, GetStep, BeginGet, GetLoadHead,
                GetCheck, GetCas, GetRead, GetWait, GetTail
  <2> QED
    BY <2>1 DEF Submitted
<1>4. CASE UNCHANGED vars
  BY <1>4 DEF vars, Reserving, Submitted
<1> QED
  BY <1>1, <1>2, <1>3, <1>4 DEF SubmitStep

\* Submitted grows by calls alone, and these keep the window.
LEMMA WindowedStep ==
  TypeOK /\ Ordered /\ Windowed /\ [Next]_vars => Windowed'
<1> SUFFICES ASSUME TypeOK, Ordered, Windowed, [Next]_vars PROVE Windowed'
  OBVIOUS
<1>0. Submitted \in Nat /\ c_tail \in Nat /\ MaxInFlight \in Nat
  BY ReservingFinite, SizeAssumption DEF TypeOK, Submitted
<1>1. ASSUME NEW p \in Producers, NEW d \in Items, CallSubmit(p, d)
      PROVE  Windowed'
  <2>1. Submitted' = Submitted + 1 /\ c_tail' = c_tail
    BY <1>1, SubmittedGrows DEF CallSubmit
  <2>2. Submitted < c_tail + MaxInFlight
    BY <1>1 DEF CallSubmit
  <2> QED
    BY <1>0, <2>1, <2>2 DEF Windowed
<1>2. CASE \/ \E p \in Producers : SubmitStep(p)
           \/ \E c \in Consumers : ConsumerNext(c)
           \/ UNCHANGED vars
  <2>1. Submitted' = Submitted
    BY <1>2, SubmittedSame
  <2>2. c_tail' = c_tail \/ c_tail' = c_tail + 1
    BY <1>2 DEF vars, SubmitStep, SubmitLoadHead, SubmitCheck, SubmitCas, SubmitWrite,
                SubmitWait, SubmitTail, ConsumerNext, GetStep, BeginGet, GetLoadHead,
                GetCheck, GetCas, GetRead, GetWait, GetTail, counters
  <2> QED
    BY <1>0, <2>1, <2>2 DEF Windowed
<1> QED
  BY <1>1, <1>2 DEF Next, ProducerNext

------------------------------------------------------------------------------
(* The inductive invariant and what it gives *)

\* Nothing is in flight in the zeroed ring.
LEMMA IInvInit == Init => IInv
<1> SUFFICES ASSUME Init PROVE IInv
  OBVIOUS
<1>1. Reserving = {}
  BY DEF Init, Reserving, Threads
<1>2. Windowed
  BY <1>1, SizeAssumption, FS_EmptySet DEF Init, Windowed, Submitted
<1>3. Ordered /\ SubmitPositions /\ GetPositions
  BY DEF Init, Ordered, SubmitPositions, GetPositions, WonSubmit, WonGet, Threads
<1> QED
  BY <1>2, <1>3, TypeInit DEF IInv

\* The positions of all threads, the order of the counters and the callers'
\* window together are inductive.
THEOREM RingInductive == Spec => []IInv
<1>1. IInv /\ [Next]_vars => IInv'
  BY TypeStep, OrderedStep, WindowedStep, SubmitPositionsStep, GetPositionsStep
  DEF IInv
<1> QED
  BY <1>1, IInvInit, PTL DEF Spec

\* A window no larger than the ring keeps the ring from being overfull.
LEMMA OrderFollows ==
  ASSUME MaxInFlight <= RING_SIZE
  PROVE  IInv => CounterOrder
<1> SUFFICES ASSUME IInv PROVE p_head <= c_tail + RING_SIZE
  BY DEF IInv, Ordered, CounterOrder
<1>1. p_head \in Nat /\ c_tail \in Nat /\ MaxInFlight \in Nat /\ RING_SIZE \in Nat
  BY SizeAssumption DEF IInv, TypeOK
<1> QED
  BY <1>1, ReservingFinite DEF IInv, Windowed, Submitted

\* With a window no larger than the ring, the four counters of struct ring keep
\* the order ring_buffer.h describes and the ring is never overfull, although
\* ring_submit does not check for room.
THEOREM RingCounterOrder ==
  ASSUME MaxInFlight <= RING_SIZE
  PROVE  Spec => []CounterOrder
  BY OrderFollows, RingInductive, PTL

\* Numbers less than n apart have different remainders modulo n.
LEMMA ModDiffer ==
  ASSUME NEW n \in Nat \ {0}, NEW i \in Nat, NEW j \in Nat, i < j, j < i + n
  PROVE  i % n # j % n
<1> DEFINE qi == i \div n
           qj == j \div n
           ri == i % n
           rj == j % n
<1>1. /\ qi \in Nat /\ qj \in Nat /\ ri \in Nat /\ rj \in Nat
      /\ i = n * qi + ri /\ j = n * qj + rj
  OBVIOUS
<1> HIDE DEF qi, qj, ri, rj
<1>2. SUFFICES ASSUME ri = rj PROVE FALSE
  BY DEF ri, rj
<1>3. n * (qj - qi) = j - i
  BY <1>1, <1>2
<1>4. CASE qj - qi >= 1
  BY <1>1, <1>3, <1>4
<1>5. CASE qj - qi <= 0
  BY <1>1, <1>3, <1>5
<1> QED
  BY <1>1, <1>4, <1>5

\* Two positions less than RING_SIZE apart lie in different slots.
LEMMA SlotsDiffer ==
  ASSUME NEW i \in Nat, NEW j \in Nat, i < j, j < i + RING_SIZE
  PROVE  slot(i) # slot(j)
  BY SizeAssumption, ModDiffer DEF slot

\* No thread writes a slot of the buffer while another writes or reads it.
THEOREM RingSlotRaceFree ==
  ASSUME MaxInFlight <= RING_SIZE
  PROVE  Spec => []SlotRaceFree
<1>1. IInv /\ CounterOrder => SlotRaceFree
  <2> SUFFICES ASSUME IInv, CounterOrder, NEW p \in Producers, NEW t \in Threads,
                      pc[p] = "s_write", t # p, pc[t] \in {"s_write", "g_read"}
               PROVE  slot(head[t]) # slot(head[p])
    BY DEF SlotRaceFree
  <2>1. head[p] \in Nat /\ head[t] \in Nat /\ RING_SIZE \in Nat
    BY SizeAssumption DEF IInv, TypeOK, Threads
  <2>2. c_tail <= head[p] /\ head[p] < p_head
    BY <2>1 DEF IInv, TypeOK, Ordered, SubmitPositions, WonSubmit
  <2>3. c_tail <= head[t] /\ head[t] < p_head /\ head[t] # head[p]
    BY <2>1 DEF IInv, TypeOK, Ordered, SubmitPositions, GetPositions, WonSubmit,
           WonGet, Threads, SubmitSteps, GetSteps
  <2>4. head[p] < head[t] + RING_SIZE /\ head[t] < head[p] + RING_SIZE
    BY <2>1, <2>2, <2>3 DEF CounterOrder, IInv, TypeOK
  <2> QED
    BY <2>1, <2>3, <2>4, SlotsDiffer
<1> QED
  BY <1>1, RingInductive, RingCounterOrder, PTL

------------------------------------------------------------------------------
(* The ring implements the bounded queue *)

\* What the slots and the threads' descriptors hold: a published position that
\* no getter has finished with keeps the descriptor written to it, a submitter
\* past its write finds its descriptor in the slot it won, and both sides of the
\* ring only ever hand on descriptors that somebody submitted.
Contents ==
    /\ \A i \in Nat : (c_tail <= i /\ i < p_tail) => buffer[slot(i)] \in Items
    /\ \A p \in Producers :
          /\ pc[p] # "idle" => bd[p] \in Items
          /\ pc[p] \in {"s_wait", "s_tail"} => buffer[slot(head[p])] = bd[p]
    /\ \A c \in Consumers : pc[c] \in {"g_wait", "g_tail"} => bd[c] \in Items

\* The zeroed ring has nothing published.
LEMMA ContentsInit == Init => Contents
  BY ThreadsAssumption DEF Init, Contents, Threads

\* A producer's copy into its slot leaves alone every position that is published
\* and not given back, and every slot another producer has won.
LEMMA WriteElsewhere ==
  ASSUME IInv, CounterOrder, NEW p \in Producers, SubmitWrite(p)
  PROVE  /\ \A i \in Nat : (c_tail <= i /\ i < p_tail)
                              => buffer'[slot(i)] = buffer[slot(i)]
         /\ \A q \in Producers : (q # p /\ WonSubmit(q))
                              => buffer'[slot(head[q])] = buffer[slot(head[q])]
         /\ buffer'[slot(head[p])] = bd[p]
<1>1. /\ p_head \in Nat /\ p_tail \in Nat /\ c_head \in Nat /\ c_tail \in Nat
      /\ RING_SIZE \in Nat /\ head \in [Threads -> Nat]
      /\ p \in Threads /\ Producers \subseteq Threads
      /\ buffer \in [0..(RING_SIZE - 1) -> Items \cup {NoItem}]
  BY SizeAssumption DEF IInv, TypeOK, Threads
<1>2. p_tail <= head[p] /\ head[p] < p_head /\ p_head <= c_tail + RING_SIZE
  BY DEF SubmitWrite, Goto, IInv, SubmitPositions, WonSubmit, CounterOrder
<1>3. /\ buffer' = [buffer EXCEPT ![slot(head[p])] = bd[p]]
      /\ head[p] \in Nat /\ slot(head[p]) \in 0..(RING_SIZE - 1)
  BY <1>1, SlotInRange DEF SubmitWrite
<1>4. ASSUME NEW i \in Nat, c_tail <= i, i < p_tail PROVE slot(i) # slot(head[p])
  <2>1. i < head[p] /\ head[p] < i + RING_SIZE
    BY <1>1, <1>2, <1>3, <1>4
  <2> QED
    BY <2>1, <1>3, SlotsDiffer
<1>5. ASSUME NEW q \in Producers, q # p, WonSubmit(q) PROVE slot(head[q]) # slot(head[p])
  <2>1. /\ head[q] \in Nat /\ head[q] # head[p]
        /\ p_tail <= head[q] /\ head[q] < p_head
    BY <1>1, <1>5 DEF SubmitWrite, Goto, IInv, SubmitPositions, WonSubmit
  <2>2. c_tail <= p_tail
    BY <1>1 DEF CounterOrder
  <2>3. \/ head[q] < head[p] /\ head[p] < head[q] + RING_SIZE
        \/ head[p] < head[q] /\ head[q] < head[p] + RING_SIZE
    BY <1>1, <1>2, <1>3, <2>1, <2>2
  <2> QED
    BY <2>1, <2>3, <1>3, SlotsDiffer
<1>6. \A i \in Nat : slot(i) \in 0..(RING_SIZE - 1)
  BY SlotInRange
<1>7. buffer'[slot(head[p])] = bd[p]
  BY <1>1, <1>3
<1>8. ASSUME NEW i \in Nat, slot(i) # slot(head[p]) PROVE buffer'[slot(i)] = buffer[slot(i)]
  BY <1>1, <1>3, <1>6, <1>8
<1> QED
  BY <1>1, <1>4, <1>5, <1>7, <1>8

\* Every step keeps the contents.
LEMMA ContentsStep ==
  IInv /\ CounterOrder /\ Contents /\ [Next]_vars => Contents'
<1> SUFFICES ASSUME IInv, CounterOrder, Contents, [Next]_vars PROVE Contents'
  OBVIOUS
<1>0. /\ p_head \in Nat /\ p_tail \in Nat /\ c_head \in Nat /\ c_tail \in Nat
      /\ head \in [Threads -> Nat] /\ pc \in [Threads -> {"idle"} \cup SubmitSteps \cup GetSteps]
      /\ bd \in [Threads -> Items \cup {NoItem}]
  BY DEF IInv, TypeOK
<1> USE ThreadsAssumption, <1>0 DEF Threads, counters, Goto
<1>1. ASSUME NEW p \in Producers, NEW d \in Items, CallSubmit(p, d) PROVE Contents'
  BY <1>1 DEF Contents, CallSubmit, BeginSubmit
<1>2. ASSUME NEW p \in Producers, SubmitLoadHead(p) PROVE Contents'
  BY <1>2 DEF Contents, SubmitLoadHead
<1>3. ASSUME NEW p \in Producers, SubmitCheck(p) PROVE Contents'
  BY <1>3 DEF Contents, SubmitCheck
<1>4. ASSUME NEW p \in Producers, SubmitCas(p) PROVE Contents'
  BY <1>4 DEF Contents, SubmitCas
<1>5. ASSUME NEW p \in Producers, SubmitWrite(p) PROVE Contents'
  <2>1. /\ UNCHANGED <<p_head, p_tail, c_head, c_tail, head, bd>>
        /\ pc[p] = "s_write" /\ pc' = [pc EXCEPT ![p] = "s_wait"]
    BY <1>5 DEF SubmitWrite
  <2>2. \A q \in Producers : pc[q] \in {"s_wait", "s_tail"} => q # p /\ WonSubmit(q)
    BY <2>1 DEF WonSubmit
  <2> QED
    BY <2>1, <2>2, <1>5, WriteElsewhere DEF Contents
<1>6. ASSUME NEW p \in Producers, SubmitWait(p) PROVE Contents'
  BY <1>6 DEF Contents, SubmitWait
<1>7. ASSUME NEW p \in Producers, SubmitTail(p) PROVE Contents'
  <2>1. head[p] = p_tail /\ bd[p] \in Items /\ buffer[slot(p_tail)] = bd[p]
    BY <1>7 DEF SubmitTail, IInv, SubmitPositions, Contents
  <2> QED
    BY <2>1, <1>7 DEF SubmitTail, Contents
<1>8. ASSUME NEW c \in Consumers, BeginGet(c) PROVE Contents'
  BY <1>8 DEF Contents, BeginGet
<1>9. ASSUME NEW c \in Consumers, GetLoadHead(c) PROVE Contents'
  BY <1>9 DEF Contents, GetLoadHead
<1>10. ASSUME NEW c \in Consumers, GetCheck(c) PROVE Contents'
  BY <1>10 DEF Contents, GetCheck
<1>11. ASSUME NEW c \in Consumers, GetCas(c) PROVE Contents'
  BY <1>11 DEF Contents, GetCas
<1>12. ASSUME NEW c \in Consumers, GetRead(c) PROVE Contents'
  <2>1. c_tail <= head[c] /\ head[c] < p_tail /\ head[c] \in Nat
    BY <1>12 DEF GetRead, IInv, GetPositions, WonGet, CounterOrder
  <2>2. buffer[slot(head[c])] \in Items
    BY <2>1 DEF Contents
  <2> QED
    BY <1>12, <2>2 DEF GetRead, Contents
<1>13. ASSUME NEW c \in Consumers, GetWait(c) PROVE Contents'
  BY <1>13 DEF Contents, GetWait
<1>14. ASSUME NEW c \in Consumers, GetTail(c) PROVE Contents'
  BY <1>14 DEF Contents, GetTail
<1>15. ASSUME UNCHANGED vars PROVE Contents'
  BY <1>15 DEF Contents, vars
<1> QED
  BY <1>1, <1>2, <1>3, <1>4, <1>5, <1>6, <1>7, <1>8, <1>9, <1>10, <1>11, <1>12,
     <1>13, <1>14, <1>15
  DEF Next, ProducerNext, ConsumerNext, SubmitStep, GetStep

\* A function on 1..n is a sequence.
LEMMA FcnIsSeq ==
  ASSUME NEW S, NEW n \in Nat, NEW f \in [1..n -> S]
  PROVE  f \in Seq(S) /\ Len(f) = n
  OBVIOUS

\* The last value is what Append adds.
LEMMA FcnAppend ==
  ASSUME NEW S, NEW n \in Nat, NEW f \in [1..n -> S], NEW g \in [1..(n + 1) -> S],
         \A i \in 1..n : g[i] = f[i]
  PROVE  g = Append(f, g[n + 1])
<1>1. f \in Seq(S) /\ Len(f) = n
  BY FcnIsSeq
<1>2. g \in Seq(S) /\ Len(g) = n + 1
  BY FcnIsSeq
<1> QED
  BY <1>1, <1>2

\* Dropping the first value is Tail.
LEMMA FcnTail ==
  ASSUME NEW S, NEW n \in Nat, NEW f \in [1..(n + 1) -> S], NEW g \in [1..n -> S],
         \A i \in 1..n : g[i] = f[i + 1]
  PROVE  f # <<>> /\ Head(f) = f[1] /\ g = Tail(f)
<1>1. f \in Seq(S) /\ Len(f) = n + 1
  BY FcnIsSeq
<1>2. g \in Seq(S) /\ Len(g) = n
  BY FcnIsSeq
<1> QED
  BY <1>1, <1>2

\* The empty ring is the empty queue, with nothing offered and nothing taken.
LEMMA QueueInit == Init => Queue!Init
<1> SUFFICES ASSUME Init PROVE Queue!Init
  OBVIOUS
<1>1. Published = <<>>
  BY DEF Init, Published
<1>2. InOffer = [p \in Producers |-> NoItem] /\ InHand = [c \in Consumers |-> NoItem]
  BY DEF Init, InOffer, InHand, Threads
<1> QED
  BY <1>1, <1>2 DEF Queue!Init

\* A step that leaves the published positions, their slots and everybody's
\* descriptor as they are is a step the queue's users do not see.
LEMMA Unseen ==
  ASSUME UNCHANGED <<p_tail, c_head, buffer>>, InOffer' = InOffer, InHand' = InHand
  PROVE  UNCHANGED Queue!vars
<1>1. Published' = Published
  BY DEF Published
<1> QED
  BY <1>1 DEF Queue!vars

\* Writing a won slot is not seen: the slot is neither published nor being read.
LEMMA WriteUnseen ==
  ASSUME IInv, CounterOrder, NEW p \in Producers, SubmitWrite(p)
  PROVE  UNCHANGED Queue!vars
<1>0. /\ p_head \in Nat /\ p_tail \in Nat /\ c_head \in Nat /\ c_tail \in Nat
      /\ head \in [Threads -> Nat] /\ pc \in [Threads -> {"idle"} \cup SubmitSteps \cup GetSteps]
      /\ p \in Threads /\ Consumers \subseteq Threads /\ p \notin Consumers
      /\ Producers \subseteq Threads
      /\ c_tail <= c_head
  BY ThreadsAssumption DEF IInv, TypeOK, Threads, CounterOrder
<1>1. /\ UNCHANGED <<p_head, p_tail, c_head, c_tail, head, bd>>
      /\ pc[p] = "s_write" /\ pc' = [pc EXCEPT ![p] = "s_wait"]
  BY DEF SubmitWrite, counters, Goto
<1>2. \A i \in Nat : (c_tail <= i /\ i < p_tail) => buffer'[slot(i)] = buffer[slot(i)]
  BY WriteElsewhere
<1>3. Published' = Published
  <2>1. ASSUME NEW i \in 1..(p_tail - c_head)
        PROVE  buffer'[slot(c_head + i - 1)] = buffer[slot(c_head + i - 1)]
    BY <1>0, <1>2
  <2> QED
    BY <2>1, <1>1 DEF Published
<1>4. InOffer' = InOffer
  BY <1>0, <1>1 DEF InOffer
<1>5. InHand' = InHand
  <2>1. ASSUME NEW c \in Consumers, pc[c] = "g_read"
        PROVE  buffer'[slot(head[c])] = buffer[slot(head[c])]
    <3>1. c_tail <= head[c] /\ head[c] < p_tail /\ head[c] \in Nat
      BY <1>0, <2>1 DEF IInv, GetPositions, WonGet, CounterOrder
    <3> QED
      BY <3>1, <1>2
  <2>2. \A c \in Consumers : pc'[c] = pc[c] /\ head'[c] = head[c] /\ bd'[c] = bd[c]
    BY <1>0, <1>1
  <2> QED
    BY <2>1, <2>2 DEF InHand
<1> QED
  BY <1>3, <1>4, <1>5 DEF Queue!vars

\* Bumping p_tail puts the descriptor at the end of the queue, which had room.
LEMMA TailEnqueues ==
  ASSUME IInv, CounterOrder, Contents, NEW p \in Producers, SubmitTail(p)
  PROVE  Queue!Enqueue(p)
<1>0. /\ p_head \in Nat /\ p_tail \in Nat /\ c_head \in Nat /\ c_tail \in Nat
      /\ head \in [Threads -> Nat] /\ pc \in [Threads -> {"idle"} \cup SubmitSteps \cup GetSteps]
      /\ p \in Threads /\ Consumers \subseteq Threads /\ p \notin Consumers
      /\ Producers \subseteq Threads
      /\ c_tail <= c_head /\ c_head <= p_tail /\ p_head <= c_tail + RING_SIZE
      /\ RING_SIZE \in Nat
  BY ThreadsAssumption, SizeAssumption DEF IInv, TypeOK, Threads, CounterOrder
<1>1. /\ p_tail' = p_tail + 1
      /\ UNCHANGED <<p_head, c_head, c_tail, buffer, head, bd>>
      /\ pc[p] = "s_tail" /\ pc' = [pc EXCEPT ![p] = "idle"]
  BY DEF SubmitTail, Goto
<1>2. /\ head[p] = p_tail /\ head[p] < p_head
      /\ bd[p] \in Items /\ buffer[slot(p_tail)] = bd[p]
  BY <1>1 DEF IInv, SubmitPositions, WonSubmit, Contents
<1>3. PICK n \in Nat : n = p_tail - c_head
  BY <1>0
<1>4. /\ Published \in [1..n -> Items] /\ Len(Published) = n
      /\ Published' = Append(Published, bd[p])
  <2>1. \A i \in 1..n : buffer[slot(c_head + i - 1)] \in Items
    BY <1>0, <1>3 DEF Contents
  <2>2. Published = [i \in 1..n |-> buffer[slot(c_head + i - 1)]]
    BY <1>3 DEF Published
  <2>3. Published \in [1..n -> Items]
    BY <2>1, <2>2
  <2>4. p_tail' - c_head' = n + 1 /\ c_head + (n + 1) - 1 = p_tail
    BY <1>0, <1>1, <1>3
  <2>5. Published' = [i \in 1..(n + 1) |-> buffer[slot(c_head + i - 1)]]
    BY <1>1, <2>4, Zenon DEF Published
  <2>6. \A i \in 1..(n + 1) : i \in 1..n \/ i = n + 1
    OBVIOUS
  <2>7. /\ Published' \in [1..(n + 1) -> Items] /\ Published'[n + 1] = bd[p]
        /\ \A i \in 1..n : Published'[i] = Published[i]
    BY <2>1, <2>2, <2>4, <2>5, <2>6, <1>2
  <2> QED
    BY <2>3, <2>7, FcnIsSeq, FcnAppend
<1>5. InOffer[p] = bd[p] /\ InOffer' = [InOffer EXCEPT ![p] = NoItem]
  BY <1>0, <1>1 DEF InOffer
<1>6. InHand' = InHand
  BY <1>0, <1>1 DEF InHand
<1>7. Len(Published) < RING_SIZE
  BY <1>0, <1>2, <1>3, <1>4
<1>8. bd[p] # NoItem
  BY <1>2, NoItemAssumption
<1> QED
  BY <1>4, <1>5, <1>6, <1>7, <1>8 DEF Queue!Enqueue

\* Winning c_head takes the oldest descriptor of a queue that is not empty.
LEMMA CasTakes ==
  ASSUME IInv, CounterOrder, Contents, NEW c \in Consumers, GetCas(c), c_head = head[c]
  PROVE  Queue!Take(c)
<1>0. /\ p_tail \in Nat /\ c_head \in Nat /\ c_tail \in Nat
      /\ head \in [Threads -> Nat] /\ pc \in [Threads -> {"idle"} \cup SubmitSteps \cup GetSteps]
      /\ c \in Threads /\ Consumers \subseteq Threads /\ c \notin Producers
      /\ Producers \subseteq Threads
      /\ c_tail <= c_head /\ c_head <= p_tail
  BY ThreadsAssumption DEF IInv, TypeOK, Threads, CounterOrder
<1>1. /\ c_head' = c_head + 1
      /\ UNCHANGED <<p_head, p_tail, c_tail, buffer, head, bd>>
      /\ pc[c] = "g_cas" /\ pc' = [pc EXCEPT ![c] = "g_read"]
  BY DEF GetCas, Goto
<1>2. c_head < p_tail
  BY <1>1 DEF IInv, GetPositions
<1>3. PICK n \in Nat : n + 1 = p_tail - c_head
  BY <1>0, <1>2
<1>4. /\ Published # <<>> /\ Head(Published) = buffer[slot(c_head)]
      /\ Published' = Tail(Published)
  <2>1. \A i \in 1..(n + 1) : buffer[slot(c_head + i - 1)] \in Items
    BY <1>0, <1>3 DEF Contents
  <2>2. Published = [i \in 1..(n + 1) |-> buffer[slot(c_head + i - 1)]]
    BY <1>3 DEF Published
  <2>3. Published \in [1..(n + 1) -> Items]
    BY <2>1, <2>2
  <2>4. p_tail' - c_head' = n /\ c_head + 1 - 1 = c_head
    BY <1>0, <1>1, <1>3
  <2>5. Published' = [i \in 1..n |-> buffer[slot(c_head + 1 + i - 1)]]
    BY <1>1, <2>4, Zenon DEF Published
  <2>6. \A i \in 1..n : i + 1 \in 1..(n + 1) /\ c_head + (i + 1) - 1 = c_head + 1 + i - 1
    BY <1>0
  <2>7. Published' \in [1..n -> Items] /\ \A i \in 1..n : Published'[i] = Published[i + 1]
    BY <2>1, <2>2, <2>5, <2>6
  <2>8. Published[1] = buffer[slot(c_head)]
    BY <2>2, <2>4
  <2> QED
    BY <2>3, <2>7, <2>8, FcnTail
<1>7. InHand[c] = NoItem /\ InHand' = [InHand EXCEPT ![c] = buffer[slot(c_head)]]
  BY <1>0, <1>1 DEF InHand
<1>8. InOffer' = InOffer
  BY <1>0, <1>1 DEF InOffer
<1> QED
  BY <1>4, <1>7, <1>8 DEF Queue!Take

\* Every step of the ring is a step of the queue or is not seen by its users.
LEMMA QueueStep ==
  IInv /\ CounterOrder /\ Contents /\ [Next]_vars => [Queue!Next]_(Queue!vars)
<1> SUFFICES ASSUME IInv, CounterOrder, Contents, [Next]_vars
             PROVE  [Queue!Next]_(Queue!vars)
  OBVIOUS
<1>0. /\ head \in [Threads -> Nat] /\ pc \in [Threads -> {"idle"} \cup SubmitSteps \cup GetSteps]
      /\ bd \in [Threads -> Items \cup {NoItem}]
      /\ Consumers \subseteq Threads /\ Producers \subseteq Threads
      /\ Producers \cap Consumers = {}
  BY ThreadsAssumption DEF IInv, TypeOK, Threads
<1> USE <1>0 DEF Goto, counters
<1>1. ASSUME NEW p \in Producers, NEW d \in Items, CallSubmit(p, d) PROVE Queue!Offer(p, d)
  <2>1. InOffer[p] = NoItem /\ InOffer' = [InOffer EXCEPT ![p] = d] /\ InHand' = InHand
    BY <1>1 DEF CallSubmit, BeginSubmit, InOffer, InHand
  <2>2. Published' = Published
    BY <1>1 DEF CallSubmit, BeginSubmit, Published
  <2> QED
    BY <2>1, <2>2 DEF Queue!Offer
<1>2. ASSUME NEW p \in Producers,
             SubmitLoadHead(p) \/ SubmitCheck(p) \/ SubmitCas(p) \/ SubmitWait(p)
      PROVE  UNCHANGED Queue!vars
  <2>1. InOffer' = InOffer /\ InHand' = InHand /\ UNCHANGED <<p_tail, c_head, buffer>>
    BY <1>2 DEF SubmitLoadHead, SubmitCheck, SubmitCas, SubmitWait, InOffer, InHand
  <2> QED
    BY <2>1, Unseen
<1>3. ASSUME NEW c \in Consumers,
             \/ BeginGet(c) \/ GetLoadHead(c) \/ GetCheck(c) \/ GetWait(c)
             \/ GetRead(c)
             \/ GetCas(c) /\ c_head # head[c]
      PROVE  UNCHANGED Queue!vars
  <2>1. InOffer' = InOffer /\ InHand' = InHand /\ UNCHANGED <<p_tail, c_head, buffer>>
    BY <1>3 DEF BeginGet, GetLoadHead, GetCheck, GetWait, GetRead, GetCas, InOffer, InHand
  <2> QED
    BY <2>1, Unseen
<1>4. ASSUME NEW c \in Consumers, GetTail(c) PROVE Queue!Return(c)
  <2>1. InHand[c] = bd[c] /\ bd[c] # NoItem
    BY <1>4, NoItemAssumption DEF GetTail, InHand, Contents
  <2>2. InHand' = [InHand EXCEPT ![c] = NoItem] /\ InOffer' = InOffer
    BY <1>4 DEF GetTail, InHand, InOffer
  <2>3. Published' = Published
    BY <1>4 DEF GetTail, Published
  <2> QED
    BY <2>1, <2>2, <2>3 DEF Queue!Return
<1>5. ASSUME UNCHANGED vars PROVE UNCHANGED Queue!vars
  <2>1. InOffer' = InOffer /\ InHand' = InHand
    BY <1>5 DEF vars, InOffer, InHand
  <2> QED
    BY <1>5, <2>1, Unseen DEF vars
<1> QED
  BY <1>1, <1>2, <1>3, <1>4, <1>5, WriteUnseen, TailEnqueues, CasTakes
  DEF Next, ProducerNext, ConsumerNext, SubmitStep, GetStep, Queue!Next

\* ring_buffer.h's promise: with a window no larger than the ring, the lock-free
\* ring is the bounded FIFO queue, for any number of threads, ring size and
\* workload: ring_submit appends at the step that bumps p_tail, ring_get takes
\* the oldest at the compare-and-swap on c_head, and hands it over at c_tail.
THEOREM RingIsFifoQueue ==
  ASSUME MaxInFlight <= RING_SIZE
  PROVE  Spec => IsFifoQueue
<1>1. Spec => [](IInv /\ CounterOrder)
  BY RingInductive, RingCounterOrder, PTL
<1>2. Spec => []Contents
  <2>1. IInv /\ CounterOrder /\ IInv' /\ CounterOrder' /\ Contents /\ [Next]_vars => Contents'
    BY ContentsStep
  <2> QED
    BY <1>1, <2>1, ContentsInit, PTL DEF Spec
<1> QED
  BY <1>1, <1>2, QueueInit, QueueStep, PTL DEF Spec, IsFifoQueue, Queue!Spec
==============================================================================
