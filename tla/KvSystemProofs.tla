--------------------------- MODULE KvSystemProofs ---------------------------
(***************************************************************************)
(* The client threads' windows, the ring, the server threads and the       *)
(* status board together, for any number of threads, any window, any ring  *)
(* that the windows fit in and any workload.                               *)
(***************************************************************************)
EXTENDS KvSystem, ShmRingProofs

\* The request with the given number of client thread t, as client.c describes it
\* to the server; the number is one more than the thread's index into its reqs.
WSlot(n, id) == (id - 1) % n

Desc(t, id) ==
    [req_type |-> reqs[t][id].t, k |-> reqs[t][id].k, v |-> reqs[t][id].v, id |-> id,
     res_off |-> <<t, WSlot(win_size, id)>>]

-----------------------------------------------------------------------------
(* The inductive invariant *)

Board == [k : Keys \cup {0}, v : Nat, ready : {0, 1}]

ClientPlaces == {"submit", "poll", "copy", "done"}
ServerPlaces == {"get", "apply", "reply", "ready"}

WorkloadOK == \E w \in Workloads : win_size = w.win_size /\ reqs = w.reqs

PlaceTypes ==
    /\ at \in [Threads -> ClientPlaces \cup ServerPlaces]
    /\ \A t \in Producers : at[t] \in ClientPlaces
    /\ \A c \in Consumers : at[c] \in ServerPlaces

CountTypes ==
    /\ last_submitted \in [Producers -> Nat]
    /\ last_completed \in [Producers -> Nat]
    /\ nxt_comp \in [Producers -> Nat]

BoardTypes == comps \in [Producers -> [Slots -> Board]]
ResultTypes == res \in [Producers -> Seq(Board)]
StoreTypes == store \in [Keys -> Nat] /\ ret \in [Consumers -> Nat]
AnswerTypes ==
    /\ answer \in [Producers -> Seq(Nat)]
    /\ \A t \in Producers : Len(answer[t]) = num_reqs(t)

SysTypes ==
    /\ WorkloadOK /\ PlaceTypes /\ CountTypes /\ BoardTypes /\ ResultTypes
    /\ StoreTypes /\ AnswerTypes

\* A thread inside the ring is where its loop calls it, with its next request.
Calls ==
    /\ \A t \in Producers : pc[t] # "idle" =>
          /\ at[t] = "submit" /\ MaySubmit(t)
          /\ bd[t] = Desc(t, last_submitted[t] + 1)
    /\ \A c \in Consumers : pc[c] # "idle" => at[c] = "apply"

\* The window of a client thread.
Window ==
    \A t \in Producers :
        /\ last_completed[t] <= last_submitted[t]
        /\ last_submitted[t] <= num_reqs(t)
        /\ last_submitted[t] <= last_completed[t] + win_size
        /\ nxt_comp[t] = WSlot(win_size, last_completed[t] + 1)
        /\ Len(res[t]) = last_completed[t]

\* A descriptor of a request that is submitted and not completed.
Live(d) ==
    LET t == d.res_off[1] IN
    /\ t \in Producers /\ d.id \in Nat
    /\ last_completed[t] < d.id /\ d.id <= last_submitted[t]
    /\ d = Desc(t, d.id)

\* The slot of the board that a descriptor names waits for its answer.
Free(d) ==
    LET t == d.res_off[1]  s == d.res_off[2] IN
    /\ comps[t][s].ready = 0
    /\ ~(at[t] = "copy" /\ nxt_comp[t] = s)

\* The ring's positions that hold a request no server thread has returned with.
Queued(j) == c_tail <= j /\ j < p_tail
Serving(c) == pc[c] = "idle" /\ at[c] \in {"apply", "reply", "ready"}

\* Every such position, and every server thread at work, has a live request of
\* its own, whose slot is free.
Queueing ==
    /\ \A j \in Nat : Queued(j) => Live(buffer[slot(j)]) /\ Free(buffer[slot(j)])
    /\ \A j, l \in Nat : (Queued(j) /\ Queued(l) /\ j # l)
                            => buffer[slot(j)].res_off # buffer[slot(l)].res_off
    /\ \A c \in Consumers : pc[c] \in {"g_wait", "g_tail"} => bd[c] = buffer[slot(head[c])]

Working ==
    \A c \in Consumers : Serving(c) =>
        /\ Live(bd[c]) /\ Free(bd[c])
        /\ \A j \in Nat : Queued(j) => buffer[slot(j)].res_off # bd[c].res_off
        /\ \A e \in Consumers : (e # c /\ Serving(e)) => bd[e].res_off # bd[c].res_off

\* The answer to the request is on the board.
Matches(t, id, b) ==
    /\ b.k = reqs[t][id].k
    /\ reqs[t][id].t = "GET" => b.v = answer[t][id]

Answering ==
    \A c \in Consumers : Serving(c) =>
        LET b == bd[c]  t == b.res_off[1]  s == b.res_off[2] IN
        /\ (at[c] \in {"reply", "ready"} /\ b.req_type = "GET") => ret[c] = answer[t][b.id]
        /\ at[c] = "ready" => Matches(t, b.id, comps[t][s])

Answered ==
    \A t \in Producers :
        /\ \A s \in Slots : comps[t][s].ready = 1 =>
              \E id \in Nat : /\ last_completed[t] < id /\ id <= last_submitted[t]
                              /\ s = WSlot(win_size, id)
                              /\ Matches(t, id, comps[t][s])
        /\ at[t] = "copy" =>
              /\ last_completed[t] < last_submitted[t]
              /\ comps[t][nxt_comp[t]].ready = 0
              /\ Matches(t, last_completed[t] + 1, comps[t][nxt_comp[t]])
        /\ \A id \in 1..last_completed[t] : Matches(t, id, res[t][id])

\* The calls of ring_submit so far, the slots of the board they wait for, and
\* those of them whose request has left the ring.
Called(t) == IF pc[t] = "idle" THEN last_submitted[t] ELSE last_submitted[t] + 1

CalledRequests == {r \in Producers \X Nat : 1 <= r[2] /\ r[2] <= Called(r[1])}

Awaited ==
    {x \in Producers \X Slots :
        \E id \in Nat : /\ last_completed[x[1]] < id /\ id <= Called(x[1])
                        /\ x[2] = WSlot(win_size, id)}

Returned ==
    {x \in Producers \X Slots :
        \/ comps[x[1]][x[2]].ready = 1
        \/ at[x[1]] = "copy" /\ nxt_comp[x[1]] = x[2]
        \/ \E c \in Consumers : Serving(c) /\ bd[c].res_off = x}

Counting ==
    /\ Submitted <= Cardinality(CalledRequests)
    /\ Submitted + Cardinality(Returned) <= c_tail + Cardinality(Awaited)

ClientInv == SysTypes /\ Calls /\ Window
PlacesInv == Queueing /\ Working
AnswerInv == Answering /\ Answered

SysInv ==
    /\ IInv /\ CounterOrder /\ Contents
    /\ ClientInv /\ PlacesInv /\ AnswerInv /\ Counting

-----------------------------------------------------------------------------
(* Facts about windows and workloads *)

\* Numbers of a window have slots of their own, one after the other.
LEMMA WSlotFacts ==
  ASSUME NEW n \in Nat \ {0}
  PROVE  /\ \A id \in Nat \ {0} : WSlot(n, id) \in 0..(n - 1)
         /\ \A id, jd \in Nat \ {0} :
               (id < jd /\ jd < id + n) => WSlot(n, id) # WSlot(n, jd)
         /\ \A id \in Nat \ {0} : (WSlot(n, id) + 1) % n = WSlot(n, id + 1)
<1>1. \A id \in Nat \ {0} : WSlot(n, id) \in 0..(n - 1)
  BY DEF WSlot
<1>2. ASSUME NEW id \in Nat \ {0}, NEW jd \in Nat \ {0}, id < jd, jd < id + n
      PROVE  WSlot(n, id) # WSlot(n, jd)
  <2>1. id - 1 \in Nat /\ jd - 1 \in Nat /\ id - 1 < jd - 1 /\ jd - 1 < (id - 1) + n
    BY <1>2
  <2> QED
    BY <2>1, ModDiffer DEF WSlot
<1>3. ASSUME NEW id \in Nat \ {0} PROVE (WSlot(n, id) + 1) % n = WSlot(n, id + 1)
  <2> DEFINE i == id - 1
             r == i % n
             q == i \div n
  <2>1. i \in Nat /\ r \in Nat /\ q \in Nat /\ r < n /\ i = n * q + r
    OBVIOUS
  <2>2. WSlot(n, id) = r /\ WSlot(n, id + 1) = (i + 1) % n
    BY DEF WSlot
  <2> HIDE DEF r, q, i
  <2>3. CASE r + 1 < n
    <3>1. (r + 1) % n = r + 1
      BY <2>1, <2>3
    <3>2. i + 1 = n * q + (r + 1)
      BY <2>1
    <3>3. (i + 1) % n = r + 1
      BY <2>1, <2>3, <3>2
    <3> QED
      BY <2>2, <3>1, <3>3
  <2>4. CASE r + 1 = n
    <3>1. (r + 1) % n = 0
      BY <2>1, <2>4
    <3>2. i + 1 = n * (q + 1)
      BY <2>1, <2>4
    <3>3. (i + 1) % n = 0
      BY <2>1, <3>2
    <3> QED
      BY <2>2, <3>1, <3>3
  <2> QED
    BY <2>1, <2>3, <2>4
<1> QED
  BY <1>1, <1>2, <1>3

\* The workload in use is one the client may be called with.
LEMMA WorkloadFacts ==
  ASSUME SysTypes
  PROVE  /\ win_size \in Nat \ {0} /\ reqs \in [Producers -> Seq(Request)]
         /\ \A t \in Producers : num_reqs(t) \in Nat
         /\ \A t \in Producers : \A id \in 1..num_reqs(t) :
               /\ reqs[t][id].t \in {"PUT", "GET"} /\ reqs[t][id].k \in Keys
               /\ reqs[t][id].v \in Nat
<1>1. win_size \in Nat \ {0} /\ reqs \in [Producers -> Seq(Request)]
  BY WindowAssumption DEF SysTypes, WorkloadOK
<1>2. ASSUME NEW t \in Producers PROVE reqs[t] \in Seq(Request) /\ Len(reqs[t]) \in Nat
  BY <1>1
<1>3. ASSUME NEW t \in Producers, NEW id \in 1..num_reqs(t) PROVE reqs[t][id] \in Request
  BY <1>2, <1>3 DEF num_reqs
<1> QED
  BY <1>1, <1>2, <1>3 DEF num_reqs, Request

\* The last step of ring_submit is the one that counts the request.
LEMMA SubmitRunsCases ==
  ASSUME TypeOK, NEW t \in Producers, SubmitRuns(t)
  PROVE  \/ /\ SubmitTail(t)
            /\ last_submitted' = [last_submitted EXCEPT ![t] = @ + 1]
         \/ /\ \/ SubmitLoadHead(t) \/ SubmitCheck(t) \/ SubmitCas(t)
               \/ SubmitWrite(t) \/ SubmitWait(t)
            /\ pc'[t] # "idle" /\ pc[t] # "idle"
            /\ UNCHANGED <<last_submitted, p_tail, c_tail, bd>>
  BY DEF TypeOK, Threads, SubmitRuns, SubmitStep, SubmitLoadHead, SubmitCheck,
         SubmitCas, SubmitWrite, SubmitWait, SubmitTail, Goto, counters

\* What the ring's steps leave alone in the other threads.
LEMMA RingStepsLocal ==
  ASSUME TypeOK
  PROVE  /\ \A t \in Producers : SubmitStep(t) =>
               /\ c_tail' = c_tail /\ c_head' = c_head
               /\ \A u \in Threads : u # t => pc'[u] = pc[u] /\ head'[u] = head[u] /\ bd'[u] = bd[u]
         /\ \A c \in Consumers : GetStep(c) =>
               /\ p_tail' = p_tail /\ buffer' = buffer
               /\ \A u \in Threads : u # c => pc'[u] = pc[u] /\ head'[u] = head[u] /\ bd'[u] = bd[u]
<1> USE DEF TypeOK, Threads, Goto, counters
<1>1. ASSUME NEW t \in Producers, SubmitStep(t)
      PROVE  /\ c_tail' = c_tail /\ c_head' = c_head
             /\ \A u \in Threads : u # t => pc'[u] = pc[u] /\ head'[u] = head[u] /\ bd'[u] = bd[u]
  BY <1>1 DEF SubmitStep, SubmitLoadHead, SubmitCheck, SubmitCas, SubmitWrite,
              SubmitWait, SubmitTail
<1>2. ASSUME NEW c \in Consumers, GetStep(c)
      PROVE  /\ p_tail' = p_tail /\ buffer' = buffer
             /\ \A u \in Threads : u # c => pc'[u] = pc[u] /\ head'[u] = head[u] /\ bd'[u] = bd[u]
  BY <1>2 DEF GetStep, GetLoadHead, GetCheck, GetCas, GetRead, GetWait, GetTail
<1> QED
  BY <1>1, <1>2

-----------------------------------------------------------------------------
(* The client's counters *)

\* The initial state has no call, no request in flight and a clear board.
LEMMA SysInitInv == SysInit => SysInv
<1> SUFFICES ASSUME SysInit PROVE SysInv
  OBVIOUS
<1>1. IInv /\ Contents
  BY IInvInit, ContentsInit DEF SysInit
<1>2. CounterOrder
  BY SizeAssumption DEF SysInit, Init, CounterOrder
<1>3. SysTypes
  <2>1. PICK w \in Workloads : win_size = w.win_size /\ reqs = w.reqs
    BY DEF SysInit
  <2>2. win_size \in Nat \ {0} /\ reqs \in [Producers -> Seq(Request)]
    BY <2>1, WindowAssumption
  <2>3. [k |-> 0, v |-> 0, ready |-> 0] \in Board
    BY DEF Board
  <2>4. comps \in [Producers -> [Slots -> Board]]
    BY <2>3 DEF SysInit
  <2>5. \A t \in Producers : num_reqs(t) \in Nat
    BY <2>2 DEF num_reqs
  <2>6. ASSUME NEW t \in Producers PROVE answer[t] \in Seq(Nat) /\ Len(answer[t]) = num_reqs(t)
    <3>1. answer[t] \in [1..num_reqs(t) -> Nat]
      BY DEF SysInit
    <3> QED
      BY <3>1, <2>5, FcnIsSeq
  <2>7. answer \in [Producers -> Seq(Nat)]
    BY <2>6 DEF SysInit
  <2>8. \A t \in Producers : at[t] = "submit"
    BY DEF SysInit, Threads
  <2>9. \A c \in Consumers : at[c] = "get"
    BY ThreadsAssumption DEF SysInit, Threads
  <2>10. at \in [Threads -> {"submit", "get"}]
    BY DEF SysInit
  <2>11. res \in [Producers -> Seq(Board)]
    BY DEF SysInit
  <2>12. /\ last_submitted \in [Producers -> Nat] /\ last_completed \in [Producers -> Nat]
         /\ nxt_comp \in [Producers -> Nat] /\ store \in [Keys -> Nat]
         /\ ret \in [Consumers -> Nat]
    BY DEF SysInit
  <2> QED
    BY <2>1, <2>4, <2>6, <2>7, <2>8, <2>9, <2>10, <2>11, <2>12 DEF SysTypes, WorkloadOK, PlaceTypes, ClientPlaces,
    ServerPlaces, CountTypes, BoardTypes, ResultTypes, StoreTypes, AnswerTypes
<1>4. Calls
  BY DEF SysInit, Init, Calls, Threads
<1>5. Window
  <2>1. win_size \in Nat \ {0} /\ \A t \in Producers : num_reqs(t) \in Nat
    BY <1>3, WorkloadFacts
  <2>2. WSlot(win_size, 0 + 1) = 0
    BY <2>1 DEF WSlot
  <2> QED
    BY <2>1, <2>2 DEF SysInit, Window
<1>6. \A t \in Producers : at[t] = "submit" /\ pc[t] = "idle"
  BY DEF SysInit, Init, Threads
<1>7. \A c \in Consumers : at[c] = "get" /\ pc[c] = "idle"
  BY ThreadsAssumption DEF SysInit, Init, Threads
<1>8. PlacesInv
  <2>1. \A j \in Nat : ~Queued(j)
    BY DEF SysInit, Init, Queued
  <2>2. \A c \in Consumers : ~Serving(c)
    BY <1>7 DEF Serving
  <2> QED
    BY <1>7, <2>1, <2>2 DEF PlacesInv, Queueing, Working
<1>9. AnswerInv
  BY <1>6, <1>7 DEF SysInit, AnswerInv, Answering, Answered, Serving
<1>10. Counting
  <2>1. Submitted = 0
    <3>1. Reserving = {}
      BY <1>6 DEF Reserving
    <3> QED
      BY <3>1, FS_EmptySet DEF SysInit, Init, Submitted
  <2>2. Returned = {} /\ Awaited = {} /\ CalledRequests = {}
    <3>1. \A t \in Producers : Called(t) = 0 /\ last_completed[t] = 0
      BY <1>6 DEF SysInit, Called
    <3>2. Awaited = {} /\ CalledRequests = {}
      BY <3>1 DEF Awaited, CalledRequests
    <3>3. \A t \in Producers, s \in Slots : comps[t][s].ready = 0
      BY DEF SysInit
    <3>4. Returned = {}
      BY <1>6, <1>7, <3>3 DEF Returned, Serving
    <3> QED
      BY <3>2, <3>4
  <2> QED
    BY <2>1, <2>2, FS_EmptySet DEF SysInit, Init, Counting
<1> QED
  BY <1>1, <1>2, <1>3, <1>4, <1>5, <1>8, <1>9, <1>10 DEF SysInv, ClientInv

\* A live descriptor names a request of its thread and that request's slot.
LEMMA LiveFacts ==
  ASSUME SysTypes, Window, NEW d, Live(d)
  PROVE  /\ d.res_off[1] \in Producers /\ d.res_off[2] \in Slots
         /\ d.res_off = <<d.res_off[1], d.res_off[2]>>
         /\ d.id \in 1..num_reqs(d.res_off[1]) /\ d.id \in Nat \ {0}
         /\ d.res_off[2] = WSlot(win_size, d.id)
         /\ last_completed[d.res_off[1]] < d.id /\ d.id <= last_submitted[d.res_off[1]]
         /\ d.req_type = reqs[d.res_off[1]][d.id].t /\ d.k = reqs[d.res_off[1]][d.id].k
         /\ d.v = reqs[d.res_off[1]][d.id].v
         /\ d.req_type \in {"PUT", "GET"} /\ d.k \in Keys /\ d.v \in Nat
<1>1. PICK t \in Producers : t = d.res_off[1]
  BY DEF Live
<1>2. PICK id \in Nat : id = d.id
  BY DEF Live
<1>3. /\ last_completed[t] < id /\ id <= last_submitted[t] /\ d = Desc(t, id)
  BY <1>1, <1>2 DEF Live
<1>4. /\ last_completed[t] \in Nat /\ last_submitted[t] \in Nat
      /\ num_reqs(t) \in Nat /\ last_submitted[t] <= num_reqs(t)
      /\ win_size \in Nat \ {0}
  BY WorkloadFacts DEF SysTypes, CountTypes, Window
<1>5. id \in 1..num_reqs(t) /\ id \in Nat \ {0}
  BY <1>3, <1>4
<1>6. WSlot(win_size, id) \in Slots
  BY <1>4, <1>5, WSlotFacts DEF Slots
<1>7. /\ reqs[t][id].t \in {"PUT", "GET"} /\ reqs[t][id].k \in Keys
      /\ reqs[t][id].v \in Nat
  BY <1>5, WorkloadFacts
<1>8. /\ d.res_off = <<t, WSlot(win_size, id)>> /\ d.k = reqs[t][id].k
      /\ d.req_type = reqs[t][id].t /\ d.v = reqs[t][id].v
  BY <1>3 DEF Desc
<1>9. d.res_off[1] = t /\ d.res_off[2] = WSlot(win_size, id)
  BY <1>8
<1> QED
  BY <1>2, <1>3, <1>5, <1>6, <1>7, <1>8, <1>9

\* Requests of one thread that are in its window together have different slots.
LEMMA SlotTellsId ==
  ASSUME SysTypes, Window, NEW t \in Producers, NEW i \in Nat, NEW j \in Nat,
         last_completed[t] < i, last_completed[t] < j,
         i <= last_completed[t] + win_size, j <= last_completed[t] + win_size,
         WSlot(win_size, i) = WSlot(win_size, j)
  PROVE  i = j
<1>1. win_size \in Nat \ {0} /\ last_completed[t] \in Nat
  BY WorkloadFacts DEF SysTypes, CountTypes
<1>2. i \in Nat \ {0} /\ j \in Nat \ {0}
  BY <1>1
<1>3. i < j => j < i + win_size
  BY <1>1
<1>4. j < i => i < j + win_size
  BY <1>1
<1>5. \A id, jd \in Nat \ {0} :
         (id < jd /\ jd < id + win_size) => WSlot(win_size, id) # WSlot(win_size, jd)
  BY <1>1, WSlotFacts
<1> QED
  BY <1>2, <1>3, <1>4, <1>5

\* The slot a client polls next is a slot of its window.
LEMMA NextSlot ==
  ASSUME SysTypes, Window, NEW t \in Producers
  PROVE  /\ nxt_comp[t] \in Slots /\ nxt_comp[t] \in Nat
         /\ (nxt_comp[t] + 1) % win_size = WSlot(win_size, last_completed[t] + 2)
<1>1. win_size \in Nat \ {0} /\ last_completed[t] \in Nat /\ nxt_comp[t] \in Nat
  BY WorkloadFacts DEF SysTypes, CountTypes
<1>2. /\ \A id \in Nat \ {0} : WSlot(win_size, id) \in 0..(win_size - 1)
      /\ \A id \in Nat \ {0} : (WSlot(win_size, id) + 1) % win_size = WSlot(win_size, id + 1)
  BY <1>1, WSlotFacts
<1>3. PICK id \in Nat \ {0} : id = last_completed[t] + 1
  BY <1>1
<1>4. nxt_comp[t] = WSlot(win_size, id) /\ id + 1 = last_completed[t] + 2
  BY <1>1, <1>3 DEF Window
<1> QED
  BY <1>1, <1>2, <1>4 DEF Slots

\* Writing one slot of the board.
LEMMA BoardWrite ==
  ASSUME SysTypes, NEW t \in Producers, NEW s \in Slots, NEW b \in Board,
         comps' = [comps EXCEPT ![t][s] = b], win_size' = win_size
  PROVE  /\ BoardTypes'
         /\ comps'[t][s] = b
         /\ \A u \in Producers : \A r \in Slots :
               (u # t \/ r # s) => comps'[u][r] = comps[u][r]
<1>1. comps \in [Producers -> [Slots -> Board]] /\ Slots' = Slots
  BY DEF SysTypes, BoardTypes, Slots
<1>2. PICK f \in [Slots -> Board] : f = [comps[t] EXCEPT ![s] = b]
  BY <1>1
<1>3. comps' = [comps EXCEPT ![t] = f]
  BY <1>2
<1>4. f[s] = b /\ \A r \in Slots : r # s => f[r] = comps[t][r]
  BY <1>1, <1>2
<1>5. comps'[t] = f /\ \A u \in Producers : u # t => comps'[u] = comps[u]
  BY <1>1, <1>3
<1>6. comps' \in [Producers -> [Slots -> Board]]
  BY <1>1, <1>3
<1> QED
  BY <1>1, <1>4, <1>5, <1>6 DEF BoardTypes

\* Fields of a board entry.
LEMMA BoardFields ==
  ASSUME NEW b \in Board, NEW x
  PROVE  [b EXCEPT !.ready = x] = [k |-> b.k, v |-> b.v, ready |-> x]
<1>1. PICK kk, vv, rr : b = [k |-> kk, v |-> vv, ready |-> rr]
  BY DEF Board
<1>2. b.k = kk /\ b.v = vv /\ b.ready = rr
  BY <1>1
<1>3. [b EXCEPT !.ready = x] = [k |-> kk, v |-> vv, ready |-> x]
  BY <1>1
<1> QED
  BY <1>1, <1>2, <1>3

\* What the three steps that write the board write.
LEMMA BoardSteps ==
  ASSUME SysTypes, Window, [SysNext]_sysVars
  PROVE  /\ \A t \in Producers : PollReady(t) =>
               /\ comps[t][nxt_comp[t]].ready = 1
               /\ comps' = [comps EXCEPT ![t][nxt_comp[t]] =
                              [k |-> comps[t][nxt_comp[t]].k, v |-> comps[t][nxt_comp[t]].v,
                               ready |-> 0]]
         /\ \A c \in Consumers :
               (Live(bd[c]) /\ Reply(c)) =>
               comps' = [comps EXCEPT ![bd[c].res_off[1]][bd[c].res_off[2]] =
                          [k |-> bd[c].k,
                           v |-> IF bd[c].req_type = "GET" THEN ret[c]
                                 ELSE comps[bd[c].res_off[1]][bd[c].res_off[2]].v,
                           ready |-> comps[bd[c].res_off[1]][bd[c].res_off[2]].ready]]
         /\ \A c \in Consumers :
               (Live(bd[c]) /\ SetReady(c)) =>
               comps' = [comps EXCEPT ![bd[c].res_off[1]][bd[c].res_off[2]] =
                          [k |-> comps[bd[c].res_off[1]][bd[c].res_off[2]].k,
                           v |-> comps[bd[c].res_off[1]][bd[c].res_off[2]].v,
                           ready |-> 1]]
<1>0. comps \in [Producers -> [Slots -> Board]]
  BY DEF SysTypes, BoardTypes
<1>1. \A t \in Producers, s \in Slots : comps[t][s] \in Board
  BY <1>0
<1>2. ASSUME NEW t \in Producers, PollReady(t)
      PROVE  /\ comps[t][nxt_comp[t]].ready = 1
             /\ comps' = [comps EXCEPT ![t][nxt_comp[t]] =
                            [k |-> comps[t][nxt_comp[t]].k, v |-> comps[t][nxt_comp[t]].v,
                             ready |-> 0]]
  <2>1. PICK s \in Slots : s = nxt_comp[t]
    BY NextSlot
  <2>2. comps[t][s].ready = 1 /\ comps' = [comps EXCEPT ![t][s].ready = 0]
    BY <1>2, <2>1 DEF PollReady
  <2>3. [comps[t][s] EXCEPT !.ready = 0]
          = [k |-> comps[t][s].k, v |-> comps[t][s].v, ready |-> 0]
    BY <1>1, BoardFields
  <2> QED
    BY <2>1, <2>2, <2>3
<1>3. ASSUME NEW c \in Consumers, Live(bd[c]), Reply(c)
      PROVE  comps' = [comps EXCEPT ![bd[c].res_off[1]][bd[c].res_off[2]] =
                        [k |-> bd[c].k,
                         v |-> IF bd[c].req_type = "GET" THEN ret[c]
                               ELSE comps[bd[c].res_off[1]][bd[c].res_off[2]].v,
                         ready |-> comps[bd[c].res_off[1]][bd[c].res_off[2]].ready]]
  <2>1. PICK t \in Producers : t = bd[c].res_off[1]
    BY <1>3, LiveFacts
  <2>2. PICK s \in Slots : s = bd[c].res_off[2]
    BY <1>3, LiveFacts
  <2>3. comps' = [comps EXCEPT ![t][s].k = bd[c].k,
                               ![t][s].v = IF bd[c].req_type = "GET" THEN ret[c] ELSE @]
    BY <1>3, <2>1, <2>2 DEF Reply
  <2>4. PICK b \in Board : b = comps[t][s]
    BY <1>1
  <2>5. PICK x : x = bd[c].k
    OBVIOUS
  <2>6. PICK y : y = IF bd[c].req_type = "GET" THEN ret[c] ELSE b.v
    OBVIOUS
  <2>7. PICK n : n = [k |-> bd[c].k, v |-> y, ready |-> b.ready]
    OBVIOUS
  <2>8. n = [[b EXCEPT !.k = bd[c].k] EXCEPT !.v = y]
    <3>1. PICK kk, vv, rr : b = [k |-> kk, v |-> vv, ready |-> rr]
      BY DEF Board
    <3>2. PICK e : e = [k |-> x, v |-> vv, ready |-> rr]
      OBVIOUS
    <3>3. [b EXCEPT !.k = x] = e
      BY <3>1, <3>2
    <3>4. [e EXCEPT !.v = y] = n
      BY <2>7, <2>5, <3>1, <3>2
    <3> QED
      BY <2>5, <3>3, <3>4
  <2>9. PICK f : f = [comps[t] EXCEPT ![s] = n]
    OBVIOUS
  <2>10. PICK g : g = [comps EXCEPT ![t] = f]
    OBVIOUS
  <2>11. comps' = g
    BY <1>0, <2>3, <2>4, <2>6, <2>8, <2>9, <2>10
  <2> QED
    BY <1>0, <2>1, <2>2, <2>4, <2>6, <2>7, <2>9, <2>10, <2>11
<1>4. ASSUME NEW c \in Consumers, Live(bd[c]), SetReady(c)
      PROVE  comps' = [comps EXCEPT ![bd[c].res_off[1]][bd[c].res_off[2]] =
                        [k |-> comps[bd[c].res_off[1]][bd[c].res_off[2]].k,
                         v |-> comps[bd[c].res_off[1]][bd[c].res_off[2]].v,
                         ready |-> 1]]
  <2>1. PICK t \in Producers : t = bd[c].res_off[1]
    BY <1>4, LiveFacts
  <2>2. PICK s \in Slots : s = bd[c].res_off[2]
    BY <1>4, LiveFacts
  <2>3. comps' = [comps EXCEPT ![t][s].ready = 1]
    BY <1>4, <2>1, <2>2 DEF SetReady
  <2>4. [comps[t][s] EXCEPT !.ready = 1]
          = [k |-> comps[t][s].k, v |-> comps[t][s].v, ready |-> 1]
    BY <1>1, BoardFields
  <2> QED
    BY <2>1, <2>2, <2>3, <2>4
<1> QED
  BY <1>2, <1>3, <1>4

-----------------------------------------------------------------------------
(* Types *)

\* A thread only moves between the places of its own loop.
LEMMA PlaceStep ==
  ASSUME PlaceTypes, NEW t \in Threads, NEW from, NEW to, Move(t, from, to),
         \/ t \in Producers /\ to \in ClientPlaces
         \/ t \in Consumers /\ to \in ServerPlaces
  PROVE  /\ PlaceTypes' /\ pc[t] = "idle" /\ at[t] = from /\ at'[t] = to
         /\ \A u \in Threads : u # t => at'[u] = at[u]
  BY ThreadsAssumption DEF PlaceTypes, Move, Threads

\* Every step keeps the types.
LEMMA TypesStep == SysInv /\ [SysNext]_sysVars => SysTypes'
<1> SUFFICES ASSUME SysInv, [SysNext]_sysVars PROVE SysTypes'
  OBVIOUS
<1>0. SysTypes /\ Window /\ TypeOK
  BY DEF SysInv, ClientInv, IInv
<1>1. /\ win_size \in Nat \ {0} /\ win_size' = win_size /\ reqs' = reqs
      /\ Slots' = Slots
      /\ \A t \in Producers : num_reqs(t)' = num_reqs(t) /\ num_reqs(t) \in Nat
  BY <1>0, WorkloadFacts DEF SysNext, sysVars, Slots, num_reqs
<1>2. /\ WorkloadOK'
      /\ UNCHANGED <<last_submitted, last_completed, nxt_comp>> => CountTypes'
      /\ UNCHANGED comps => BoardTypes'
      /\ UNCHANGED res => ResultTypes'
      /\ UNCHANGED <<store, ret>> => StoreTypes'
      /\ UNCHANGED answer => AnswerTypes'
      /\ UNCHANGED at => PlaceTypes'
  BY <1>0, <1>1 DEF SysTypes, WorkloadOK, CountTypes, BoardTypes, ResultTypes, StoreTypes,
                    AnswerTypes, PlaceTypes
<1>3. Producers \subseteq Threads /\ Consumers \subseteq Threads /\ PlaceTypes
  BY <1>0 DEF Threads, SysTypes
<1>4. ASSUME NEW t \in Producers, SubmitCall(t) PROVE SysTypes'
  <2>1. PlaceTypes'
    BY <1>3, <1>4, PlaceStep DEF SubmitCall, ClientPlaces
  <2> QED
    BY <2>1, <1>2, <1>4 DEF SubmitCall, clientVars, SysTypes
<1>5. ASSUME NEW t \in Producers, SubmitRuns(t) PROVE SysTypes'
  <2>1. /\ last_submitted' = [last_submitted EXCEPT ![t] = @ + 1]
              \/ last_submitted' = last_submitted
        /\ UNCHANGED <<at, last_completed, nxt_comp, comps, res, store, ret, answer>>
    BY <1>5 DEF SubmitRuns
  <2>2. CountTypes'
    BY <1>0, <2>1 DEF SysTypes, CountTypes
  <2> QED
    BY <2>1, <2>2, <1>2 DEF SysTypes
<1>6. ASSUME NEW t \in Producers, SubmitDone(t) PROVE SysTypes'
  <2>1. PlaceTypes'
    BY <1>3, <1>6, PlaceStep DEF SubmitDone, ClientPlaces
  <2> QED
    BY <2>1, <1>2, <1>6 DEF SubmitDone, clientVars, SysTypes
<1>7. ASSUME NEW t \in Producers, PollReady(t) PROVE SysTypes'
  <2>1. PlaceTypes'
    BY <1>3, <1>7, PlaceStep DEF PollReady, ClientPlaces
  <2>2. PICK s \in Slots : s = nxt_comp[t]
    BY <1>0, NextSlot
  <2>3. comps[t][s] \in Board
    BY <1>0 DEF SysTypes, BoardTypes
  <2>4. PICK b \in Board : b = [k |-> comps[t][s].k, v |-> comps[t][s].v, ready |-> 0]
    BY <2>3 DEF Board
  <2>5. comps' = [comps EXCEPT ![t][s] = b]
    BY <1>0, <1>7, <2>2, <2>4, BoardSteps
  <2>6. BoardTypes'
    BY <1>0, <1>1, <2>5, BoardWrite
  <2> QED
    BY <2>1, <2>6, <1>2, <1>7 DEF PollReady, clientVars, SysTypes
<1>8. ASSUME NEW t \in Producers, PollCopy(t) PROVE SysTypes'
  <2>1. PlaceTypes'
    BY <1>3, <1>8, PlaceStep DEF PollCopy, ClientPlaces
  <2>2. nxt_comp[t] \in Slots /\ nxt_comp[t] \in Nat
    BY <1>0, NextSlot
  <2>3. comps[t][nxt_comp[t]] \in Board
    BY <2>2, <1>0 DEF SysTypes, BoardTypes
  <2>4. ResultTypes'
    BY <2>3, <1>0, <1>8 DEF SysTypes, ResultTypes, PollCopy
  <2>5. (nxt_comp[t] + 1) % win_size \in Nat
    BY <2>2, <1>1
  <2>6. CountTypes'
    BY <2>5, <1>0, <1>8 DEF SysTypes, CountTypes, PollCopy
  <2> QED
    BY <2>1, <2>4, <2>6, <1>2, <1>8 DEF PollCopy, SysTypes
<1>9. ASSUME NEW t \in Producers, PollNotReady(t) PROVE SysTypes'
  <2>1. Move(t, "poll", AfterPoll(t)) /\ AfterPoll(t) \in ClientPlaces
    BY <1>9 DEF PollNotReady, AfterPoll, ClientPlaces
  <2>2. PlaceTypes'
    BY <2>1, <1>3, PlaceStep
  <2> QED
    BY <2>2, <1>2, <1>9 DEF PollNotReady, clientVars, SysTypes
<1>10. ASSUME NEW c \in Consumers, GetCall(c) PROVE SysTypes'
  <2>1. PlaceTypes'
    BY <1>3, <1>10, PlaceStep DEF GetCall, ServerPlaces
  <2> QED
    BY <2>1, <1>2, <1>10 DEF GetCall, clientVars, SysTypes
<1>11. ASSUME NEW c \in Consumers, GetRuns(c) PROVE SysTypes'
  BY <1>2, <1>11 DEF GetRuns, clientVars, SysTypes
<1>12. ASSUME NEW c \in Consumers, Apply(c) PROVE SysTypes'
  <2>0. PlaceTypes'
    BY <1>3, <1>12, PlaceStep DEF Apply, ServerPlaces
  <2>1. Live(bd[c])
    BY <1>12 DEF Apply, Move, SysInv, PlacesInv, Working, Serving
  <2>2. PICK t \in Producers : t = bd[c].res_off[1]
    BY <2>1, <1>0, LiveFacts
  <2>3. PICK id \in 1..num_reqs(t) : id = bd[c].id
    BY <2>1, <2>2, <1>0, LiveFacts
  <2>4. PICK k \in Keys : k = bd[c].k
    BY <2>1, <1>0, LiveFacts
  <2>5. PICK x \in Nat : x = store[k]
    BY <1>0 DEF SysTypes, StoreTypes
  <2>6. bd[c].v \in Nat
    BY <2>1, <1>0, LiveFacts
  <2>7. StoreTypes'
    BY <2>4, <2>5, <2>6, <1>0, <1>12 DEF Apply, SysTypes, StoreTypes
  <2>8. answer[t] \in Seq(Nat) /\ Len(answer[t]) = num_reqs(t)
        /\ answer \in [Producers -> Seq(Nat)]
    BY <1>0 DEF SysTypes, AnswerTypes
  <2>9. PICK a : a = [answer[t] EXCEPT ![id] = x]
    OBVIOUS
  <2>10. a \in Seq(Nat) /\ Len(a) = num_reqs(t)
    BY <2>8, <2>9
  <2>11. answer' = answer \/ answer' = [answer EXCEPT ![t] = a]
    BY <2>2, <2>3, <2>4, <2>5, <2>9, <1>12 DEF Apply
  <2>12. AnswerTypes'
    BY <2>8, <2>10, <2>11, <1>0, <1>1 DEF SysTypes, AnswerTypes
  <2> QED
    BY <2>0, <2>7, <2>12, <1>2, <1>12 DEF Apply, clientVars, SysTypes
<1>13. ASSUME NEW c \in Consumers, Reply(c) PROVE SysTypes'
  <2>1. PlaceTypes'
    BY <1>3, <1>13, PlaceStep DEF Reply, ServerPlaces
  <2>2. Live(bd[c])
    BY <1>13 DEF Reply, Move, SysInv, PlacesInv, Working, Serving
  <2>3. PICK t \in Producers : t = bd[c].res_off[1]
    BY <2>2, <1>0, LiveFacts
  <2>4. PICK s \in Slots : s = bd[c].res_off[2]
    BY <2>2, <1>0, LiveFacts
  <2>5. comps[t][s] \in Board /\ bd[c].k \in Keys /\ ret[c] \in Nat
    BY <2>2, <1>0, LiveFacts DEF SysTypes, BoardTypes, StoreTypes
  <2>6. PICK b \in Board : b = [k |-> bd[c].k,
                                v |-> IF bd[c].req_type = "GET" THEN ret[c] ELSE comps[t][s].v,
                                ready |-> comps[t][s].ready]
    BY <2>5 DEF Board
  <2>7. comps' = [comps EXCEPT ![t][s] = b]
    BY <1>0, <1>13, <2>2, <2>3, <2>4, <2>6, BoardSteps
  <2>8. BoardTypes'
    BY <1>0, <1>1, <2>7, BoardWrite
  <2> QED
    BY <2>1, <2>8, <1>2, <1>13 DEF Reply, clientVars, SysTypes
<1>14. ASSUME NEW c \in Consumers, SetReady(c) PROVE SysTypes'
  <2>1. PlaceTypes'
    BY <1>3, <1>14, PlaceStep DEF SetReady, ServerPlaces
  <2>2. Live(bd[c])
    BY <1>14 DEF SetReady, Move, SysInv, PlacesInv, Working, Serving
  <2>3. PICK t \in Producers : t = bd[c].res_off[1]
    BY <2>2, <1>0, LiveFacts
  <2>4. PICK s \in Slots : s = bd[c].res_off[2]
    BY <2>2, <1>0, LiveFacts
  <2>5. comps[t][s] \in Board
    BY <1>0 DEF SysTypes, BoardTypes
  <2>6. PICK b \in Board : b = [k |-> comps[t][s].k, v |-> comps[t][s].v, ready |-> 1]
    BY <2>5 DEF Board
  <2>7. comps' = [comps EXCEPT ![t][s] = b]
    BY <1>0, <1>14, <2>2, <2>3, <2>4, <2>6, BoardSteps
  <2>8. BoardTypes'
    BY <1>0, <1>1, <2>7, BoardWrite
  <2> QED
    BY <2>1, <2>8, <1>2, <1>14 DEF SetReady, clientVars, SysTypes
<1>15. CASE UNCHANGED sysVars
  BY <1>2, <1>15 DEF SysTypes, sysVars
<1> QED
  BY <1>4, <1>5, <1>6, <1>7, <1>8, <1>9, <1>10, <1>11, <1>12, <1>13, <1>14, <1>15
  DEF SysNext, ClientStep, ServerStep

-----------------------------------------------------------------------------
(* Calls and windows *)

\* What a client submits next is the descriptor of its next request.
LEMMA NextDescriptor ==
  ASSUME SysTypes, NEW t \in Producers
  PROVE  descriptor(t) = Desc(t, last_submitted[t] + 1)
<1>1. last_submitted[t] \in Nat /\ win_size \in Nat \ {0}
  BY WorkloadFacts DEF SysTypes, CountTypes
<1>2. WSlot(win_size, last_submitted[t] + 1) = last_submitted[t] % win_size
  BY <1>1 DEF WSlot
<1> QED
  BY <1>2, Zenon DEF descriptor, Desc

\* Every step keeps the threads inside the ring where their loops call it.
LEMMA CallsStep == SysInv /\ [SysNext]_sysVars => Calls'
<1> SUFFICES ASSUME SysInv, [SysNext]_sysVars PROVE Calls'
  OBVIOUS
<1>0. SysTypes /\ Calls /\ TypeOK /\ PlaceTypes
  BY DEF SysInv, ClientInv, IInv, SysTypes
<1>1. win_size' = win_size /\ reqs' = reqs
  BY DEF SysNext, sysVars
<1>2. /\ Producers \subseteq Threads /\ Consumers \subseteq Threads
      /\ Producers \cap Consumers = {}
      /\ pc \in [Threads -> {"idle"} \cup SubmitSteps \cup GetSteps]
      /\ bd \in [Threads -> Items \cup {NoItem}]
  BY <1>0, ThreadsAssumption DEF Threads, TypeOK
<1>3. ASSUME NEW t \in Producers, pc'[t] = pc[t], bd'[t] = bd[t], at'[t] = at[t],
             last_submitted'[t] = last_submitted[t], last_completed'[t] = last_completed[t]
      PROVE  pc'[t] # "idle" =>
                /\ at'[t] = "submit" /\ MaySubmit(t)'
                /\ bd'[t] = Desc(t, last_submitted[t] + 1)'
  BY <1>0, <1>1, <1>3 DEF Calls, MaySubmit, Desc, num_reqs
<1>4. ASSUME NEW t \in Producers, SubmitCall(t) PROVE Calls'
  <2>1. /\ at' = [at EXCEPT ![t] = "submit"] /\ at[t] = "submit" /\ MaySubmit(t)
        /\ pc' = [pc EXCEPT ![t] = "s_head"] /\ bd' = [bd EXCEPT ![t] = descriptor(t)]
        /\ UNCHANGED <<last_submitted, last_completed>>
    BY <1>4 DEF SubmitCall, Move, BeginSubmit, Goto, clientVars
  <2>2. at'[t] = "submit" /\ \A u \in Threads : at'[u] = at[u]
    BY <2>1, <1>0 DEF PlaceTypes
  <2>3. bd'[t] = Desc(t, last_submitted[t] + 1)' /\ MaySubmit(t)'
    BY <2>1, <1>0, <1>1, <1>2, NextDescriptor DEF Desc, MaySubmit, num_reqs
  <2>4. \A u \in Threads : u # t => pc'[u] = pc[u] /\ bd'[u] = bd[u]
    BY <2>1, <1>2
  <2> QED
    BY <2>1, <2>2, <2>3, <2>4, <1>0, <1>2, <1>3 DEF Calls
<1>5. ASSUME NEW t \in Producers, SubmitRuns(t) PROVE Calls'
  <2>1. /\ at' = at /\ last_completed' = last_completed /\ SubmitStep(t)
        /\ \A u \in Producers : u # t => last_submitted'[u] = last_submitted[u]
    BY <1>0, <1>5 DEF SubmitRuns, SysTypes, CountTypes
  <2>2. \A u \in Threads : u # t => pc'[u] = pc[u] /\ bd'[u] = bd[u]
    BY <1>0, <2>1, RingStepsLocal
  <2>3. pc'[t] # "idle" => /\ at'[t] = "submit" /\ MaySubmit(t)'
                           /\ bd'[t] = Desc(t, last_submitted[t] + 1)'
    <3>1. CASE SubmitTail(t)
      BY <3>1, <1>2 DEF SubmitTail, Goto
    <3>2. CASE pc[t] # "idle" /\ UNCHANGED <<last_submitted, bd>>
      BY <3>2, <2>1, <1>0, <1>1 DEF Calls, MaySubmit, Desc, num_reqs
    <3> QED
      BY <3>1, <3>2, <1>0, <1>5, SubmitRunsCases
  <2> QED
    BY <2>1, <2>2, <2>3, <1>0, <1>2, <1>3 DEF Calls
<1>6. ASSUME NEW t \in Producers,
             SubmitDone(t) \/ PollReady(t) \/ PollCopy(t) \/ PollNotReady(t)
      PROVE  Calls'
  <2>1. /\ pc[t] = "idle" /\ UNCHANGED <<pc, bd, last_submitted>>
        /\ \A u \in Threads : u # t => at'[u] = at[u]
        /\ \A u \in Producers : u # t => last_completed'[u] = last_completed[u]
    BY <1>0, <1>2, <1>6 DEF SubmitDone, PollReady, PollCopy, PollNotReady, Move, vars,
       clientVars, PlaceTypes, SysTypes, CountTypes
  <2> QED
    BY <2>1, <1>0, <1>2, <1>3 DEF Calls
<1>7. ASSUME NEW c \in Consumers, GetCall(c) PROVE Calls'
  <2>1. /\ at' = [at EXCEPT ![c] = "apply"] /\ pc' = [pc EXCEPT ![c] = "g_head"]
        /\ UNCHANGED <<bd, last_submitted, last_completed>>
    BY <1>7 DEF GetCall, Move, BeginGet, Goto, clientVars
  <2>2. \A u \in Threads : IF u = c THEN at'[u] = "apply" ELSE at'[u] = at[u] /\ pc'[u] = pc[u]
    BY <2>1, <1>0, <1>2 DEF PlaceTypes
  <2> QED
    BY <2>1, <2>2, <1>0, <1>2, <1>3 DEF Calls
<1>8. ASSUME NEW c \in Consumers, GetRuns(c) PROVE Calls'
  <2>1. GetStep(c) /\ UNCHANGED <<at, last_submitted, last_completed>>
    BY <1>8 DEF GetRuns, clientVars
  <2>2. \A u \in Threads : u # c => pc'[u] = pc[u] /\ bd'[u] = bd[u]
    BY <1>0, <2>1, RingStepsLocal
  <2>3. pc[c] # "idle"
    BY <2>1 DEF GetStep, GetLoadHead, GetCheck, GetCas, GetRead, GetWait, GetTail, Goto
  <2> QED
    BY <2>1, <2>2, <2>3, <1>0, <1>2, <1>3 DEF Calls
<1>9. ASSUME NEW c \in Consumers, Apply(c) \/ Reply(c) \/ SetReady(c) PROVE Calls'
  <2>1. /\ pc[c] = "idle" /\ UNCHANGED <<pc, bd, last_submitted, last_completed>>
        /\ \A u \in Threads : u # c => at'[u] = at[u]
    BY <1>0, <1>2, <1>9 DEF Apply, Reply, SetReady, Move, vars, clientVars, PlaceTypes
  <2> QED
    BY <2>1, <1>0, <1>2, <1>3 DEF Calls
<1>10. CASE UNCHANGED sysVars
  BY <1>0, <1>3, <1>10 DEF Calls, sysVars
<1> QED
  BY <1>4, <1>5, <1>6, <1>7, <1>8, <1>9, <1>10 DEF SysNext, ClientStep, ServerStep

\* Every step keeps the windows.
LEMMA WindowStep == SysInv /\ [SysNext]_sysVars => Window'
<1> SUFFICES ASSUME SysInv, [SysNext]_sysVars PROVE Window'
  OBVIOUS
<1>0. SysTypes /\ Window /\ Calls /\ TypeOK /\ CountTypes /\ Answered
  BY DEF SysInv, ClientInv, IInv, SysTypes, AnswerInv
<1>1. /\ win_size' = win_size /\ reqs' = reqs /\ win_size \in Nat
      /\ \A t \in Producers : num_reqs(t)' = num_reqs(t) /\ num_reqs(t) \in Nat
  BY <1>0, WorkloadFacts DEF SysNext, sysVars, num_reqs
<1>2. CASE UNCHANGED <<last_submitted, last_completed, nxt_comp, res>>
  BY <1>0, <1>1, <1>2 DEF Window
<1>3. ASSUME NEW t \in Producers, SubmitTail(t), SubmitRuns(t),
             last_submitted' = [last_submitted EXCEPT ![t] = @ + 1]
      PROVE  Window'
  <2>1. MaySubmit(t)
    BY <1>0, <1>3 DEF SubmitTail, Goto, Calls
  <2>2. /\ last_submitted'[t] = last_submitted[t] + 1
        /\ \A u \in Producers : u # t => last_submitted'[u] = last_submitted[u]
        /\ last_submitted[t] \in Nat /\ last_completed[t] \in Nat
    BY <1>0, <1>3 DEF CountTypes
  <2>3. /\ last_submitted[t] + 1 <= last_completed[t] + win_size
        /\ last_submitted[t] + 1 <= num_reqs(t)
    BY <2>1, <2>2, <1>1 DEF MaySubmit
  <2>4. UNCHANGED <<last_completed, nxt_comp, res>>
    BY <1>3 DEF SubmitRuns
  <2>5. last_completed[t] <= last_submitted[t] + 1
    BY <2>2, <1>0 DEF Window
  <2> QED
    BY <2>2, <2>3, <2>4, <2>5, <1>0, <1>1 DEF Window
<1>4. ASSUME NEW t \in Producers, PollCopy(t) PROVE Window'
  <2>1. at[t] = "copy" /\ UNCHANGED last_submitted
    BY <1>4 DEF PollCopy, Move
  <2>2. last_completed[t] < last_submitted[t]
    BY <2>1, <1>0 DEF Answered
  <2>3. /\ last_completed'[t] = last_completed[t] + 1
        /\ \A u \in Producers : u # t => last_completed'[u] = last_completed[u]
        /\ last_submitted[t] \in Nat /\ last_completed[t] \in Nat
    BY <1>0, <1>4 DEF CountTypes, PollCopy
  <2>4. /\ nxt_comp'[t] = (nxt_comp[t] + 1) % win_size
        /\ \A u \in Producers : u # t => nxt_comp'[u] = nxt_comp[u]
    BY <1>0, <1>4 DEF CountTypes, PollCopy
  <2>5. nxt_comp'[t] = WSlot(win_size, last_completed'[t] + 1)
    <3>1. last_completed[t] + 2 = last_completed'[t] + 1
      BY <2>3
    <3> QED
      BY <3>1, <2>4, <1>0, NextSlot
  <2>6. /\ Len(res'[t]) = Len(res[t]) + 1
        /\ \A u \in Producers : u # t => res'[u] = res[u]
    BY <1>0, <1>4 DEF SysTypes, ResultTypes, PollCopy
  <2>7. /\ last_completed[t] + 1 <= last_submitted[t]
        /\ last_submitted[t] <= last_completed[t] + 1 + win_size
        /\ Len(res'[t]) = last_completed[t] + 1
    BY <2>2, <2>3, <2>6, <1>0, <1>1 DEF Window
  <2> QED
    BY <2>1, <2>3, <2>4, <2>5, <2>6, <2>7, <1>0, <1>1 DEF Window
<1>5. ASSUME NEW t \in Producers, SubmitRuns(t) PROVE Window'
  <2>1. UNCHANGED <<last_completed, nxt_comp, res>>
    BY <1>5 DEF SubmitRuns
  <2> QED
    BY <2>1, <1>0, <1>2, <1>3, <1>5, SubmitRunsCases
<1> QED
  BY <1>2, <1>4, <1>5 DEF SysNext, ClientStep, ServerStep, SubmitCall, SubmitDone, PollReady,
     PollNotReady, GetCall, GetRuns, Apply, Reply, SetReady, clientVars, sysVars

-----------------------------------------------------------------------------
(* What is in flight fits in the windows *)

\* A set that misses an element of a finite set is smaller than it.
LEMMA OneMore ==
  ASSUME NEW A, IsFiniteSet(A), NEW S, S \subseteq A, NEW x \in A, x \notin S
  PROVE  Cardinality(S) + 1 <= Cardinality(A)
<1>1. IsFiniteSet(S)
  BY FS_Subset
<1>2. Cardinality(S \cup {x}) = Cardinality(S) + 1
  BY <1>1, FS_AddElement
<1>3. S \cup {x} \in SUBSET A
  OBVIOUS
<1>4. Cardinality(S \cup {x}) <= Cardinality(A)
  BY <1>3, FS_Subset
<1> QED
  BY <1>2, <1>4

\* A workload has finitely many requests.
LEMMA WorkloadFinite ==
  ASSUME NEW w \in Workloads
  PROVE  IsFiniteSet(AllRequests(w)) /\ Cardinality(AllRequests(w)) \in Nat
<1> DEFINE row(t) == {t} \X (1..Len(w.reqs[t]))
           rows == {row(t) : t \in Producers}
           f == [t \in Producers |-> row(t)]
<1>1. ASSUME NEW t \in Producers PROVE IsFiniteSet(row(t)) /\ Len(w.reqs[t]) \in Nat
  <2>1. Len(w.reqs[t]) \in Nat
    BY WindowAssumption
  <2>2. IsFiniteSet(1..Len(w.reqs[t]))
    BY <2>1, FS_Interval
  <2>3. IsFiniteSet({t})
    BY FS_Singleton
  <2> QED
    BY <2>1, <2>2, <2>3, FS_Product, Zenon
<1>2. IsFiniteSet(rows)
  <2>1. f \in Surjection(Producers, rows)
    BY DEF Surjection
  <2> HIDE DEF f, rows
  <2> QED
    BY <2>1, ThreadsAssumption, FS_Surjection
<1>3. IsFiniteSet(UNION rows)
  <2>1. \A R \in rows : IsFiniteSet(R)
    BY <1>1
  <2> HIDE DEF rows
  <2> QED
    BY <1>2, <2>1, FS_UNION
<1>4. AllRequests(w) = UNION rows
  BY Zenon DEF AllRequests
<1> HIDE DEF rows
<1> QED
  BY <1>3, <1>4, FS_CardinalityType

\* The client threads in use, times the window, bounds the slots in use.
LEMMA AwaitedBound ==
  ASSUME NEW w \in Workloads
  PROVE  /\ IsFiniteSet(Clients(w) \X (0..(w.win_size - 1)))
         /\ Cardinality(Clients(w) \X (0..(w.win_size - 1)))
              = Cardinality(Clients(w)) * w.win_size
<1>1. IsFiniteSet(Clients(w))
  BY ThreadsAssumption, FS_Subset DEF Clients
<1>2. PICK n \in Nat \ {0} : n = w.win_size
  BY WindowAssumption
<1>3. IsFiniteSet(0..(w.win_size - 1)) /\ Cardinality(0..(w.win_size - 1)) = w.win_size
  <2>1. 0 \in Int /\ n - 1 \in Int /\ ~(0 > n - 1) /\ (n - 1) - 0 + 1 = n
    OBVIOUS
  <2>2. IsFiniteSet(0..(n - 1)) /\ Cardinality(0..(n - 1)) = n
    BY <2>1, FS_Interval
  <2> QED
    BY <1>2, <2>2
<1> DEFINE C == Clients(w)
           S == 0..(w.win_size - 1)
<1> HIDE DEF C, S
<1>4. IsFiniteSet(C \X S) /\ Cardinality(C \X S) = Cardinality(C) * Cardinality(S)
  BY <1>1, <1>3, FS_Product, Zenon DEF C, S
<1> QED
  BY <1>3, <1>4 DEF C, S

\* A thread has never called for more requests than it has.
LEMMA CalledBound ==
  ASSUME SysTypes, Window, Calls, NEW t \in Producers
  PROVE  /\ Called(t) \in Nat /\ Called(t) <= num_reqs(t)
         /\ Called(t) <= last_completed[t] + win_size
         /\ last_completed[t] \in Nat /\ last_submitted[t] \in Nat
<1>1. /\ last_completed[t] \in Nat /\ last_submitted[t] \in Nat
      /\ num_reqs(t) \in Nat /\ win_size \in Nat
  BY WorkloadFacts DEF SysTypes, CountTypes
<1> QED
  BY <1>1 DEF Called, Calls, Window, MaySubmit

\* The counted sets are finite, and those of called requests and awaited slots
\* are within the workload and its windows.
LEMMA CountsFinite ==
  ASSUME SysTypes, Window, Calls, NEW w \in Workloads, win_size = w.win_size, reqs = w.reqs
  PROVE  /\ CalledRequests \subseteq AllRequests(w) /\ IsFiniteSet(CalledRequests)
         /\ Awaited \subseteq Clients(w) \X (0..(w.win_size - 1)) /\ IsFiniteSet(Awaited)
         /\ IsFiniteSet(Returned)
         /\ Cardinality(CalledRequests) \in Nat /\ Cardinality(Awaited) \in Nat
         /\ Cardinality(Returned) \in Nat
<1>1. CalledRequests \subseteq AllRequests(w)
  <2> SUFFICES ASSUME NEW r \in CalledRequests PROVE r \in AllRequests(w)
    OBVIOUS
  <2>1. r \in Producers \X Nat /\ r[1] \in Producers /\ r[2] \in Nat
        /\ 1 <= r[2] /\ r[2] <= Called(r[1])
    BY DEF CalledRequests
  <2>2. Called(r[1]) \in Nat /\ Called(r[1]) <= Len(w.reqs[r[1]]) /\ Len(w.reqs[r[1]]) \in Nat
    BY <2>1, CalledBound, WindowAssumption DEF num_reqs
  <2>3. r[2] \in 1..Len(w.reqs[r[1]])
    BY <2>1, <2>2
  <2>4. r \in {r[1]} \X (1..Len(w.reqs[r[1]]))
    BY <2>1, <2>3
  <2> QED
    BY <2>1, <2>4 DEF AllRequests
<1>2. Awaited \subseteq Clients(w) \X (0..(w.win_size - 1))
  <2> SUFFICES ASSUME NEW x \in Awaited PROVE x \in Clients(w) \X Slots
    BY DEF Slots
  <2>1. x \in Producers \X Slots /\ x[1] \in Producers /\ x[2] \in Slots
    BY DEF Awaited
  <2>2. PICK id \in Nat : last_completed[x[1]] < id /\ id <= Called(x[1])
    BY DEF Awaited
  <2>3. Len(reqs[x[1]]) # 0
    BY <2>1, <2>2, CalledBound DEF num_reqs
  <2>4. x[1] \in Clients(w)
    BY <2>1, <2>3 DEF Clients
  <2> QED
    BY <2>1, <2>4
<1>3. IsFiniteSet(Producers \X Slots)
  <2>1. win_size - 1 \in Int /\ 0 \in Int
    BY WorkloadFacts
  <2>2. IsFiniteSet(Slots)
    BY <2>1, FS_Interval DEF Slots
  <2> QED
    BY <2>2, ThreadsAssumption, FS_Product, Zenon
<1>4. Returned \subseteq Producers \X Slots
  BY DEF Returned
<1>5. IsFiniteSet(CalledRequests) /\ IsFiniteSet(Awaited) /\ IsFiniteSet(Returned)
  BY <1>1, <1>2, <1>3, <1>4, WorkloadFinite, AwaitedBound, FS_Subset
<1> QED
  BY <1>1, <1>2, <1>5, FS_CardinalityType

\* The call adds one request and one slot that no earlier request waits for.
LEMMA CallIsNew ==
  ASSUME SysTypes, Window, Calls, NEW t \in Producers, pc[t] = "idle", MaySubmit(t)
  PROVE  /\ <<t, last_submitted[t] + 1>> \notin CalledRequests
         /\ <<t, WSlot(win_size, last_submitted[t] + 1)>> \notin Awaited
<1>1. /\ last_completed[t] \in Nat /\ last_submitted[t] \in Nat /\ win_size \in Nat
      /\ last_completed[t] <= last_submitted[t] /\ Called(t) = last_submitted[t]
      /\ last_submitted[t] - last_completed[t] < win_size
  BY WorkloadFacts DEF SysTypes, CountTypes, Window, Called, MaySubmit
<1>2. <<t, last_submitted[t] + 1>> \notin CalledRequests
  BY <1>1 DEF CalledRequests
<1>3. ASSUME NEW id \in Nat, last_completed[t] < id, id <= Called(t)
      PROVE  WSlot(win_size, last_submitted[t] + 1) # WSlot(win_size, id)
  <2>1. PICK n \in Nat : n = last_submitted[t] + 1
    BY <1>1
  <2>2. /\ last_completed[t] < n /\ n <= last_completed[t] + win_size /\ n # id
        /\ id <= last_completed[t] + win_size
    BY <1>1, <1>3, <2>1
  <2> QED
    BY <1>3, <2>1, <2>2, SlotTellsId
<1>4. <<t, WSlot(win_size, last_submitted[t] + 1)>> \notin Awaited
  BY <1>3 DEF Awaited
<1> QED
  BY <1>2, <1>4

\* Every step of the threads is a step the ring allows its callers: the windows
\* keep the promise that ring_submit relies on.
LEMMA KeepsPromise ==
  ASSUME RingFits, SysInv, [SysNext]_sysVars
  PROVE  [Next]_vars
<1>0. SysTypes /\ Window /\ Calls /\ TypeOK /\ Counting
  BY DEF SysInv, ClientInv, IInv
<1>1. ASSUME NEW t \in Producers, SubmitCall(t) PROVE CallSubmit(t, descriptor(t)) /\ descriptor(t) \in Items
  <2>1. PICK w \in Workloads : win_size = w.win_size /\ reqs = w.reqs
    BY <1>0 DEF SysTypes, WorkloadOK
  <2>2. pc[t] = "idle" /\ MaySubmit(t) /\ BeginSubmit(t, descriptor(t))
    BY <1>1 DEF SubmitCall, Move
  <2>3. /\ last_submitted[t] \in Nat /\ num_reqs(t) \in Nat /\ win_size \in Nat \ {0}
        /\ last_submitted[t] < num_reqs(t) /\ num_reqs(t) = Len(w.reqs[t])
    BY <1>0, <2>1, <2>2, WorkloadFacts DEF SysTypes, CountTypes, MaySubmit, num_reqs
  <2> DEFINE r == <<t, last_submitted[t] + 1>>
             x == <<t, WSlot(win_size, last_submitted[t] + 1)>>
             A == AllRequests(w)
             B == Clients(w) \X (0..(w.win_size - 1))
  <2>4. r \in A
    <3>1. r \in {t} \X (1..Len(w.reqs[t]))
      BY <2>3
    <3> QED
      BY <3>1, Zenon DEF AllRequests
  <2>5. x \in B
    <3>1. t \in Clients(w)
      BY <2>3 DEF Clients
    <3>2. WSlot(win_size, last_submitted[t] + 1) \in 0..(win_size - 1)
      <4>1. \A id \in Nat \ {0} : WSlot(win_size, id) \in 0..(win_size - 1)
        BY <2>3, WSlotFacts
      <4>2. last_submitted[t] + 1 \in Nat \ {0}
        BY <2>3
      <4> QED
        BY <4>1, <4>2
    <3> QED
      BY <2>1, <3>1, <3>2
  <2>6. r \notin CalledRequests /\ x \notin Awaited
    BY <1>0, <2>2, CallIsNew
  <2>7. descriptor(t) \in Items
    <3>1. r[1] = t /\ r[2] = last_submitted[t] + 1
      OBVIOUS
    <3>2. descriptor(t) = [req_type |-> w.reqs[r[1]][r[2]].t, k |-> w.reqs[r[1]][r[2]].k,
                           v |-> w.reqs[r[1]][r[2]].v, id |-> r[2],
                           res_off |-> <<r[1], (r[2] - 1) % w.win_size>>]
      BY <1>0, <2>1, <3>1, NextDescriptor, Zenon DEF Desc, WSlot
    <3> HIDE DEF r
    <3> QED
      BY <2>4, <3>2 DEF RingFits
  <2> HIDE DEF r, x
  <2>8. /\ CalledRequests \subseteq A /\ IsFiniteSet(CalledRequests) /\ IsFiniteSet(A)
        /\ Awaited \subseteq B /\ IsFiniteSet(Awaited) /\ IsFiniteSet(B)
        /\ Cardinality(CalledRequests) \in Nat /\ Cardinality(Awaited) \in Nat
        /\ Cardinality(Returned) \in Nat /\ Cardinality(A) \in Nat
        /\ Cardinality(B) <= MaxInFlight /\ Cardinality(A) <= NumRequests
    BY <1>0, <2>1, CountsFinite, WorkloadFinite, AwaitedBound DEF RingFits
  <2> HIDE DEF A, B
  <2>9. Cardinality(CalledRequests) + 1 <= Cardinality(A)
    BY <2>4, <2>6, <2>8, OneMore
  <2>10. Cardinality(Awaited) + 1 <= Cardinality(B)
    BY <2>5, <2>6, <2>8, OneMore
  <2>11. Submitted \in Nat /\ c_tail \in Nat /\ MaxInFlight \in Nat /\ NumRequests \in Nat
         /\ Cardinality(B) \in Nat
    BY <1>0, <2>8, ReservingFinite, SizeAssumption, FS_CardinalityType DEF TypeOK, Submitted
  <2>12. Submitted < c_tail + MaxInFlight
    BY <1>0, <2>8, <2>10, <2>11 DEF Counting
  <2>13. Submitted < NumRequests
    BY <1>0, <2>8, <2>9, <2>11 DEF Counting
  <2> QED
    BY <2>2, <2>7, <2>12, <2>13 DEF CallSubmit
<1>2. ASSUME NEW t \in Producers, SubmitRuns(t) PROVE SubmitStep(t)
  BY <1>2 DEF SubmitRuns
<1>3. ASSUME NEW c \in Consumers, GetCall(c) \/ GetRuns(c) PROVE ConsumerNext(c)
  BY <1>3 DEF GetCall, GetRuns, ConsumerNext
<1>4. CASE UNCHANGED vars
  BY <1>4
<1> QED
  BY <1>1, <1>2, <1>3, <1>4 DEF SysNext, ClientStep, ServerStep, SubmitDone, PollReady, PollCopy,
     PollNotReady, Apply, Reply, SetReady, Next, ProducerNext, sysVars, vars

-----------------------------------------------------------------------------
(* Every request in flight is in one place *)

\* No step disturbs a live request whose slot is free, except the one that
\* marks this very slot ready.
LEMMA LiveStep ==
  ASSUME SysInv, [SysNext]_sysVars, NEW d, Live(d), Free(d)
  PROVE  Live(d)'
<1>0. SysTypes /\ Window /\ TypeOK /\ CountTypes
  BY DEF SysInv, ClientInv, IInv, SysTypes
<1>1. win_size' = win_size /\ reqs' = reqs
  BY DEF SysNext, sysVars
<1>2. PICK t \in Producers : t = d.res_off[1]
  BY <1>0, LiveFacts
<1>3. /\ d.id \in Nat /\ last_completed[t] < d.id /\ d.id <= last_submitted[t]
      /\ d = Desc(t, d.id) /\ d.res_off[2] = WSlot(win_size, d.id)
      /\ last_completed[t] \in Nat /\ last_submitted[t] \in Nat
  BY <1>0, <1>2, LiveFacts DEF Live, CountTypes
<1>4. Desc(t, d.id)' = Desc(t, d.id)
  BY <1>1 DEF Desc
<1>5. ASSUME last_completed'[t] = last_completed[t],
             last_submitted'[t] \in {last_submitted[t], last_submitted[t] + 1}
      PROVE  Live(d)'
  <2>1. last_completed'[t] < d.id /\ d.id <= last_submitted'[t]
    BY <1>3, <1>5
  <2> QED
    BY <2>1, <1>2, <1>3, <1>4 DEF Live
<1>6. ASSUME NEW u \in Producers, PollCopy(u) PROVE Live(d)'
  <2>1. /\ at[u] = "copy" /\ UNCHANGED last_submitted
        /\ last_completed'[u] = last_completed[u] + 1
        /\ \A y \in Producers : y # u => last_completed'[y] = last_completed[y]
    BY <1>0, <1>6 DEF PollCopy, Move, CountTypes
  <2>2. CASE u # t
    BY <2>1, <2>2, <1>5
  <2>3. CASE u = t
    <3>1. nxt_comp[t] # d.res_off[2] /\ nxt_comp[t] = WSlot(win_size, last_completed[t] + 1)
      BY <2>1, <2>3, <1>0, <1>2 DEF Free, Window
    <3>2. d.id # last_completed[t] + 1
      BY <3>1, <1>3
    <3>3. last_completed'[t] < d.id /\ d.id <= last_submitted'[t]
      BY <2>1, <2>3, <3>2, <1>3
    <3> QED
      BY <3>3, <1>2, <1>3, <1>4 DEF Live
  <2> QED
    BY <2>2, <2>3
<1>7. ASSUME NEW u \in Producers, SubmitRuns(u) PROVE Live(d)'
  <2>1. UNCHANGED last_completed
        /\ (last_submitted' = last_submitted
             \/ last_submitted' = [last_submitted EXCEPT ![u] = @ + 1])
    BY <1>7 DEF SubmitRuns
  <2> QED
    BY <2>1, <1>0, <1>5 DEF CountTypes
<1>8. CASE UNCHANGED <<last_completed, last_submitted>>
  BY <1>5, <1>8
<1> QED
  BY <1>6, <1>7, <1>8 DEF SysNext, ClientStep, ServerStep, SubmitCall, SubmitDone, PollReady,
     PollNotReady, GetCall, GetRuns, Apply, Reply, SetReady, clientVars, sysVars

\* The slot of such a request stays free until its own answer is marked ready.
LEMMA FreeStep ==
  ASSUME SysInv, [SysNext]_sysVars, NEW d, Live(d), Free(d),
         \A c \in Consumers : SetReady(c) => bd[c].res_off # d.res_off
  PROVE  Free(d)'
<1>0. SysTypes /\ Window /\ TypeOK /\ PlaceTypes
  BY DEF SysInv, ClientInv, IInv, SysTypes
<1>1. win_size' = win_size
  BY DEF SysNext, sysVars
<1>2. PICK t \in Producers : t = d.res_off[1]
  BY <1>0, LiveFacts
<1>3. PICK s \in Slots : s = d.res_off[2]
  BY <1>0, LiveFacts
<1>4. comps[t][s].ready = 0 /\ ~(at[t] = "copy" /\ nxt_comp[t] = s) /\ d.res_off = <<t, s>>
  BY <1>0, <1>2, <1>3, LiveFacts DEF Free
<1>5. /\ Producers \subseteq Threads /\ Consumers \subseteq Threads
      /\ Producers \cap Consumers = {}
  BY ThreadsAssumption DEF Threads
<1>6. ASSUME comps'[t][s].ready = comps[t][s].ready,
             at'[t] = "copy" => at[t] = "copy" /\ nxt_comp'[t] = nxt_comp[t]
      PROVE  Free(d)'
  BY <1>2, <1>3, <1>4, <1>6 DEF Free
<1>7. ASSUME NEW u \in Producers, PollReady(u) PROVE Free(d)'
  <2>1. /\ at' = [at EXCEPT ![u] = "copy"] /\ UNCHANGED nxt_comp
        /\ comps[u][nxt_comp[u]].ready = 1
    BY <1>7 DEF PollReady, Move, clientVars
  <2>2. PICK r \in Slots : r = nxt_comp[u]
    BY <1>0, NextSlot
  <2>3. u # t \/ r # s
    BY <2>1, <2>2, <1>4
  <2>4. comps[u][r] \in Board
    BY <1>0 DEF SysTypes, BoardTypes
  <2>5. PICK b \in Board : b = [k |-> comps[u][r].k, v |-> comps[u][r].v, ready |-> 0]
    BY <2>4 DEF Board
  <2>6. comps' = [comps EXCEPT ![u][r] = b]
    BY <1>0, <1>7, <2>2, <2>5, BoardSteps
  <2>7. comps'[t][s] = comps[t][s]
    BY <1>0, <1>1, <2>3, <2>6, BoardWrite
  <2>8. at'[t] = "copy" /\ nxt_comp'[t] = s => at[t] = "copy"
    BY <2>1, <2>2, <2>3, <1>0, <1>5 DEF PlaceTypes
  <2> QED
    BY <2>1, <2>7, <2>8, <1>2, <1>3, <1>4 DEF Free
<1>8. ASSUME NEW u \in Producers,
             SubmitCall(u) \/ SubmitRuns(u) \/ SubmitDone(u) \/ PollNotReady(u)
      PROVE  Free(d)'
  <2>1. /\ UNCHANGED <<comps, nxt_comp>>
        /\ at' = at \/ \E to \in {"submit", "poll", "done"} : at' = [at EXCEPT ![u] = to]
    BY <1>8 DEF SubmitCall, SubmitRuns, SubmitDone, PollNotReady, AfterPoll, Move, clientVars
  <2> QED
    BY <2>1, <1>0, <1>5, <1>6 DEF PlaceTypes
<1>9. ASSUME NEW u \in Producers, PollCopy(u) PROVE Free(d)'
  <2>1. /\ UNCHANGED comps /\ at' = [at EXCEPT ![u] = "poll"]
        /\ \A y \in Producers : y # u => nxt_comp'[y] = nxt_comp[y]
    BY <1>0, <1>9 DEF PollCopy, Move, SysTypes, CountTypes
  <2> QED
    BY <2>1, <1>0, <1>5, <1>6 DEF PlaceTypes
<1>10. ASSUME NEW c \in Consumers, GetCall(c) \/ GetRuns(c) \/ Apply(c) PROVE Free(d)'
  <2>1. /\ UNCHANGED <<comps, nxt_comp>>
        /\ at' = at \/ \E to : at' = [at EXCEPT ![c] = to]
    BY <1>10 DEF GetCall, GetRuns, Apply, Move, clientVars
  <2> QED
    BY <2>1, <1>0, <1>5, <1>6 DEF PlaceTypes
<1>11. ASSUME NEW c \in Consumers, Reply(c) PROVE Free(d)'
  <2>1. at' = [at EXCEPT ![c] = "ready"] /\ UNCHANGED nxt_comp
    BY <1>11 DEF Reply, Move, clientVars
  <2>2. Live(bd[c])
    BY <1>11 DEF Reply, Move, SysInv, PlacesInv, Working, Serving
  <2>3. PICK u \in Producers : u = bd[c].res_off[1]
    BY <2>2, <1>0, LiveFacts
  <2>4. PICK r \in Slots : r = bd[c].res_off[2]
    BY <2>2, <1>0, LiveFacts
  <2>5. comps[u][r] \in Board /\ bd[c].k \in Keys /\ ret[c] \in Nat
    BY <2>2, <1>0, LiveFacts DEF SysTypes, BoardTypes, StoreTypes
  <2>6. PICK b \in Board : b = [k |-> bd[c].k,
                                v |-> IF bd[c].req_type = "GET" THEN ret[c] ELSE comps[u][r].v,
                                ready |-> comps[u][r].ready]
    BY <2>5 DEF Board
  <2>7. comps' = [comps EXCEPT ![u][r] = b]
    BY <1>0, <1>11, <2>2, <2>3, <2>4, <2>6, BoardSteps
  <2>8. CASE u = t /\ r = s
    <3>1. comps'[u][r] = b
      BY <1>0, <2>7 DEF SysTypes, BoardTypes
    <3>2. comps'[t][s].ready = comps[t][s].ready
      BY <2>6, <2>8, <3>1
    <3> QED
      BY <2>1, <3>2, <1>0, <1>5, <1>6 DEF PlaceTypes
  <2>9. CASE u # t \/ r # s
    <3>1. comps'[t][s] = comps[t][s]
      BY <1>0, <1>1, <2>7, <2>9, BoardWrite
    <3> QED
      BY <2>1, <3>1, <1>0, <1>5, <1>6 DEF PlaceTypes
  <2> QED
    BY <2>8, <2>9
<1>12. ASSUME NEW c \in Consumers, SetReady(c) PROVE Free(d)'
  <2>1. at' = [at EXCEPT ![c] = "get"] /\ UNCHANGED nxt_comp
    BY <1>12 DEF SetReady, Move, clientVars
  <2>2. Live(bd[c])
    BY <1>12 DEF SetReady, Move, SysInv, PlacesInv, Working, Serving
  <2>3. PICK u \in Producers : u = bd[c].res_off[1]
    BY <2>2, <1>0, LiveFacts
  <2>4. PICK r \in Slots : r = bd[c].res_off[2]
    BY <2>2, <1>0, LiveFacts
  <2>5. u # t \/ r # s
    BY <1>4, <1>12, <2>2, <2>3, <2>4, <1>0, LiveFacts
  <2>6. comps[u][r] \in Board
    BY <1>0 DEF SysTypes, BoardTypes
  <2>7. PICK b \in Board : b = [k |-> comps[u][r].k, v |-> comps[u][r].v, ready |-> 1]
    BY <2>6 DEF Board
  <2>8. comps' = [comps EXCEPT ![u][r] = b]
    BY <1>0, <1>12, <2>2, <2>3, <2>4, <2>7, BoardSteps
  <2>9. comps'[t][s] = comps[t][s]
    BY <1>0, <1>1, <2>5, <2>8, BoardWrite
  <2> QED
    BY <2>1, <2>9, <1>0, <1>5, <1>6 DEF PlaceTypes
<1>13. CASE UNCHANGED sysVars
  BY <1>6, <1>13 DEF sysVars
<1> QED
  BY <1>7, <1>8, <1>9, <1>10, <1>11, <1>12, <1>13 DEF SysNext, ClientStep, ServerStep

\* The request that a client publishes is live, its slot is free, and no other
\* live request answers into it.
LEMMA NewRequest ==
  ASSUME SysInv, [SysNext]_sysVars, NEW t \in Producers, SubmitRuns(t), SubmitTail(t)
  PROVE  /\ buffer[slot(p_tail)] = bd[t] /\ p_tail' = p_tail + 1 /\ UNCHANGED <<buffer, c_tail>>
         /\ Live(bd[t])' /\ Free(bd[t])'
         /\ \A d : Live(d) => d.res_off # bd[t].res_off
<1>0. SysTypes /\ Window /\ TypeOK /\ Calls /\ CountTypes /\ Answered
  BY DEF SysInv, ClientInv, IInv, SysTypes, AnswerInv
<1>1. win_size' = win_size /\ reqs' = reqs
  BY DEF SysNext, sysVars
<1>2. /\ pc[t] = "s_tail" /\ p_tail' = p_tail + 1 /\ UNCHANGED <<buffer, bd, c_tail>>
      /\ UNCHANGED <<at, last_completed, nxt_comp, comps>>
      /\ last_submitted'[t] = last_submitted[t] + 1
  <2>1. pc[t] = "s_tail" /\ pc'[t] = "idle"
    BY <1>0 DEF SubmitTail, Goto, TypeOK, Threads
  <2>2. last_submitted' = [last_submitted EXCEPT ![t] = @ + 1]
    BY <1>0, <2>1, SubmitRunsCases
  <2> QED
    BY <1>0, <2>1, <2>2 DEF SubmitTail, SubmitRuns, CountTypes
<1>3. head[t] = p_tail /\ buffer[slot(head[t])] = bd[t]
  BY <1>2 DEF SysInv, IInv, SubmitPositions, Contents
<1>4. PICK n \in Nat \ {0} : n = last_submitted[t] + 1
  BY <1>0 DEF CountTypes
<1>5. at[t] = "submit" /\ MaySubmit(t) /\ bd[t] = Desc(t, n)
  BY <1>0, <1>2, <1>4 DEF Calls
<1>6. /\ last_completed[t] \in Nat /\ last_submitted[t] \in Nat /\ win_size \in Nat \ {0}
      /\ last_completed[t] <= last_submitted[t]
      /\ last_completed[t] < n /\ n <= last_completed[t] + win_size
  BY <1>0, <1>4, <1>5, WorkloadFacts DEF CountTypes, Window, MaySubmit
<1>7. /\ bd[t].res_off = <<t, WSlot(win_size, n)>> /\ bd[t].id = n
      /\ bd[t].res_off[1] = t /\ bd[t].res_off[2] = WSlot(win_size, n)
  BY <1>5 DEF Desc
<1>8. WSlot(win_size, n) \in Slots
  <2>1. \A id \in Nat \ {0} : WSlot(win_size, id) \in 0..(win_size - 1)
    BY <1>6, WSlotFacts
  <2> QED
    BY <2>1 DEF Slots
<1>9. ASSUME NEW id \in Nat, last_completed[t] < id, id <= last_submitted[t]
      PROVE  WSlot(win_size, id) # WSlot(win_size, n)
  <2>1. id # n /\ id <= last_completed[t] + win_size
    BY <1>4, <1>6, <1>9
  <2> QED
    BY <2>1, <1>0, <1>6, <1>9, SlotTellsId
<1>10. Live(bd[t])'
  <2>1. Desc(t, n)' = Desc(t, n)
    BY <1>1 DEF Desc
  <2>2. last_completed'[t] < n /\ n <= last_submitted'[t]
    BY <1>2, <1>4, <1>6
  <2> QED
    BY <2>1, <2>2, <1>2, <1>5, <1>7 DEF Live
<1>11. Free(bd[t])'
  <2>1. comps[t][WSlot(win_size, n)].ready # 1
    BY <1>0, <1>8, <1>9 DEF Answered
  <2>2. comps[t][WSlot(win_size, n)] \in Board
    BY <1>0, <1>8 DEF SysTypes, BoardTypes
  <2>3. comps[t][WSlot(win_size, n)].ready = 0
    BY <2>1, <2>2 DEF Board
  <2> QED
    BY <2>3, <1>2, <1>5, <1>7 DEF Free
<1>12. ASSUME NEW d, Live(d) PROVE d.res_off # bd[t].res_off
  <2>1. SUFFICES ASSUME d.res_off = bd[t].res_off PROVE FALSE
    OBVIOUS
  <2>2. d.res_off[1] = t /\ d.res_off[2] = WSlot(win_size, n)
    BY <2>1, <1>7
  <2>3. /\ d.id \in Nat /\ last_completed[t] < d.id /\ d.id <= last_submitted[t]
        /\ d.res_off[2] = WSlot(win_size, d.id)
    BY <2>2, <1>0, <1>12, LiveFacts
  <2> QED
    BY <2>2, <2>3, <1>9
<1> QED
  BY <1>2, <1>3, <1>10, <1>11, <1>12

\* Apart from that step, no position joins the queued ones, and what is queued
\* stays in its slot.
LEMMA QueueKept ==
  ASSUME SysInv, [SysNext]_sysVars,
         ~\E t \in Producers : SubmitRuns(t) /\ SubmitTail(t)
  PROVE  /\ c_tail' \in Nat /\ c_tail <= c_tail'
         /\ \A j \in Nat : Queued(j)' => Queued(j) /\ buffer'[slot(j)] = buffer[slot(j)]
<1>0. TypeOK /\ c_tail \in Nat /\ p_tail \in Nat /\ IInv /\ CounterOrder
  BY DEF SysInv, IInv, TypeOK
<1>1. ASSUME NEW t \in Producers, SubmitRuns(t)
      PROVE  /\ UNCHANGED <<c_tail, p_tail>>
             /\ \A j \in Nat : Queued(j) => buffer'[slot(j)] = buffer[slot(j)]
  <2>1. UNCHANGED <<c_tail, p_tail>>
    BY <1>0, <1>1, SubmitRunsCases
  <2>2. CASE SubmitWrite(t)
    BY <2>1, <2>2, <1>0, WriteElsewhere DEF Queued
  <2>3. CASE UNCHANGED buffer
    BY <2>1, <2>3
  <2> QED
    BY <2>1, <2>2, <2>3, <1>0, <1>1, SubmitRunsCases
       DEF SubmitLoadHead, SubmitCheck, SubmitCas, SubmitWait
<1>2. ASSUME NEW c \in Consumers, GetRuns(c)
      PROVE  /\ UNCHANGED <<p_tail, buffer>>
             /\ c_tail' = c_tail \/ c_tail' = c_tail + 1
  BY <1>2 DEF GetRuns, GetStep, GetLoadHead, GetCheck, GetCas, GetRead, GetWait, GetTail, counters
<1>3. CASE UNCHANGED <<c_tail, p_tail, buffer>>
  BY <1>0, <1>3 DEF Queued
<1>4. CASE \E t \in Producers : SubmitRuns(t)
  BY <1>0, <1>1, <1>4 DEF Queued
<1>5. CASE \E c \in Consumers : GetRuns(c)
  BY <1>0, <1>2, <1>5 DEF Queued
<1> QED
  BY <1>3, <1>4, <1>5 DEF SysNext, ClientStep, ServerStep, SubmitCall, SubmitDone, PollReady, PollCopy,
     PollNotReady, GetCall, Apply, Reply, SetReady, BeginSubmit, BeginGet, vars, counters, sysVars

\* A getter past its read holds what its position still holds.
LEMMA ReadBack ==
  ASSUME SysInv, [SysNext]_sysVars, NEW c \in Consumers, pc'[c] \in {"g_wait", "g_tail"}
  PROVE  bd'[c] = buffer'[slot(head'[c])]
<1>0. /\ TypeOK /\ IInv /\ CounterOrder /\ Queueing /\ SysTypes
      /\ c_tail \in Nat /\ p_tail \in Nat /\ c_head \in Nat
      /\ head \in [Threads -> Nat] /\ pc \in [Threads -> {"idle"} \cup SubmitSteps \cup GetSteps]
      /\ bd \in [Threads -> Items \cup {NoItem}]
  BY DEF SysInv, ClientInv, PlacesInv, IInv, TypeOK
<1>1. /\ Producers \subseteq Threads /\ Consumers \subseteq Threads
      /\ Producers \cap Consumers = {}
  BY ThreadsAssumption DEF Threads
<1>2. ASSUME pc[c] \in {"g_wait", "g_tail"}, bd'[c] = bd[c], head'[c] = head[c],
             \A j \in Nat : Queued(j) => buffer'[slot(j)] = buffer[slot(j)]
      PROVE  bd'[c] = buffer'[slot(head'[c])]
  <2>1. head[c] \in Nat /\ c_tail <= head[c] /\ head[c] < p_tail
    BY <1>0, <1>1, <1>2 DEF IInv, GetPositions, WonGet, CounterOrder
  <2> QED
    BY <2>1, <1>0, <1>2 DEF Queued, Queueing
<1>3. ASSUME NEW t \in Producers, SubmitRuns(t) PROVE bd'[c] = buffer'[slot(head'[c])]
  <2>1. pc'[c] = pc[c] /\ bd'[c] = bd[c] /\ head'[c] = head[c]
    <3>1. SubmitStep(t) /\ c # t
      BY <1>1, <1>3 DEF SubmitRuns
    <3> QED
      BY <3>1, <1>0, <1>1, RingStepsLocal
  <2>2. \A j \in Nat : Queued(j) => buffer'[slot(j)] = buffer[slot(j)]
    <3>1. CASE SubmitWrite(t)
      BY <3>1, <1>0, WriteElsewhere DEF Queued
    <3>2. CASE UNCHANGED buffer
      BY <3>2
    <3> QED
      BY <3>1, <3>2, <1>3 DEF SubmitRuns, SubmitStep, SubmitLoadHead, SubmitCheck, SubmitCas,
         SubmitWait, SubmitTail
  <2> QED
    BY <2>1, <2>2, <1>2
<1>4. ASSUME NEW e \in Consumers, GetRuns(e) PROVE bd'[c] = buffer'[slot(head'[c])]
  <2>1. UNCHANGED buffer
    BY <1>4 DEF GetRuns, GetStep, GetLoadHead, GetCheck, GetCas, GetRead, GetWait, GetTail
  <2>2. CASE e # c
    <3>1. GetStep(e)
      BY <1>4 DEF GetRuns
    <3>2. pc'[c] = pc[c] /\ bd'[c] = bd[c] /\ head'[c] = head[c]
      BY <3>1, <2>2, <1>0, <1>1, RingStepsLocal
    <3> QED
      BY <2>1, <3>2, <1>2
  <2>3. CASE e = c /\ GetRead(c)
    BY <2>3, <1>0, <1>1 DEF GetRead
  <2>4. CASE e = c /\ GetWait(c)
    <3>1. pc[c] \in {"g_wait", "g_tail"} /\ bd'[c] = bd[c] /\ head'[c] = head[c]
      BY <2>4 DEF GetWait, Goto
    <3> QED
      BY <2>1, <3>1, <1>2
  <2> QED
    BY <2>2, <2>3, <2>4, <1>0, <1>1, <1>4
    DEF GetRuns, GetStep, GetLoadHead, GetCheck, GetCas, GetTail, Goto
<1>5. CASE UNCHANGED <<buffer, head>> /\ bd'[c] = bd[c] /\ (pc'[c] = pc[c] \/ pc'[c] = "g_head")
  BY <1>2, <1>5
<1>6. ASSUME NEW t \in Producers, SubmitCall(t)
      PROVE  UNCHANGED <<buffer, head>> /\ bd'[c] = bd[c] /\ pc'[c] = pc[c]
  BY <1>0, <1>1, <1>6 DEF SubmitCall, BeginSubmit, Goto
<1>7. ASSUME NEW e \in Consumers, GetCall(e)
      PROVE  UNCHANGED <<buffer, head>> /\ bd'[c] = bd[c] /\ (pc'[c] = pc[c] \/ pc'[c] = "g_head")
  BY <1>0, <1>1, <1>7 DEF GetCall, BeginGet, Goto
<1> QED
  BY <1>3, <1>4, <1>5, <1>6, <1>7 DEF SysNext, ClientStep, ServerStep, SubmitDone, PollReady,
     PollCopy, PollNotReady, Apply, Reply, SetReady, vars, sysVars

\* Every step keeps the queued requests live, free and apart.
LEMMA QueueingStep == SysInv /\ [SysNext]_sysVars => Queueing'
<1> SUFFICES ASSUME SysInv, [SysNext]_sysVars PROVE Queueing'
  OBVIOUS
<1>0. /\ Queueing /\ Working /\ TypeOK /\ c_tail \in Nat /\ p_tail \in Nat
  BY DEF SysInv, PlacesInv, IInv, TypeOK
<1>1. ASSUME NEW j \in Nat, Queued(j), buffer'[slot(j)] = buffer[slot(j)]
      PROVE  Live(buffer[slot(j)])' /\ Free(buffer[slot(j)])'
  <2>1. PICK d : d = buffer[slot(j)]
    OBVIOUS
  <2>2. Live(d) /\ Free(d)
    BY <1>0, <1>1, <2>1 DEF Queueing
  <2>3. \A c \in Consumers : SetReady(c) => bd[c].res_off # d.res_off
    BY <1>0, <1>1, <2>1 DEF SetReady, Move, Working, Serving
  <2>4. Live(d)' /\ Free(d)'
    BY <2>2, <2>3, LiveStep, FreeStep
  <2>5. Live(buffer[slot(j)])'
    BY <1>1, <2>1, <2>4, Zenon DEF Live
  <2>6. Free(buffer[slot(j)])'
    BY <1>1, <2>1, <2>4, Zenon DEF Free
  <2> QED
    BY <2>5, <2>6
<1>2. \A c \in Consumers : pc'[c] \in {"g_wait", "g_tail"} => bd'[c] = buffer'[slot(head'[c])]
  BY ReadBack
<1>3. ASSUME NEW t \in Producers, SubmitRuns(t), SubmitTail(t) PROVE Queueing'
  <2>1. /\ buffer[slot(p_tail)] = bd[t] /\ p_tail' = p_tail + 1 /\ UNCHANGED <<buffer, c_tail>>
        /\ Live(bd[t])' /\ Free(bd[t])' /\ UNCHANGED bd
    BY <1>3, NewRequest DEF SubmitTail
  <2>2. \A d : Live(d) => d.res_off # bd[t].res_off
    BY <1>3, NewRequest
  <2>3. \A j \in Nat : Queued(j)' => Queued(j) \/ j = p_tail
    BY <2>1, <1>0 DEF Queued
  <2>4. ASSUME NEW j \in Nat, Queued(j)' PROVE Live(buffer[slot(j)])' /\ Free(buffer[slot(j)])'
    <3>1. CASE Queued(j)
      BY <1>1, <2>1, <3>1
    <3>2. CASE j = p_tail
      <4>1. buffer'[slot(j)] = bd'[t]
        BY <2>1, <3>2
      <4>2. Live(buffer[slot(j)])'
        BY <2>1, <4>1, Zenon DEF Live
      <4>3. Free(buffer[slot(j)])'
        BY <2>1, <4>1, Zenon DEF Free
      <4> QED
        BY <4>2, <4>3
    <3> QED
      BY <2>3, <2>4, <3>1, <3>2
  <2>5. ASSUME NEW j \in Nat, NEW l \in Nat, Queued(j)', Queued(l)', j # l
        PROVE  buffer'[slot(j)].res_off # buffer'[slot(l)].res_off
    BY <1>0, <2>1, <2>2, <2>3, <2>5 DEF Queueing
  <2> QED
    BY <1>2, <2>4, <2>5 DEF Queueing
<1>4. CASE ~\E t \in Producers : SubmitRuns(t) /\ SubmitTail(t)
  <2>1. \A j \in Nat : Queued(j)' => Queued(j) /\ buffer'[slot(j)] = buffer[slot(j)]
    BY <1>4, QueueKept
  <2>2. ASSUME NEW j \in Nat, Queued(j)' PROVE Live(buffer[slot(j)])' /\ Free(buffer[slot(j)])'
    BY <1>1, <2>1, <2>2
  <2>3. ASSUME NEW j \in Nat, NEW l \in Nat, Queued(j)', Queued(l)', j # l
        PROVE  buffer'[slot(j)].res_off # buffer'[slot(l)].res_off
    BY <1>0, <2>1, <2>3 DEF Queueing
  <2> QED
    BY <1>2, <2>2, <2>3 DEF Queueing
<1> QED
  BY <1>3, <1>4

\* A server thread at work was at work before, on the same request, or has just
\* returned from ring_get with the request at the position it gives back.
LEMMA ServingCases ==
  ASSUME SysInv, [SysNext]_sysVars, NEW c \in Consumers, Serving(c)'
  PROVE  /\ bd'[c] = bd[c]
         /\ \/ Serving(c) /\ ~SetReady(c)
            \/ /\ pc[c] = "g_tail" /\ head[c] = c_tail /\ c_tail' = c_tail + 1
               /\ Queued(c_tail) /\ bd[c] = buffer[slot(c_tail)]
<1>0. /\ TypeOK /\ IInv /\ CounterOrder /\ Queueing /\ SysTypes /\ Calls /\ PlaceTypes
      /\ c_tail \in Nat /\ p_tail \in Nat /\ c_head \in Nat
      /\ head \in [Threads -> Nat] /\ pc \in [Threads -> {"idle"} \cup SubmitSteps \cup GetSteps]
      /\ bd \in [Threads -> Items \cup {NoItem}]
  BY DEF SysInv, ClientInv, PlacesInv, IInv, TypeOK, SysTypes
<1>1. /\ Producers \subseteq Threads /\ Consumers \subseteq Threads
      /\ Producers \cap Consumers = {} /\ c \in Threads
  BY ThreadsAssumption DEF Threads
<1>2. pc'[c] = "idle" /\ at'[c] \in {"apply", "reply", "ready"}
  BY DEF Serving
<1>3. ASSUME bd'[c] = bd[c], pc'[c] = pc[c], at'[c] = at[c], ~SetReady(c)
      PROVE  bd'[c] = bd[c] /\ Serving(c) /\ ~SetReady(c)
  BY <1>2, <1>3 DEF Serving
<1>4. SetReady(c) => at'[c] = "get"
  BY <1>0, <1>1 DEF SetReady, Move, PlaceTypes
<1>5. ~SetReady(c)
  BY <1>2, <1>4
<1>6. ASSUME NEW t \in Producers, ClientStep(t) PROVE bd'[c] = bd[c] /\ Serving(c)
  <2>1. t # c /\ t \in Threads
    BY <1>1
  <2>2. CASE SubmitRuns(t)
    <3>1. pc'[c] = pc[c] /\ bd'[c] = bd[c] /\ at'[c] = at[c]
      BY <2>1, <2>2, <1>0, <1>1, RingStepsLocal DEF SubmitRuns
    <3> QED
      BY <3>1, <1>3, <1>5
  <2>3. CASE SubmitCall(t)
    <3>1. pc'[c] = pc[c] /\ bd'[c] = bd[c] /\ at'[c] = at[c]
      BY <2>1, <2>3, <1>0, <1>1 DEF SubmitCall, BeginSubmit, Move, Goto, PlaceTypes
    <3> QED
      BY <3>1, <1>3, <1>5
  <2>4. CASE SubmitDone(t) \/ PollReady(t) \/ PollCopy(t) \/ PollNotReady(t)
    <3>1. pc'[c] = pc[c] /\ bd'[c] = bd[c] /\ at'[c] = at[c]
      BY <2>1, <2>4, <1>0, <1>1 DEF SubmitDone, PollReady, PollCopy, PollNotReady, Move, vars, PlaceTypes
    <3> QED
      BY <3>1, <1>3, <1>5
  <2> QED
    BY <1>6, <2>2, <2>3, <2>4 DEF ClientStep
<1>7. ASSUME NEW e \in Consumers, e # c, ServerStep(e) PROVE bd'[c] = bd[c] /\ Serving(c)
  <2>1. CASE GetRuns(e)
    <3>1. pc'[c] = pc[c] /\ bd'[c] = bd[c] /\ at'[c] = at[c]
      BY <2>1, <1>0, <1>1, <1>7, RingStepsLocal DEF GetRuns
    <3> QED
      BY <3>1, <1>3, <1>5
  <2>2. CASE GetCall(e)
    <3>1. pc'[c] = pc[c] /\ bd'[c] = bd[c] /\ at'[c] = at[c]
      BY <2>2, <1>0, <1>1, <1>7 DEF GetCall, BeginGet, Move, Goto, PlaceTypes
    <3> QED
      BY <3>1, <1>3, <1>5
  <2>3. CASE Apply(e) \/ Reply(e) \/ SetReady(e)
    <3>1. pc'[c] = pc[c] /\ bd'[c] = bd[c] /\ at'[c] = at[c]
      BY <2>3, <1>0, <1>1, <1>7 DEF Apply, Reply, SetReady, Move, vars, PlaceTypes
    <3> QED
      BY <3>1, <1>3, <1>5
  <2> QED
    BY <1>7, <2>1, <2>2, <2>3 DEF ServerStep
<1>8. ASSUME ServerStep(c)
      PROVE  /\ bd'[c] = bd[c]
             /\ \/ Serving(c)
                \/ /\ pc[c] = "g_tail" /\ head[c] = c_tail /\ c_tail' = c_tail + 1
                   /\ Queued(c_tail) /\ bd[c] = buffer[slot(c_tail)]
  <2>1. CASE Apply(c) \/ Reply(c)
    BY <2>1 DEF Apply, Reply, Move, vars, Serving
  <2>2. ~GetCall(c)
    BY <1>0, <1>1, <1>2 DEF GetCall, BeginGet, Goto
  <2>3. CASE GetRuns(c)
    <3>1. GetTail(c)
      BY <2>3, <1>0, <1>1, <1>2 DEF GetRuns, GetStep, GetLoadHead, GetCheck, GetCas, GetRead, GetWait, Goto
    <3>2. pc[c] = "g_tail" /\ c_tail' = c_tail + 1 /\ bd'[c] = bd[c]
      BY <3>1 DEF GetTail, Goto
    <3>3. head[c] = c_tail /\ c_tail < c_head /\ c_head <= p_tail
      BY <3>2, <1>0 DEF IInv, GetPositions, WonGet, CounterOrder
    <3>4. Queued(c_tail) /\ bd[c] = buffer[slot(c_tail)]
      BY <3>2, <3>3, <1>0 DEF Queued, Queueing
    <3> QED
      BY <3>2, <3>3, <3>4
  <2> QED
    BY <2>1, <2>2, <2>3, <1>5, <1>8 DEF ServerStep
<1>9. CASE UNCHANGED sysVars
  BY <1>3, <1>5, <1>9 DEF sysVars
<1> QED
  BY <1>5, <1>6, <1>7, <1>8, <1>9 DEF SysNext

\* Every step keeps the server threads at work on live requests of their own.
LEMMA WorkingStep == SysInv /\ [SysNext]_sysVars => Working'
<1> SUFFICES ASSUME SysInv, [SysNext]_sysVars PROVE Working'
  OBVIOUS
<1>0. /\ Queueing /\ Working /\ IInv /\ c_tail \in Nat /\ p_tail \in Nat
  BY DEF SysInv, PlacesInv, IInv, TypeOK
<1> DEFINE Fresh(c) == /\ pc[c] = "g_tail" /\ head[c] = c_tail /\ c_tail' = c_tail + 1
                       /\ Queued(c_tail) /\ bd[c] = buffer[slot(c_tail)]
<1>1. ASSUME NEW c \in Consumers, Serving(c)'
      PROVE  bd'[c] = bd[c] /\ ((Serving(c) /\ ~SetReady(c)) \/ Fresh(c))
  BY <1>1, ServingCases, Zenon
<1>2. ASSUME NEW c \in Consumers, Serving(c)' PROVE Live(bd[c]) /\ Free(bd[c])
  BY <1>0, <1>1, <1>2 DEF Queueing, Working
<1>3. ASSUME NEW c \in Consumers, Serving(c)', NEW e \in Consumers, e # c, Serving(e) \/ Serving(e)'
      PROVE  bd[e].res_off # bd[c].res_off
  <2>1. Fresh(c) \/ Serving(c)
    BY <1>1, <1>3
  <2>2. Fresh(e) \/ Serving(e)
    BY <1>1, <1>3
  <2>3. ~(Fresh(c) /\ Fresh(e))
    BY <1>0, <1>3 DEF IInv, GetPositions, WonGet
  <2> QED
    BY <1>0, <1>3, <2>1, <2>2, <2>3 DEF Working
<1>4. ASSUME NEW c \in Consumers, Serving(c)' PROVE Live(bd[c])' /\ Free(bd[c])'
  <2>1. PICK d : d = bd[c]
    OBVIOUS
  <2>2. \A e \in Consumers : SetReady(e) => bd[e].res_off # d.res_off
    <3> SUFFICES ASSUME NEW e \in Consumers, SetReady(e) PROVE bd[e].res_off # d.res_off
      OBVIOUS
    <3>1. Serving(e)
      BY DEF SetReady, Move, Serving
    <3>2. e # c
      BY <1>1, <1>4 DEF SetReady, Move
    <3> QED
      BY <3>1, <3>2, <1>3, <1>4, <2>1
  <2>3. Live(d) /\ Free(d) /\ bd'[c] = d
    BY <1>1, <1>2, <1>4, <2>1
  <2>4. Live(d)' /\ Free(d)'
    BY <2>2, <2>3, LiveStep, FreeStep
  <2>5. Live(bd[c])'
    BY <2>3, <2>4, Zenon DEF Live
  <2>6. Free(bd[c])'
    BY <2>3, <2>4, Zenon DEF Free
  <2> QED
    BY <2>5, <2>6
<1>5. ASSUME NEW c \in Consumers, Serving(c)', NEW j \in Nat, Queued(j)'
      PROVE  buffer'[slot(j)].res_off # bd'[c].res_off
  <2>1. bd'[c] = bd[c] /\ Live(bd[c])
    BY <1>1, <1>2, <1>5
  <2>2. CASE \E t \in Producers : SubmitRuns(t) /\ SubmitTail(t)
    <3>1. PICK t \in Producers : SubmitRuns(t) /\ SubmitTail(t)
      BY <2>2
    <3>2. /\ buffer[slot(p_tail)] = bd[t] /\ p_tail' = p_tail + 1 /\ UNCHANGED <<buffer, c_tail>>
          /\ bd[c].res_off # bd[t].res_off
      BY <2>1, <3>1, NewRequest
    <3>3. CASE j = p_tail
      BY <2>1, <3>2, <3>3
    <3>4. CASE j # p_tail
      <4>1. Queued(j)
        BY <3>2, <3>4, <1>0, <1>5 DEF Queued
      <4>2. ~Fresh(c)
        BY <3>2, <1>0
      <4> QED
        BY <4>1, <4>2, <2>1, <3>2, <1>0, <1>1, <1>5 DEF Working
    <3> QED
      BY <3>3, <3>4
  <2>3. CASE ~\E t \in Producers : SubmitRuns(t) /\ SubmitTail(t)
    <3>1. Queued(j) /\ buffer'[slot(j)] = buffer[slot(j)]
      BY <2>3, <1>5, QueueKept
    <3>2. CASE Serving(c)
      BY <3>1, <3>2, <2>1, <1>0 DEF Working
    <3>3. CASE Fresh(c)
      <4>1. j # c_tail
        BY <3>3, <1>0, <1>5 DEF Queued
      <4> QED
        BY <4>1, <3>1, <3>3, <2>1, <1>0 DEF Queueing
    <3> QED
      BY <3>2, <3>3, <1>1, <1>5
  <2> QED
    BY <2>2, <2>3
<1>6. ASSUME NEW c \in Consumers, Serving(c)', NEW e \in Consumers, e # c, Serving(e)'
      PROVE  bd'[e].res_off # bd'[c].res_off
  BY <1>1, <1>3, <1>6
<1> QED
  BY <1>4, <1>5, <1>6 DEF Working

-----------------------------------------------------------------------------
(* Counting *)

\* Only the call of ring_submit changes how many requests are called for.
LEMMA CalledStep ==
  ASSUME SysInv, [SysNext]_sysVars, NEW t \in Producers
  PROVE  IF SubmitCall(t) THEN Called(t)' = Called(t) + 1 /\ pc[t] = "idle"
         ELSE Called(t)' = Called(t)
<1>0. /\ TypeOK /\ CountTypes /\ Calls
      /\ pc \in [Threads -> {"idle"} \cup SubmitSteps \cup GetSteps]
  BY DEF SysInv, ClientInv, IInv, TypeOK, SysTypes
<1>1. /\ Producers \subseteq Threads /\ Consumers \subseteq Threads
      /\ Producers \cap Consumers = {} /\ t \in Threads
  BY ThreadsAssumption DEF Threads
<1>2. ASSUME SubmitCall(t) PROVE Called(t)' = Called(t) + 1 /\ pc[t] = "idle"
  <2>1. pc[t] = "idle" /\ pc'[t] = "s_head" /\ UNCHANGED last_submitted
    BY <1>0, <1>1, <1>2 DEF SubmitCall, Move, BeginSubmit, Goto, clientVars
  <2> QED
    BY <2>1 DEF Called
<1>3. ASSUME SubmitRuns(t) PROVE Called(t)' = Called(t)
  <2>1. CASE SubmitTail(t)
    <3>1. pc[t] = "s_tail" /\ pc'[t] = "idle"
      BY <1>0, <1>1, <2>1 DEF SubmitTail, Goto
    <3>2. last_submitted'[t] = last_submitted[t] + 1
      BY <1>0, <1>3, <3>1 DEF SubmitRuns, CountTypes
    <3> QED
      BY <3>1, <3>2 DEF Called
  <2>2. CASE pc'[t] # "idle" /\ pc[t] # "idle" /\ UNCHANGED last_submitted
    BY <2>2 DEF Called
  <2> QED
    BY <2>1, <2>2, <1>0, <1>3, SubmitRunsCases
<1>4. ASSUME pc'[t] = pc[t], last_submitted'[t] = last_submitted[t] PROVE Called(t)' = Called(t)
  BY <1>4 DEF Called
<1>5. ASSUME NEW u \in Producers, u # t, SubmitCall(u) \/ SubmitRuns(u) PROVE Called(t)' = Called(t)
  <2>1. CASE SubmitCall(u)
    <3>1. pc'[t] = pc[t] /\ last_submitted'[t] = last_submitted[t]
      BY <2>1, <1>0, <1>1, <1>5 DEF SubmitCall, BeginSubmit, Goto, clientVars
    <3> QED
      BY <3>1, <1>4
  <2>2. CASE SubmitRuns(u)
    <3>1. pc'[t] = pc[t]
      BY <2>2, <1>0, <1>1, <1>5, RingStepsLocal DEF SubmitRuns
    <3>2. last_submitted'[t] = last_submitted[t]
      BY <2>2, <1>0, <1>5 DEF SubmitRuns, CountTypes
    <3> QED
      BY <3>1, <3>2, <1>4
  <2> QED
    BY <1>5, <2>1, <2>2
<1>6. ASSUME NEW c \in Consumers, GetCall(c) \/ GetRuns(c) PROVE Called(t)' = Called(t)
  <2>1. pc'[t] = pc[t]
    BY <1>0, <1>1, <1>6, RingStepsLocal DEF GetCall, GetRuns, BeginGet, Goto
  <2>2. UNCHANGED last_submitted
    BY <1>6 DEF GetCall, GetRuns, clientVars
  <2> QED
    BY <2>1, <2>2, <1>4
<1>7. ASSUME UNCHANGED <<pc, last_submitted>> PROVE Called(t)' = Called(t)
  BY <1>4, <1>7
<1>8. SubmitCall(t) \/ (\E u \in Producers : u # t /\ (SubmitCall(u) \/ SubmitRuns(u)))
      \/ SubmitRuns(t) \/ (\E c \in Consumers : GetCall(c) \/ GetRuns(c))
      \/ UNCHANGED <<pc, last_submitted>>
  BY DEF SysNext, ClientStep, ServerStep, SubmitDone, PollReady, PollCopy, PollNotReady,
         Apply, Reply, SetReady, clientVars, vars, sysVars
<1> QED
  BY <1>2, <1>3, <1>5, <1>6, <1>7, <1>8

\* A slot becomes ready by the step of a server thread at work on it alone, and
\* a client starts to copy a slot that is ready.
LEMMA ReadyStep ==
  ASSUME SysInv, [SysNext]_sysVars, NEW t \in Producers, NEW s \in Slots
  PROVE  /\ comps'[t][s].ready = 1 =>
               \/ comps[t][s].ready = 1
               \/ \E c \in Consumers : SetReady(c) /\ Serving(c) /\ bd[c].res_off = <<t, s>>
         /\ (at'[t] = "copy" /\ nxt_comp'[t] = s) =>
               \/ at[t] = "copy" /\ nxt_comp[t] = s
               \/ comps[t][s].ready = 1
<1>0. SysTypes /\ Window /\ PlaceTypes /\ CountTypes
  BY DEF SysInv, ClientInv, SysTypes
<1>1. win_size' = win_size
  BY DEF SysNext, sysVars
<1>2. /\ Producers \subseteq Threads /\ Consumers \subseteq Threads
      /\ Producers \cap Consumers = {} /\ t \in Threads
  BY ThreadsAssumption DEF Threads
<1>3. ASSUME comps'[t][s].ready = 1
      PROVE  \/ comps[t][s].ready = 1
             \/ \E c \in Consumers : SetReady(c) /\ Serving(c) /\ bd[c].res_off = <<t, s>>
  <2>1. CASE UNCHANGED comps
    BY <1>3, <2>1
  <2>2. ASSUME NEW u \in Producers, PollReady(u) PROVE comps[t][s].ready = 1
    <3>1. PICK r \in Slots : r = nxt_comp[u]
      BY <1>0, NextSlot
    <3>2. comps[u][r] \in Board
      BY <1>0 DEF SysTypes, BoardTypes
    <3>3. PICK b \in Board : b = [k |-> comps[u][r].k, v |-> comps[u][r].v, ready |-> 0]
      BY <3>2 DEF Board
    <3>4. comps' = [comps EXCEPT ![u][r] = b]
      BY <1>0, <2>2, <3>1, <3>3, BoardSteps
    <3>5. comps'[u][r] = b
      BY <1>0, <3>4 DEF SysTypes, BoardTypes
    <3>6. u # t \/ r # s
      BY <1>3, <3>3, <3>5
    <3>7. comps'[t][s] = comps[t][s]
      BY <1>0, <1>1, <3>4, <3>6, BoardWrite
    <3> QED
      BY <1>3, <3>7
  <2>3. ASSUME NEW c \in Consumers, Reply(c) \/ SetReady(c),
               bd[c].res_off # <<t, s>> \/ Reply(c)
        PROVE  comps[t][s].ready = 1
    <3>1. Live(bd[c]) /\ Serving(c)
      BY <2>3 DEF Reply, SetReady, Move, SysInv, PlacesInv, Working, Serving
    <3>2. PICK u \in Producers : u = bd[c].res_off[1]
      BY <3>1, <1>0, LiveFacts
    <3>3. PICK r \in Slots : r = bd[c].res_off[2]
      BY <3>1, <1>0, LiveFacts
    <3>4. comps[u][r] \in Board /\ bd[c].k \in Keys /\ ret[c] \in Nat /\ bd[c].res_off = <<u, r>>
      BY <3>1, <3>2, <3>3, <1>0, LiveFacts DEF SysTypes, BoardTypes, StoreTypes
    <3>5. PICK b \in Board : /\ comps' = [comps EXCEPT ![u][r] = b]
                             /\ Reply(c) => b.ready = comps[u][r].ready
      <4>1. CASE Reply(c)
        <5>1. PICK b \in Board :
                 b = [k |-> bd[c].k,
                      v |-> IF bd[c].req_type = "GET" THEN ret[c] ELSE comps[u][r].v,
                      ready |-> comps[u][r].ready]
          BY <3>4 DEF Board
        <5>2. comps' = [comps EXCEPT ![u][r] = b]
          BY <1>0, <4>1, <3>1, <3>2, <3>3, <5>1, BoardSteps
        <5> QED
          BY <5>1, <5>2
      <4>2. CASE SetReady(c) /\ ~Reply(c)
        <5>1. PICK b \in Board : b = [k |-> comps[u][r].k, v |-> comps[u][r].v, ready |-> 1]
          BY <3>4 DEF Board
        <5>2. comps' = [comps EXCEPT ![u][r] = b]
          BY <1>0, <4>2, <3>1, <3>2, <3>3, <5>1, BoardSteps
        <5> QED
          BY <4>2, <5>2
      <4> QED
        BY <2>3, <4>1, <4>2
    <3>6. CASE u = t /\ r = s
      <4>1. comps'[u][r] = b
        BY <1>0, <3>5 DEF SysTypes, BoardTypes
      <4> QED
        BY <4>1, <3>4, <3>5, <3>6, <2>3, <1>3
    <3>7. CASE u # t \/ r # s
      <4>1. comps'[t][s] = comps[t][s]
        BY <1>0, <1>1, <3>5, <3>7, BoardWrite
      <4> QED
        BY <4>1, <1>3
    <3> QED
      BY <3>6, <3>7
  <2>4. ASSUME NEW c \in Consumers, SetReady(c) PROVE Serving(c)
    BY <2>4 DEF SetReady, Move, Serving
  <2> QED
    BY <2>1, <2>2, <2>3, <2>4 DEF SysNext, ClientStep, ServerStep, SubmitCall, SubmitRuns,
       SubmitDone, PollCopy, PollNotReady, GetCall, GetRuns, Apply, clientVars, sysVars
<1>4. ASSUME at'[t] = "copy", nxt_comp'[t] = s
      PROVE  (at[t] = "copy" /\ nxt_comp[t] = s) \/ comps[t][s].ready = 1
  <2>1. CASE PollReady(t)
    BY <1>4, <2>1 DEF PollReady, clientVars
  <2>2. ASSUME NEW u \in Producers, u # t, PollReady(u) PROVE at[t] = "copy" /\ nxt_comp[t] = s
    BY <1>0, <1>2, <1>4, <2>2 DEF PollReady, Move, clientVars, PlaceTypes
  <2>3. ASSUME NEW u \in Producers,
               SubmitCall(u) \/ SubmitRuns(u) \/ SubmitDone(u) \/ PollNotReady(u)
        PROVE  at[t] = "copy" /\ nxt_comp[t] = s
    <3>1. /\ UNCHANGED nxt_comp
          /\ at' = at \/ \E to \in {"submit", "poll", "done"} : at' = [at EXCEPT ![u] = to]
      BY <2>3 DEF SubmitCall, SubmitRuns, SubmitDone, PollNotReady, AfterPoll, Move, clientVars
    <3> QED
      BY <3>1, <1>0, <1>2, <1>4 DEF PlaceTypes
  <2>4. ASSUME NEW u \in Producers, PollCopy(u) PROVE at[t] = "copy" /\ nxt_comp[t] = s
    <3>1. /\ at' = [at EXCEPT ![u] = "poll"]
          /\ \A y \in Producers : y # u => nxt_comp'[y] = nxt_comp[y]
      BY <1>0, <2>4 DEF PollCopy, Move, CountTypes
    <3> QED
      BY <3>1, <1>0, <1>2, <1>4 DEF PlaceTypes
  <2>5. ASSUME NEW c \in Consumers, ServerStep(c) PROVE at[t] = "copy" /\ nxt_comp[t] = s
    <3>1. /\ UNCHANGED nxt_comp
          /\ at' = at \/ \E to : at' = [at EXCEPT ![c] = to]
      BY <2>5 DEF ServerStep, GetCall, GetRuns, Apply, Reply, SetReady, Move, clientVars
    <3> QED
      BY <3>1, <1>0, <1>2, <1>4 DEF PlaceTypes
  <2>6. CASE UNCHANGED sysVars
    BY <1>4, <2>6 DEF sysVars
  <2> QED
    BY <2>1, <2>2, <2>3, <2>4, <2>5, <2>6 DEF SysNext, ClientStep
<1> QED
  BY <1>3, <1>4

\* A slot joins the returned ones when a server thread gives its position back.
LEMMA ReturnedStep ==
  ASSUME SysInv, [SysNext]_sysVars
  PROVE  \/ Returned' \subseteq Returned
         \/ c_tail' = c_tail + 1 /\ \E x : Returned' \subseteq Returned \cup {x}
<1>0. SysTypes /\ IInv /\ Window
  BY DEF SysInv, ClientInv
<1>1. Slots' = Slots
  BY DEF SysNext, sysVars, Slots
<1> DEFINE Fresh(c) == pc[c] = "g_tail" /\ head[c] = c_tail /\ c_tail' = c_tail + 1
<1>2. ASSUME NEW x \in Returned', x \notin Returned
      PROVE  \E c \in Consumers : Fresh(c) /\ x = bd[c].res_off
  <2>1. /\ x \in Producers \X Slots
        /\ \/ comps'[x[1]][x[2]].ready = 1
           \/ at'[x[1]] = "copy" /\ nxt_comp'[x[1]] = x[2]
           \/ \E c \in Consumers : Serving(c)' /\ bd'[c].res_off = x
    BY <1>1, <1>2 DEF Returned
  <2>2. PICK t \in Producers, s \in Slots : x = <<t, s>>
    BY <2>1
  <2>3. /\ comps[t][s].ready # 1 /\ ~(at[t] = "copy" /\ nxt_comp[t] = s)
        /\ \A c \in Consumers : ~(Serving(c) /\ bd[c].res_off = x)
    BY <1>2, <2>2 DEF Returned
  <2>4. comps'[t][s].ready # 1 /\ ~(at'[t] = "copy" /\ nxt_comp'[t] = s)
    BY <2>2, <2>3, ReadyStep
  <2>5. PICK c \in Consumers : Serving(c)' /\ bd'[c].res_off = x
    BY <2>1, <2>2, <2>4
  <2>6. bd'[c] = bd[c] /\ (Serving(c) \/ Fresh(c))
    BY <2>5, ServingCases
  <2> QED
    BY <2>3, <2>5, <2>6
<1>3. ASSUME NEW c \in Consumers, NEW e \in Consumers, Fresh(c), Fresh(e) PROVE c = e
  BY <1>0, <1>3 DEF IInv, GetPositions, WonGet
<1>4. CASE \E c \in Consumers : Fresh(c)
  <2>1. PICK c \in Consumers : Fresh(c)
    BY <1>4
  <2>2. Returned' \subseteq Returned \cup {bd[c].res_off}
    BY <1>2, <1>3, <2>1
  <2> QED
    BY <2>1, <2>2
<1>5. CASE ~\E c \in Consumers : Fresh(c)
  BY <1>2, <1>5
<1> QED
  BY <1>4, <1>5

\* A slot that the client copies leaves both sets.
LEMMA CopyCounts ==
  ASSUME SysInv, [SysNext]_sysVars, NEW t \in Producers, PollCopy(t)
  PROVE  /\ <<t, nxt_comp[t]>> \in Returned
         /\ Returned' \subseteq Returned \ {<<t, nxt_comp[t]>>}
         /\ Awaited \ {<<t, nxt_comp[t]>>} \subseteq Awaited'
<1>0. SysTypes /\ Window /\ PlaceTypes /\ CountTypes /\ Answered /\ Working /\ Calls
  BY DEF SysInv, ClientInv, SysTypes, AnswerInv, PlacesInv
<1>1. Slots' = Slots /\ win_size' = win_size
  BY DEF SysNext, sysVars, Slots
<1>2. /\ at[t] = "copy" /\ at'[t] = "poll" /\ UNCHANGED <<comps, last_submitted, pc, c_tail>>
      /\ last_completed'[t] = last_completed[t] + 1 /\ last_completed[t] \in Nat
      /\ \A u \in Producers : u # t => last_completed'[u] = last_completed[u]
  BY <1>0 DEF PollCopy, Move, vars, PlaceTypes, CountTypes, Threads
<1>3. PICK s \in Slots : s = nxt_comp[t]
  BY <1>0, NextSlot
<1>4. <<t, s>> \in Returned
  BY <1>2, <1>3 DEF Returned
<1>5. Returned' \subseteq Returned
  <2>1. c_tail \in Nat
    BY DEF SysInv, IInv, TypeOK
  <2> QED
    BY <1>2, <2>1, ReturnedStep
<1>6. <<t, s>> \notin Returned'
  <2>1. comps'[t][s].ready # 1
    BY <1>0, <1>2, <1>3 DEF Answered
  <2>2. ASSUME NEW c \in Consumers, Serving(c)', bd'[c].res_off = <<t, s>> PROVE FALSE
    <3>1. Serving(c) /\ bd[c].res_off = <<t, s>>
      <4>1. c_tail' # c_tail + 1
        BY <1>2 DEF SysInv, IInv, TypeOK
      <4> QED
        BY <4>1, <2>2, ServingCases
    <3>2. Free(bd[c])
      BY <3>1, <1>0 DEF Working
    <3> QED
      BY <3>1, <3>2, <1>2, <1>3 DEF Free
  <2> QED
    BY <2>1, <2>2, <1>2 DEF Returned
<1>7. Awaited \ {<<t, s>>} \subseteq Awaited'
  <2> SUFFICES ASSUME NEW x \in Awaited, x # <<t, s>> PROVE x \in Awaited'
    OBVIOUS
  <2>1. PICK u \in Producers, r \in Slots : x = <<u, r>>
    BY DEF Awaited
  <2>2. PICK id \in Nat : last_completed[u] < id /\ id <= Called(u) /\ r = WSlot(win_size, id)
    BY <2>1 DEF Awaited
  <2>3. u = t => id # last_completed[t] + 1
    BY <2>1, <2>2, <1>0, <1>3 DEF Window
  <2>4. last_completed'[u] < id
    BY <2>2, <2>3, <1>2
  <2>5. Called(u)' = Called(u)
    BY <1>2 DEF Called
  <2>6. \E i \in Nat : last_completed'[u] < i /\ i <= Called(u)' /\ r = WSlot(win_size', i)
    BY <2>2, <2>4, <2>5, <1>1
  <2> QED
    BY <2>1, <2>6, <1>1 DEF Awaited
<1> QED
  BY <1>3, <1>4, <1>5, <1>6, <1>7

\* Away from the client's copies and calls, the awaited slots stay.
LEMMA AwaitedSame ==
  ASSUME SysInv, [SysNext]_sysVars, UNCHANGED last_completed
  PROVE  /\ CalledRequests \subseteq CalledRequests' /\ Awaited \subseteq Awaited'
         /\ \A t \in Producers : SubmitCall(t) =>
               /\ <<t, last_submitted[t] + 1>> \in CalledRequests' \ CalledRequests
               /\ <<t, WSlot(win_size, last_submitted[t] + 1)>> \in Awaited' \ Awaited
<1>0. SysTypes /\ Window /\ Calls /\ CountTypes
  BY DEF SysInv, ClientInv, SysTypes
<1>1. Slots' = Slots /\ win_size' = win_size /\ win_size \in Nat \ {0}
  BY <1>0, WorkloadFacts DEF SysNext, sysVars, Slots
<1>2. \A t \in Producers : Called(t) \in Nat /\ Called(t)' \in Nat /\ Called(t) <= Called(t)'
  <2> SUFFICES ASSUME NEW t \in Producers
               PROVE  Called(t) \in Nat /\ Called(t)' \in Nat /\ Called(t) <= Called(t)'
    OBVIOUS
  <2>1. Called(t) \in Nat
    BY <1>0, CalledBound
  <2>2. Called(t)' \in {Called(t), Called(t) + 1}
    BY CalledStep
  <2> QED
    BY <2>1, <2>2
<1>3. CalledRequests \subseteq CalledRequests'
  <2> SUFFICES ASSUME NEW r \in CalledRequests PROVE r \in CalledRequests'
    OBVIOUS
  <2>1. r \in Producers \X Nat /\ r[1] \in Producers /\ r[2] \in Nat
        /\ 1 <= r[2] /\ r[2] <= Called(r[1])
    BY DEF CalledRequests
  <2>2. r[2] <= Called(r[1])'
    BY <2>1, <1>2
  <2> QED
    BY <2>1, <2>2 DEF CalledRequests
<1>4. Awaited \subseteq Awaited'
  <2> SUFFICES ASSUME NEW x \in Awaited PROVE x \in Awaited'
    OBVIOUS
  <2>1. PICK u \in Producers, r \in Slots : x = <<u, r>>
    BY DEF Awaited
  <2>2. PICK id \in Nat : last_completed[u] < id /\ id <= Called(u) /\ r = WSlot(win_size, id)
    BY <2>1 DEF Awaited
  <2>3. id <= Called(u)'
    BY <2>2, <1>2
  <2>4. \E i \in Nat : last_completed'[u] < i /\ i <= Called(u)' /\ r = WSlot(win_size', i)
    BY <2>2, <2>3, <1>1
  <2> QED
    BY <2>1, <2>4, <1>1 DEF Awaited
<1>5. ASSUME NEW t \in Producers, SubmitCall(t)
      PROVE  /\ <<t, last_submitted[t] + 1>> \in CalledRequests' \ CalledRequests
             /\ <<t, WSlot(win_size, last_submitted[t] + 1)>> \in Awaited' \ Awaited
  <2>1. pc[t] = "idle" /\ MaySubmit(t)
    BY <1>5 DEF SubmitCall, Move
  <2>2. PICK n \in Nat : n = last_submitted[t] + 1 /\ last_completed[t] < n /\ 1 <= n
    BY <1>0 DEF Window, CountTypes
  <2>3. Called(t)' = n
    BY <1>5, <2>1, <2>2, CalledStep DEF Called
  <2>4. <<t, n>> \notin CalledRequests /\ <<t, WSlot(win_size, n)>> \notin Awaited
    BY <1>0, <2>1, <2>2, CallIsNew
  <2>5. <<t, n>> \in CalledRequests'
    BY <2>2, <2>3 DEF CalledRequests
  <2>6. WSlot(win_size, n) \in Slots'
    <3>1. \A id \in Nat \ {0} : WSlot(win_size, id) \in 0..(win_size - 1)
      BY <1>1, WSlotFacts
    <3> QED
      BY <3>1, <1>1, <2>2 DEF Slots
  <2>7. \E i \in Nat : /\ last_completed'[t] < i /\ i <= Called(t)'
                       /\ WSlot(win_size, n) = WSlot(win_size', i)
    BY <2>2, <2>3, <1>1
  <2>8. <<t, WSlot(win_size, n)>> \in Awaited'
    BY <2>6, <2>7 DEF Awaited
  <2> QED
    BY <2>2, <2>4, <2>5, <2>8
<1> QED
  BY <1>3, <1>4, <1>5

\* The counted sets are finite, before and after a step.
FiniteCounts ==
    /\ IsFiniteSet(CalledRequests) /\ IsFiniteSet(Awaited) /\ IsFiniteSet(Returned)
    /\ Cardinality(CalledRequests) \in Nat /\ Cardinality(Awaited) \in Nat
    /\ Cardinality(Returned) \in Nat

\* This holds in every state that keeps the windows...
LEMMA CountsAreFinite == SysTypes /\ Window /\ Calls => FiniteCounts
<1> SUFFICES ASSUME SysTypes, Window, Calls PROVE FiniteCounts
  OBVIOUS
<1>1. PICK w \in Workloads : win_size = w.win_size /\ reqs = w.reqs
  BY DEF SysTypes, WorkloadOK
<1> QED
  BY <1>1, CountsFinite DEF FiniteCounts

\* ... and so in the next one.
LEMMA CountsStayFinite == SysTypes' /\ Window' /\ Calls' => FiniteCounts'
  BY CountsAreFinite, PTL

\* Every step keeps the count.
LEMMA CountingStep ==
  ASSUME SysInv, [SysNext]_sysVars, SysTypes', Window', Calls'
  PROVE  Counting'
<1>0. SysTypes /\ Window /\ Calls /\ TypeOK /\ Counting
  BY DEF SysInv, ClientInv, IInv
<1>1. FiniteCounts /\ FiniteCounts'
  BY <1>0, CountsAreFinite, CountsStayFinite
<1> DEFINE A == Awaited
           B == Awaited'
           R == Returned
           S == Returned'
           C == CalledRequests
           D == CalledRequests'
<1>2. /\ IsFiniteSet(A) /\ IsFiniteSet(B) /\ IsFiniteSet(R) /\ IsFiniteSet(S)
      /\ IsFiniteSet(C) /\ IsFiniteSet(D)
      /\ Cardinality(A) \in Nat /\ Cardinality(B) \in Nat /\ Cardinality(R) \in Nat
      /\ Cardinality(S) \in Nat /\ Cardinality(C) \in Nat /\ Cardinality(D) \in Nat
  BY <1>1 DEF FiniteCounts
<1>3. /\ Submitted \in Nat /\ c_tail \in Nat /\ Submitted <= Cardinality(C)
      /\ Submitted + Cardinality(R) <= c_tail + Cardinality(A)
  BY <1>0, ReservingFinite DEF Counting, TypeOK, Submitted
<1>4. SUFFICES /\ Submitted' <= Cardinality(D)
               /\ Submitted' + Cardinality(S) <= c_tail' + Cardinality(B)
  BY DEF Counting
<1>5. ASSUME NEW t \in Producers, SubmitCall(t)
      PROVE  Submitted' = Submitted + 1 /\ c_tail' = c_tail
  BY <1>0, <1>5, SubmittedGrows DEF SubmitCall
<1>6. ASSUME ~\E t \in Producers : SubmitCall(t) PROVE Submitted' = Submitted
  <2>1. \/ \E p \in Producers : SubmitStep(p)
        \/ \E c \in Consumers : ConsumerNext(c)
        \/ UNCHANGED vars
    BY <1>6 DEF SysNext, ClientStep, ServerStep, SubmitRuns, SubmitDone, PollReady, PollCopy,
       PollNotReady, GetCall, GetRuns, Apply, Reply, SetReady, ConsumerNext, sysVars, vars
  <2> QED
    BY <2>1, <1>0, SubmittedSame
<1>7. S \subseteq R \/ (c_tail' = c_tail + 1 /\ \E x : S \subseteq R \cup {x})
  BY ReturnedStep
<1>8. ASSUME NEW t \in Producers, PollCopy(t)
      PROVE  /\ c_tail' = c_tail /\ D = C /\ Submitted' = Submitted
             /\ Cardinality(S) + 1 <= Cardinality(R)
             /\ Cardinality(A) <= Cardinality(B) + 1
  <2> DEFINE x == <<t, nxt_comp[t]>>
  <2>1. x \in R /\ S \subseteq R \ {x} /\ A \ {x} \subseteq B
    BY <1>8, CopyCounts
  <2>2. UNCHANGED <<c_tail, pc, last_submitted, p_head>>
    BY <1>8 DEF PollCopy, vars
  <2>3. D = C
    BY <2>2 DEF CalledRequests, Called
  <2>4. Submitted' = Submitted
    BY <2>2 DEF Submitted, Reserving
  <2> HIDE DEF x, A, B, R, S, C, D
  <2>5. Cardinality(S) + 1 <= Cardinality(R)
    BY <1>2, <2>1, OneMore
  <2>6. Cardinality(A) <= Cardinality(A \ {x}) + 1 /\ IsFiniteSet(A \ {x})
        /\ Cardinality(A \ {x}) \in Nat
    <3>1. /\ IsFiniteSet(A \ {x})
          /\ Cardinality(A \ {x}) = IF x \in A THEN Cardinality(A) - 1 ELSE Cardinality(A)
      BY <1>2, FS_RemoveElement
    <3>2. Cardinality(A \ {x}) \in Nat
      BY <3>1, FS_CardinalityType
    <3> QED
      BY <1>2, <3>1, <3>2
  <2>7. Cardinality(A \ {x}) <= Cardinality(B)
    BY <1>2, <2>1, FS_Subset
  <2> QED
    BY <1>2, <2>2, <2>3, <2>4, <2>5, <2>6, <2>7
<1>9. ASSUME UNCHANGED last_completed
      PROVE  /\ C \subseteq D /\ A \subseteq B
             /\ \A t \in Producers : SubmitCall(t) =>
                   (\E r : r \in D \ C) /\ (\E x : x \in B \ A)
  BY <1>9, AwaitedSame
<1>10. UNCHANGED last_completed \/ \E t \in Producers : PollCopy(t)
  BY DEF SysNext, ClientStep, ServerStep, SubmitCall, SubmitRuns, SubmitDone, PollReady,
         PollNotReady, GetCall, GetRuns, Apply, Reply, SetReady, clientVars, sysVars
<1>11. c_tail' \in {c_tail, c_tail + 1}
  BY <1>0 DEF SysNext, ClientStep, ServerStep, SubmitCall, SubmitRuns, SubmitDone, PollReady, PollCopy,
         PollNotReady, GetCall, GetRuns, Apply, Reply, SetReady, sysVars, vars, counters,
         BeginSubmit, BeginGet, SubmitStep, SubmitLoadHead, SubmitCheck, SubmitCas, SubmitWrite,
         SubmitWait, SubmitTail, GetStep, GetLoadHead, GetCheck, GetCas, GetRead, GetWait, GetTail
<1> HIDE DEF A, B, R, S, C, D
<1>12. \/ Cardinality(S) <= Cardinality(R) /\ c_tail' \in {c_tail, c_tail + 1}
       \/ Cardinality(S) <= Cardinality(R) + 1 /\ c_tail' = c_tail + 1
  <2>1. CASE S \subseteq R
    BY <1>2, <1>11, <2>1, FS_Subset
  <2>2. ASSUME NEW x, S \subseteq R \cup {x} PROVE Cardinality(S) <= Cardinality(R) + 1
    <3>1. /\ IsFiniteSet(R \cup {x})
          /\ Cardinality(R \cup {x}) = IF x \in R THEN Cardinality(R) ELSE Cardinality(R) + 1
      BY <1>2, FS_AddElement
    <3>2. Cardinality(S) <= Cardinality(R \cup {x})
      BY <2>2, <3>1, FS_Subset
    <3> QED
      BY <1>2, <3>1, <3>2
  <2> QED
    BY <1>7, <2>1, <2>2
<1>13. CASE \E t \in Producers : PollCopy(t)
  BY <1>2, <1>3, <1>8, <1>13
<1>14. CASE UNCHANGED last_completed /\ \E t \in Producers : SubmitCall(t)
  <2>1. PICK t \in Producers : SubmitCall(t)
    BY <1>14
  <2>2. Submitted' = Submitted + 1 /\ c_tail' = c_tail
    BY <1>5, <2>1
  <2>3. PICK r : r \in D \ C
    BY <1>9, <1>14, <2>1
  <2>4. PICK x : x \in B \ A
    BY <1>9, <1>14, <2>1
  <2>5. Cardinality(C) + 1 <= Cardinality(D)
    BY <1>2, <1>9, <1>14, <2>3, OneMore
  <2>6. Cardinality(A) + 1 <= Cardinality(B)
    BY <1>2, <1>9, <1>14, <2>4, OneMore
  <2>7. c_tail' # c_tail + 1
    BY <1>3, <2>2
  <2> QED
    BY <1>2, <1>3, <1>12, <2>2, <2>5, <2>6, <2>7
<1>15. CASE UNCHANGED last_completed /\ ~\E t \in Producers : SubmitCall(t)
  <2>1. Submitted' = Submitted
    BY <1>6, <1>15
  <2>2. Cardinality(C) <= Cardinality(D) /\ Cardinality(A) <= Cardinality(B)
    BY <1>2, <1>9, <1>15, FS_Subset
  <2> QED
    BY <1>2, <1>3, <1>12, <2>1, <2>2
<1> QED
  BY <1>10, <1>13, <1>14, <1>15

-----------------------------------------------------------------------------
(* Every answer reaches its request *)

\* What an entry of the board says changes only when the server thread at work on
\* it replies.
LEMMA EntryKept ==
  ASSUME SysInv, [SysNext]_sysVars, NEW t \in Producers, NEW s \in Slots
  PROVE  \/ comps'[t][s].k = comps[t][s].k /\ comps'[t][s].v = comps[t][s].v
         \/ \E c \in Consumers : /\ Reply(c) /\ Serving(c) /\ bd[c].res_off = <<t, s>>
                                 /\ comps'[t][s].k = bd[c].k
                                 /\ bd[c].req_type = "GET" => comps'[t][s].v = ret[c]
<1>0. SysTypes /\ Window
  BY DEF SysInv, ClientInv
<1>1. win_size' = win_size
  BY DEF SysNext, sysVars
<1>2. CASE UNCHANGED comps
  BY <1>2
<1>3. ASSUME NEW u \in Producers, NEW r \in Slots, NEW b \in Board,
             comps' = [comps EXCEPT ![u][r] = b]
      PROVE  IF u = t /\ r = s THEN comps'[t][s] = b ELSE comps'[t][s] = comps[t][s]
  <2>1. CASE u = t /\ r = s
    BY <2>1, <1>0, <1>3 DEF SysTypes, BoardTypes
  <2>2. CASE ~(u = t /\ r = s)
    BY <2>2, <1>0, <1>1, <1>3, BoardWrite
  <2> QED
    BY <2>1, <2>2
<1>4. ASSUME NEW u \in Producers, PollReady(u)
      PROVE  comps'[t][s].k = comps[t][s].k /\ comps'[t][s].v = comps[t][s].v
  <2>1. PICK r \in Slots : r = nxt_comp[u]
    BY <1>0, NextSlot
  <2>2. comps[u][r] \in Board
    BY <1>0 DEF SysTypes, BoardTypes
  <2>3. PICK b \in Board : b = [k |-> comps[u][r].k, v |-> comps[u][r].v, ready |-> 0]
    BY <2>2 DEF Board
  <2>4. comps' = [comps EXCEPT ![u][r] = b]
    BY <1>0, <1>4, <2>1, <2>3, BoardSteps
  <2>5. b.k = comps[u][r].k /\ b.v = comps[u][r].v
    BY <2>3
  <2> QED
    BY <1>3, <2>4, <2>5
<1>5. ASSUME NEW c \in Consumers, Reply(c) \/ SetReady(c)
      PROVE  \/ comps'[t][s].k = comps[t][s].k /\ comps'[t][s].v = comps[t][s].v
             \/ /\ Reply(c) /\ Serving(c) /\ bd[c].res_off = <<t, s>>
                /\ comps'[t][s].k = bd[c].k
                /\ bd[c].req_type = "GET" => comps'[t][s].v = ret[c]
  <2>1. Live(bd[c]) /\ Serving(c)
    BY <1>5 DEF Reply, SetReady, Move, SysInv, PlacesInv, Working, Serving
  <2>2. PICK u \in Producers : u = bd[c].res_off[1]
    BY <2>1, <1>0, LiveFacts
  <2>3. PICK r \in Slots : r = bd[c].res_off[2]
    BY <2>1, <1>0, LiveFacts
  <2>4. comps[u][r] \in Board /\ bd[c].k \in Keys /\ ret[c] \in Nat /\ bd[c].res_off = <<u, r>>
    BY <2>1, <2>2, <2>3, <1>0, LiveFacts DEF SysTypes, BoardTypes, StoreTypes
  <2>5. CASE Reply(c)
    <3>1. PICK b \in Board :
             b = [k |-> bd[c].k,
                  v |-> IF bd[c].req_type = "GET" THEN ret[c] ELSE comps[u][r].v,
                  ready |-> comps[u][r].ready]
      BY <2>4 DEF Board
    <3>2. comps' = [comps EXCEPT ![u][r] = b]
      BY <1>0, <2>1, <2>2, <2>3, <2>5, <3>1, BoardSteps
    <3>3. b.k = bd[c].k /\ (bd[c].req_type = "GET" => b.v = ret[c])
      BY <3>1
    <3> QED
      BY <1>3, <2>1, <2>4, <2>5, <3>2, <3>3
  <2>6. CASE SetReady(c)
    <3>1. PICK b \in Board : b = [k |-> comps[u][r].k, v |-> comps[u][r].v, ready |-> 1]
      BY <2>4 DEF Board
    <3>2. comps' = [comps EXCEPT ![u][r] = b]
      BY <1>0, <2>1, <2>2, <2>3, <2>6, <3>1, BoardSteps
    <3>3. b.k = comps[u][r].k /\ b.v = comps[u][r].v
      BY <3>1
    <3> QED
      BY <1>3, <3>2, <3>3
  <2> QED
    BY <1>5, <2>5, <2>6
<1> QED
  BY <1>2, <1>4, <1>5 DEF SysNext, ClientStep, ServerStep, SubmitCall, SubmitRuns,
     SubmitDone, PollCopy, PollNotReady, GetCall, GetRuns, Apply, clientVars, sysVars

\* The value a get read is recorded once, by the server thread at work on it.
LEMMA AnswerKept ==
  ASSUME SysInv, [SysNext]_sysVars, NEW t \in Producers, NEW id \in 1..num_reqs(t)
  PROVE  /\ reqs'[t][id] = reqs[t][id]
         /\ \/ answer'[t][id] = answer[t][id]
            \/ \E c \in Consumers :
                  /\ Apply(c) /\ Serving(c) /\ bd[c].id = id
                  /\ bd[c].res_off = <<t, WSlot(win_size, id)>>
                  /\ answer'[t][id] = ret'[c]
<1>0. SysTypes /\ Window
  BY DEF SysInv, ClientInv
<1>1. reqs' = reqs
  BY DEF SysNext, sysVars
<1>2. CASE UNCHANGED answer
  BY <1>1, <1>2
<1>3. ASSUME NEW c \in Consumers, Apply(c), answer'[t][id] # answer[t][id]
      PROVE  /\ Serving(c) /\ bd[c].id = id /\ bd[c].res_off = <<t, WSlot(win_size, id)>>
             /\ answer'[t][id] = ret'[c]
  <2>1. Live(bd[c]) /\ Serving(c)
    BY <1>3 DEF Apply, Move, SysInv, PlacesInv, Working, Serving
  <2>2. PICK u \in Producers : u = bd[c].res_off[1]
    BY <2>1, <1>0, LiveFacts
  <2>3. PICK i \in 1..num_reqs(u) : i = bd[c].id
    BY <2>1, <2>2, <1>0, LiveFacts
  <2>4. bd[c].res_off = <<u, WSlot(win_size, i)>>
    BY <2>1, <2>2, <2>3, <1>0, LiveFacts
  <2>5. PICK x : x = store[bd[c].k]
    OBVIOUS
  <2>6. answer' = [answer EXCEPT ![u][i] = x] /\ ret' = [ret EXCEPT ![c] = x]
    BY <1>3, <2>2, <2>3, <2>5 DEF Apply
  <2>7. /\ answer \in [Producers -> Seq(Nat)] /\ ret \in [Consumers -> Nat]
        /\ answer[u] \in Seq(Nat) /\ Len(answer[u]) = num_reqs(u)
    BY <1>0 DEF SysTypes, AnswerTypes, StoreTypes
  <2>8. PICK f : f = [answer[u] EXCEPT ![i] = x]
    OBVIOUS
  <2>9. answer'[u] = f /\ \A y \in Producers : y # u => answer'[y] = answer[y]
    BY <2>6, <2>7, <2>8
  <2>10. f[i] = x /\ \A j \in 1..num_reqs(u) : j # i => f[j] = answer[u][j]
    BY <2>7, <2>8
  <2>11. u = t /\ i = id
    BY <1>3, <2>9, <2>10
  <2> QED
    BY <2>1, <2>3, <2>4, <2>6, <2>7, <2>9, <2>10, <2>11
<1> QED
  BY <1>1, <1>2, <1>3 DEF SysNext, ClientStep, ServerStep, SubmitCall, SubmitRuns, SubmitDone,
     PollReady, PollCopy, PollNotReady, GetCall, GetRuns, Reply, SetReady, sysVars

\* A server thread at work has executed its request, replied, or stood by, or has
\* just come back from ring_get.
LEMMA ServerMoves ==
  ASSUME SysInv, [SysNext]_sysVars, NEW c \in Consumers, Serving(c)'
  PROVE  /\ bd'[c] = bd[c]
         /\ \/ /\ Serving(c)
               /\ \/ Apply(c) /\ at'[c] = "reply"
                  \/ Reply(c) /\ at'[c] = "ready"
                  \/ ~Apply(c) /\ ~Reply(c) /\ at'[c] = at[c] /\ ret'[c] = ret[c]
            \/ /\ at'[c] = "apply" /\ Queued(c_tail) /\ bd[c] = buffer[slot(c_tail)]
<1>0. /\ PlaceTypes /\ Calls /\ ret \in [Consumers -> Nat]
      /\ pc \in [Threads -> {"idle"} \cup SubmitSteps \cup GetSteps]
  BY DEF SysInv, ClientInv, SysTypes, StoreTypes, IInv, TypeOK
<1>1. /\ Producers \subseteq Threads /\ Consumers \subseteq Threads
      /\ Producers \cap Consumers = {} /\ c \in Threads
  BY ThreadsAssumption DEF Threads
<1>2. Apply(c) => at'[c] = "reply" /\ at[c] = "apply"
  BY <1>0, <1>1 DEF Apply, Move, PlaceTypes
<1>3. Reply(c) => at'[c] = "ready" /\ at[c] = "reply"
  BY <1>0, <1>1 DEF Reply, Move, PlaceTypes
<1>4. ASSUME ~Apply(c), ~Reply(c), ~SetReady(c), ~GetCall(c)
      PROVE  at'[c] = at[c] /\ ret'[c] = ret[c]
  <2>1. ASSUME NEW t \in Producers, ClientStep(t) PROVE at'[c] = at[c] /\ ret'[c] = ret[c]
    <3>1. UNCHANGED ret /\ (at' = at \/ \E to : at' = [at EXCEPT ![t] = to])
      BY <2>1 DEF ClientStep, SubmitCall, SubmitRuns, SubmitDone, PollReady, PollCopy,
         PollNotReady, Move
    <3> QED
      BY <3>1, <1>0, <1>1 DEF PlaceTypes
  <2>2. ASSUME NEW e \in Consumers, ServerStep(e), e # c PROVE at'[c] = at[c] /\ ret'[c] = ret[c]
    <3>1. /\ at' = at \/ \E to : at' = [at EXCEPT ![e] = to]
          /\ ret' = ret \/ \E x : ret' = [ret EXCEPT ![e] = x]
      BY <2>2 DEF ServerStep, GetCall, GetRuns, Apply, Reply, SetReady, Move
    <3> QED
      BY <3>1, <2>2, <1>0, <1>1 DEF PlaceTypes
  <2>3. CASE GetRuns(c)
    BY <2>3 DEF GetRuns
  <2>4. CASE UNCHANGED sysVars
    BY <2>4 DEF sysVars
  <2> QED
    BY <1>4, <2>1, <2>2, <2>3, <2>4 DEF SysNext, ServerStep
<1>5. ~SetReady(c) /\ ~GetCall(c)
  BY <1>0, <1>1 DEF SetReady, GetCall, BeginGet, Goto, Move, PlaceTypes, Serving
<1>6. CASE Serving(c)
  BY <1>2, <1>3, <1>4, <1>5, <1>6, ServingCases
<1>7. CASE ~Serving(c)
  <2>1. bd'[c] = bd[c] /\ pc[c] = "g_tail" /\ Queued(c_tail) /\ bd[c] = buffer[slot(c_tail)]
    BY <1>7, ServingCases
  <2>2. at[c] = "apply" /\ ~Apply(c) /\ ~Reply(c)
    BY <2>1, <1>0 DEF Calls, Apply, Reply, Move
  <2> QED
    BY <2>1, <2>2, <1>4, <1>5
<1> QED
  BY <1>6, <1>7

\* Two server threads at work have different requests.
LEMMA OwnRequest ==
  ASSUME SysInv, NEW c \in Consumers, NEW e \in Consumers, Serving(c), Serving(e),
         bd[c].res_off = bd[e].res_off
  PROVE  c = e
  BY DEF SysInv, PlacesInv, Working

\* Every step keeps what the server threads are about to answer.
LEMMA AnsweringStep == SysInv /\ [SysNext]_sysVars => Answering'
<1> SUFFICES ASSUME SysInv, [SysNext]_sysVars, NEW c \in Consumers, Serving(c)',
                    at'[c] \in {"reply", "ready"}
             PROVE  LET b == bd'[c]  t == b.res_off[1]  s == b.res_off[2] IN
                    /\ b.req_type = "GET" => ret'[c] = answer'[t][b.id]
                    /\ at'[c] = "ready" => /\ comps'[t][s].k = reqs'[t][b.id].k
                                           /\ reqs'[t][b.id].t = "GET" =>
                                                 comps'[t][s].v = answer'[t][b.id]
  BY DEF Answering, Matches
<1>0. SysTypes /\ Window /\ Working /\ Answering
  BY DEF SysInv, ClientInv, PlacesInv, AnswerInv
<1>1. /\ Serving(c) /\ bd'[c] = bd[c]
      /\ \/ Apply(c) /\ at'[c] = "reply"
         \/ Reply(c) /\ at'[c] = "ready"
         \/ ~Apply(c) /\ ~Reply(c) /\ at'[c] = at[c] /\ ret'[c] = ret[c]
  BY ServerMoves
<1>2. Live(bd[c])
  BY <1>0, <1>1 DEF Working
<1>3. PICK d : d = bd[c]
  OBVIOUS
<1>4. PICK t \in Producers : t = d.res_off[1]
  BY <1>0, <1>2, <1>3, LiveFacts
<1>5. PICK s \in Slots : s = d.res_off[2]
  BY <1>0, <1>2, <1>3, LiveFacts
<1>6. PICK id \in 1..num_reqs(t) : id = d.id
  BY <1>0, <1>2, <1>3, <1>4, LiveFacts
<1>7. /\ d.res_off = <<t, s>> /\ s = WSlot(win_size, id)
      /\ d.req_type = reqs[t][id].t /\ d.k = reqs[t][id].k
  BY <1>0, <1>2, <1>3, <1>4, <1>5, <1>6, LiveFacts
<1>8. SUFFICES /\ d.req_type = "GET" => ret'[c] = answer'[t][id]
               /\ at'[c] = "ready" => /\ comps'[t][s].k = reqs'[t][id].k
                                      /\ reqs'[t][id].t = "GET" => comps'[t][s].v = answer'[t][id]
  BY <1>1, <1>3, <1>4, <1>5, <1>6
<1>9. reqs'[t][id] = reqs[t][id]
  BY AnswerKept
<1>10. CASE Apply(c)
  <2>1. at'[c] # "ready"
    BY <1>10, <1>1 DEF Apply, Reply, Move
  <2>2. ASSUME d.req_type = "GET" PROVE ret'[c] = answer'[t][id]
    <3>1. PICK x : x = store[d.k]
      OBVIOUS
    <3>2. answer' = [answer EXCEPT ![t][id] = x] /\ ret' = [ret EXCEPT ![c] = x]
      BY <1>3, <1>4, <1>6, <1>10, <2>2, <3>1 DEF Apply
    <3>3. /\ answer \in [Producers -> Seq(Nat)] /\ ret \in [Consumers -> Nat]
          /\ answer[t] \in Seq(Nat) /\ Len(answer[t]) = num_reqs(t)
      BY <1>0 DEF SysTypes, AnswerTypes, StoreTypes
    <3>4. PICK f : f = [answer[t] EXCEPT ![id] = x]
      OBVIOUS
    <3>5. answer'[t] = f
      BY <3>2, <3>3, <3>4
    <3>6. f[id] = x
      BY <3>3, <3>4
    <3> QED
      BY <3>2, <3>3, <3>5, <3>6
  <2> QED
    BY <2>1, <2>2
<1>11. ASSUME ~Apply(c) PROVE answer'[t][id] = answer[t][id]
  <2>1. SUFFICES ASSUME NEW e \in Consumers, Apply(e), Serving(e), bd[e].res_off = <<t, s>>
                 PROVE  FALSE
    BY <1>7, AnswerKept
  <2>2. e = c
    BY <2>1, <1>1, <1>3, <1>7, OwnRequest
  <2> QED
    BY <2>1, <2>2, <1>11
<1>12. CASE Reply(c)
  <2>1. ~Apply(c) /\ at[c] = "reply" /\ ret' = ret
    BY <1>12 DEF Apply, Reply, Move
  <2>2. d.req_type = "GET" => ret[c] = answer[t][id]
    BY <2>1, <1>0, <1>1, <1>3, <1>4, <1>6 DEF Answering
  <2>3. PICK b \in Board : /\ comps' = [comps EXCEPT ![t][s] = b]
                           /\ b.k = d.k /\ (d.req_type = "GET" => b.v = ret[c])
    <3>1. comps[t][s] \in Board /\ d.k \in Keys /\ ret[c] \in Nat
      BY <1>0, <1>2, <1>3, LiveFacts DEF SysTypes, BoardTypes, StoreTypes
    <3>2. PICK b \in Board : b = [k |-> d.k, v |-> IF d.req_type = "GET" THEN ret[c] ELSE comps[t][s].v,
                                  ready |-> comps[t][s].ready]
      BY <3>1 DEF Board
    <3>3. comps' = [comps EXCEPT ![t][s] = b]
      BY <1>0, <1>2, <1>3, <1>4, <1>5, <1>12, <3>2, BoardSteps
    <3> QED
      BY <3>2, <3>3
  <2>4. comps'[t][s] = b
    BY <1>0, <2>3 DEF SysTypes, BoardTypes
  <2> QED
    BY <2>1, <2>2, <2>3, <2>4, <1>7, <1>9, <1>11
<1>13. CASE ~Apply(c) /\ ~Reply(c) /\ at'[c] = at[c] /\ ret'[c] = ret[c]
  <2>1. /\ d.req_type = "GET" => ret[c] = answer[t][id]
        /\ at[c] = "ready" => /\ comps[t][s].k = reqs[t][id].k
                              /\ reqs[t][id].t = "GET" => comps[t][s].v = answer[t][id]
    BY <1>0, <1>1, <1>3, <1>4, <1>5, <1>6, <1>13 DEF Answering, Matches
  <2>2. comps'[t][s].k = comps[t][s].k /\ comps'[t][s].v = comps[t][s].v
    <3>1. ASSUME NEW e \in Consumers, Reply(e), Serving(e), bd[e].res_off = <<t, s>>
          PROVE  FALSE
      <4>1. e = c
        BY <3>1, <1>1, <1>3, <1>7, OwnRequest
      <4> QED
        BY <3>1, <4>1, <1>13
    <3> QED
      BY <3>1, EntryKept
  <2> QED
    BY <2>1, <2>2, <1>9, <1>11, <1>13
<1> QED
  BY <1>1, <1>10, <1>12, <1>13

\* An answer that no server thread works on stays the answer.
LEMMA MatchKept ==
  ASSUME SysInv, [SysNext]_sysVars, NEW t \in Producers, NEW id \in 1..num_reqs(t),
         ~\E c \in Consumers : /\ Serving(c) /\ bd[c].id = id
                               /\ bd[c].res_off = <<t, WSlot(win_size, id)>>,
         NEW b, Matches(t, id, b)
  PROVE  Matches(t, id, b)'
<1>1. reqs'[t][id] = reqs[t][id] /\ answer'[t][id] = answer[t][id]
  BY AnswerKept
<1> QED
  BY <1>1 DEF Matches

\* No server thread works on a slot that is ready or being copied.
LEMMA TakenSlot ==
  ASSUME SysInv, NEW t \in Producers, NEW s \in Slots,
         comps[t][s].ready = 1 \/ (at[t] = "copy" /\ nxt_comp[t] = s),
         NEW c \in Consumers, Serving(c)
  PROVE  bd[c].res_off # <<t, s>>
<1>1. SUFFICES ASSUME bd[c].res_off = <<t, s>> PROVE FALSE
  OBVIOUS
<1>2. Free(bd[c])
  BY DEF SysInv, PlacesInv, Working
<1> QED
  BY <1>1, <1>2 DEF Free

\* The client's counters in a step.
LEMMA CountersStep ==
  ASSUME SysInv, [SysNext]_sysVars, NEW t \in Producers
  PROVE  /\ last_submitted[t] \in Nat /\ last_completed[t] \in Nat
         /\ last_submitted'[t] \in {last_submitted[t], last_submitted[t] + 1}
         /\ \/ PollCopy(t) /\ last_completed'[t] = last_completed[t] + 1
            \/ /\ ~PollCopy(t) /\ last_completed'[t] = last_completed[t]
               /\ nxt_comp'[t] = nxt_comp[t] /\ res'[t] = res[t]
<1>0. CountTypes /\ ResultTypes
  BY DEF SysInv, ClientInv, SysTypes
<1>1. last_submitted[t] \in Nat /\ last_completed[t] \in Nat
  BY <1>0 DEF CountTypes
<1>2. last_submitted'[t] \in {last_submitted[t], last_submitted[t] + 1}
  BY <1>0 DEF CountTypes, SysNext, ClientStep, ServerStep, SubmitCall, SubmitRuns, SubmitDone,
     PollReady, PollCopy, PollNotReady, GetCall, GetRuns, Apply, Reply, SetReady, clientVars, sysVars
<1>3. CASE PollCopy(t)
  BY <1>0, <1>3 DEF PollCopy, CountTypes
<1>4. CASE ~PollCopy(t)
  <2>1. ASSUME NEW u \in Producers, u # t, PollCopy(u)
        PROVE  /\ last_completed'[t] = last_completed[t]
               /\ nxt_comp'[t] = nxt_comp[t] /\ res'[t] = res[t]
    BY <1>0, <2>1 DEF PollCopy, CountTypes, ResultTypes
  <2>2. ASSUME UNCHANGED <<last_completed, nxt_comp, res>>
        PROVE  /\ last_completed'[t] = last_completed[t]
               /\ nxt_comp'[t] = nxt_comp[t] /\ res'[t] = res[t]
    BY <2>2
  <2>3. UNCHANGED <<last_completed, nxt_comp, res>> \/ \E u \in Producers : PollCopy(u)
    BY DEF SysNext, ClientStep, ServerStep, SubmitCall, SubmitRuns, SubmitDone,
       PollReady, PollNotReady, GetCall, GetRuns, Apply, Reply, SetReady, clientVars, sysVars
  <2>4. CASE \E u \in Producers : PollCopy(u)
    <3>1. PICK u \in Producers : PollCopy(u)
      BY <2>4
    <3>2. u # t
      BY <1>4, <3>1
    <3> QED
      BY <1>1, <1>2, <1>4, <2>1, <3>1, <3>2
  <2> QED
    BY <1>1, <1>2, <1>4, <2>2, <2>3, <2>4
<1> QED
  BY <1>1, <1>2, <1>3, <1>4

\* Every step keeps the answers on the board and the results.
LEMMA AnsweredStep == SysInv /\ [SysNext]_sysVars => Answered'
<1> SUFFICES ASSUME SysInv, [SysNext]_sysVars, NEW t \in Producers
             PROVE  /\ \A s \in Slots' : comps'[t][s].ready = 1 =>
                          \E id \in Nat : /\ last_completed'[t] < id /\ id <= last_submitted'[t]
                                          /\ s = WSlot(win_size', id)
                                          /\ Matches(t, id, comps[t][s])'
                    /\ at'[t] = "copy" =>
                          /\ last_completed'[t] < last_submitted'[t]
                          /\ comps'[t][nxt_comp'[t]].ready = 0
                          /\ Matches(t, last_completed[t] + 1, comps[t][nxt_comp[t]])'
                    /\ \A id \in 1..last_completed'[t] : Matches(t, id, res[t][id])'
  BY DEF Answered
<1>0. SysTypes /\ Window /\ PlaceTypes /\ Working /\ Answering /\ Answered
  BY DEF SysInv, ClientInv, SysTypes, PlacesInv, AnswerInv
<1>1. win_size' = win_size /\ Slots' = Slots /\ win_size \in Nat \ {0} /\ num_reqs(t) \in Nat
  BY <1>0, WorkloadFacts DEF SysNext, sysVars, Slots
<1>2. /\ last_submitted[t] \in Nat /\ last_completed[t] \in Nat
      /\ last_submitted'[t] \in {last_submitted[t], last_submitted[t] + 1}
      /\ \/ PollCopy(t) /\ last_completed'[t] = last_completed[t] + 1
         \/ /\ ~PollCopy(t) /\ last_completed'[t] = last_completed[t]
            /\ nxt_comp'[t] = nxt_comp[t] /\ res'[t] = res[t]
  BY CountersStep
<1>3. /\ last_submitted[t] <= num_reqs(t) /\ last_submitted[t] <= last_completed[t] + win_size
      /\ last_completed[t] <= last_submitted[t] /\ Len(res[t]) = last_completed[t]
      /\ nxt_comp[t] = WSlot(win_size, last_completed[t] + 1)
  BY <1>0 DEF Window
<1>4. PICK n \in Slots : n = nxt_comp[t]
  BY <1>0, NextSlot
\* an entry that is ready or being copied, and the request it answers
<1>5. ASSUME NEW s \in Slots, NEW id \in Nat, last_completed[t] < id, id <= last_submitted[t],
             s = WSlot(win_size, id), Matches(t, id, comps[t][s]),
             comps[t][s].ready = 1 \/ (at[t] = "copy" /\ nxt_comp[t] = s)
      PROVE  Matches(t, id, comps[t][s])'
  <2>1. id \in 1..num_reqs(t)
    BY <1>1, <1>2, <1>3, <1>5
  <2>2. \A c \in Consumers : Serving(c) => bd[c].res_off # <<t, s>>
    BY <1>5, TakenSlot
  <2>3. comps'[t][s].k = comps[t][s].k /\ comps'[t][s].v = comps[t][s].v
    BY <2>2, EntryKept
  <2>4. PICK b : b = comps'[t][s]
    OBVIOUS
  <2>5. Matches(t, id, b)
    BY <1>5, <2>3, <2>4 DEF Matches
  <2>6. Matches(t, id, b)'
    BY <1>5, <2>1, <2>2, <2>5, MatchKept
  <2> QED
    BY <2>4, <2>6 DEF Matches
<1>6. ASSUME NEW s \in Slots, comps'[t][s].ready = 1
      PROVE  \E id \in Nat : /\ last_completed'[t] < id /\ id <= last_submitted'[t]
                             /\ s = WSlot(win_size, id)
                             /\ Matches(t, id, comps[t][s])'
  <2>1. CASE comps[t][s].ready = 1
    <3>1. PICK id \in Nat : /\ last_completed[t] < id /\ id <= last_submitted[t]
                            /\ s = WSlot(win_size, id) /\ Matches(t, id, comps[t][s])
      BY <1>0, <2>1 DEF Answered
    <3>2. Matches(t, id, comps[t][s])'
      BY <2>1, <3>1, <1>5
    <3>3. PollCopy(t) => id # last_completed[t] + 1
      <4>1. PollCopy(t) => comps[t][nxt_comp[t]].ready = 0
        BY <1>0 DEF PollCopy, Move, Answered
      <4> QED
        BY <4>1, <2>1, <3>1, <1>3
    <3>4. last_completed'[t] < id /\ id <= last_submitted'[t]
      BY <3>1, <3>3, <1>2
    <3> QED
      BY <3>1, <3>2, <3>4
  <2>2. ASSUME NEW c \in Consumers, SetReady(c), Serving(c), bd[c].res_off = <<t, s>>
        PROVE  \E id \in Nat : /\ last_completed'[t] < id /\ id <= last_submitted'[t]
                               /\ s = WSlot(win_size, id)
                               /\ Matches(t, id, comps[t][s])'
    <3>1. Live(bd[c])
      BY <2>2, <1>0 DEF Working
    <3>2. t = bd[c].res_off[1] /\ s = bd[c].res_off[2]
      BY <2>2
    <3>3. PICK id \in 1..num_reqs(t) : id = bd[c].id
      BY <3>1, <3>2, <1>0, LiveFacts
    <3>4. /\ last_completed[t] < id /\ id <= last_submitted[t] /\ s = WSlot(win_size, id)
      BY <3>1, <3>2, <3>3, <1>0, LiveFacts
    <3>5. at[c] = "ready" /\ UNCHANGED <<last_completed, last_submitted, answer>>
      BY <2>2 DEF SetReady, Move, clientVars
    <3>6. Matches(t, id, comps[t][s])
      BY <2>2, <3>2, <3>3, <3>5, <1>0 DEF Answering
    <3>7. comps'[t][s].k = comps[t][s].k /\ comps'[t][s].v = comps[t][s].v
      <4>1. \A e \in Consumers : ~Reply(e)
        <5>1. at' = [at EXCEPT ![c] = "get"] /\ at[c] = "ready"
          BY <2>2 DEF SetReady, Move
        <5>2. ASSUME NEW e \in Consumers, Reply(e) PROVE FALSE
          <6>1. at' = [at EXCEPT ![e] = "ready"] /\ at[e] = "reply"
            BY <5>2 DEF Reply, Move
          <6> QED
            BY <5>1, <6>1, <1>0 DEF PlaceTypes, Threads
        <5> QED
          BY <5>2
      <4> QED
        BY <4>1, EntryKept
    <3>8. reqs' = reqs
      BY DEF SysNext, sysVars
    <3>9. Matches(t, id, comps[t][s])'
      BY <3>5, <3>6, <3>7, <3>8 DEF Matches
    <3> QED
      BY <3>4, <3>5, <3>9
  <2> QED
    BY <1>6, <2>1, <2>2, ReadyStep
<1>7. ASSUME at'[t] = "copy"
      PROVE  /\ last_completed'[t] < last_submitted'[t]
             /\ comps'[t][nxt_comp'[t]].ready = 0
             /\ Matches(t, last_completed[t] + 1, comps[t][nxt_comp[t]])'
  <2>1. ~PollCopy(t)
    BY <1>0, <1>7 DEF PollCopy, Move, PlaceTypes, Threads
  <2>2. last_completed'[t] = last_completed[t] /\ nxt_comp'[t] = n
    BY <2>1, <1>2, <1>4
  <2>3. PICK m \in Nat : m = last_completed[t] + 1 /\ m = last_completed'[t] + 1
    BY <2>2, <1>2
  <2>4. /\ last_completed[t] < last_submitted[t] /\ Matches(t, m, comps[t][n])
        /\ comps[t][n].ready = 1 \/ at[t] = "copy"
    <3>1. CASE at[t] = "copy"
      BY <3>1, <2>3, <1>0, <1>4 DEF Answered
    <3>2. CASE comps[t][n].ready = 1
      <4>1. PICK id \in Nat : /\ last_completed[t] < id /\ id <= last_submitted[t]
                              /\ n = WSlot(win_size, id) /\ Matches(t, id, comps[t][n])
        BY <3>2, <1>0 DEF Answered
      <4>2. /\ id <= last_completed[t] + win_size /\ last_completed[t] < m
            /\ m <= last_completed[t] + win_size /\ WSlot(win_size, m) = n
        BY <4>1, <2>3, <1>1, <1>2, <1>3, <1>4
      <4>3. id = m
        BY <4>1, <4>2, <1>0, SlotTellsId
      <4> QED
        BY <4>1, <4>3, <3>2, <1>2
    <3> QED
      BY <3>1, <3>2, <1>7, <2>2, ReadyStep
  <2>5. last_completed[t] < m /\ m <= last_submitted[t] /\ n = WSlot(win_size, m)
    BY <2>3, <2>4, <1>2, <1>3, <1>4
  <2>6. Matches(t, m, comps[t][n])'
    BY <2>4, <2>5, <1>4, <1>5
  <2>7. comps'[t][n].ready = 0
    <3>1. comps'[t][n] \in Board
      <4>1. SysTypes'
        BY TypesStep
      <4> QED
        BY <4>1, <1>1 DEF SysTypes, BoardTypes
    <3>2. comps'[t][n].ready # 1
      <4>1. CASE at[t] = "copy"
        <5>1. comps[t][n].ready # 1
          BY <4>1, <1>0, <1>4 DEF Answered
        <5>2. \A c \in Consumers : Serving(c) => bd[c].res_off # <<t, n>>
          BY <4>1, <1>4, TakenSlot
        <5> QED
          BY <5>1, <5>2, ReadyStep
      <4>2. CASE at[t] # "copy"
        <5>1. PollReady(t)
          <6>1. ASSUME NEW u \in Producers, ClientStep(u), ~PollReady(t) PROVE FALSE
            <7>1. \/ at' = at
                  \/ \E to \in {"submit", "poll", "done"} : at' = [at EXCEPT ![u] = to]
                  \/ u # t /\ at' = [at EXCEPT ![u] = "copy"]
              BY <6>1 DEF ClientStep, SubmitCall, SubmitRuns, SubmitDone, PollReady, PollCopy,
                 PollNotReady, AfterPoll, Move
            <7> QED
              BY <7>1, <1>0, <1>7, <4>2 DEF PlaceTypes, Threads
          <6>2. ASSUME NEW c \in Consumers, ServerStep(c) PROVE FALSE
            <7>1. c # t /\ (at' = at \/ \E to : at' = [at EXCEPT ![c] = to])
              BY <6>2, ThreadsAssumption DEF ServerStep, GetCall, GetRuns, Apply, Reply, SetReady, Move
            <7> QED
              BY <7>1, <1>0, <1>7, <4>2 DEF PlaceTypes, Threads
          <6> QED
            BY <6>1, <6>2, <1>7, <4>2 DEF SysNext, sysVars
        <5>2. comps[t][n] \in Board
          BY <1>0 DEF SysTypes, BoardTypes
        <5>3. PICK b \in Board : b = [k |-> comps[t][n].k, v |-> comps[t][n].v, ready |-> 0]
          BY <5>2 DEF Board
        <5>4. comps' = [comps EXCEPT ![t][n] = b]
          BY <5>1, <5>3, <1>0, <1>4, BoardSteps
        <5>5. comps'[t][n] = b
          BY <5>4, <1>0 DEF SysTypes, BoardTypes
        <5> QED
          BY <5>3, <5>5
      <4> QED
        BY <4>1, <4>2
    <3> QED
      BY <3>1, <3>2 DEF Board
  <2>8. last_completed'[t] < last_submitted'[t]
    BY <2>2, <2>4, <1>2
  <2>9. Matches(t, last_completed[t] + 1, comps[t][nxt_comp[t]])'
    BY <2>2, <2>3, <2>6 DEF Matches
  <2> QED
    BY <2>2, <2>7, <2>8, <2>9
<1>8. ASSUME NEW id \in 1..last_completed'[t] PROVE Matches(t, id, res[t][id])'
  <2>1. CASE id \in 1..last_completed[t]
    <3>1. id \in 1..num_reqs(t)
      BY <2>1, <1>1, <1>2, <1>3
    <3>2. \A c \in Consumers : Serving(c) =>
             ~(bd[c].id = id /\ bd[c].res_off = <<t, WSlot(win_size, id)>>)
      <4>1. ASSUME NEW c \in Consumers, Serving(c), bd[c].id = id,
                   bd[c].res_off = <<t, WSlot(win_size, id)>>
            PROVE  FALSE
        <5>1. Live(bd[c]) /\ bd[c].res_off[1] = t
          BY <4>1, <1>0 DEF Working
        <5>2. last_completed[t] < bd[c].id
          BY <5>1, <1>0, LiveFacts
        <5> QED
          BY <5>2, <4>1, <2>1, <1>2
      <4> QED
        BY <4>1
    <3>3. PICK b : b = res[t][id]
      OBVIOUS
    <3>4. Matches(t, id, b)
      BY <2>1, <3>3, <1>0 DEF Answered
    <3>5. Matches(t, id, b)'
      BY <3>1, <3>2, <3>4, MatchKept
    <3>6. res'[t][id] = b
      <4>1. res[t] \in Seq(Board) /\ res \in [Producers -> Seq(Board)]
        BY <1>0 DEF SysTypes, ResultTypes
      <4>2. PollCopy(t) => res'[t] = Append(res[t], comps[t][n])
        BY <4>1, <1>4 DEF PollCopy
      <4>3. id \in 1..Len(res[t])
        BY <2>1, <1>3
      <4>4. PICK e : e = comps[t][n]
        OBVIOUS
      <4>5. Append(res[t], e)[id] = res[t][id]
        BY <4>1, <4>3
      <4> QED
        BY <3>3, <4>2, <4>4, <4>5, <1>2
    <3> QED
      BY <3>5, <3>6 DEF Matches
  <2>2. CASE id \notin 1..last_completed[t]
    <3>1. PollCopy(t) /\ id = last_completed[t] + 1
      BY <2>2, <1>2
    <3>2. /\ at[t] = "copy" /\ UNCHANGED <<answer, reqs>>
          /\ res' = [res EXCEPT ![t] = Append(@, comps[t][n])]
      BY <3>1, <1>4 DEF PollCopy, Move, SysNext, sysVars
    <3>3. Matches(t, id, comps[t][n])
      BY <3>1, <3>2, <1>0, <1>4 DEF Answered
    <3>4. PICK e : e = comps[t][n]
      OBVIOUS
    <3>5. res[t] \in Seq(Board) /\ res'[t] = Append(res[t], e) /\ id = Len(res[t]) + 1
      BY <3>1, <3>2, <3>4, <1>0, <1>3 DEF SysTypes, ResultTypes
    <3>6. res'[t][id] = e
      BY <3>5
    <3> QED
      BY <3>2, <3>3, <3>4, <3>6 DEF Matches
  <2> QED
    BY <2>1, <2>2
<1> QED
  BY <1>1, <1>6, <1>7, <1>8

-----------------------------------------------------------------------------
(* The theorems *)

\* The counters are in order after a step, too.
LEMMA OrderFollowsNext ==
  ASSUME MaxInFlight <= RING_SIZE
  PROVE  IInv' => CounterOrder'
  BY OrderFollows, PTL

\* Every step keeps the invariant.
LEMMA SysStep ==
  ASSUME RingFits
  PROVE  SysInv /\ [SysNext]_sysVars => SysInv'
<1> SUFFICES ASSUME SysInv, [SysNext]_sysVars PROVE SysInv'
  OBVIOUS
<1>1. [Next]_vars
  BY KeepsPromise
<1>2. IInv'
  BY <1>1, TypeStep, OrderedStep, WindowedStep, SubmitPositionsStep, GetPositionsStep
  DEF SysInv, IInv
<1>3. CounterOrder'
  <2>1. MaxInFlight <= RING_SIZE
    BY DEF RingFits
  <2>2. IInv' => CounterOrder'
    BY <2>1, OrderFollowsNext
  <2> QED
    BY <1>2, <2>2
<1>4. Contents'
  BY <1>1, ContentsStep DEF SysInv
<1>5. ClientInv'
  BY TypesStep, CallsStep, WindowStep DEF ClientInv
<1>6. PlacesInv' /\ AnswerInv'
  BY QueueingStep, WorkingStep, AnsweringStep, AnsweredStep DEF PlacesInv, AnswerInv
<1>7. Counting'
  BY <1>5, CountingStep DEF ClientInv
<1> QED
  BY <1>2, <1>3, <1>4, <1>5, <1>6, <1>7 DEF SysInv

\* The inductive invariant of the whole program.
LEMMA SysInductive ==
  ASSUME RingFits
  PROVE  SysSpec => []SysInv
  BY SysInitInv, SysStep, PTL DEF SysSpec

\* client.c never has more requests in the ring than ring_submit can hold, with
\* any number of threads: its windows (last_submitted - last_completed < win_size)
\* make the clients and the servers together callers as the ring wants them.
THEOREM KvRingPromise ==
  ASSUME RingFits
  PROVE  SysSpec => RingPromise
<1>1. SysInit => Init
  BY DEF SysInit
<1>2. SysInv /\ [SysNext]_sysVars => [Next]_vars
  BY KeepsPromise
<1> QED
  BY <1>1, <1>2, SysInductive, PTL DEF SysSpec, RingPromise, Spec

\* So the queue between the two programs is a first-in first-out queue: none of the
\* requests that cross it is lost, duplicated or overtaken.
THEOREM KvQueueIsFifo ==
  ASSUME RingFits
  PROVE  SysSpec => IsFifoQueue
<1>1. MaxInFlight <= RING_SIZE
  BY DEF RingFits
<1>2. Spec => IsFifoQueue
  BY <1>1, RingIsFifoQueue
<1> QED
  BY <1>2, KvRingPromise, PTL DEF RingPromise

\* Windows and board stay within bounds, and a server thread (kv_store.c:thread_func)
\* has the slot of the board it answers into to itself, however the server threads
\* overtake each other.
THEOREM KvBoardSafe ==
  ASSUME RingFits
  PROVE  SysSpec => []BoardSafe
<1>1. SysInv => BoardSafe
  <2> SUFFICES ASSUME SysInv PROVE BoardSafe
    OBVIOUS
  <2>0. SysTypes /\ Window /\ Working /\ PlaceTypes
    BY DEF SysInv, ClientInv, PlacesInv, SysTypes
  <2>1. SysTypeOK
    <3>1. at \in [Threads -> {"submit", "poll", "copy", "done", "get", "apply", "reply", "ready"}]
      BY <2>0 DEF PlaceTypes, ClientPlaces, ServerPlaces
    <3>2. ASSUME NEW t \in Producers
          PROVE  /\ last_submitted[t] \in 0..num_reqs(t)
                 /\ last_completed[t] \in 0..last_submitted[t]
                 /\ nxt_comp[t] \in Slots
      <4>1. num_reqs(t) \in Nat /\ last_submitted[t] \in Nat /\ last_completed[t] \in Nat
        BY <2>0, WorkloadFacts DEF SysTypes, CountTypes
      <4> QED
        BY <4>1, <2>0, NextSlot DEF Window
    <3> QED
      BY <3>1, <3>2, <2>0 DEF SysTypeOK, SysTypes, StoreTypes
  <2>2. SlotOwned
    BY <2>0 DEF SlotOwned, Working, Serving, Free
  <2> QED
    BY <2>1, <2>2 DEF BoardSafe
<1> QED
  BY <1>1, SysInductive, PTL

\* Every result a client stores is the answer to the request it is stored for.
LEMMA KvResultsMatch == SysInv => ResultsMatch
<1> SUFFICES ASSUME SysInv PROVE ResultsMatch
  OBVIOUS
<1>1. Window /\ Answered
  BY DEF SysInv, ClientInv, AnswerInv
<1> QED
  BY <1>1 DEF Window, Answered, Matches, ResultsMatch

-----------------------------------------------------------------------------
(* With a window of one the client sees its workload in order *)

\* x is the value of key k after the first n requests of thread t.
Puts(t, n, k) == {j \in 1..n : reqs[t][j].t = "PUT" /\ reqs[t][j].k = k}

LastPut(t, n, k, x) ==
    IF Puts(t, n, k) = {} THEN x = 0
    ELSE \E j \in Puts(t, n, k) : (\A l \in Puts(t, n, k) : l <= j) /\ x = reqs[t][j].v

\* e[t] is the number of requests of thread t that the server has executed: all the
\* completed ones, and the one in flight from its Apply on.
Executed(e) ==
    \A t \in Producers :
        /\ last_completed[t] <= e[t] /\ e[t] <= last_submitted[t]
        /\ \A s \in Slots : comps[t][s].ready = 1 => e[t] = last_completed[t] + 1
        /\ at[t] = "copy" => e[t] = last_completed[t] + 1
        /\ \A c \in Consumers : (Serving(c) /\ bd[c].res_off[1] = t) =>
              e[t] = IF at[c] = "apply" THEN last_completed[t] ELSE last_completed[t] + 1
        /\ \A j \in Nat : (Queued(j) /\ buffer[slot(j)].res_off[1] = t) =>
              e[t] = last_completed[t]

StoreIs(e) ==
    \A t \in Producers : \A i \in 1..num_reqs(t) :
        LastPut(t, e[t], reqs[t][i].k, store[reqs[t][i].k])

ReadsAre(e) ==
    \A t \in Producers : \A i \in 1..e[t] :
        reqs[t][i].t = "GET" => LastPut(t, i - 1, reqs[t][i].k, answer[t][i])

InOrder ==
    (win_size = 1 /\ OwnKeys) =>
        \E e \in [Producers -> Nat] : Executed(e) /\ StoreIs(e) /\ ReadsAre(e)

\* A request that does not write the key leaves its last put; one that does is it.
LEMMA LastPutNext ==
  ASSUME NEW t \in Producers, NEW n \in Nat, NEW k, NEW x
  PROVE  /\ (LastPut(t, n, k, x) /\ ~(reqs[t][n + 1].t = "PUT" /\ reqs[t][n + 1].k = k))
               => LastPut(t, n + 1, k, x)
         /\ (reqs[t][n + 1].t = "PUT" /\ reqs[t][n + 1].k = k /\ x = reqs[t][n + 1].v)
               => LastPut(t, n + 1, k, x)
<1>1. ASSUME ~(reqs[t][n + 1].t = "PUT" /\ reqs[t][n + 1].k = k)
      PROVE  Puts(t, n + 1, k) = Puts(t, n, k)
  BY <1>1 DEF Puts
<1>2. ASSUME reqs[t][n + 1].t = "PUT", reqs[t][n + 1].k = k
      PROVE  n + 1 \in Puts(t, n + 1, k) /\ \A l \in Puts(t, n + 1, k) : l <= n + 1
  BY <1>2 DEF Puts
<1> QED
  BY <1>1, <1>2 DEF LastPut

\* In the initial state nothing is executed.
LEMMA InOrderInit == SysInit => InOrder
<1> SUFFICES ASSUME SysInit, win_size = 1
             PROVE  \E e \in [Producers -> Nat] : Executed(e) /\ StoreIs(e) /\ ReadsAre(e)
  BY DEF InOrder
<1>0. SysTypes
  BY SysInitInv DEF SysInv, ClientInv
<1> DEFINE z == [t \in Producers |-> 0]
<1>1. z \in [Producers -> Nat] /\ \A t \in Producers : z[t] = 0
  OBVIOUS
<1> HIDE DEF z
<1>2. Executed(z)
  <2>1. \A t \in Producers : last_completed[t] = 0 /\ last_submitted[t] = 0 /\ at[t] = "submit"
    BY DEF SysInit, Threads
  <2>2. \A t \in Producers, s \in Slots : comps[t][s].ready = 0
    BY DEF SysInit
  <2>3. \A c \in Consumers : ~Serving(c)
    BY ThreadsAssumption DEF SysInit, Serving, Threads
  <2>4. \A j \in Nat : ~Queued(j)
    BY DEF SysInit, Init, Queued
  <2> QED
    BY <1>1, <2>1, <2>2, <2>3, <2>4 DEF Executed
<1>3. StoreIs(z)
  <2> SUFFICES ASSUME NEW t \in Producers, NEW i \in 1..num_reqs(t)
               PROVE  LastPut(t, 0, reqs[t][i].k, store[reqs[t][i].k])
    BY <1>1 DEF StoreIs
  <2>1. store[reqs[t][i].k] = 0
    BY <1>0, WorkloadFacts DEF SysInit
  <2> QED
    BY <2>1 DEF LastPut, Puts
<1>4. ReadsAre(z)
  BY <1>1 DEF ReadsAre
<1> QED
  BY <1>1, <1>2, <1>3, <1>4

\* With a window of one, the live requests of a thread are one.
LEMMA OneInFlight ==
  ASSUME SysTypes, Window, win_size = 1, NEW d, Live(d)
  PROVE  /\ d.res_off = <<d.res_off[1], 0>>
         /\ d.id = last_completed[d.res_off[1]] + 1
         /\ last_submitted[d.res_off[1]] = last_completed[d.res_off[1]] + 1
<1>1. PICK t \in Producers : t = d.res_off[1]
  BY LiveFacts
<1>2. /\ last_completed[t] \in Nat /\ last_submitted[t] \in Nat
      /\ last_submitted[t] <= last_completed[t] + 1
  BY DEF SysTypes, CountTypes, Window
<1>3. /\ d.id \in Nat \ {0} /\ last_completed[t] < d.id /\ d.id <= last_submitted[t]
      /\ d.res_off = <<t, WSlot(1, d.id)>>
  BY <1>1, LiveFacts
<1>4. WSlot(1, d.id) = 0
  <2>1. 1 \in Nat \ {0}
    OBVIOUS
  <2>2. \A id \in Nat \ {0} : WSlot(1, id) \in 0..(1 - 1)
    BY <2>1, WSlotFacts
  <2> QED
    BY <2>2, <1>3
<1> QED
  BY <1>1, <1>2, <1>3, <1>4

\* Only one server thread executes a request in a step.
LEMMA OneApplies ==
  ASSUME SysInv, NEW c \in Consumers, NEW e \in Consumers, Apply(c), Apply(e)
  PROVE  c = e
<1>1. at \in [Threads -> ClientPlaces \cup ServerPlaces]
  BY DEF SysInv, ClientInv, SysTypes, PlaceTypes
<1>2. /\ at[c] = "apply" /\ at' = [at EXCEPT ![c] = "reply"]
      /\ at[e] = "apply" /\ at' = [at EXCEPT ![e] = "reply"]
  BY DEF Apply, Move
<1> QED
  BY <1>1, <1>2 DEF Threads

\* The number of executed requests goes up with the Apply of the thread's request.
LEMMA ExecutedStep ==
  ASSUME SysInv, [SysNext]_sysVars, Working', Queueing', Answered', win_size = 1,
         NEW e \in [Producers -> Nat], NEW f \in [Producers -> Nat], Executed(e),
         \A t \in Producers :
            f[t] = IF \E c \in Consumers : Apply(c) /\ bd[c].res_off[1] = t
                   THEN e[t] + 1 ELSE e[t]
  PROVE  Executed(f)'
<1>0. SysTypes /\ Window /\ PlaceTypes /\ Calls /\ Working /\ Queueing /\ c_tail \in Nat /\ p_tail \in Nat
  BY DEF SysInv, ClientInv, SysTypes, PlacesInv, IInv, TypeOK
<1>1. Slots' = Slots /\ win_size' = win_size /\ Slots = {0}
  BY DEF SysNext, sysVars, Slots
<1> SUFFICES ASSUME NEW t \in Producers
             PROVE  /\ last_completed'[t] <= f[t] /\ f[t] <= last_submitted'[t]
                    /\ comps'[t][0].ready = 1 => f[t] = last_completed'[t] + 1
                    /\ at'[t] = "copy" => f[t] = last_completed'[t] + 1
                    /\ \A c \in Consumers : (Serving(c)' /\ bd'[c].res_off[1] = t) =>
                          f[t] = IF at'[c] = "apply" THEN last_completed'[t]
                                 ELSE last_completed'[t] + 1
                    /\ \A j \in Nat : (Queued(j)' /\ buffer'[slot(j)].res_off[1] = t) =>
                          f[t] = last_completed'[t]
  BY <1>1 DEF Executed
<1>2. /\ last_submitted[t] \in Nat /\ last_completed[t] \in Nat
      /\ last_submitted'[t] \in {last_submitted[t], last_submitted[t] + 1}
      /\ \/ PollCopy(t) /\ last_completed'[t] = last_completed[t] + 1
         \/ /\ ~PollCopy(t) /\ last_completed'[t] = last_completed[t]
            /\ nxt_comp'[t] = nxt_comp[t] /\ res'[t] = res[t]
  BY CountersStep
<1>3. last_submitted[t] <= last_completed[t] + 1 /\ nxt_comp[t] = 0
  BY <1>0, <1>1, NextSlot DEF Window
<1>4. /\ last_completed[t] <= e[t] /\ e[t] <= last_submitted[t] /\ e[t] \in Nat
      /\ comps[t][0].ready = 1 => e[t] = last_completed[t] + 1
      /\ at[t] = "copy" => e[t] = last_completed[t] + 1
      /\ \A c \in Consumers : (Serving(c) /\ bd[c].res_off[1] = t) =>
            e[t] = IF at[c] = "apply" THEN last_completed[t] ELSE last_completed[t] + 1
      /\ \A j \in Nat : (Queued(j) /\ buffer[slot(j)].res_off[1] = t) =>
            e[t] = last_completed[t]
  BY <1>1 DEF Executed
<1>5. ASSUME NEW c \in Consumers, Serving(c) PROVE Live(bd[c])
  BY <1>0, <1>5 DEF Working
<1>6. ASSUME NEW j \in Nat, Queued(j) PROVE Live(buffer[slot(j)])
  BY <1>0, <1>6 DEF Queueing
\* nothing of the thread is live once its request is copied
<1>7. ASSUME PollCopy(t)
      PROVE  /\ last_submitted'[t] <= last_completed'[t] /\ at'[t] # "copy"
             /\ \A d : Live(d)' => d.res_off[1] # t
  <2>1. UNCHANGED last_submitted /\ at[t] = "copy" /\ at'[t] = "poll"
    BY <1>0, <1>7 DEF PollCopy, Move, PlaceTypes, Threads
  <2>2. last_submitted'[t] <= last_completed'[t]
        /\ last_submitted'[t] \in Nat /\ last_completed'[t] \in Nat
    BY <2>1, <1>2, <1>3, <1>7
  <2>3. ASSUME NEW d, Live(d)', d.res_off[1] = t PROVE FALSE
    <3>1. last_completed'[t] < d.id /\ d.id <= last_submitted'[t] /\ d.id \in Nat
      BY <2>3 DEF Live
    <3> QED
      BY <3>1, <2>2
  <2> QED
    BY <2>1, <2>2, <2>3
<1>8. CASE \E c \in Consumers : Apply(c) /\ bd[c].res_off[1] = t
  <2>1. PICK c \in Consumers : Apply(c) /\ bd[c].res_off[1] = t
    BY <1>8
  <2>2. /\ Serving(c) /\ at[c] = "apply" /\ at'[c] = "reply"
        /\ UNCHANGED <<vars, last_completed, last_submitted>>
    BY <2>1, <1>0 DEF Apply, Move, Serving, clientVars, PlaceTypes, Threads
  <2>3. f[t] = last_completed'[t] + 1
    BY <2>1, <2>2, <1>4
  <2>4. Live(bd[c])
    BY <2>2, <1>5
  <2>5. bd[c].res_off = <<t, 0>> /\ last_submitted[t] = last_completed[t] + 1
    BY <2>1, <2>4, <1>0, OneInFlight
  <2>6. ASSUME NEW b \in Consumers, Serving(b)', bd'[b].res_off[1] = t PROVE at'[b] # "apply"
    <3>1. Serving(b) /\ bd[b].res_off[1] = t
      <4>1. c_tail' # c_tail + 1
        BY <2>2, <1>0 DEF vars
      <4> QED
        BY <4>1, <2>6, ServingCases
    <3>2. bd[b].res_off = <<t, 0>>
      BY <3>1, <1>0, <1>5, OneInFlight
    <3>3. b = c
      BY <3>1, <3>2, <2>2, <2>5, OwnRequest
    <3> QED
      BY <3>3, <2>2
  <2>7. ASSUME NEW j \in Nat, Queued(j)', buffer'[slot(j)].res_off[1] = t PROVE FALSE
    <3>1. Queued(j) /\ buffer[slot(j)].res_off[1] = t
      BY <2>2, <2>7 DEF Queued, vars
    <3>2. buffer[slot(j)].res_off = <<t, 0>>
      BY <3>1, <1>0, <1>6, OneInFlight
    <3> QED
      BY <3>1, <3>2, <2>2, <2>5, <1>0 DEF Working
  <2> QED
    BY <2>2, <2>3, <2>5, <2>6, <2>7, <1>2
<1>9. CASE ~\E c \in Consumers : Apply(c) /\ bd[c].res_off[1] = t
  <2>0. f[t] = e[t]
    BY <1>9
  <2>1. last_completed'[t] <= f[t] /\ f[t] <= last_submitted'[t]
    <3>1. PollCopy(t) => e[t] = last_completed[t] + 1
      BY <1>4 DEF PollCopy, Move
    <3> QED
      BY <2>0, <3>1, <1>2, <1>4
  <2>2. ASSUME comps'[t][0].ready = 1 PROVE f[t] = last_completed'[t] + 1
    <3>1. ~PollCopy(t)
      <4>1. PICK id \in Nat : last_completed'[t] < id /\ id <= last_submitted'[t]
        BY <2>2, <1>1 DEF Answered
      <4> QED
        BY <4>1, <1>2, <1>7
    <3>2. CASE comps[t][0].ready = 1
      BY <3>1, <3>2, <2>0, <1>2, <1>4
    <3>3. ASSUME NEW c \in Consumers, SetReady(c), Serving(c), bd[c].res_off = <<t, 0>>
          PROVE  e[t] = last_completed[t] + 1
      BY <3>3, <1>4 DEF SetReady, Move
    <3> QED
      BY <3>1, <3>2, <3>3, <2>0, <2>2, <1>1, <1>2, ReadyStep
  <2>3. ASSUME at'[t] = "copy" PROVE f[t] = last_completed'[t] + 1
    <3>1. ~PollCopy(t) /\ nxt_comp'[t] = 0 /\ last_completed'[t] = last_completed[t]
      BY <2>3, <1>2, <1>3, <1>7
    <3>2. at[t] = "copy" \/ comps[t][0].ready = 1
      BY <3>1, <2>3, <1>1, ReadyStep
    <3> QED
      BY <3>1, <3>2, <2>0, <1>4
  <2>4. ASSUME NEW c \in Consumers, Serving(c)', bd'[c].res_off[1] = t
        PROVE  f[t] = IF at'[c] = "apply" THEN last_completed'[t] ELSE last_completed'[t] + 1
    <3>1. bd'[c] = bd[c]
      BY <2>4, ServerMoves
    <3>2. PICK d : d = bd[c] /\ d = bd'[c]
      BY <3>1
    <3>3. Live(d)' /\ d.res_off[1] = t
      BY <3>2, <2>4, Zenon DEF Working, Live
    <3>4. last_completed'[t] = last_completed[t]
      BY <3>3, <1>2, <1>7
    <3>5. CASE at'[c] = "apply" /\ Queued(c_tail) /\ bd[c] = buffer[slot(c_tail)]
      BY <3>2, <3>3, <3>4, <3>5, <2>0, <1>0, <1>4
    <3>6. CASE Serving(c) /\ Reply(c) /\ at'[c] = "ready"
      BY <3>2, <3>3, <3>4, <3>6, <2>0, <1>4 DEF Reply, Move
    <3>7. CASE Serving(c) /\ at'[c] = at[c]
      BY <3>2, <3>3, <3>4, <3>7, <2>0, <1>4
    <3>8. ~Apply(c)
      BY <3>2, <3>3, <1>9
    <3> QED
      BY <3>5, <3>6, <3>7, <3>8, <2>4, ServerMoves
  <2>5. ASSUME NEW j \in Nat, Queued(j)', buffer'[slot(j)].res_off[1] = t
        PROVE  f[t] = last_completed'[t]
    <3>1. PICK d : d = buffer'[slot(j)]
      OBVIOUS
    <3>2. Live(d)' /\ d.res_off[1] = t
      BY <3>1, <2>5, Zenon DEF Queueing, Live
    <3>3. last_completed'[t] = last_completed[t]
      BY <3>2, <1>2, <1>7
    <3>4. CASE Queued(j) /\ buffer[slot(j)] = d
      BY <3>2, <3>3, <3>4, <2>0, <1>4
    <3>5. ASSUME NEW u \in Producers, SubmitRuns(u), SubmitTail(u), ~(Queued(j) /\ buffer[slot(j)] = d)
          PROVE  f[t] = last_completed'[t]
      <4>1. /\ buffer[slot(p_tail)] = bd[u] /\ p_tail' = p_tail + 1 /\ UNCHANGED <<buffer, c_tail>>
        BY <3>5, NewRequest
      <4>2. j = p_tail
        BY <4>1, <3>1, <3>5, <2>5, <1>0 DEF Queued
      <4>3. d = bd[u]
        BY <4>1, <4>2, <3>1
      <4>4. MaySubmit(u) /\ bd[u] = Desc(u, last_submitted[u] + 1)
        BY <3>5, <1>0 DEF Calls, SubmitTail, Goto
      <4>5. u = t
        BY <4>3, <4>4, <3>2 DEF Desc
      <4>6. last_submitted[t] = last_completed[t]
        BY <4>4, <4>5, <1>0, <1>2 DEF MaySubmit, Window
      <4>7. last_completed[t] <= e[t] /\ e[t] <= last_submitted[t] /\ e[t] \in Nat
            /\ last_completed[t] \in Nat
        BY <1>2, <1>4
      <4>8. e[t] = last_completed[t]
        BY <4>6, <4>7
      <4> QED
        BY <4>8, <3>3, <2>0
    <3>6. ASSUME ~\E u \in Producers : SubmitRuns(u) /\ SubmitTail(u)
          PROVE  Queued(j) /\ buffer[slot(j)] = d
      BY <3>1, <3>6, <2>5, QueueKept
    <3> QED
      BY <3>4, <3>5, <3>6
  <2> QED
    BY <2>1, <2>2, <2>3, <2>4, <2>5
<1> QED
  BY <1>8, <1>9

\* What a get read stays recorded in every step that does not execute it.
LEMMA ReadKept ==
  ASSUME SysInv, [SysNext]_sysVars, NEW t \in Producers, NEW j \in 1..num_reqs(t),
         \A c \in Consumers : ~(Apply(c) /\ bd[c].id = j /\ bd[c].res_off[1] = t)
  PROVE  answer'[t][j] = answer[t][j]
<1>1. \A c \in Consumers :
         ~(Apply(c) /\ bd[c].id = j /\ bd[c].res_off = <<t, WSlot(win_size, j)>>)
  OBVIOUS
<1> QED
  BY <1>1, AnswerKept

\* The store and the reads follow the requests that are executed.
LEMMA ReadsStep ==
  ASSUME SysInv, [SysNext]_sysVars, Answering', win_size = 1, OwnKeys,
         NEW e \in [Producers -> Nat], NEW f \in [Producers -> Nat], Executed(e),
         \A t \in Producers :
            f[t] = IF \E c \in Consumers : Apply(c) /\ bd[c].res_off[1] = t
                   THEN e[t] + 1 ELSE e[t],
         StoreIs(e), ReadsAre(e)
  PROVE  StoreIs(f)' /\ ReadsAre(f)'
<1>0. /\ SysTypes /\ Window /\ Working
      /\ store \in [Keys -> Nat] /\ ret \in [Consumers -> Nat]
  BY DEF SysInv, ClientInv, PlacesInv, SysTypes, StoreTypes
<1>1. reqs' = reqs /\ \A t \in Producers : num_reqs(t)' = num_reqs(t) /\ num_reqs(t) \in Nat
  BY <1>0, WorkloadFacts DEF SysNext, sysVars, num_reqs
<1>2. \A t, n, k, x : LastPut(t, n, k, x)' <=> LastPut(t, n, k, x)
  BY <1>1 DEF LastPut, Puts
<1>3. ASSUME NEW c \in Consumers, Apply(c)
      PROVE  /\ Serving(c) /\ Live(bd[c]) /\ bd[c].res_off[1] \in Producers
             /\ bd[c].id = e[bd[c].res_off[1]] + 1
             /\ bd[c].id \in 1..num_reqs(bd[c].res_off[1])
  <2>1. Serving(c) /\ at[c] = "apply"
    BY <1>3 DEF Apply, Move, Serving
  <2>2. Live(bd[c])
    BY <2>1, <1>0 DEF Working
  <2>3. PICK u \in Producers : u = bd[c].res_off[1]
    BY <2>2, <1>0, LiveFacts
  <2>4. bd[c].id = last_completed[u] + 1 /\ bd[c].id \in 1..num_reqs(u)
    BY <2>2, <2>3, <1>0, OneInFlight, LiveFacts
  <2>5. e[u] = last_completed[u]
    BY <2>1, <2>3 DEF Executed
  <2> QED
    BY <2>1, <2>2, <2>3, <2>4, <2>5
<1>4. ASSUME NEW t \in Producers, NEW i \in 1..num_reqs(t)
      PROVE  LastPut(t, f[t], reqs[t][i].k, store'[reqs[t][i].k])
  <2>1. PICK k \in Keys : k = reqs[t][i].k
    BY <1>0, WorkloadFacts
  <2>2. LastPut(t, e[t], k, store[k]) /\ e[t] \in Nat
    BY <2>1 DEF StoreIs
  <2>3. SUFFICES LastPut(t, f[t], k, store'[k])
    BY <2>1
  <2>4. CASE ~\E c \in Consumers : Apply(c)
    <3>1. UNCHANGED store
      BY <2>4 DEF SysNext, ClientStep, ServerStep, SubmitCall, SubmitRuns, SubmitDone, PollReady,
         PollCopy, PollNotReady, GetCall, GetRuns, Reply, SetReady, sysVars
    <3> QED
      BY <3>1, <2>2, <2>4
  <2>5. ASSUME NEW c \in Consumers, Apply(c) PROVE LastPut(t, f[t], k, store'[k])
    <3>1. PICK u \in Producers : u = bd[c].res_off[1]
      BY <2>5, <1>3
    <3>2. PICK n \in Nat : n = e[u] /\ n + 1 = bd[c].id /\ n + 1 \in 1..num_reqs(u)
      BY <2>5, <3>1, <1>3
    <3>3. /\ bd[c].req_type = reqs[u][n + 1].t /\ bd[c].k = reqs[u][n + 1].k
          /\ bd[c].v = reqs[u][n + 1].v /\ bd[c].k \in Keys /\ bd[c].req_type \in {"PUT", "GET"}
      BY <2>5, <3>1, <3>2, <1>0, <1>3, LiveFacts
    <3>4. IF bd[c].req_type = "PUT" THEN store' = [store EXCEPT ![bd[c].k] = bd[c].v]
          ELSE store' = store
      BY <2>5 DEF Apply
    <3>5. CASE u = t
      <4>1. f[t] = n + 1
        BY <2>5, <3>1, <3>2, <3>5
      <4>2. CASE reqs[t][n + 1].t = "PUT" /\ reqs[t][n + 1].k = k
        <5>1. store'[k] = reqs[t][n + 1].v
          BY <4>2, <3>3, <3>4, <3>5, <1>0
        <5> QED
          BY <4>1, <4>2, <5>1, LastPutNext
      <4>3. CASE ~(reqs[t][n + 1].t = "PUT" /\ reqs[t][n + 1].k = k)
        <5>1. store'[k] = store[k]
          BY <4>3, <3>3, <3>4, <3>5, <1>0
        <5>2. LastPut(t, n, k, store[k])
          BY <2>2, <3>2, <3>5
        <5>3. PICK x : x = store[k]
          OBVIOUS
        <5>4. LastPut(t, n + 1, k, x)
          BY <4>3, <5>2, <5>3, LastPutNext
        <5> QED
          BY <4>1, <5>1, <5>3, <5>4
      <4> QED
        BY <4>1, <4>2, <4>3
    <3>6. CASE u # t
      <4>1. f[t] = e[t]
        <5>1. ~\E b \in Consumers : Apply(b) /\ bd[b].res_off[1] = t
          BY <2>5, <3>1, <3>6, OneApplies
        <5> QED
          BY <5>1
      <4>2. bd[c].req_type = "PUT" => bd[c].k # k
        <5>1. \A a \in 1..num_reqs(u), b \in 1..num_reqs(t) :
                 reqs[u][a].t = "PUT" => reqs[u][a].k # reqs[t][b].k
          BY <3>6 DEF OwnKeys
        <5>2. PICK m \in 1..num_reqs(u) : m = n + 1
          BY <3>2
        <5>3. reqs[u][m].t = bd[c].req_type /\ reqs[u][m].k = bd[c].k
          BY <5>2, <3>3
        <5>4. reqs[u][m].t = "PUT" => reqs[u][m].k # reqs[t][i].k
          BY <5>1
        <5> QED
          BY <5>3, <5>4, <2>1
      <4>3. store'[k] = store[k]
        BY <4>2, <3>3, <3>4, <1>0
      <4> QED
        BY <4>1, <4>3, <2>2
    <3> QED
      BY <3>5, <3>6
  <2> QED
    BY <2>4, <2>5
<1>5. ASSUME NEW t \in Producers, NEW i \in 1..f[t], reqs[t][i].t = "GET"
      PROVE  LastPut(t, i - 1, reqs[t][i].k, answer'[t][i])
  <2>0. e[t] \in Nat /\ f[t] \in Nat /\ e[t] <= num_reqs(t)
    <3>1. e[t] <= last_submitted[t] /\ last_submitted[t] <= num_reqs(t) /\ last_submitted[t] \in Nat
      BY <1>0 DEF Executed, Window, SysTypes, CountTypes
    <3> QED
      BY <3>1, <1>1
  <2>1. CASE i \in 1..e[t]
    <3>1. answer'[t][i] = answer[t][i]
      <4>1. PICK j \in 1..num_reqs(t) : j = i
        BY <2>0, <2>1, <1>1
      <4>2. ASSUME NEW c \in Consumers, Apply(c), bd[c].id = j, bd[c].res_off[1] = t PROVE FALSE
        <5>1. j = e[t] + 1
          BY <4>2, <1>3
        <5> QED
          BY <5>1, <4>1, <2>0, <2>1
      <4>3. answer'[t][j] = answer[t][j]
        BY <4>2, ReadKept
      <4> QED
        BY <4>1, <4>3
    <3> QED
      BY <3>1, <2>1, <1>5 DEF ReadsAre
  <2>2. CASE i \notin 1..e[t]
    <3>1. PICK c \in Consumers : Apply(c) /\ bd[c].res_off[1] = t
      BY <2>0, <2>2
    <3>2. i = e[t] + 1 /\ i \in Nat
      BY <2>0, <2>2, <3>1
    <3>3. bd[c].id = i /\ i \in 1..num_reqs(t) /\ Live(bd[c])
      BY <3>1, <3>2, <1>3
    <3>4. bd[c].k = reqs[t][i].k /\ bd[c].req_type = "GET"
      BY <3>1, <3>3, <1>0, <1>5, LiveFacts
    <3>5. /\ ret' = [ret EXCEPT ![c] = store[bd[c].k]] /\ UNCHANGED <<bd, pc>> /\ pc[c] = "idle"
          /\ at' = [at EXCEPT ![c] = "reply"]
      BY <3>1, <3>4 DEF Apply, Move, vars
    <3>6. at'[c] = "reply" /\ Serving(c)'
      BY <3>5, <1>0 DEF SysTypes, PlaceTypes, Threads, Serving
    <3>7. ret'[c] = answer'[t][i]
      BY <3>1, <3>3, <3>4, <3>5, <3>6 DEF Answering
    <3>8. answer'[t][i] = store[reqs[t][i].k]
      BY <3>4, <3>5, <3>7, <1>0
    <3>9. LastPut(t, e[t], reqs[t][i].k, store[reqs[t][i].k])
      BY <3>3 DEF StoreIs
    <3>10. i - 1 = e[t]
      BY <3>2, <2>0
    <3> QED
      BY <3>8, <3>9, <3>10
  <2> QED
    BY <2>1, <2>2
<1>6. StoreIs(f)'
  BY <1>1, <1>2, <1>4 DEF StoreIs
<1>7. ReadsAre(f)'
  BY <1>1, <1>2, <1>5 DEF ReadsAre
<1> QED
  BY <1>6, <1>7

\* Every step keeps the order.
LEMMA InOrderStep ==
  ASSUME SysInv, [SysNext]_sysVars, InOrder, SysInv'
  PROVE  InOrder'
<1>1. win_size' = win_size /\ reqs' = reqs
  BY DEF SysNext, sysVars
<1>2. OwnKeys' <=> OwnKeys
  BY <1>1 DEF OwnKeys, num_reqs
<1> SUFFICES ASSUME win_size = 1, OwnKeys
             PROVE  \E f \in [Producers -> Nat] : Executed(f)' /\ StoreIs(f)' /\ ReadsAre(f)'
  BY <1>1, <1>2 DEF InOrder
<1>3. PICK e \in [Producers -> Nat] : Executed(e) /\ StoreIs(e) /\ ReadsAre(e)
  BY DEF InOrder
<1>4. PICK f : f = [t \in Producers |->
                      IF \E c \in Consumers : Apply(c) /\ bd[c].res_off[1] = t
                      THEN e[t] + 1 ELSE e[t]]
  OBVIOUS
<1>5. f \in [Producers -> Nat]
  BY <1>4
<1>6. \A t \in Producers :
         f[t] = IF \E c \in Consumers : Apply(c) /\ bd[c].res_off[1] = t
                THEN e[t] + 1 ELSE e[t]
  BY <1>4
<1>7. Working' /\ Queueing' /\ Answered' /\ Answering'
  BY DEF SysInv, PlacesInv, AnswerInv
<1>8. Executed(f)'
  BY <1>3, <1>5, <1>6, <1>7, ExecutedStep
<1>9. StoreIs(f)' /\ ReadsAre(f)'
  BY <1>3, <1>5, <1>6, <1>7, ReadsStep
<1> QED
  BY <1>5, <1>8, <1>9

\* Each answer of the board reaches the request it belongs to, although the server
\* threads overtake each other and slots are reused; and, as usage() of client.c
\* says of its check option, with a window of one and keys that no other client
\* thread writes every get sees the last put before it in the workload.
THEOREM KvAnswersCorrect ==
  ASSUME RingFits
  PROVE  SysSpec => []AnswersCorrect
<1>1. SysInv /\ InOrder => AnswersCorrect
  <2> SUFFICES ASSUME SysInv, InOrder PROVE AnswersCorrect
    OBVIOUS
  <2>1. ResultsMatch
    BY KvResultsMatch
  <2>2. ASSUME win_size = 1, OwnKeys, NEW t \in Producers, NEW i \in 1..Len(res[t]),
               reqs[t][i].t = "GET"
        PROVE  LastPut(t, i - 1, reqs[t][i].k, res[t][i].v)
    <3>1. PICK e \in [Producers -> Nat] : Executed(e) /\ ReadsAre(e)
      BY <2>2 DEF InOrder
    <3>2. /\ Len(res[t]) = last_completed[t] /\ last_completed[t] <= e[t]
          /\ e[t] \in Nat /\ last_completed[t] \in Nat
      BY <3>1 DEF Executed, SysInv, ClientInv, Window, SysTypes, CountTypes
    <3>3. i \in 1..e[t]
      BY <3>2
    <3>4. LastPut(t, i - 1, reqs[t][i].k, answer[t][i])
      BY <3>1, <3>3, <2>2 DEF ReadsAre
    <3>5. res[t][i].v = answer[t][i]
      BY <2>1, <2>2 DEF ResultsMatch
    <3> QED
      BY <3>4, <3>5
  <2>3. Synchronous
    BY <2>2 DEF Synchronous, LastPut, Puts
  <2> QED
    BY <2>1, <2>3 DEF AnswersCorrect
<1>2. SysSpec => []InOrder
  <2>1. SysInv /\ SysInv' /\ [SysNext]_sysVars /\ InOrder => InOrder'
    BY InOrderStep
  <2> QED
    BY <2>1, InOrderInit, SysInductive, PTL DEF SysSpec
<1> QED
  BY <1>1, <1>2, SysInductive, PTL
=============================================================================
