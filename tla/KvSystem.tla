------------------------------ MODULE KvSystem ------------------------------
(***************************************************************************)
(* The whole of cs537/P6: client threads (client.c) submit requests over   *)
(* the ring, server threads (thread_func of kv_store.c) execute them and   *)
(* write the answer on the request-status board in shared memory, client   *)
(* threads poll the board in submission order.                             *)
(*                                                                         *)
(* The ring's steps are those of ShmRing.  The store is an atomic map      *)
(* here; KvHash checks that the real one behaves like it.  The promise     *)
(* ShmRing asks of its callers (MaxInFlight) is not assumed: RingPromise   *)
(* checks that the client's window keeps it.                               *)
(*                                                                         *)
(* A request's res_off is the pair (client thread, slot of its window).    *)
(***************************************************************************)
EXTENDS ShmRing

CONSTANTS Keys,
          Workloads  \* [win_size, reqs]: how the client may be called

\* a line of the workload file
Request == [t : {"PUT", "GET"}, k : Keys, v : Nat]

ASSUME WindowAssumption ==
    \A w \in Workloads :
        w.win_size \in Nat \ {0} /\ w.reqs \in [Producers -> Seq(Request)]

VARIABLES win_size,       \* option -w of the client
          reqs,           \* client thread -> the sequence of its requests
          at,             \* where each thread is outside the ring
          last_submitted, last_completed, nxt_comp, \* client thread locals
          comps,          \* the status board: client -> slot -> [k, v, ready]
          res,            \* client -> results copied so far
          store,          \* the key-value store
          ret,            \* server thread local: the value its get returned
          answer          \* history: client -> what each get read

clientVars == <<last_submitted, last_completed, nxt_comp, res>>
sysVars == <<p_head, p_tail, c_head, c_tail, buffer, pc, head, bd, win_size, reqs, at,
             last_submitted, last_completed, nxt_comp, comps, res, store,
             ret, answer>>

num_reqs(t) == Len(reqs[t])
Slots == 0..(win_size - 1)

SysInit ==
    /\ Init
    /\ \E w \in Workloads : win_size = w.win_size /\ reqs = w.reqs
    /\ at = [t \in Threads |-> IF t \in Producers THEN "submit" ELSE "get"]
    /\ last_submitted = [t \in Producers |-> 0]
    /\ last_completed = [t \in Producers |-> 0]
    /\ nxt_comp = [t \in Producers |-> 0]
    /\ comps = [t \in Producers |-> [s \in Slots |-> [k |-> 0, v |-> 0, ready |-> 0]]]
    /\ res = [t \in Producers |-> <<>>]
    /\ store = [k \in Keys |-> 0]
    /\ ret = [c \in Consumers |-> 0]
    /\ answer = [t \in Producers |-> [i \in 1..num_reqs(t) |-> 0]]

Move(t, from, to) ==
    /\ pc[t] = "idle" /\ at[t] = from
    /\ at' = [at EXCEPT ![t] = to]

-----------------------------------------------------------------------------
(* client.c *)

\* Variant: no window at all.
MaySubmitAll(t) == last_submitted[t] < num_reqs(t)

\* one turn of the loop in submit_reqs, up to the call of ring_submit
MaySubmit(t) ==
    /\ last_submitted[t] - last_completed[t] < win_size
    /\ last_submitted[t] < num_reqs(t)

descriptor(t) ==
    LET r == reqs[t][last_submitted[t] + 1] IN
    [req_type |-> r.t, k |-> r.k, v |-> r.v, id |-> last_submitted[t] + 1,
     res_off |-> <<t, last_submitted[t] % win_size>>]

SubmitCall(t) ==
    /\ Move(t, "submit", "submit")
    /\ MaySubmit(t)
    /\ BeginSubmit(t, descriptor(t))
    /\ UNCHANGED <<clientVars, comps, store, ret, answer>>

\* ring_submit runs; its last step returns to the loop
SubmitRuns(t) ==
    /\ SubmitStep(t)
    /\ last_submitted' = IF pc'[t] = "idle"
                         THEN [last_submitted EXCEPT ![t] = @ + 1]
                         ELSE last_submitted
    /\ UNCHANGED <<at, last_completed, nxt_comp, comps, res, store, ret, answer>>

SubmitDone(t) ==
    /\ Move(t, "submit", "poll")
    /\ ~MaySubmit(t)
    /\ UNCHANGED <<vars, clientVars, comps, store, ret, answer>>

\* process_completions: the next expected slot is ready; reset the flag...
PollReady(t) ==
    /\ Move(t, "poll", "copy")
    /\ comps[t][nxt_comp[t]].ready = 1
    /\ comps' = [comps EXCEPT ![t][nxt_comp[t]].ready = 0]
    /\ UNCHANGED <<vars, clientVars, store, ret, answer>>

\* ... and copy the slot
PollCopy(t) ==
    /\ Move(t, "copy", "poll")
    /\ res' = [res EXCEPT ![t] = Append(@, comps[t][nxt_comp[t]])]
    /\ last_completed' = [last_completed EXCEPT ![t] = @ + 1]
    /\ nxt_comp' = [nxt_comp EXCEPT ![t] = (@ + 1) % win_size]
    /\ UNCHANGED <<vars, last_submitted, comps, store, ret, answer>>

\* process_completions returns to one of the two loops of thread_function
AfterPoll(t) ==
    IF last_submitted[t] < num_reqs(t) THEN "submit"
    ELSE IF last_completed[t] < num_reqs(t) THEN "poll" ELSE "done"

PollNotReady(t) ==
    /\ Move(t, "poll", AfterPoll(t))
    /\ comps[t][nxt_comp[t]].ready # 1
    /\ UNCHANGED <<vars, clientVars, comps, store, ret, answer>>

ClientStep(t) ==
    \/ SubmitCall(t) \/ SubmitRuns(t) \/ SubmitDone(t)
    \/ PollReady(t) \/ PollCopy(t) \/ PollNotReady(t)

-----------------------------------------------------------------------------
(* kv_store.c: thread_func *)

GetCall(c) ==
    /\ Move(c, "get", "apply")
    /\ BeginGet(c)
    /\ UNCHANGED <<clientVars, comps, store, ret, answer>>

GetRuns(c) ==
    /\ GetStep(c)
    /\ UNCHANGED <<at, clientVars, comps, store, ret, answer>>

\* put(buf.k, buf.v) or get(buf.k)
Apply(c) ==
    LET b == bd[c]  owner == b.res_off[1] IN
    /\ Move(c, "apply", "reply")
    /\ IF b.req_type = "PUT"
       THEN /\ store' = [store EXCEPT ![b.k] = b.v]
            /\ UNCHANGED <<ret, answer>>
       ELSE /\ answer' = [answer EXCEPT ![owner][b.id] = store[b.k]]
            /\ ret' = [ret EXCEPT ![c] = store[b.k]]
            /\ UNCHANGED store
    /\ UNCHANGED <<vars, clientVars, comps>>

\* Variant: the value of a get is not written.
ReplyKeyOnly(c) ==
    LET b == bd[c]  owner == b.res_off[1]  s == b.res_off[2] IN
    /\ Move(c, "reply", "ready")
    /\ comps' = [comps EXCEPT ![owner][s].k = b.k]
    /\ UNCHANGED <<vars, clientVars, store, ret, answer>>

\* Variant: the flag is set with the values.
ReplyAndReady(c) ==
    LET b == bd[c]  owner == b.res_off[1]  s == b.res_off[2] IN
    /\ Move(c, "reply", "ready")
    /\ comps' = [comps EXCEPT ![owner][s] = [k |-> b.k, v |-> ret[c], ready |-> 1]]
    /\ UNCHANGED <<vars, clientVars, store, ret, answer>>

\* out->k and, for a get, out->v
Reply(c) ==
    LET b == bd[c]  owner == b.res_off[1]  s == b.res_off[2] IN
    /\ Move(c, "reply", "ready")
    /\ comps' = [comps EXCEPT ![owner][s].k = b.k,
                              ![owner][s].v = IF b.req_type = "GET" THEN ret[c] ELSE @]
    /\ UNCHANGED <<vars, clientVars, store, ret, answer>>

\* Variant: only a get is marked ready.
SetReadyGet(c) ==
    LET owner == bd[c].res_off[1]  s == bd[c].res_off[2] IN
    /\ Move(c, "ready", "get")
    /\ comps' = IF bd[c].req_type = "GET" THEN [comps EXCEPT ![owner][s].ready = 1] ELSE comps
    /\ UNCHANGED <<vars, clientVars, store, ret, answer>>

\* out->ready = 1
SetReady(c) ==
    LET owner == bd[c].res_off[1]  s == bd[c].res_off[2] IN
    /\ Move(c, "ready", "get")
    /\ comps' = [comps EXCEPT ![owner][s].ready = 1]
    /\ UNCHANGED <<vars, clientVars, store, ret, answer>>

ServerStep(c) == GetCall(c) \/ GetRuns(c) \/ Apply(c) \/ Reply(c) \/ SetReady(c)

SysNext ==
    /\ \/ \E t \in Producers : ClientStep(t)
       \/ \E c \in Consumers : ServerStep(c)
    /\ UNCHANGED <<win_size, reqs>>

SysSpec == SysInit /\ [][SysNext]_sysVars

\* Every thread of both processes keeps running.
SysFairSpec ==
    /\ SysSpec
    /\ \A t \in Producers : WF_sysVars(ClientStep(t) /\ UNCHANGED <<win_size, reqs>>)
    /\ \A c \in Consumers : WF_sysVars(ServerStep(c) /\ UNCHANGED <<win_size, reqs>>)

-----------------------------------------------------------------------------
(* Properties *)

SysTypeOK ==
    /\ at \in [Threads -> {"submit", "poll", "copy", "done", "get", "apply", "reply", "ready"}]
    /\ \A t \in Producers :
          /\ last_submitted[t] \in 0..num_reqs(t)
          /\ last_completed[t] \in 0..last_submitted[t]
          /\ nxt_comp[t] \in Slots
    /\ store \in [Keys -> Nat]

\* The windows of client.c keep what the ring needs of its callers: the client
\* and server threads together behave like the callers of ShmRing.
RingPromise == Spec

\* Every result the client stores belongs to the request it is stored for, and
\* a get's result is the value the store held when the get was executed,
\* however the server threads overtake each other and slots are reused.
ResultsMatch ==
    \A t \in Producers : \A i \in 1..Len(res[t]) :
        /\ res[t][i].k = reqs[t][i].k
        /\ reqs[t][i].t = "GET" => res[t][i].v = answer[t][i]

\* A server thread owns the board slot it answers into: no other server thread
\* answers into it, its flag is clear, and the client is not copying it.
SlotOwned ==
    \A c \in Consumers :
        (pc[c] = "idle" /\ at[c] \in {"apply", "reply", "ready"}) =>
        LET owner == bd[c].res_off[1]  s == bd[c].res_off[2] IN
        /\ comps[owner][s].ready = 0
        /\ ~(at[owner] = "copy" /\ nxt_comp[owner] = s)
        /\ \A e \in Consumers \ {c} :
              (pc[e] = "idle" /\ at[e] \in {"apply", "reply", "ready"})
                  => bd[e].res_off # bd[c].res_off

\* Every client thread gets all its answers and ends.
AllDone == <>(\A t \in Producers : at[t] = "done")

\* no client thread writes a key that another one uses
OwnKeys == \A t, u \in Producers : t # u =>
              \A i \in 1..num_reqs(t), j \in 1..num_reqs(u) :
                 reqs[t][i].t = "PUT" => reqs[t][i].k # reqs[u][j].k

\* usage(): -c "only works if -n 1 and -w 1 (synchronus submission)": with a
\* window of one and keys that no other client thread writes, every get sees
\* the last put before it in the workload, with any number of server threads.
Synchronous ==
  (win_size = 1 /\ OwnKeys) =>
    \A t \in Producers : \A i \in 1..Len(res[t]) :
        LET putsBefore == {j \in 1..(i - 1) : reqs[t][j].t = "PUT" /\ reqs[t][j].k = reqs[t][i].k} IN
        reqs[t][i].t = "GET" =>
            IF putsBefore = {} THEN res[t][i].v = 0
            ELSE \E j \in putsBefore :
                    /\ \A l \in putsBefore : l <= j
                    /\ res[t][i].v = reqs[t][j].v

\* Each answer of the board reaches the request it belongs to, and with a window
\* of one the client sees its own workload in order.
AnswersCorrect == ResultsMatch /\ Synchronous

\* Windows and board stay within bounds, and every slot of the board has at most
\* one thread working on it.
BoardSafe == SysTypeOK /\ SlotOwned

\* What the proofs ask of how the programs are called: every thread's window
\* fits in the ring, and the ring model's bounds hold the workload.
Clients(w) == {t \in Producers : w.reqs[t] # <<>>}
AllRequests(w) == UNION {{t} \X (1..Len(w.reqs[t])) : t \in Producers}

RingFits ==
    /\ MaxInFlight <= RING_SIZE
    /\ \A w \in Workloads :
          /\ Cardinality(Clients(w)) * w.win_size <= MaxInFlight
          /\ Cardinality(AllRequests(w)) <= NumRequests
          /\ \A r \in AllRequests(w) :
                LET q == w.reqs[r[1]][r[2]] IN
                [req_type |-> q.t, k |-> q.k, v |-> q.v, id |-> r[2],
                 res_off |-> <<r[1], (r[2] - 1) % w.win_size>>] \in Items
=============================================================================
