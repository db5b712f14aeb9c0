---------------------------- MODULE KvHashProofs ----------------------------
(***************************************************************************)
(* Proofs about the hash table of the server.                              *)
(*                                                                         *)
(* The table is linearizable although a key may get several nodes: two     *)
(* puts that both miss it publish one each, and the later one hides the    *)
(* earlier.  A call acts on one node, the one it found or published, or on *)
(* none, for a get that finds nothing.  The linearization orders the calls *)
(* on a key by the moment their node was published, and the calls on one   *)
(* node by the moment they accessed it.  A call that ends late on a hidden *)
(* node therefore takes its place among calls that returned before it,     *)
(* which is why no order of the steps alone is a witness.                  *)
(*                                                                         *)
(* The witnesses are three functions: rank, the number of a node in the    *)
(* order of publication (0 for a node not yet published); seg, the rank of *)
(* the node on which a finished call acted (0 for none); and ord, its      *)
(* place in the linearization of the calls on its key.                     *)
(***************************************************************************)
EXTENDS KvHash, FiniteSetTheorems, TLAPS

Call == [type : {"PUT", "GET"}, k : Keys, v : Nat,
         returned : BOOLEAN, after : SUBSET Nat]

\* The type invariant with the type of the history, and what a worker inside
\* a call knows about it.
HTypeOK ==
    /\ TypeOK
    /\ node \in Seq([key : Keys, value : Values, next : Nat])
    /\ calls \in Seq(Call)
    /\ \A i \in DOMAIN calls :
          /\ calls[i].type = "PUT" => calls[i].v \in Values
          /\ \A j \in calls[i].after : j \in DOMAIN calls /\ calls[j].returned
    /\ \A w \in Workers : pc[w] # "idle" =>
          /\ mine[w] # 0
          /\ ~calls[mine[w]].returned
          /\ pc[w] \in {"cas", "relink"} => calls[mine[w]].type = "PUT"
    /\ \A w, z \in Workers :
          pc[w] # "idle" /\ pc[z] # "idle" /\ mine[w] = mine[z] => w = z

Nodes == 1..Len(node)
BucketOf(n) == hash_function(node[n].key)

\* Published nodes form the chains: a node's next was published before it,
\* nothing of the bucket was published between the two, and the head is the
\* last node published.
Ranked(rank, top) ==
    /\ \A n \in Nat \ Nodes : rank[n] = 0
    /\ \A n \in Nodes : rank[n] <= top
    /\ \A m, n \in Nodes : rank[m] > 0 /\ rank[m] = rank[n] => m = n
    /\ \A n \in Nodes : node[n].next # NULL =>
          rank[node[n].next] > 0 /\ BucketOf(node[n].next) = BucketOf(n)
    /\ \A n \in Nodes : rank[n] > 0 => rank[node[n].next] < rank[n]
    /\ \A m, n \in Nodes :
          rank[m] > 0 /\ BucketOf(m) = BucketOf(n) /\ rank[m] < rank[n]
          => rank[m] <= rank[node[n].next]
    /\ \A b \in 0..(TableSize - 1) : heads[b] # NULL =>
          rank[heads[b]] > 0 /\ BucketOf(heads[b]) = b
    /\ \A n \in Nodes : rank[n] <= rank[heads[BucketOf(n)]]

\* A worker's new node is its own until it is published.
HeldBy(w, rank) ==
    /\ newNode[w] # NULL /\ rank[newNode[w]] = 0
    /\ node[newNode[w]].key = call(w).k
    /\ node[newNode[w]].value = call(w).v

Held(rank) ==
    /\ \A w \in Workers : pc[w] \in {"cas", "relink"} => HeldBy(w, rank)
    /\ \A w, z \in Workers :
          /\ pc[w] \in {"cas", "relink"} /\ pc[z] \in {"cas", "relink"}
          /\ newNode[w] = newNode[z]
          => w = z

\* A walking worker is in its bucket's chain, and has not passed the node of
\* any call on its key that had returned when its own call started.
WalkingBy(w, rank, seg) ==
    /\ current[w] # NULL =>
          rank[current[w]] > 0 /\ BucketOf(current[w]) = bucket(w)
    /\ \A j \in call(w).after :
          calls[j].k = call(w).k => seg[j] <= rank[current[w]]

Walking(rank, seg) ==
    \A w \in Workers : pc[w] = "walk" => WalkingBy(w, rank, seg)

Done(k) == {i \in DOMAIN calls : calls[i].k = k /\ calls[i].returned}
DonePuts(k) == {i \in Done(k) : calls[i].type = "PUT"}

\* A finished call acted on no node or on a published node of its key.
Acted(rank, seg) ==
    \A k \in Keys : \A i \in Done(k) : seg[i] > 0 =>
        \E n \in Nodes : rank[n] = seg[i] /\ node[n].key = k

\* ord numbers the finished calls on a key
Numbered(k, ord) ==
    /\ \A i \in Done(k) : ord[i] \in 1..Cardinality(Done(k))
    /\ \A i, j \in Done(k) : ord[i] = ord[j] => i = j
    /\ \A p \in 1..Cardinality(Done(k)) : \E i \in Done(k) : ord[i] = p

\* the calls on nodes published earlier come first
Segmented(k, seg, ord) ==
    \A s \in Nat : \E p \in 0..Cardinality(Done(k)) :
        \A i \in Done(k) : seg[i] <= s <=> ord[i] <= p

\* p is the last put on nodes published no later than s
LastOf(k, seg, ord, p, s) ==
    /\ p \in DonePuts(k) /\ seg[p] = s
    /\ \A q \in DonePuts(k) : seg[q] <= s => ord[q] <= ord[p]

\* a get returns the value of the last put before it, which acted on the
\* same node
Legal(k, seg, ord) ==
    \A g \in Done(k) \ DonePuts(k) :
        \/ seg[g] = 0 /\ calls[g].v = 0
        \/ \E p \in DonePuts(k) :
              /\ seg[p] = seg[g] /\ ord[p] < ord[g] /\ calls[p].v = calls[g].v
              /\ \A q \in DonePuts(k) : ord[q] < ord[g] => ord[q] <= ord[p]

InTime(k, ord) ==
    \A i, j \in Done(k) : i \in calls[j].after => ord[i] < ord[j]

LinearizedOn(k, seg, ord) ==
    /\ Numbered(k, ord) /\ Segmented(k, seg, ord)
    /\ Legal(k, seg, ord) /\ InTime(k, ord)
    /\ \A p \in DonePuts(k) : seg[p] > 0

Linearized(seg, ord) == \A k \in Keys : LinearizedOn(k, seg, ord)

\* A published node holds the value of the last put that acted on it.
ValuedAt(n, k, v, rank, seg, ord) ==
    \E p \in DonePuts(k) : LastOf(k, seg, ord, p, rank[n]) /\ calls[p].v = v

Valued(rank, seg, ord) ==
    \A n \in Nodes : rank[n] > 0 =>
        ValuedAt(n, node[n].key, node[n].value, rank, seg, ord)

Witnessed(rank, top, seg, ord) ==
    /\ Ranked(rank, top) /\ Held(rank) /\ Walking(rank, seg)
    /\ Acted(rank, seg) /\ Linearized(seg, ord) /\ Valued(rank, seg, ord)

HInv ==
    /\ HTypeOK
    /\ \E rank \in [Nat -> Nat], top \in Nat, seg, ord \in [Nat -> Nat] :
          Witnessed(rank, top, seg, ord)

-----------------------------------------------------------------------------
(* Types *)

\* A key hashes to a bucket of the table.
LEMMA HashRange ==
    ASSUME NEW k \in Keys
    PROVE  hash_function(k) \in 0..(TableSize - 1)
<1>1. k \in Nat /\ TableSize \in Nat \ {0}
  BY HashAssumption
<1>2. k % TableSize \in 0..(TableSize - 1)
  BY <1>1, SMT
<1> QED BY <1>2 DEF hash_function

\* The empty table is well typed.
LEMMA HTypeInit == Init => HTypeOK
BY HashAssumption DEF Init, HTypeOK, TypeOK, Call, NULL

\* Replacing an element of a sequence.
LEMMA SeqUpdate ==
    ASSUME NEW S, NEW T, NEW f \in Seq(S), NEW c \in 1..Len(f), NEW e \in S, e \in T,
           \A n \in 1..Len(f) : f[n] \in T
    PROVE  LET g == [f EXCEPT ![c] = e] IN
           /\ g \in Seq(S) /\ Len(g) = Len(f) /\ DOMAIN g = 1..Len(f)
           /\ \A n \in 1..Len(f) : g[n] \in T
OBVIOUS

\* A new call is appended to the history and keeps the types.
LEMMA TypeInvoke ==
    ASSUME HTypeOK, NEW w \in Workers, NEW type \in {"PUT", "GET"},
           NEW k \in Keys, NEW v \in Nat, type = "PUT" => v \in Values,
           Invoke(w, type, k, v)
    PROVE  HTypeOK'
<1> DEFINE c == [type |-> type, k |-> k, v |-> v,
                 returned |-> FALSE, after |-> Returned]
<1>0. c \in Call
  BY DEF Call, Returned, HTypeOK
<1>1. /\ calls' = Append(calls, c) /\ calls' \in Seq(Call)
      /\ Len(calls') = Len(calls) + 1 /\ Len(calls) \in Nat
      /\ DOMAIN calls = 1..Len(calls) /\ DOMAIN calls' = 1..(Len(calls) + 1)
      /\ calls'[Len(calls) + 1] = c
      /\ \A i \in 1..Len(calls) : calls'[i] = calls[i]
  BY <1>0 DEF Invoke, HTypeOK
<1> HIDE DEF c
<1>2. c.type = type /\ c.v = v /\ c.returned = FALSE /\ c.after = Returned
  BY DEF c
<1>3. TypeOK'
  BY <1>1 DEF Invoke, HTypeOK, TypeOK
<1>4. \A i \in DOMAIN calls' :
        /\ calls'[i].type = "PUT" => calls'[i].v \in Values
        /\ \A j \in calls'[i].after : j \in DOMAIN calls' /\ calls'[j].returned
  BY <1>1, <1>2 DEF HTypeOK, Returned
<1>5. \A z \in Workers : pc'[z] # "idle" =>
        /\ mine'[z] # 0
        /\ ~calls'[mine'[z]].returned
        /\ pc'[z] \in {"cas", "relink"} => calls'[mine'[z]].type = "PUT"
  <2> SUFFICES ASSUME NEW z \in Workers, pc'[z] # "idle"
               PROVE  /\ mine'[z] # 0
                      /\ ~calls'[mine'[z]].returned
                      /\ pc'[z] \in {"cas", "relink"} => calls'[mine'[z]].type = "PUT"
    OBVIOUS
  <2>1. CASE z = w
    BY <2>1, <1>1, <1>2 DEF Invoke, HTypeOK, TypeOK
  <2>2. CASE z # w
    BY <2>2, <1>1 DEF Invoke, HTypeOK, TypeOK
  <2> QED BY <2>1, <2>2
<1>6. \A y, z \in Workers :
        pc'[y] # "idle" /\ pc'[z] # "idle" /\ mine'[y] = mine'[z] => y = z
  BY <1>1 DEF Invoke, HTypeOK, TypeOK
<1> QED BY <1>1, <1>3, <1>4, <1>5, <1>6 DEF HTypeOK, Invoke

\* The end of a call marks it returned, with its value, and changes no other.
LEMMA RespondCalls ==
    ASSUME HTypeOK, NEW w \in Workers, pc[w] # "idle", NEW v \in Nat, Respond(w, v)
    PROVE  /\ mine[w] \in 1..Len(calls) /\ call(w) \in Call
           /\ Len(calls') = Len(calls) /\ calls' \in Seq(Call)
           /\ DOMAIN calls = 1..Len(calls) /\ DOMAIN calls' = 1..Len(calls)
           /\ \A i \in 1..Len(calls) : i # mine[w] => calls'[i] = calls[i]
           /\ \A i \in 1..Len(calls) :
                 /\ calls'[i].type = calls[i].type /\ calls'[i].k = calls[i].k
                 /\ calls'[i].after = calls[i].after
           /\ calls'[mine[w]].returned /\ calls'[mine[w]].v = v
           /\ ~call(w).returned
<1>1. mine[w] \in 1..Len(calls) /\ calls \in Seq(Call)
  BY DEF HTypeOK, TypeOK
<1>2. calls[mine[w]] \in Call
  BY <1>1
<1>3. calls' = [calls EXCEPT ![mine[w]] =
                   [[calls[mine[w]] EXCEPT !.returned = TRUE] EXCEPT !.v = v]]
  BY <1>1, <1>2 DEF Respond, Call
<1> DEFINE c == [[calls[mine[w]] EXCEPT !.returned = TRUE] EXCEPT !.v = v]
<1>4. /\ c \in Call /\ c.type = calls[mine[w]].type /\ c.k = calls[mine[w]].k
      /\ c.after = calls[mine[w]].after /\ c.returned = TRUE /\ c.v = v
  BY <1>2 DEF Call
<1> HIDE DEF c
<1>5. calls' = [calls EXCEPT ![mine[w]] = c]
  BY <1>3 DEF c
<1> QED BY <1>1, <1>2, <1>4, <1>5 DEF call, HTypeOK

\* The end of a call keeps the types of the history and of the workers.
LEMMA TypeRespond ==
    ASSUME HTypeOK, NEW w \in Workers, pc[w] # "idle", NEW v \in Nat, Respond(w, v),
           call(w).type = "PUT" => v \in Values,
           Len(node') = Len(node), node' \in Seq([key : Keys, value : Values, next : Nat]),
           heads' \in [0..(TableSize - 1) -> 0..Len(node')],
           \A n \in DOMAIN node' :
              node'[n] \in [key : Keys, value : Values, next : 0..Len(node')]
    PROVE  HTypeOK'
<1>1. /\ mine[w] \in 1..Len(calls) /\ call(w) \in Call
      /\ Len(calls') = Len(calls) /\ calls' \in Seq(Call)
      /\ DOMAIN calls = 1..Len(calls) /\ DOMAIN calls' = 1..Len(calls)
      /\ \A i \in 1..Len(calls) : i # mine[w] => calls'[i] = calls[i]
      /\ \A i \in 1..Len(calls) :
            /\ calls'[i].type = calls[i].type /\ calls'[i].k = calls[i].k
            /\ calls'[i].after = calls[i].after
      /\ calls'[mine[w]].returned /\ calls'[mine[w]].v = v
  BY RespondCalls
<1>2. TypeOK'
  BY <1>1 DEF Respond, HTypeOK, TypeOK, NULL
<1>3. \A i \in DOMAIN calls' :
        /\ calls'[i].type = "PUT" => calls'[i].v \in Values
        /\ \A j \in calls'[i].after : j \in DOMAIN calls' /\ calls'[j].returned
  <2> SUFFICES ASSUME NEW i \in 1..Len(calls)
               PROVE  /\ calls'[i].type = "PUT" => calls'[i].v \in Values
                      /\ \A j \in calls'[i].after :
                            j \in DOMAIN calls' /\ calls'[j].returned
    BY <1>1
  <2>1. calls[i].type = "PUT" => calls[i].v \in Values
    BY <1>1 DEF HTypeOK
  <2>2. calls'[i].type = "PUT" => calls'[i].v \in Values
    BY <2>1, <1>1 DEF call
  <2>3. ASSUME NEW j \in calls'[i].after
        PROVE  j \in DOMAIN calls' /\ calls'[j].returned
    <3>0. j \in calls[i].after /\ i \in DOMAIN calls
      BY <2>3, <1>1
    <3>1. j \in 1..Len(calls) /\ calls[j].returned
      BY <3>0, <1>1, Zenon DEF HTypeOK
    <3>2. CASE j = mine[w]
      BY <3>1, <3>2, <1>1
    <3>3. CASE j # mine[w]
      <4>1. calls'[j] = calls[j]
        BY <3>1, <3>3, <1>1
      <4> QED BY <4>1, <3>1, <1>1
    <3> QED BY <3>2, <3>3
  <2> QED BY <2>2, <2>3
<1>4. \A z \in Workers : pc'[z] # "idle" =>
        pc[z] # "idle" /\ z # w /\ mine'[z] = mine[z] /\ pc'[z] = pc[z]
  BY DEF Respond, HTypeOK, TypeOK
<1>5. \A z \in Workers : pc'[z] # "idle" =>
        /\ mine'[z] # 0
        /\ ~calls'[mine'[z]].returned
        /\ pc'[z] \in {"cas", "relink"} => calls'[mine'[z]].type = "PUT"
  <2> SUFFICES ASSUME NEW z \in Workers, pc'[z] # "idle"
               PROVE  /\ mine'[z] # 0
                      /\ ~calls'[mine'[z]].returned
                      /\ pc'[z] \in {"cas", "relink"} => calls'[mine'[z]].type = "PUT"
    OBVIOUS
  <2>1. mine[z] # mine[w] /\ mine[z] \in 1..Len(calls)
    BY <1>4 DEF HTypeOK, TypeOK
  <2>2. calls'[mine[z]] = calls[mine[z]] /\ mine'[z] = mine[z] /\ pc'[z] = pc[z]
    BY <2>1, <1>1, <1>4
  <2>3. /\ mine[z] # 0 /\ ~calls[mine[z]].returned
        /\ pc[z] \in {"cas", "relink"} => calls[mine[z]].type = "PUT"
    BY <1>4 DEF HTypeOK
  <2> QED BY <2>2, <2>3
<1>6. \A y, z \in Workers :
        pc'[y] # "idle" /\ pc'[z] # "idle" /\ mine'[y] = mine'[z] => y = z
  BY <1>4 DEF HTypeOK
<1> QED BY <1>1, <1>2, <1>3, <1>5, <1>6 DEF HTypeOK

\* A step that leaves the history alone and moves one worker keeps the types.
LEMMA TypeMove ==
    ASSUME HTypeOK, NEW w \in Workers, pc[w] # "idle",
           NEW p \in {"load", "walk", "cas", "relink"},
           pc' = [pc EXCEPT ![w] = p],
           p \in {"cas", "relink"} => call(w).type = "PUT",
           UNCHANGED <<heads, calls, mine>>,
           Len(node') \in Nat, Len(node') >= Len(node),
           node' \in Seq([key : Keys, value : Values, next : Nat]),
           \A n \in DOMAIN node' :
              node'[n] \in [key : Keys, value : Values, next : 0..Len(node')],
           current' \in [Workers -> 0..Len(node')],
           newNode' \in [Workers -> 0..Len(node')]
    PROVE  HTypeOK'
<1>1. TypeOK'
  <2>1. heads' \in [0..(TableSize - 1) -> 0..Len(node')]
    <3>1. heads \in [0..(TableSize - 1) -> 0..Len(node)] /\ Len(node) \in Nat
      BY DEF HTypeOK, TypeOK
    <3>2. 0..Len(node) \subseteq 0..Len(node')
      BY <3>1
    <3> QED BY <3>1, <3>2
  <2>2. pc' \in [Workers -> {"idle", "load", "walk", "cas", "relink"}]
    BY DEF HTypeOK, TypeOK
  <2>3. mine' \in [Workers -> 0..Len(calls')]
    BY DEF HTypeOK, TypeOK
  <2> QED BY <2>1, <2>2, <2>3 DEF TypeOK
<1>2. \A z \in Workers : pc'[z] # "idle" => pc[z] # "idle" /\ (z # w => pc'[z] = pc[z])
  BY DEF HTypeOK, TypeOK
<1>3. pc'[w] = p
  BY DEF HTypeOK, TypeOK
<1> QED BY <1>1, <1>2, <1>3 DEF HTypeOK, call

\* Every step keeps the types.
LEMMA HTypeStep == HTypeOK /\ [Next]_vars => HTypeOK'
<1> SUFFICES ASSUME HTypeOK, [Next]_vars PROVE HTypeOK'
  OBVIOUS
<1>0. CASE UNCHANGED vars
  BY <1>0 DEF HTypeOK, TypeOK, vars
<1>1. ASSUME NEW w \in Workers, put(w) PROVE HTypeOK'
  <2> PICK k \in Keys, v \in Values : Invoke(w, "PUT", k, v)
    BY <1>1 DEF put
  <2>1. v \in Nat
    BY HashAssumption
  <2> QED BY <2>1, TypeInvoke
<1>2. ASSUME NEW w \in Workers, get(w) PROVE HTypeOK'
  <2> PICK k \in Keys : Invoke(w, "GET", k, 0)
    BY <1>2 DEF get
  <2> QED BY TypeInvoke
<1>3. ASSUME NEW w \in Workers, Step(w) PROVE HTypeOK'
  <2>0. /\ Len(node) \in Nat /\ DOMAIN node = 1..Len(node)
        /\ node \in Seq([key : Keys, value : Values, next : Nat])
        /\ \A n \in DOMAIN node :
              node[n] \in [key : Keys, value : Values, next : 0..Len(node)]
        /\ heads \in [0..(TableSize - 1) -> 0..Len(node)]
        /\ current \in [Workers -> 0..Len(node)]
        /\ newNode \in [Workers -> 0..Len(node)]
        /\ pc \in [Workers -> {"idle", "load", "walk", "cas", "relink"}]
    BY DEF HTypeOK, TypeOK
  <2>1. pc[w] # "idle" => /\ call(w) \in Call
                          /\ bucket(w) \in 0..(TableSize - 1)
                          /\ heads[bucket(w)] \in 0..Len(node)
    <3> SUFFICES ASSUME pc[w] # "idle"
                 PROVE  call(w) \in Call /\ bucket(w) \in 0..(TableSize - 1)
      BY <2>0
    <3>1. call(w) \in Call
      BY DEF HTypeOK, TypeOK, call
    <3>2. call(w).k \in Keys
      BY <3>1 DEF Call
    <3> QED BY <3>1, <3>2, HashRange DEF bucket
  <2>2. pc[w] # "idle" /\ call(w).type = "PUT" => call(w).v \in Values /\ call(w).v \in Nat
    <3> SUFFICES ASSUME pc[w] # "idle", call(w).type = "PUT"
                 PROVE  call(w).v \in Values
      BY HashAssumption
    <3>1. mine[w] \in DOMAIN calls
      BY DEF HTypeOK, TypeOK
    <3> QED BY <3>1 DEF HTypeOK, call
  <2>3. CASE LoadHead(w)
    <3>1. pc[w] # "idle" /\ pc' = [pc EXCEPT ![w] = "walk"]
      BY <2>3 DEF LoadHead
    <3>2. current' \in [Workers -> 0..Len(node)]
      BY <2>0, <2>1, <2>3 DEF LoadHead
    <3>3. UNCHANGED <<heads, calls, mine, node, newNode>>
      BY <2>3 DEF LoadHead
    <3>4. /\ Len(node') \in Nat /\ Len(node') >= Len(node)
          /\ node' \in Seq([key : Keys, value : Values, next : Nat])
          /\ \A n \in DOMAIN node' :
                node'[n] \in [key : Keys, value : Values, next : 0..Len(node')]
          /\ current' \in [Workers -> 0..Len(node')]
          /\ newNode' \in [Workers -> 0..Len(node')]
      BY <2>0, <3>2, <3>3
    <3>5. UNCHANGED <<heads, calls, mine>>
      BY <3>3
    <3> QED BY <3>1, <3>4, <3>5, TypeMove
  <2>4. CASE WalkNext(w)
    <3>1. pc[w] # "idle" /\ pc' = [pc EXCEPT ![w] = "walk"]
      BY <2>0, <2>4 DEF WalkNext
    <3>2. current' \in [Workers -> 0..Len(node)]
      BY <2>0, <2>4 DEF WalkNext, NULL
    <3>3. UNCHANGED <<heads, calls, mine, node, newNode>>
      BY <2>4 DEF WalkNext
    <3>4. /\ Len(node') \in Nat /\ Len(node') >= Len(node)
          /\ node' \in Seq([key : Keys, value : Values, next : Nat])
          /\ \A n \in DOMAIN node' :
                node'[n] \in [key : Keys, value : Values, next : 0..Len(node')]
          /\ current' \in [Workers -> 0..Len(node')]
          /\ newNode' \in [Workers -> 0..Len(node')]
      BY <2>0, <3>2, <3>3
    <3>5. UNCHANGED <<heads, calls, mine>>
      BY <3>3
    <3> QED BY <3>1, <3>4, <3>5, TypeMove
  <2>5. CASE UpdateValue(w)
    <3>1. pc[w] # "idle" /\ call(w).type = "PUT" /\ current[w] \in 1..Len(node)
      BY <2>0, <2>5 DEF UpdateValue, Matches, NULL
    <3>2. /\ Len(node') = Len(node) /\ DOMAIN node' = 1..Len(node)
          /\ node' \in Seq([key : Keys, value : Values, next : Nat])
          /\ \A n \in DOMAIN node' :
                node'[n] \in [key : Keys, value : Values, next : 0..Len(node')]
      <4>1. node' = [node EXCEPT ![current[w]] = [node[current[w]] EXCEPT !.value = call(w).v]]
        BY <2>5, <2>0, <3>1 DEF UpdateValue
      <4>2. [node[current[w]] EXCEPT !.value = call(w).v] \in [key : Keys, value : Values, next : 0..Len(node)]
        BY <2>0, <2>2, <3>1
      <4>3. [node[current[w]] EXCEPT !.value = call(w).v] \in [key : Keys, value : Values, next : Nat]
        BY <4>2
      <4> DEFINE e == [node[current[w]] EXCEPT !.value = call(w).v]
      <4> HIDE DEF e
      <4>4. node' = [node EXCEPT ![current[w]] = e] /\ e \in [key : Keys, value : Values, next : 0..Len(node)]
            /\ e \in [key : Keys, value : Values, next : Nat]
        BY <4>1, <4>2, <4>3 DEF e
      <4> QED BY <4>4, <2>0, <3>1, SeqUpdate
    <3> QED BY <2>0, <2>2, <3>1, <3>2, <2>5, TypeRespond DEF UpdateValue
  <2>6. CASE ReadValue(w)
    <3>1. pc[w] # "idle" /\ call(w).type # "PUT" /\ current[w] \in 1..Len(node)
      BY <2>0, <2>6 DEF ReadValue, Matches, NULL
    <3>2. node[current[w]].value \in Values
      BY <2>0, <3>1
    <3>3. node[current[w]].value \in Nat
      BY <3>2, HashAssumption
    <3> QED BY <2>0, <3>1, <3>3, <2>6, TypeRespond DEF ReadValue
  <2>7. CASE NotFound(w)
    <3>1. pc[w] # "idle" /\ call(w).type # "PUT"
      BY <2>7 DEF NotFound
    <3> QED BY <2>0, <3>1, <2>7, TypeRespond DEF NotFound
  <2>8. CASE NewNode(w)
    <3>1. pc[w] # "idle" /\ call(w).type = "PUT" /\ call(w).k \in Keys
      BY <2>1, <2>8 DEF NewNode, Call
    <3> DEFINE n1 == [key |-> call(w).k, value |-> call(w).v, next |-> heads[bucket(w)]]
    <3>2. n1 \in [key : Keys, value : Values, next : 0..Len(node)]
      BY <3>1, <2>1, <2>2
    <3>3. n1 \in [key : Keys, value : Values, next : Nat]
      BY <3>2
    <3>4. node' = Append(node, n1)
      BY <2>8 DEF NewNode
    <3> HIDE DEF n1
    <3>5. /\ Len(node') = Len(node) + 1 /\ DOMAIN node' = 1..(Len(node) + 1)
          /\ node' \in Seq([key : Keys, value : Values, next : Nat])
          /\ node'[Len(node) + 1] = n1
          /\ \A n \in 1..Len(node) : node'[n] = node[n]
      BY <3>3, <3>4, <2>0
    <3>6. \A n \in DOMAIN node' :
             node'[n] \in [key : Keys, value : Values, next : 0..Len(node')]
      <4> SUFFICES ASSUME NEW n \in 1..(Len(node) + 1)
                   PROVE  node'[n] \in [key : Keys, value : Values, next : 0..(Len(node) + 1)]
        BY <3>5
      <4>1. CASE n = Len(node) + 1
        BY <4>1, <3>2, <3>5, <2>0
      <4>2. CASE n # Len(node) + 1
        <5>1. n \in 1..Len(node)
          BY <4>2, <2>0
        <5>2. node'[n] \in [key : Keys, value : Values, next : 0..Len(node)]
          BY <5>1, <2>0, <3>5
        <5> QED BY <5>2, <2>0
      <4> QED BY <4>1, <4>2
    <3>7. newNode' \in [Workers -> 0..Len(node')] /\ current' \in [Workers -> 0..Len(node')]
      BY <2>0, <2>8, <3>5 DEF NewNode
    <3>8. UNCHANGED <<heads, calls, mine>> /\ pc' = [pc EXCEPT ![w] = "cas"]
      BY <2>8 DEF NewNode
    <3>9. Len(node') \in Nat /\ Len(node') >= Len(node)
      BY <3>5, <2>0
    <3> QED BY <3>1, <3>5, <3>6, <3>7, <3>8, <3>9, TypeMove
  <2>9. CASE Publish(w)
    <3>1. pc[w] # "idle" /\ call(w).type = "PUT"
      BY <2>9 DEF Publish, HTypeOK, call
    <3>2. heads' \in [0..(TableSize - 1) -> 0..Len(node)]
      BY <2>0, <2>1, <2>9 DEF Publish
    <3> QED BY <2>0, <2>2, <3>1, <3>2, <2>9, TypeRespond DEF Publish
  <2>10. ASSUME pc[w] \in {"cas", "relink"}, NEW p \in {"cas", "relink"},
                pc' = [pc EXCEPT ![w] = p],
                node' = [node EXCEPT ![newNode[w]].next = heads[bucket(w)]],
                UNCHANGED <<heads, current, newNode, calls, mine>>
         PROVE  HTypeOK'
    <3>1. pc[w] # "idle" /\ call(w).type = "PUT"
      BY <2>10 DEF HTypeOK, call
    <3>2. /\ Len(node') = Len(node) /\ DOMAIN node' = 1..Len(node)
          /\ node' \in Seq([key : Keys, value : Values, next : Nat])
          /\ \A n \in DOMAIN node' :
                node'[n] \in [key : Keys, value : Values, next : 0..Len(node')]
      <4>1. CASE newNode[w] \in 1..Len(node)
        <5>1. node' = [node EXCEPT ![newNode[w]] = [node[newNode[w]] EXCEPT !.next = heads[bucket(w)]]]
          BY <2>10, <2>0, <4>1
        <5>2. [node[newNode[w]] EXCEPT !.next = heads[bucket(w)]] \in [key : Keys, value : Values, next : 0..Len(node)]
          BY <2>0, <2>1, <3>1, <4>1
        <5>3. [node[newNode[w]] EXCEPT !.next = heads[bucket(w)]] \in [key : Keys, value : Values, next : Nat]
          BY <5>2
        <5> DEFINE e == [node[newNode[w]] EXCEPT !.next = heads[bucket(w)]]
        <5> HIDE DEF e
        <5>4. node' = [node EXCEPT ![newNode[w]] = e] /\ e \in [key : Keys, value : Values, next : 0..Len(node)]
              /\ e \in [key : Keys, value : Values, next : Nat]
          BY <5>1, <5>2, <5>3 DEF e
        <5> QED BY <5>4, <2>0, <4>1, SeqUpdate
      <4>2. CASE newNode[w] \notin 1..Len(node)
        <5>1. node' = node
          BY <4>2, <2>10, <2>0
        <5> QED BY <5>1, <2>0
      <4> QED BY <4>1, <4>2
    <3>3. Len(node') \in Nat /\ Len(node') >= Len(node)
      BY <3>2, <2>0
    <3>4. newNode' \in [Workers -> 0..Len(node')] /\ current' \in [Workers -> 0..Len(node')]
      BY <2>0, <2>10, <3>2
    <3> QED BY <2>10, <3>1, <3>2, <3>3, <3>4, TypeMove
  <2>11. CASE Relink(w)
    BY <2>10, <2>11 DEF Relink
  <2>12. CASE Reload(w)
    BY <2>10, <2>12 DEF Reload
  <2> QED BY <1>3, <2>3, <2>4, <2>5, <2>6, <2>7, <2>8, <2>9, <2>11, <2>12 DEF Step
<1> QED BY <1>0, <1>1, <1>2, <1>3 DEF Next

-----------------------------------------------------------------------------
(* Inserting an element into a numbering *)

\* D is numbered 1..n by ord, in the order of seg; ord2 also numbers x, after
\* the elements that seg puts at or before s.
Inserts(D, x, n, p, s, ord, ord2, seg, seg2) ==
    /\ x \notin D /\ n \in Nat /\ p \in Nat /\ p <= n /\ s \in Nat
    /\ \A i \in D : ord[i] \in Nat /\ seg[i] \in Nat
    /\ \A i \in D : ord[i] \in 1..n
    /\ \A i, j \in D : ord[i] = ord[j] => i = j
    /\ \A q \in 1..n : \E i \in D : ord[i] = q
    /\ \A i \in D : seg[i] <= s <=> ord[i] <= p
    /\ \A i \in D : ord2[i] = (IF ord[i] > p THEN ord[i] + 1 ELSE ord[i])
    /\ ord2[x] = p + 1
    /\ seg2[x] = s
    /\ \A i \in D : seg2[i] = seg[i]

\* what the insertion achieves
InsertsTo(D, x, n, s, ord, ord2, seg) ==
    /\ \A i \in D \cup {x} : ord2[i] \in 1..(n + 1)
    /\ \A i, j \in D \cup {x} : ord2[i] = ord2[j] => i = j
    /\ \A q \in 1..(n + 1) : \E i \in D \cup {x} : ord2[i] = q
    /\ \A i, j \in D : ord2[i] < ord2[j] <=> ord[i] < ord[j]
    /\ \A i \in D : seg[i] <= s => ord2[i] < ord2[x]
    /\ \A i \in D : seg[i] > s => ord2[x] < ord2[i]

\* q cuts the numbering where seg passes t
Cuts(D, seg, ord, t, q) == \A i \in D : seg[i] <= t <=> ord[i] <= q

\* The new numbering has no gap and keeps the order of the old elements.
LEMMA InsertOrd ==
    ASSUME NEW D, NEW x, NEW n, NEW p, NEW s, NEW ord, NEW ord2, NEW seg, NEW seg2,
           Inserts(D, x, n, p, s, ord, ord2, seg, seg2)
    PROVE  InsertsTo(D, x, n, s, ord, ord2, seg)
<1> USE DEF Inserts
<1>1. \A i \in D \cup {x} : ord2[i] \in 1..(n + 1)
  OBVIOUS
<1>2. \A i, j \in D \cup {x} : ord2[i] = ord2[j] => i = j
  OBVIOUS
<1>3. ASSUME NEW q \in 1..(n + 1) PROVE \E i \in D \cup {x} : ord2[i] = q
  <2>1. CASE q <= p
    BY <2>1
  <2>2. CASE q = p + 1
    BY <2>2
  <2>3. CASE q > p + 1
    <3>1. PICK i \in D : ord[i] = q - 1
      BY <2>3
    <3> QED BY <2>3, <3>1
  <2> QED BY <2>1, <2>2, <2>3
<1>4. \A i, j \in D : ord2[i] < ord2[j] <=> ord[i] < ord[j]
  OBVIOUS
<1>5. /\ \A i \in D : seg[i] <= s => ord2[i] < ord2[x]
      /\ \A i \in D : seg[i] > s => ord2[x] < ord2[i]
  OBVIOUS
<1> QED BY <1>1, <1>2, <1>3, <1>4, <1>5 DEF InsertsTo

\* The new numbering is in the order of seg as well.
LEMMA InsertSeg ==
    ASSUME NEW D, NEW x, NEW n, NEW p, NEW s, NEW ord, NEW ord2, NEW seg, NEW seg2,
           Inserts(D, x, n, p, s, ord, ord2, seg, seg2),
           NEW t \in Nat, NEW q \in 0..n, Cuts(D, seg, ord, t, q)
    PROVE  \E z \in 0..(n + 1) : Cuts(D \cup {x}, seg2, ord2, t, z)
<1> USE DEF Inserts, Cuts
<1>1. CASE s <= t
  <2>1. p <= q
    <3>1. CASE p # 0
      <4>1. PICK i \in D : ord[i] = p
        BY <3>1
      <4> QED BY <4>1, <1>1
    <3> QED BY <3>1
  <2>2. \A i \in D : seg[i] <= t <=> ord2[i] <= q + 1
    BY <2>1, <1>1
  <2>3. \A i \in D \cup {x} : seg2[i] <= t <=> ord2[i] <= q + 1
    BY <2>1, <2>2, <1>1
  <2> QED BY <2>3
<1>2. CASE s > t
  <2>1. q <= p
    <3>1. CASE q # 0
      <4>1. PICK i \in D : ord[i] = q
        BY <3>1
      <4> QED BY <4>1, <1>2
    <3> QED BY <3>1
  <2>2. \A i \in D : seg[i] <= t <=> ord2[i] <= q
    BY <2>1, <1>2
  <2>3. \A i \in D \cup {x} : seg2[i] <= t <=> ord2[i] <= q
    BY <2>1, <2>2, <1>2
  <2>4. q \in 0..(n + 1)
    OBVIOUS
  <2> QED BY <2>3, <2>4
<1> QED BY <1>1, <1>2

\* What LEMMA InsertLegal needs of the old and the new linearization: P are
\* the old puts and Q the new ones.
InsertsCall(D, x, s, ord, ord2, seg, seg2, val, val2, P, Q) ==
    /\ x \notin D /\ s \in Nat
    /\ \A i \in D : ord[i] \in Nat /\ seg[i] \in Nat /\ ord2[i] \in Nat
    /\ ord2[x] \in Nat /\ seg2[x] = s
    /\ \A i \in D : seg2[i] = seg[i] /\ val2[i] = val[i]
    /\ \A i, j \in D : ord2[i] < ord2[j] <=> ord[i] < ord[j]
    /\ \A i \in D : seg[i] <= s => ord2[i] < ord2[x]
    /\ \A i \in D : seg[i] > s => ord2[x] < ord2[i]
    /\ P \subseteq D /\ P \subseteq Q /\ Q \subseteq P \cup {x}
    /\ x \notin Q =>
          \/ s = 0 /\ val2[x] = 0
          \/ \E y \in P : /\ seg[y] = s /\ val[y] = val2[x]
                         /\ \A q \in P : seg[q] <= s => ord[q] <= ord[y]

\* a get of D returns the value of the last put before it, on the same node
LegalIn(D, P, ord, seg, val) ==
    \A g \in D \ P :
       \/ seg[g] = 0 /\ val[g] = 0
       \/ \E y \in P : /\ seg[y] = seg[g] /\ ord[y] < ord[g] /\ val[y] = val[g]
                      /\ \A q \in P : ord[q] < ord[g] => ord[q] <= ord[y]

\* Inserting a call keeps the gets legal.
LEMMA InsertLegal ==
    ASSUME NEW D, NEW x, NEW s, NEW ord, NEW ord2, NEW seg, NEW seg2,
           NEW val, NEW val2, NEW P, NEW Q,
           InsertsCall(D, x, s, ord, ord2, seg, seg2, val, val2, P, Q),
           LegalIn(D, P, ord, seg, val)
    PROVE  LegalIn(D \cup {x}, Q, ord2, seg2, val2)
<1> USE DEF InsertsCall
<1> SUFFICES ASSUME NEW g \in (D \cup {x}) \ Q, ~(seg2[g] = 0 /\ val2[g] = 0)
             PROVE  \E y \in Q :
                      /\ seg2[y] = seg2[g] /\ ord2[y] < ord2[g] /\ val2[y] = val2[g]
                      /\ \A q \in Q : ord2[q] < ord2[g] => ord2[q] <= ord2[y]
  BY DEF LegalIn
<1>1. CASE g # x
  <2>1. g \in D \ P /\ ~(seg[g] = 0 /\ val[g] = 0)
    BY <1>1
  <2>2. PICK y \in P : /\ seg[y] = seg[g] /\ ord[y] < ord[g] /\ val[y] = val[g]
                       /\ \A q \in P : ord[q] < ord[g] => ord[q] <= ord[y]
    BY <2>1 DEF LegalIn
  <2>3. seg2[y] = seg2[g] /\ ord2[y] < ord2[g] /\ val2[y] = val2[g] /\ y \in Q /\ y \in D
    BY <2>1, <2>2
  <2>4. ASSUME NEW q \in Q, ord2[q] < ord2[g] PROVE ord2[q] <= ord2[y]
    <3>1. CASE q = x
      <4>1. seg[g] > s
        BY <2>1, <2>4, <3>1
      <4> QED BY <4>1, <2>2, <2>3, <3>1
    <3>2. CASE q # x
      <4>1. q \in P /\ q \in D /\ ord[q] < ord[g]
        BY <2>1, <2>4, <3>2
      <4>2. ord[q] <= ord[y]
        BY <4>1, <2>2
      <4>3. ~(ord2[y] < ord2[q])
        BY <4>1, <4>2, <2>3
      <4> QED BY <4>1, <4>3, <2>3
    <3> QED BY <3>1, <3>2
  <2> QED BY <2>3, <2>4
<1>2. CASE g = x
  <2>1. PICK y \in P : /\ seg[y] = s /\ val[y] = val2[x]
                       /\ \A q \in P : seg[q] <= s => ord[q] <= ord[y]
    BY <1>2
  <2>2. y \in Q /\ y \in D /\ seg2[y] = seg2[g] /\ ord2[y] < ord2[g] /\ val2[y] = val2[g]
    BY <2>1, <1>2
  <2>3. ASSUME NEW q \in Q, ord2[q] < ord2[g] PROVE ord2[q] <= ord2[y]
    <3>1. q \in P /\ q \in D /\ seg[q] <= s
      BY <2>3, <1>2
    <3>2. ord[q] <= ord[y]
      BY <3>1, <2>1
    <3>3. ~(ord2[y] < ord2[q])
      BY <3>1, <3>2, <2>2
    <3> QED BY <3>1, <3>3, <2>2
  <2> QED BY <2>2, <2>3
<1> QED BY <1>1, <1>2

-----------------------------------------------------------------------------
(* The history *)

\* The finished calls on a key are finished calls of the history.
LEMMA DoneFinite ==
    ASSUME HTypeOK, NEW k \in Keys
    PROVE  /\ IsFiniteSet(Done(k)) /\ Cardinality(Done(k)) \in Nat
           /\ Done(k) \subseteq Nat /\ DonePuts(k) \subseteq Done(k)
<1>1. calls \in Seq(Call) /\ Len(calls) \in Nat /\ DOMAIN calls = 1..Len(calls)
  BY DEF HTypeOK
<1>2. IsFiniteSet(1..Len(calls))
  BY <1>1, FS_Interval
<1>3. Done(k) \in SUBSET (1..Len(calls))
  BY <1>1 DEF Done
<1>4. IsFiniteSet(Done(k))
  BY <1>2, <1>3, FS_Subset
<1> QED BY <1>3, <1>4, FS_CardinalityType DEF DonePuts

\* The history once worker w has responded: call x, on key K, is finished
\* with value v and nothing else has changed.
Finishes(w, v, x, K) ==
    /\ x \in Nat /\ K \in Keys
    /\ Done(K)' = Done(K) \cup {x}
    /\ \A k \in Keys : k # K => Done(k)' = Done(k)
    /\ \A k \in Keys : x \notin Done(k)
    /\ \A k \in Keys : \A i \in Done(k) :
          calls'[i] = calls[i] /\ i # x
    /\ call(w).type = "PUT" =>
          DonePuts(K)' = DonePuts(K) \cup {x}
    /\ call(w).type # "PUT" =>
          DonePuts(K)' = DonePuts(K)
    /\ \A k \in Keys : k # K => DonePuts(k)' = DonePuts(k)
    /\ calls'[x].v = v /\ calls'[x].after = call(w).after
    /\ \A k \in Keys : \A i \in Done(k) : x \notin calls[i].after
    /\ x \notin call(w).after
    /\ Cardinality(Done(K)') = Cardinality(Done(K)) + 1

\* Which calls are finished once worker w has responded.
LEMMA DoneAfter ==
    ASSUME HTypeOK, NEW w \in Workers, pc[w] # "idle", NEW v \in Nat, Respond(w, v),
           NEW x, x = mine[w], NEW K, K = call(w).k
    PROVE  Finishes(w, v, x, K)
<1>1. /\ x \in 1..Len(calls) /\ call(w) \in Call
      /\ DOMAIN calls = 1..Len(calls) /\ DOMAIN calls' = 1..Len(calls)
      /\ \A i \in 1..Len(calls) : i # x => calls'[i] = calls[i]
      /\ \A i \in 1..Len(calls) :
            /\ calls'[i].type = calls[i].type /\ calls'[i].k = calls[i].k
            /\ calls'[i].after = calls[i].after
      /\ calls'[x].returned /\ calls'[x].v = v
      /\ ~call(w).returned
  BY RespondCalls
<1>2. K \in Keys /\ x \in Nat /\ call(w) = calls[x]
  BY <1>1 DEF Call, call
<1>3. \A k \in Keys : x \notin Done(k)
  BY <1>1, <1>2 DEF Done
<1>4. \A k \in Keys : \A i \in Done(k) : i \in 1..Len(calls) /\ i # x /\ calls'[i] = calls[i]
  BY <1>1, <1>3 DEF Done
<1>5. ASSUME NEW k \in Keys, NEW i
      PROVE  i \in Done(k)' <=> i \in Done(k) \/ (i = x /\ k = K)
  <2>1. CASE i = x
    BY <2>1, <1>1, <1>2, <1>3 DEF Done
  <2>2. CASE i # x
    <3>1. i \in 1..Len(calls) => calls'[i] = calls[i]
      BY <2>2, <1>1
    <3> QED BY <2>2, <3>1, <1>1 DEF Done
  <2> QED BY <2>1, <2>2
<1>6. Done(K)' = Done(K) \cup {x} /\ \A k \in Keys : k # K => Done(k)' = Done(k)
  BY <1>2, <1>5
<1>7. \A k \in Keys : \A i : i \in DonePuts(k)' <=>
          i \in DonePuts(k) \/ (i = x /\ k = K /\ call(w).type = "PUT")
  <2> SUFFICES ASSUME NEW k \in Keys, NEW i
               PROVE  i \in DonePuts(k)' <=>
                        i \in DonePuts(k) \/ (i = x /\ k = K /\ call(w).type = "PUT")
    OBVIOUS
  <2>1. i \in DonePuts(k)' <=> i \in Done(k)' /\ calls'[i].type = "PUT"
    BY DEF DonePuts
  <2>2. i \in DonePuts(k) <=> i \in Done(k) /\ calls[i].type = "PUT"
    BY DEF DonePuts
  <2>3. calls'[x].type = call(w).type
    BY <1>1, <1>2
  <2> QED BY <2>1, <2>2, <2>3, <1>3, <1>4, <1>5
<1>8. \A j \in 1..Len(calls) : x \notin calls[j].after
  <2> SUFFICES ASSUME NEW j \in 1..Len(calls), x \in calls[j].after PROVE FALSE
    OBVIOUS
  <2>1. calls[x].returned
    BY <1>1, Zenon DEF HTypeOK
  <2> QED BY <2>1, <1>1, <1>2
<1>9. Cardinality(Done(K)') = Cardinality(Done(K)) + 1
  <2>1. IsFiniteSet(Done(K)) /\ x \notin Done(K)
    BY <1>2, <1>3, DoneFinite
  <2>2. Cardinality(Done(K) \cup {x}) = Cardinality(Done(K)) + 1
    BY <2>1, FS_AddElement
  <2> QED BY <2>2, <1>6
<1>10. /\ call(w).type = "PUT" => DonePuts(K)' = DonePuts(K) \cup {x}
       /\ call(w).type # "PUT" => DonePuts(K)' = DonePuts(K)
       /\ \A k \in Keys : k # K => DonePuts(k)' = DonePuts(k)
  <2>1. call(w).type = "PUT" => DonePuts(K)' = DonePuts(K) \cup {x}
    BY <1>2, <1>7
  <2>2. call(w).type # "PUT" => DonePuts(K)' = DonePuts(K)
    BY <1>2, <1>7
  <2>3. \A k \in Keys : k # K => DonePuts(k)' = DonePuts(k)
    BY <1>7
  <2> QED BY <2>1, <2>2, <2>3
<1>11. calls'[x].after = call(w).after
  BY <1>1, <1>2
<1>12. \A k \in Keys : \A i \in Done(k) : x \notin calls[i].after
  BY <1>4, <1>8
<1>13. x \notin call(w).after
  BY <1>1, <1>2, <1>8
<1> QED BY <1>1, <1>2, <1>3, <1>4, <1>6, <1>9, <1>10, <1>11, <1>12, <1>13 DEF Finishes

\* ord2 is ord with call x inserted after the calls on nodes no younger than s
Inserted(K, seg, ord, ord2, x, s) ==
    /\ \A k \in Keys : \A i, j \in Done(k) : ord[i] <= ord[j] => ord2[i] <= ord2[j]
    /\ \A i \in Done(K) : /\ seg[i] <= s => ord2[i] < ord2[x]
                          /\ seg[i] > s => ord2[x] < ord2[i]

\* The finished calls on k and their places are the same before and after.
SamePlaces(k, seg, ord, seg2, ord2) ==
    /\ Done(k)' = Done(k) /\ DonePuts(k)' = DonePuts(k)
    /\ \A i \in Done(k) : calls'[i] = calls[i] /\ ord2[i] = ord[i] /\ seg2[i] = seg[i]

\* The linearization of a key is not touched by a step that changes neither
\* its finished calls nor their places.
LEMMA OtherKey ==
    ASSUME NEW k,
           NEW seg \in [Nat -> Nat], NEW ord \in [Nat -> Nat],
           NEW seg2 \in [Nat -> Nat], NEW ord2 \in [Nat -> Nat],
           SamePlaces(k, seg, ord, seg2, ord2), LinearizedOn(k, seg, ord)
    PROVE  LinearizedOn(k, seg2, ord2)'
<1> USE DEF SamePlaces, LinearizedOn
<1>0. DonePuts(k) \subseteq Done(k)
  BY DEF DonePuts
<1>1. Numbered(k, ord2)'
  <2>1. /\ \A i \in Done(k) : ord2[i] \in 1..Cardinality(Done(k))
        /\ \A i, j \in Done(k) : ord2[i] = ord2[j] => i = j
        /\ \A p \in 1..Cardinality(Done(k)) : \E i \in Done(k) : ord2[i] = p
    BY Zenon DEF Numbered
  <2> QED BY <2>1 DEF Numbered
<1>2. Segmented(k, seg2, ord2)'
  <2>1. PICK n, D : n = Cardinality(Done(k)) /\ D = Done(k)
    OBVIOUS
  <2>2. Cardinality(Done(k)') = n /\ Done(k)' = D
    BY <2>1
  <2> SUFFICES ASSUME NEW s \in Nat
               PROVE  \E p \in 0..n : \A i \in D : seg2[i] <= s <=> ord2[i] <= p
    BY <2>2 DEF Segmented
  <2>3. PICK p \in 0..n : \A i \in D : seg[i] <= s <=> ord[i] <= p
    BY <2>1 DEF Segmented
  <2>4. \A i \in D : seg2[i] <= s <=> ord2[i] <= p
    BY <2>1, <2>3
  <2> QED BY <2>4
<1>3. Legal(k, seg2, ord2)'
  <2> SUFFICES ASSUME NEW g \in Done(k) \ DonePuts(k), ~(seg2[g] = 0 /\ calls'[g].v = 0)
               PROVE  \E y \in DonePuts(k) :
                         /\ seg2[y] = seg2[g] /\ ord2[y] < ord2[g] /\ calls'[y].v = calls'[g].v
                         /\ \A q \in DonePuts(k) : ord2[q] < ord2[g] => ord2[q] <= ord2[y]
    BY DEF Legal
  <2>1. ~(seg[g] = 0 /\ calls[g].v = 0)
    OBVIOUS
  <2>2. PICK y \in DonePuts(k) :
          /\ seg[y] = seg[g] /\ ord[y] < ord[g] /\ calls[y].v = calls[g].v
          /\ \A q \in DonePuts(k) : ord[q] < ord[g] => ord[q] <= ord[y]
    BY <2>1 DEF Legal
  <2>3. seg2[y] = seg2[g] /\ ord2[y] < ord2[g] /\ calls'[y].v = calls'[g].v
    BY <2>2, <1>0
  <2>4. \A q \in DonePuts(k) : ord2[q] < ord2[g] => ord2[q] <= ord2[y]
    BY <2>2, <1>0
  <2> QED BY <2>3, <2>4
<1>4. InTime(k, ord2)'
  BY DEF InTime
<1>5. \A p \in DonePuts(k)' : seg2[p] > 0
  BY <1>0
<1> QED BY <1>1, <1>2, <1>3, <1>4, <1>5

\* Worker w may end its call, on key K and with value v, on the node of rank s
\* (on none if s is 0): the calls it saw returned acted on nodes no younger, a
\* put acts on a node, and a get returns the value of the last put on it.
MayAct(w, v, K, s, seg, ord) ==
    /\ \A j \in call(w).after : calls[j].k = K => seg[j] <= s
    /\ call(w).type = "PUT" => s > 0
    /\ call(w).type # "PUT" =>
          \/ s = 0 /\ v = 0
          \/ \E p \in DonePuts(K) : LastOf(K, seg, ord, p, s) /\ calls[p].v = v

\* A call that ends finds a place in the linearization: after the calls on its
\* node and on older ones, before the calls on nodes published since.
LEMMA Completed ==
    ASSUME HTypeOK, NEW w \in Workers, NEW v \in Nat,
           NEW x, NEW K, K = call(w).k, Finishes(w, v, x, K),
           NEW seg \in [Nat -> Nat], NEW ord \in [Nat -> Nat], Linearized(seg, ord),
           NEW s \in Nat, MayAct(w, v, K, s, seg, ord)
    PROVE  \E seg2, ord2 \in [Nat -> Nat] :
              /\ seg2 = [seg EXCEPT ![x] = s]
              /\ Linearized(seg2, ord2)'
              /\ Inserted(K, seg, ord, ord2, x, s)
<1>1. /\ x \in Nat /\ K \in Keys
      /\ Done(K)' = Done(K) \cup {x}
      /\ \A k \in Keys : k # K => Done(k)' = Done(k)
      /\ \A k \in Keys : x \notin Done(k)
      /\ \A k \in Keys : \A i \in Done(k) : calls'[i] = calls[i] /\ i # x
      /\ call(w).type = "PUT" => DonePuts(K)' = DonePuts(K) \cup {x}
      /\ call(w).type # "PUT" => DonePuts(K)' = DonePuts(K)
      /\ \A k \in Keys : k # K => DonePuts(k)' = DonePuts(k)
      /\ calls'[x].v = v /\ calls'[x].after = call(w).after
      /\ \A k \in Keys : \A i \in Done(k) : x \notin calls[i].after
      /\ x \notin call(w).after
      /\ Cardinality(Done(K)') = Cardinality(Done(K)) + 1
  BY Zenon DEF Finishes
<1>2. \A k \in Keys : Cardinality(Done(k)) \in Nat /\ Done(k) \subseteq Nat /\ DonePuts(k) \subseteq Done(k)
  BY DoneFinite
<1>3. /\ Numbered(K, ord) /\ Segmented(K, seg, ord)
      /\ Legal(K, seg, ord) /\ InTime(K, ord)
      /\ \A p \in DonePuts(K) : seg[p] > 0
  <2>1. LinearizedOn(K, seg, ord)
    BY <1>1 DEF Linearized
  <2> QED BY <2>1 DEF LinearizedOn
<1>4. PICK n \in Nat : n = Cardinality(Done(K))
  BY <1>1, <1>2
<1>5. PICK p \in 0..n : \A i \in Done(K) : seg[i] <= s <=> ord[i] <= p
  BY <1>3, <1>4 DEF Segmented
<1>6. PICK D \in SUBSET Nat : D = Done(K)
  BY <1>1, <1>2
<1>7. PICK seg2 \in [Nat -> Nat], ord2 \in [Nat -> Nat] :
        /\ seg2 = [seg EXCEPT ![x] = s]
        /\ ord2[x] = p + 1
        /\ \A i \in D : ord2[i] = IF ord[i] > p THEN ord[i] + 1 ELSE ord[i]
        /\ \A i \in Nat : i \notin D /\ i # x => ord2[i] = ord[i]
  <2> DEFINE o == [i \in Nat |-> IF i = x THEN p + 1
                                ELSE IF i \in D /\ ord[i] > p THEN ord[i] + 1
                                ELSE ord[i]]
             g == [seg EXCEPT ![x] = s]
  <2>1. o \in [Nat -> Nat] /\ g \in [Nat -> Nat]
    BY <1>1
  <2>2. o[x] = p + 1 /\ x \notin D
    BY <1>1, <1>6
  <2>3. /\ \A i \in D : o[i] = IF ord[i] > p THEN ord[i] + 1 ELSE ord[i]
        /\ \A i \in Nat : i \notin D /\ i # x => o[i] = ord[i]
    BY <1>1, <2>2
  <2> WITNESS g \in [Nat -> Nat], o \in [Nat -> Nat]
  <2> HIDE DEF o
  <2> QED BY <2>2, <2>3
<1>8. /\ p \in Nat /\ p <= n /\ x \notin D /\ x \in Nat
      /\ \A i \in D : ord[i] \in Nat /\ seg[i] \in Nat /\ ord2[i] \in Nat
      /\ ord2[x] \in Nat /\ seg2[x] = s
      /\ \A i \in D : seg2[i] = seg[i]
      /\ \A i \in D : seg[i] <= s <=> ord[i] <= p
  BY <1>1, <1>5, <1>6, <1>7
<1>9. /\ \A i \in D : ord[i] \in 1..n
      /\ \A i, j \in D : ord[i] = ord[j] => i = j
      /\ \A q \in 1..n : \E i \in D : ord[i] = q
  BY <1>3, <1>4, <1>6, Zenon DEF Numbered
<1>b. Inserts(D, x, n, p, s, ord, ord2, seg, seg2)
  BY <1>7, <1>8, <1>9 DEF Inserts
<1>10. /\ \A i \in D \cup {x} : ord2[i] \in 1..(n + 1)
       /\ \A i, j \in D \cup {x} : ord2[i] = ord2[j] => i = j
       /\ \A q \in 1..(n + 1) : \E i \in D \cup {x} : ord2[i] = q
       /\ \A i, j \in D : ord2[i] < ord2[j] <=> ord[i] < ord[j]
       /\ \A i \in D : seg[i] <= s => ord2[i] < ord2[x]
       /\ \A i \in D : seg[i] > s => ord2[x] < ord2[i]
  <2>1. InsertsTo(D, x, n, s, ord, ord2, seg)
    BY <1>b, InsertOrd
  <2> QED BY <2>1 DEF InsertsTo
<1>11. Done(K)' = D \cup {x} /\ Cardinality(Done(K)') = n + 1
  BY <1>1, <1>4, <1>6
<1>12. Numbered(K, ord2)'
  BY <1>10, <1>11 DEF Numbered
<1>13. Segmented(K, seg2, ord2)'
  <2> SUFFICES ASSUME NEW t \in Nat
               PROVE  \E z \in 0..(n + 1) : \A i \in D \cup {x} :
                          seg2[i] <= t <=> ord2[i] <= z
    BY <1>11 DEF Segmented
  <2>1. PICK q \in 0..n : \A i \in D : seg[i] <= t <=> ord[i] <= q
    BY <1>3, <1>4, <1>6 DEF Segmented
  <2>2. Cuts(D, seg, ord, t, q)
    BY <2>1 DEF Cuts
  <2>3. PICK z \in 0..(n + 1) : Cuts(D \cup {x}, seg2, ord2, t, z)
    BY <2>2, <1>b, InsertSeg
  <2> QED BY <2>3 DEF Cuts
<1>14. Legal(K, seg2, ord2)'
  <2>1. PICK P, Q : P = DonePuts(K) /\ Q = DonePuts(K)'
    OBVIOUS
  <2>2. P \subseteq D /\ P \subseteq Q /\ Q \subseteq P \cup {x}
    BY <2>1, <1>1, <1>2, <1>6
  <2>3. PICK val, val2 : /\ val = [i \in Nat |-> calls[i].v]
                         /\ val2 = [i \in Nat |-> calls'[i].v]
    OBVIOUS
  <2>4. \A i \in Nat : val[i] = calls[i].v /\ val2[i] = calls'[i].v
    BY <2>3
  <2>5. \A i \in D : val2[i] = val[i]
    <3>1. \A i \in D : i \in Nat /\ calls'[i] = calls[i]
      BY <1>1, <1>6
    <3> QED BY <2>4, <3>1
  <2>6. LegalIn(D, P, ord, seg, val)
    <3> SUFFICES ASSUME NEW g \in D \ P, ~(seg[g] = 0 /\ val[g] = 0)
                 PROVE  \E y \in P : /\ seg[y] = seg[g] /\ ord[y] < ord[g] /\ val[y] = val[g]
                                     /\ \A q \in P : ord[q] < ord[g] => ord[q] <= ord[y]
      BY DEF LegalIn
    <3>1. g \in Done(K) \ DonePuts(K) /\ ~(seg[g] = 0 /\ calls[g].v = 0)
      BY <1>6, <2>1, <2>4
    <3>2. PICK y \in DonePuts(K) :
            /\ seg[y] = seg[g] /\ ord[y] < ord[g] /\ calls[y].v = calls[g].v
            /\ \A q \in DonePuts(K) : ord[q] < ord[g] => ord[q] <= ord[y]
      BY <3>1, <1>3 DEF Legal
    <3>3. y \in P /\ y \in D /\ val[y] = val[g]
      BY <3>2, <2>1, <2>2, <2>4
    <3> QED BY <3>2, <3>3, <2>1
  <2>7. x \notin Q =>
           \/ s = 0 /\ val2[x] = 0
           \/ \E y \in P : /\ seg[y] = s /\ val[y] = val2[x]
                           /\ \A q \in P : seg[q] <= s => ord[q] <= ord[y]
    <3> SUFFICES ASSUME x \notin Q, ~(s = 0 /\ val2[x] = 0)
                 PROVE  \E y \in P : /\ seg[y] = s /\ val[y] = val2[x]
                                     /\ \A q \in P : seg[q] <= s => ord[q] <= ord[y]
      OBVIOUS
    <3>1. call(w).type # "PUT" /\ val2[x] = v
      BY <1>1, <2>1, <2>4
    <3>2. PICK y \in DonePuts(K) : LastOf(K, seg, ord, y, s) /\ calls[y].v = v
      BY <3>1 DEF MayAct
    <3>3. seg[y] = s /\ \A q \in DonePuts(K) : seg[q] <= s => ord[q] <= ord[y]
      BY <3>2 DEF LastOf
    <3>4. y \in P /\ val[y] = val2[x]
      BY <3>1, <3>2, <2>1, <2>2, <2>4
    <3> QED BY <3>3, <3>4, <2>1
  <2>8. LegalIn(D \cup {x}, Q, ord2, seg2, val2)
    <3>1. InsertsCall(D, x, s, ord, ord2, seg, seg2, val, val2, P, Q)
      BY <1>8, <1>10, <2>2, <2>5, <2>7 DEF InsertsCall
    <3> QED BY <3>1, <2>6, InsertLegal
  <2>9. \A i \in D \cup {x} : val2[i] = calls'[i].v
    BY <2>4, <1>8
  <2>10. Q \subseteq D \cup {x}
    BY <2>2
  <2> SUFFICES ASSUME NEW g \in (D \cup {x}) \ Q, ~(seg2[g] = 0 /\ calls'[g].v = 0)
               PROVE  \E y \in Q :
                        /\ seg2[y] = seg2[g] /\ ord2[y] < ord2[g] /\ calls'[y].v = calls'[g].v
                        /\ \A q \in Q : ord2[q] < ord2[g] => ord2[q] <= ord2[y]
    BY <1>11, <2>1, Zenon DEF Legal
  <2>11. PICK y \in Q : /\ seg2[y] = seg2[g] /\ ord2[y] < ord2[g] /\ val2[y] = val2[g]
                        /\ \A q \in Q : ord2[q] < ord2[g] => ord2[q] <= ord2[y]
    BY <2>8, <2>9 DEF LegalIn
  <2>12. calls'[y].v = calls'[g].v
    BY <2>9, <2>10, <2>11
  <2> QED BY <2>11, <2>12
<1>15. InTime(K, ord2)'
  <2> SUFFICES ASSUME NEW i \in D \cup {x}, NEW j \in D \cup {x}, i \in calls'[j].after
               PROVE  ord2[i] < ord2[j]
    BY <1>11 DEF InTime
  <2>1. i # x
    BY <1>1, <1>6
  <2>2. CASE j = x
    <3>1. i \in Done(K) /\ i \in call(w).after /\ i \in D
      BY <2>1, <2>2, <1>1, <1>6
    <3>2. calls[i].k = K
      BY <3>1 DEF Done
    <3>3. seg[i] <= s
      BY <3>1, <3>2 DEF MayAct
    <3> QED BY <2>2, <3>1, <3>3, <1>10
  <2>3. CASE j # x
    <3>1. i \in Done(K) /\ j \in Done(K) /\ i \in calls[j].after /\ i \in D /\ j \in D
      BY <2>1, <2>3, <1>1, <1>6
    <3>2. ord[i] < ord[j]
      BY <3>1, <1>3 DEF InTime
    <3> QED BY <3>1, <3>2, <1>10
  <2> QED BY <2>2, <2>3
<1>16. \A y \in DonePuts(K)' : seg2[y] > 0
  <2>1. \A y \in DonePuts(K) : seg2[y] > 0
    BY <1>1, <1>2, <1>3, <1>6, <1>8
  <2>2. CASE call(w).type = "PUT"
    BY <2>1, <2>2, <1>1, <1>8 DEF MayAct
  <2>3. CASE call(w).type # "PUT"
    BY <2>1, <2>3, <1>1
  <2> QED BY <2>2, <2>3
<1>17. ASSUME NEW k \in Keys, k # K, NEW i \in Done(k)
       PROVE  ord2[i] = ord[i] /\ seg2[i] = seg[i]
  <2>1. i \in Nat /\ i # x
    BY <1>1, <1>2
  <2>2. i \notin Done(K)
    BY <1>17 DEF Done
  <2> QED BY <2>1, <2>2, <1>6, <1>7
<1>18. Linearized(seg2, ord2)'
  <2> SUFFICES ASSUME NEW k \in Keys PROVE LinearizedOn(k, seg2, ord2)'
    BY DEF Linearized
  <2>1. CASE k = K
    <3>1. LinearizedOn(K, seg2, ord2)'
      BY <1>12, <1>13, <1>14, <1>15, <1>16 DEF LinearizedOn
    <3> QED BY <2>1, <3>1
  <2>2. CASE k # K
    <3>1. SamePlaces(k, seg, ord, seg2, ord2)
      BY <2>2, <1>1, <1>17 DEF SamePlaces
    <3>2. LinearizedOn(k, seg, ord)
      BY DEF Linearized
    <3> QED BY <3>1, <3>2, OtherKey
  <2> QED BY <2>1, <2>2
<1>19. Inserted(K, seg, ord, ord2, x, s)
  <2>1. \A i \in Done(K) : /\ seg[i] <= s => ord2[i] < ord2[x]
                           /\ seg[i] > s => ord2[x] < ord2[i]
    BY <1>10, <1>6
  <2>2. ASSUME NEW k \in Keys, NEW i \in Done(k), NEW j \in Done(k), ord[i] <= ord[j]
        PROVE  ord2[i] <= ord2[j]
    <3>1. CASE k = K
      <4>1. i \in D /\ j \in D
        BY <3>1, <1>6
      <4>2. ~(ord2[j] < ord2[i])
        BY <4>1, <2>2, <1>8, <1>10
      <4> QED BY <4>1, <4>2, <1>8
    <3>2. CASE k # K
      BY <3>2, <2>2, <1>17
    <3> QED BY <3>1, <3>2
  <2> QED BY <2>1, <2>2 DEF Inserted
<1> QED BY <1>7, <1>18, <1>19

-----------------------------------------------------------------------------
(* Steps of one worker *)

\* What the type invariant says of nodes, heads and workers.
LEMMA Typed ==
    ASSUME HTypeOK
    PROVE  /\ Len(node) \in Nat /\ DOMAIN node = Nodes /\ Nodes \subseteq Nat
           /\ \A n \in Nodes : /\ node[n] \in [key : Keys, value : Values, next : 0..Len(node)]
                               /\ node[n].next \in 0..Len(node) /\ node[n].key \in Keys
                               /\ BucketOf(n) \in 0..(TableSize - 1)
           /\ \A b \in 0..(TableSize - 1) : heads[b] \in 0..Len(node)
           /\ \A w \in Workers : current[w] \in 0..Len(node) /\ newNode[w] \in 0..Len(node)
           /\ \A n \in 0..Len(node) : n \in Nat /\ (n # NULL => n \in Nodes)
           /\ NULL \in Nat \ Nodes /\ Len(node) + 1 \in Nat \ Nodes
           /\ \A w \in Workers : pc[w] # "idle" =>
                 /\ mine[w] \in 1..Len(calls) /\ mine[w] \in DOMAIN calls
                 /\ call(w) \in Call /\ call(w).k \in Keys
                 /\ bucket(w) \in 0..(TableSize - 1)
<1>1. Len(node) \in Nat /\ DOMAIN node = Nodes /\ Nodes \subseteq Nat
  BY DEF HTypeOK, Nodes
<1>2. \A n \in Nodes : node[n] \in [key : Keys, value : Values, next : 0..Len(node)]
  BY <1>1 DEF HTypeOK, TypeOK
<1>3. \A n \in Nodes : node[n].next \in 0..Len(node) /\ node[n].key \in Keys
  BY <1>2
<1>4. \A n \in Nodes : BucketOf(n) \in 0..(TableSize - 1)
  BY <1>3, HashRange DEF BucketOf
<1>5. /\ \A b \in 0..(TableSize - 1) : heads[b] \in 0..Len(node)
      /\ \A w \in Workers : current[w] \in 0..Len(node) /\ newNode[w] \in 0..Len(node)
  BY DEF HTypeOK, TypeOK
<1>6. ASSUME NEW w \in Workers, pc[w] # "idle"
      PROVE  /\ mine[w] \in 1..Len(calls) /\ mine[w] \in DOMAIN calls
             /\ call(w) \in Call /\ call(w).k \in Keys
             /\ bucket(w) \in 0..(TableSize - 1)
  <2>1. calls \in Seq(Call) /\ mine[w] \in 1..Len(calls) /\ mine[w] \in DOMAIN calls
    BY <1>6 DEF HTypeOK, TypeOK
  <2>2. call(w) \in Call
    BY <2>1 DEF call
  <2>3. call(w).k \in Keys
    BY <2>2 DEF Call
  <2> QED BY <2>1, <2>2, <2>3, HashRange DEF bucket
<1>7. /\ \A n \in 0..Len(node) : n \in Nat /\ (n # NULL => n \in Nodes)
      /\ NULL \in Nat \ Nodes /\ Len(node) + 1 \in Nat \ Nodes
  BY <1>1 DEF Nodes, NULL
<1> QED BY <1>1, <1>2, <1>3, <1>4, <1>5, <1>6, <1>7

\* A call that had returned is a finished call on its key.
LEMMA AfterDone ==
    ASSUME HTypeOK, NEW i \in DOMAIN calls, NEW j \in calls[i].after
    PROVE  j \in DOMAIN calls /\ calls[j].k \in Keys /\ j \in Done(calls[j].k) /\ j \in Nat
<1>1. j \in DOMAIN calls /\ calls[j].returned
  BY Zenon DEF HTypeOK
<1>2. calls \in Seq(Call)
  BY DEF HTypeOK
<1>a. j \in DOMAIN calls
  BY <1>1
<1>b. j \in Nat /\ calls[j] \in Call
  BY <1>a, <1>2
<1>3. calls[j].k \in Keys /\ j \in Nat
  BY <1>b DEF Call
<1> QED BY <1>1, <1>3 DEF Done

\* The other workers do not notice a step of w.
Moves(w) ==
    \A z \in Workers : z # w =>
        /\ pc'[z] = pc[z] /\ current'[z] = current[z] /\ newNode'[z] = newNode[z]
        /\ pc[z] # "idle" => call(z)' = call(z)

\* The finished calls are the same after the step.
SameHistory ==
    /\ \A k \in Keys : /\ Done(k)' = Done(k) /\ DonePuts(k)' = DonePuts(k)
                       /\ \A i \in Done(k) : calls'[i] = calls[i]
    /\ \A j \in DOMAIN calls : calls'[j].k = calls[j].k

\* Nodes stay where they are and keep their keys.
KeepsNodes == Len(node') >= Len(node) /\ \A n \in Nodes : node'[n].key = node[n].key

\* A step that does not touch the history keeps its linearization.
LEMMA SameLinearized ==
    ASSUME SameHistory, NEW seg \in [Nat -> Nat], NEW ord \in [Nat -> Nat],
           Linearized(seg, ord)
    PROVE  Linearized(seg, ord)'
<1> SUFFICES ASSUME NEW k \in Keys PROVE LinearizedOn(k, seg, ord)'
  BY DEF Linearized
<1>1. LinearizedOn(k, seg, ord)
  BY DEF Linearized
<1>2. SamePlaces(k, seg, ord, seg, ord)
  BY DEF SamePlaces, SameHistory
<1> QED BY <1>1, <1>2, OtherKey

\* If calls does not change, the history does not.
LEMMA SameCalls == calls' = calls => SameHistory
BY DEF SameHistory, Done, DonePuts

\* A new call is not finished.
LEMMA InvokeHistory ==
    ASSUME HTypeOK, NEW w \in Workers, NEW type, NEW k \in Keys, NEW v, Invoke(w, type, k, v)
    PROVE  SameHistory /\ Moves(w) /\ \A j \in DOMAIN calls : calls'[j] = calls[j]
<1> DEFINE c == [type |-> type, k |-> k, v |-> v,
                 returned |-> FALSE, after |-> Returned]
<1>1. /\ calls' = Append(calls, c) /\ calls \in Seq(Call) /\ c.returned = FALSE
      /\ pc' = [pc EXCEPT ![w] = "load"] /\ mine' = [mine EXCEPT ![w] = Len(calls) + 1]
      /\ current' = current /\ newNode' = newNode
  BY DEF Invoke, HTypeOK
<1> HIDE DEF c
<1>2. /\ Len(calls) \in Nat
      /\ DOMAIN calls = 1..Len(calls) /\ DOMAIN calls' = 1..(Len(calls) + 1)
      /\ calls'[Len(calls) + 1] = c
      /\ \A i \in 1..Len(calls) : calls'[i] = calls[i]
  BY <1>1
<1>3. ASSUME NEW q, NEW i PROVE i \in Done(q)' <=> i \in Done(q)
  <2>1. CASE i = Len(calls) + 1
    <3>1. calls'[i].returned = FALSE /\ i \notin DOMAIN calls
      BY <2>1, <1>1, <1>2
    <3> QED BY <3>1 DEF Done
  <2>2. CASE i # Len(calls) + 1
    <3>1. i \in DOMAIN calls' <=> i \in DOMAIN calls
      BY <2>2, <1>2
    <3>2. i \in DOMAIN calls => calls'[i] = calls[i]
      BY <1>2
    <3> QED BY <3>1, <3>2 DEF Done
  <2> QED BY <2>1, <2>2
<1>4. \A q \in Keys : Done(q)' = Done(q) /\ \A i \in Done(q) : calls'[i] = calls[i]
  <2>1. \A q \in Keys : Done(q)' = Done(q)
    BY <1>3
  <2>2. \A q \in Keys : \A i \in Done(q) : i \in DOMAIN calls
    BY DEF Done
  <2> QED BY <2>1, <2>2, <1>2
<1>5. \A q \in Keys : DonePuts(q)' = DonePuts(q)
  BY <1>4 DEF DonePuts
<1>6. Moves(w)
  <2> SUFFICES ASSUME NEW z \in Workers, z # w
               PROVE  /\ pc'[z] = pc[z] /\ current'[z] = current[z] /\ newNode'[z] = newNode[z]
                      /\ pc[z] # "idle" => call(z)' = call(z)
    BY DEF Moves
  <2>1. pc'[z] = pc[z] /\ mine'[z] = mine[z]
    BY <1>1 DEF HTypeOK, TypeOK
  <2>2. pc[z] # "idle" => mine[z] \in 1..Len(calls)
    BY Typed
  <2> QED BY <2>1, <2>2, <1>1, <1>2 DEF call
<1> QED BY <1>2, <1>4, <1>5, <1>6 DEF SameHistory

\* Finished calls still name nodes of their key.
LEMMA ActedKept ==
    ASSUME HTypeOK, NEW rank, NEW seg, SameHistory, KeepsNodes, Len(node') \in Nat, Acted(rank, seg)
    PROVE  Acted(rank, seg)'
<1> SUFFICES ASSUME NEW k \in Keys, NEW i \in Done(k), seg[i] > 0
             PROVE  \E n \in Nodes' : rank[n] = seg[i] /\ node'[n].key = k
  BY DEF Acted, SameHistory
<1>1. PICK n \in Nodes : rank[n] = seg[i] /\ node[n].key = k
  BY DEF Acted
<1>2. n \in Nodes' /\ node'[n].key = k
  BY <1>1, Typed DEF KeepsNodes, Nodes
<1> QED BY <1>1, <1>2

\* The walk of a worker that does not move is undisturbed.
LEMMA WalkKept ==
    ASSUME HTypeOK, NEW w \in Workers, NEW z \in Workers, z # w, Moves(w),
           KeepsNodes, NEW rank, NEW seg, NEW rank2, NEW seg2,
           \A n \in Nodes : rank[n] > 0 => rank2[n] = rank[n],
           rank[NULL] = 0, rank2[NULL] = 0,
           \A j \in DOMAIN calls : calls'[j].k = calls[j].k,
           \A j \in call(z).after : seg2[j] = seg[j],
           pc[z] = "walk", WalkingBy(z, rank, seg)
    PROVE  WalkingBy(z, rank2, seg2)'
<1>1. /\ current'[z] = current[z] /\ call(z)' = call(z) /\ current[z] \in 0..Len(node)
      /\ Len(node) \in Nat
  BY Typed DEF Moves
<1>2. bucket(z)' = bucket(z)
  BY <1>1 DEF bucket
<1>3. current[z] # NULL => /\ current[z] \in Nodes /\ rank[current[z]] > 0
                           /\ BucketOf(current[z]) = bucket(z)
  BY <1>1 DEF WalkingBy, Nodes, NULL
<1>4. current[z] # NULL => BucketOf(current[z])' = BucketOf(current[z])
  BY <1>1, <1>3 DEF BucketOf, KeepsNodes
<1>5. rank2[current[z]] = rank[current[z]]
  BY <1>3
<1>6. \A j \in call(z).after : calls[j].k = call(z).k => seg[j] <= rank[current[z]]
  BY DEF WalkingBy
<1>7. \A j \in call(z).after : j \in DOMAIN calls
  <2>1. mine[z] \in DOMAIN calls
    BY Typed
  <2> QED BY <2>1, AfterDone DEF call
<1>8. \A j \in call(z).after : calls'[j].k = call(z).k => seg2[j] <= rank2[current[z]]
  BY <1>5, <1>6, <1>7
<1> QED BY <1>1, <1>2, <1>3, <1>4, <1>5, <1>8 DEF WalkingBy

\* The new node of a worker that does not move is undisturbed.
LEMMA HeldKept ==
    ASSUME HTypeOK, NEW w \in Workers, NEW z \in Workers, z # w, Moves(w),
           KeepsNodes, NEW rank \in [Nat -> Nat], NEW rank2 \in [Nat -> Nat],
           pc[z] \in {"cas", "relink"}, HeldBy(z, rank),
           node'[newNode[z]].value = node[newNode[z]].value, rank2[newNode[z]] = 0
    PROVE  HeldBy(z, rank2)'
<1>1. newNode'[z] = newNode[z] /\ call(z)' = call(z) /\ newNode[z] \in Nodes
  BY Typed DEF Moves, HeldBy, Nodes, NULL
<1>2. node'[newNode[z]].key = node[newNode[z]].key
  BY <1>1 DEF KeepsNodes
<1> QED BY <1>1, <1>2 DEF HeldBy

\* A step inside a call that publishes nothing keeps every witness.
LEMMA QuietStep ==
    ASSUME HTypeOK, HTypeOK', NEW w \in Workers, Moves(w), SameHistory, KeepsNodes,
           NEW rank \in [Nat -> Nat], NEW top \in Nat,
           NEW seg \in [Nat -> Nat], NEW ord \in [Nat -> Nat],
           Witnessed(rank, top, seg, ord), Ranked(rank, top)',
           \A n \in Nodes : rank[n] > 0 => node'[n] = node[n],
           \A z \in Workers : z # w /\ pc[z] \in {"cas", "relink"} =>
              node'[newNode[z]].value = node[newNode[z]].value,
           pc'[w] = "walk" => WalkingBy(w, rank, seg)',
           pc'[w] \in {"cas", "relink"} => HeldBy(w, rank)',
           pc'[w] \in {"cas", "relink"} =>
              \A z \in Workers : z # w /\ pc[z] \in {"cas", "relink"} => newNode[z] # newNode'[w]
    PROVE  Witnessed(rank, top, seg, ord)'
<1>1. /\ Ranked(rank, top) /\ Held(rank) /\ Walking(rank, seg)
      /\ Acted(rank, seg) /\ Linearized(seg, ord) /\ Valued(rank, seg, ord)
  BY DEF Witnessed
<1>2. Held(rank)'
  <2>1. ASSUME NEW z \in Workers, pc'[z] \in {"cas", "relink"} PROVE HeldBy(z, rank)'
    <3>1. CASE z = w
      BY <2>1, <3>1
    <3>2. CASE z # w
      <4>1. pc[z] \in {"cas", "relink"}
        BY <2>1, <3>2 DEF Moves
      <4>2. HeldBy(z, rank)
        BY <4>1, <1>1 DEF Held
      <4>3. rank[newNode[z]] = 0
        BY <4>2 DEF HeldBy
      <4> QED BY <3>2, <4>1, <4>2, <4>3, HeldKept
    <3> QED BY <3>1, <3>2
  <2>2. ASSUME NEW y \in Workers, NEW z \in Workers,
               pc'[y] \in {"cas", "relink"}, pc'[z] \in {"cas", "relink"},
               newNode'[y] = newNode'[z]
        PROVE  y = z
    <3>1. CASE y # w /\ z # w
      BY <2>2, <3>1, <1>1 DEF Moves, Held
    <3>2. CASE y = w \/ z = w
      BY <2>2, <3>2 DEF Moves
    <3> QED BY <3>1, <3>2
  <2> QED BY <2>1, <2>2 DEF Held
<1>3. rank[NULL] = 0 /\ \A j \in DOMAIN calls : calls'[j].k = calls[j].k
  BY <1>1, Typed DEF Ranked, SameHistory, Nodes, NULL
<1>4. Walking(rank, seg)'
  <2> SUFFICES ASSUME NEW z \in Workers, pc'[z] = "walk" PROVE WalkingBy(z, rank, seg)'
    BY DEF Walking
  <2>1. CASE z = w
    BY <2>1
  <2>2. CASE z # w
    <3>1. pc[z] = "walk"
      BY <2>2 DEF Moves
    <3>2. WalkingBy(z, rank, seg)
      BY <3>1, <1>1 DEF Walking
    <3> QED BY <2>2, <3>1, <3>2, <1>3, WalkKept
  <2> QED BY <2>1, <2>2
<1>5. Acted(rank, seg)'
  <2>1. Len(node') \in Nat
    BY DEF HTypeOK
  <2> QED BY <2>1, <1>1, ActedKept
<1>6. Linearized(seg, ord)'
  BY <1>1, SameLinearized
<1>7. Valued(rank, seg, ord)'
  <2> SUFFICES ASSUME NEW n \in Nodes', rank[n] > 0
               PROVE  ValuedAt(n, node[n].key, node[n].value, rank, seg, ord)'
    BY DEF Valued
  <2>1. n \in Nodes
    <3>1. n \in Nat
      BY DEF Nodes, HTypeOK
    <3> QED BY <3>1, <1>1 DEF Ranked
  <2>2. node'[n] = node[n] /\ node[n].key \in Keys
    BY <2>1, Typed
  <2>3. PICK k \in Keys, v \in Values : k = node[n].key /\ v = node[n].value
    BY <2>1, Typed
  <2>4. ValuedAt(n, k, v, rank, seg, ord)
    BY <2>1, <2>3, <1>1 DEF Valued
  <2>5. PICK p \in DonePuts(k) : LastOf(k, seg, ord, p, rank[n]) /\ calls[p].v = v
    BY <2>4 DEF ValuedAt
  <2>6. /\ DonePuts(k)' = DonePuts(k) /\ calls'[p] = calls[p]
    BY <2>5 DEF SameHistory, DonePuts
  <2>7. LastOf(k, seg, ord, p, rank[n])'
    BY <2>5, <2>6 DEF LastOf
  <2>8. ValuedAt(n, k, v, rank, seg, ord)'
    BY <2>5, <2>6, <2>7 DEF ValuedAt
  <2> QED BY <2>2, <2>3, <2>8
<1> QED BY <1>2, <1>4, <1>5, <1>6, <1>7 DEF Witnessed

\* One more node.
LEMMA RangeGrows == ASSUME NEW n \in Nat PROVE 1..(n + 1) = (1..n) \cup {n + 1}
OBVIOUS

\* A step that changes neither heads nor nodes keeps the chains.
LEMMA SameRanked ==
    ASSUME NEW rank, NEW top, Ranked(rank, top), UNCHANGED <<heads, node>>
    PROVE  Ranked(rank, top)' /\ KeepsNodes /\ Nodes' = Nodes
BY DEF Ranked, KeepsNodes, Nodes, BucketOf

\* Only the worker of the step changes its variables.
LEMMA MovesOne ==
    ASSUME HTypeOK, NEW w \in Workers, NEW p, NEW c, NEW u,
           pc' = [pc EXCEPT ![w] = p], current' = [current EXCEPT ![w] = c],
           newNode' = [newNode EXCEPT ![w] = u], UNCHANGED <<calls, mine>>
    PROVE  Moves(w) /\ pc'[w] = p /\ current'[w] = c /\ newNode'[w] = u
BY DEF Moves, call, HTypeOK, TypeOK

\* The head of a bucket is at least as young as every node of a finished call
\* on a key of the bucket.
LEMMA HeadIsLast ==
    ASSUME HTypeOK, NEW rank \in [Nat -> Nat], NEW top, NEW seg \in [Nat -> Nat],
           Ranked(rank, top), Acted(rank, seg),
           NEW k \in Keys, NEW j \in Done(k)
    PROVE  seg[j] <= rank[heads[hash_function(k)]]
<1>0. seg[j] \in Nat /\ hash_function(k) \in 0..(TableSize - 1)
  <2>1. j \in Nat
    BY DoneFinite
  <2> QED BY <2>1, HashRange
<1>1. rank[heads[hash_function(k)]] \in Nat
  <2>1. heads[hash_function(k)] \in Nat
    BY <1>0, Typed
  <2> QED BY <2>1
<1>2. CASE seg[j] = 0
  BY <1>1, <1>2
<1>3. CASE seg[j] > 0
  <2>1. PICK n \in Nodes : rank[n] = seg[j] /\ node[n].key = k
    BY <1>3 DEF Acted
  <2>2. BucketOf(n) = hash_function(k)
    BY <2>1 DEF BucketOf
  <2> QED BY <2>1, <2>2 DEF Ranked
<1> QED BY <1>0, <1>2, <1>3

\* LoadHead: the walk starts at the youngest node.
LEMMA LoadHeadKeeps ==
    ASSUME HTypeOK, HTypeOK', NEW w \in Workers, LoadHead(w),
           NEW rank \in [Nat -> Nat], NEW top \in Nat,
           NEW seg \in [Nat -> Nat], NEW ord \in [Nat -> Nat],
           Witnessed(rank, top, seg, ord)
    PROVE  Witnessed(rank, top, seg, ord)'
<1>1. Ranked(rank, top) /\ Acted(rank, seg)
  BY DEF Witnessed
<1>2. /\ pc[w] = "load" /\ UNCHANGED <<heads, node, calls, mine>>
      /\ current' = [current EXCEPT ![w] = heads[bucket(w)]]
      /\ pc' = [pc EXCEPT ![w] = "walk"] /\ newNode' = [newNode EXCEPT ![w] = newNode[w]]
  BY DEF LoadHead, HTypeOK, TypeOK
<1>3. Moves(w) /\ pc'[w] = "walk" /\ current'[w] = heads[bucket(w)]
  BY <1>2, MovesOne
<1>4. SameHistory
  BY <1>2, SameCalls
<1>5. Ranked(rank, top)' /\ KeepsNodes
  BY <1>1, <1>2, SameRanked
<1>6. /\ mine[w] \in DOMAIN calls /\ call(w).k \in Keys
      /\ bucket(w) \in 0..(TableSize - 1) /\ call(w)' = call(w) /\ bucket(w)' = bucket(w)
      /\ heads[bucket(w)] \in 0..Len(node)
  BY <1>2, Typed DEF call, bucket
<1>7. WalkingBy(w, rank, seg)'
  <2>1. heads[bucket(w)] # NULL =>
           rank[heads[bucket(w)]] > 0 /\ BucketOf(heads[bucket(w)]) = bucket(w)
    BY <1>1, <1>6 DEF Ranked
  <2>2. PICK h : h = heads[bucket(w)]
    OBVIOUS
  <2>3. BucketOf(h)' = BucketOf(h)
    BY <1>2 DEF BucketOf
  <2>4. ASSUME NEW j \in call(w).after, calls[j].k = call(w).k
        PROVE  seg[j] <= rank[h]
    <3>1. j \in Done(call(w).k)
      BY <2>4, <1>6, AfterDone DEF call
    <3> QED BY <3>1, <2>2, <1>1, <1>6, HeadIsLast DEF bucket
  <2> QED BY <2>1, <2>2, <2>3, <2>4, <1>2, <1>3, <1>6 DEF WalkingBy
<1>8. \A n \in Nodes : node'[n] = node[n]
  BY <1>2
<1>9. \A z \in Workers : node'[newNode[z]].value = node[newNode[z]].value
  BY <1>2
<1> QED BY <1>3, <1>4, <1>5, <1>7, <1>8, <1>9, QuietStep

\* WalkNext: no node of the worker's key lies between a node and its next.
LEMMA WalkNextKeeps ==
    ASSUME HTypeOK, HTypeOK', NEW w \in Workers, WalkNext(w),
           NEW rank \in [Nat -> Nat], NEW top \in Nat,
           NEW seg \in [Nat -> Nat], NEW ord \in [Nat -> Nat],
           Witnessed(rank, top, seg, ord)
    PROVE  Witnessed(rank, top, seg, ord)'
<1>1. Ranked(rank, top) /\ Acted(rank, seg) /\ Walking(rank, seg)
  BY DEF Witnessed
<1>2. /\ pc[w] = "walk" /\ UNCHANGED <<heads, node, calls, mine>>
      /\ current[w] # NULL /\ node[current[w]].key # call(w).k
      /\ current' = [current EXCEPT ![w] = node[current[w]].next]
      /\ pc' = [pc EXCEPT ![w] = "walk"] /\ newNode' = [newNode EXCEPT ![w] = newNode[w]]
  BY DEF WalkNext, Matches, HTypeOK, TypeOK
<1>3. Moves(w) /\ pc'[w] = "walk" /\ current'[w] = node[current[w]].next
  <2>1. PICK h : h = node[current[w]].next
    OBVIOUS
  <2>2. /\ current' = [current EXCEPT ![w] = h] /\ pc' = [pc EXCEPT ![w] = "walk"]
        /\ newNode' = [newNode EXCEPT ![w] = newNode[w]] /\ UNCHANGED <<calls, mine>>
    BY <1>2, <2>1
  <2>3. Moves(w) /\ pc'[w] = "walk" /\ current'[w] = h
    BY <2>2, MovesOne
  <2> QED BY <2>1, <2>3
<1>4. SameHistory
  BY <1>2, SameCalls
<1>5. Ranked(rank, top)' /\ KeepsNodes
  BY <1>1, <1>2, SameRanked
<1>6. /\ mine[w] \in DOMAIN calls /\ call(w).k \in Keys
      /\ call(w)' = call(w) /\ bucket(w)' = bucket(w)
      /\ current[w] \in Nodes /\ node[current[w]].next \in 0..Len(node) /\ Len(node) \in Nat
  <2>1. call(w)' = call(w)
    BY <1>2 DEF call
  <2>2. bucket(w)' = bucket(w)
    BY <2>1 DEF bucket
  <2> QED BY <1>2, <2>1, <2>2, Typed
<1>7. PICK c \in Nodes : c = current[w]
  BY <1>6
<1>8. PICK h \in 0..Len(node) : h = node[c].next
  BY <1>6, <1>7
<1>9. WalkingBy(w, rank, seg)
  BY <1>1, <1>2 DEF Walking
<1>10. rank[c] > 0 /\ BucketOf(c) = bucket(w)
  BY <1>2, <1>7, <1>9 DEF WalkingBy
<1>11. h # NULL => rank[h] > 0 /\ BucketOf(h) = bucket(w)
  BY <1>1, <1>7, <1>8, <1>10 DEF Ranked
<1>12. ASSUME NEW j \in call(w).after, calls[j].k = call(w).k
       PROVE  seg[j] <= rank[h]
  <2>1. j \in Done(call(w).k) /\ j \in Nat
    BY <1>12, <1>6, AfterDone DEF call
  <2>2. seg[j] <= rank[c]
    BY <1>7, <1>9, <1>12 DEF WalkingBy
  <2>3. h \in Nat /\ c \in Nat
    BY <1>6, Typed
  <2>4. PICK a \in Nat : a = seg[j]
    BY <2>1
  <2>5. a <= rank[c] /\ rank[c] \in Nat /\ rank[h] \in Nat
    BY <2>2, <2>3, <2>4
  <2>6. CASE a = 0
    BY <2>4, <2>5, <2>6
  <2>7. CASE a > 0
    <3>1. PICK m \in Nodes : rank[m] = a /\ node[m].key = call(w).k
      BY <2>1, <2>4, <2>7, <1>1, <1>6 DEF Acted
    <3>2. m # c /\ BucketOf(m) = BucketOf(c)
      BY <3>1, <1>2, <1>7, <1>10 DEF BucketOf, bucket
    <3>3. a # rank[c]
      BY <3>1, <3>2, <2>7, <1>1, <1>7 DEF Ranked
    <3>4. a < rank[c]
      BY <3>3, <2>3, <2>5
    <3>5. a <= rank[node[c].next]
      BY <3>1, <3>2, <3>4, <2>7, <1>1, <1>7 DEF Ranked
    <3> QED BY <3>5, <2>4, <1>8
  <2> QED BY <2>6, <2>7
<1>13. BucketOf(h)' = BucketOf(h)
  BY <1>2 DEF BucketOf
<1>14. WalkingBy(w, rank, seg)'
  BY <1>2, <1>3, <1>6, <1>7, <1>8, <1>11, <1>12, <1>13 DEF WalkingBy
<1>15. \A n \in Nodes : node'[n] = node[n]
  BY <1>2
<1>16. \A z \in Workers : node'[newNode[z]].value = node[newNode[z]].value
  BY <1>2
<1> QED BY <1>3, <1>4, <1>5, <1>14, <1>15, <1>16, QuietStep

\* put and get: a new call touches no node.
LEMMA InvokeKeeps ==
    ASSUME HTypeOK, HTypeOK', NEW w \in Workers,
           NEW type, NEW k \in Keys, NEW v, Invoke(w, type, k, v),
           NEW rank \in [Nat -> Nat], NEW top \in Nat,
           NEW seg \in [Nat -> Nat], NEW ord \in [Nat -> Nat],
           Witnessed(rank, top, seg, ord)
    PROVE  Witnessed(rank, top, seg, ord)'
<1>1. UNCHANGED <<heads, node>> /\ pc'[w] = "load"
  BY DEF Invoke, HTypeOK, TypeOK
<1>2. Ranked(rank, top)
  BY DEF Witnessed
<1>3. Ranked(rank, top)' /\ KeepsNodes
  BY <1>1, <1>2, SameRanked
<1>4. SameHistory /\ Moves(w)
  BY InvokeHistory
<1>5. /\ \A n \in Nodes : node'[n] = node[n]
      /\ \A z \in Workers : node'[newNode[z]].value = node[newNode[z]].value
      /\ pc'[w] # "walk" /\ pc'[w] \notin {"cas", "relink"}
  BY <1>1
<1> QED BY <1>3, <1>4, <1>5, QuietStep

\* NewNode: the new node is linked to a published one and is the worker's own.
LEMMA NewNodeKeeps ==
    ASSUME HTypeOK, HTypeOK', NEW w \in Workers, NewNode(w),
           NEW rank \in [Nat -> Nat], NEW top \in Nat,
           NEW seg \in [Nat -> Nat], NEW ord \in [Nat -> Nat],
           Witnessed(rank, top, seg, ord)
    PROVE  Witnessed(rank, top, seg, ord)'
<1>1. Ranked(rank, top)
  BY DEF Witnessed
<1> DEFINE e == [key |-> call(w).k, value |-> call(w).v, next |-> heads[bucket(w)]]
<1>2. /\ pc[w] = "walk" /\ UNCHANGED <<heads, calls, mine>>
      /\ node' = Append(node, e)
      /\ current' = [current EXCEPT ![w] = current[w]]
      /\ pc' = [pc EXCEPT ![w] = "cas"] /\ newNode' = [newNode EXCEPT ![w] = Len(node) + 1]
  BY DEF NewNode, HTypeOK, TypeOK
<1>3. e.key = call(w).k /\ e.value = call(w).v /\ e.next = heads[bucket(w)]
  OBVIOUS
<1> HIDE DEF e
<1>4. Moves(w) /\ pc'[w] = "cas" /\ newNode'[w] = Len(node) + 1
  BY <1>2, MovesOne
<1>5. SameHistory
  BY <1>2, SameCalls
<1>6. /\ call(w).k \in Keys /\ bucket(w) \in 0..(TableSize - 1) /\ call(w)' = call(w)
      /\ heads[bucket(w)] \in 0..Len(node) /\ Len(node) \in Nat
      /\ bucket(w) = hash_function(call(w).k)
  BY <1>2, Typed DEF call, bucket
<1>7. node \in Seq([key : Keys, value : Values, next : Nat])
  BY DEF HTypeOK
<1>8. /\ Len(node') = Len(node) + 1 /\ node'[Len(node) + 1] = e
      /\ \A n \in Nodes : node'[n] = node[n]
      /\ Nodes' = Nodes \cup {Len(node) + 1} /\ Len(node) + 1 \notin Nodes
  <2>1. Len(node') = Len(node) + 1 /\ node'[Len(node) + 1] = e
    BY <1>2, <1>6, <1>7
  <2>2. \A n \in 1..Len(node) : node'[n] = node[n]
    BY <1>2, <1>6, <1>7
  <2>3. 1..(Len(node) + 1) = (1..Len(node)) \cup {Len(node) + 1}
    BY <1>6, RangeGrows
  <2>4. Len(node) + 1 \notin 1..Len(node)
    BY <1>6
  <2> QED BY <2>1, <2>2, <2>3, <2>4, Zenon DEF Nodes
<1>9. KeepsNodes
  <2>1. Len(node') >= Len(node)
    BY <1>6, <1>8
  <2> QED BY <2>1, <1>8 DEF KeepsNodes
<1>10. PICK u \in Nat : u = Len(node) + 1
  BY <1>6
<1>11. /\ rank[u] = 0 /\ u \notin Nodes /\ u # NULL /\ Nodes' = Nodes \cup {u}
       /\ node'[u] = e /\ rank[NULL] = 0
  <2>1. u \in Nat \ Nodes /\ NULL \in Nat \ Nodes /\ u # NULL
    BY <1>6, <1>8, <1>10, Typed DEF NULL
  <2>2. rank[u] = 0 /\ rank[NULL] = 0
    BY <2>1, <1>1 DEF Ranked
  <2> QED BY <2>1, <2>2, <1>8, <1>10
<1>12. \A n \in Nodes : BucketOf(n)' = BucketOf(n) /\ node'[n].next = node[n].next
  BY <1>8 DEF BucketOf
<1>13. BucketOf(u)' = bucket(w)
  BY <1>3, <1>6, <1>11 DEF BucketOf
<1>14. /\ \A n \in Nodes : node[n].next # NULL => node[n].next \in Nodes
       /\ \A b \in 0..(TableSize - 1) : heads[b] # NULL => heads[b] \in Nodes
       /\ \A n \in Nodes : n \in Nat /\ n # u /\ rank[n] \in Nat /\ BucketOf(n) \in 0..(TableSize - 1)
  BY <1>6, <1>11, Typed
<1>15. Ranked(rank, top)'
  <2>1. \A n \in Nat \ Nodes' : rank[n] = 0
    BY <1>1, <1>11 DEF Ranked
  <2>2. \A n \in Nodes' : rank[n] <= top
    BY <1>1, <1>11 DEF Ranked
  <2>3. \A m, n \in Nodes' : rank[m] > 0 /\ rank[m] = rank[n] => m = n
    BY <1>1, <1>11 DEF Ranked
  <2>4. ASSUME NEW n \in Nodes', node'[n].next # NULL
        PROVE  rank[node'[n].next] > 0 /\ BucketOf(node[n].next)' = BucketOf(n)'
    <3>1. CASE n = u
      <4>1. node'[n].next = heads[bucket(w)]
        BY <3>1, <1>3, <1>11
      <4>2. PICK h \in Nodes : h = heads[bucket(w)]
        BY <4>1, <2>4, <1>6, <1>14
      <4>3. rank[h] > 0 /\ BucketOf(h) = bucket(w)
        BY <4>1, <4>2, <2>4, <1>1, <1>6 DEF Ranked
      <4>4. BucketOf(h)' = BucketOf(n)'
        BY <4>3, <3>1, <1>12, <1>13
      <4> QED BY <4>1, <4>2, <4>3, <4>4 DEF BucketOf
    <3>2. CASE n # u
      <4>1. n \in Nodes /\ node'[n].next = node[n].next
        BY <3>2, <1>11, <1>12
      <4>2. PICK h \in Nodes : h = node[n].next
        BY <4>1, <2>4, <1>14
      <4>3. rank[h] > 0 /\ BucketOf(h) = BucketOf(n)
        BY <4>1, <4>2, <2>4, <1>1 DEF Ranked
      <4>4. BucketOf(h)' = BucketOf(n)'
        BY <4>1, <4>3, <1>12
      <4> QED BY <4>1, <4>2, <4>3, <4>4 DEF BucketOf
    <3> QED BY <3>1, <3>2
  <2>5. ASSUME NEW n \in Nodes', rank[n] > 0 PROVE rank[node'[n].next] < rank[n]
    <3>1. n \in Nodes /\ node'[n].next = node[n].next
      BY <2>5, <1>11, <1>12
    <3> QED BY <2>5, <3>1, <1>1 DEF Ranked
  <2>6. ASSUME NEW m \in Nodes', NEW n \in Nodes', rank[m] > 0,
               BucketOf(m)' = BucketOf(n)', rank[m] < rank[n]
        PROVE  rank[m] <= rank[node'[n].next]
    <3>1. m \in Nodes /\ n \in Nodes
      BY <2>6, <1>11, <1>14
    <3>2. BucketOf(m) = BucketOf(n)
      BY <3>1, <2>6, <1>12
    <3> QED BY <3>1, <3>2, <2>6, <1>1, <1>12 DEF Ranked
  <2>7. ASSUME NEW b \in 0..(TableSize - 1), heads'[b] # NULL
        PROVE  rank[heads'[b]] > 0 /\ BucketOf(heads[b])' = b
    <3>1. heads'[b] = heads[b] /\ heads[b] \in Nodes
      BY <2>7, <1>2, <1>14
    <3>2. rank[heads[b]] > 0 /\ BucketOf(heads[b]) = b
      BY <3>1, <2>7, <1>1 DEF Ranked
    <3> QED BY <3>1, <3>2, <1>8 DEF BucketOf
  <2>8. ASSUME NEW n \in Nodes' PROVE rank[n] <= rank[heads'[BucketOf(n)']]
    <3>1. CASE n = u
      <4>1. rank[heads'[BucketOf(n)']] \in Nat
        <5>1. BucketOf(n)' = bucket(w)
          BY <3>1, <1>13
        <5>2. heads[bucket(w)] \in Nat
          BY <1>6, Typed
        <5>3. heads' = heads
          BY <1>2
        <5> HIDE DEF BucketOf
        <5> QED BY <5>1, <5>2, <5>3
      <4> QED BY <4>1, <3>1, <1>11
    <3>2. CASE n # u
      BY <3>2, <1>1, <1>2, <1>11, <1>12 DEF Ranked
    <3> QED BY <3>1, <3>2
  <2> QED BY <2>1, <2>2, <2>3, <2>4, <2>5, <2>6, <2>7, <2>8 DEF Ranked
<1>16. HeldBy(w, rank)'
  BY <1>3, <1>4, <1>6, <1>8, <1>10, <1>11 DEF HeldBy
<1>17. ASSUME NEW z \in Workers, z # w, pc[z] \in {"cas", "relink"}
       PROVE  newNode[z] \in Nodes /\ newNode[z] # newNode'[w]
  <2>1. HeldBy(z, rank)
    BY <1>17 DEF Witnessed, Held
  <2>2. newNode[z] \in Nodes
    BY <2>1, <1>6, Typed DEF HeldBy
  <2> QED BY <2>2, <1>4, <1>8
<1> QED BY <1>4, <1>5, <1>8, <1>9, <1>15, <1>16, <1>17, QuietStep

\* Relink and Reload: a node that is not published is relinked.
LEMMA RelinkKeeps ==
    ASSUME HTypeOK, HTypeOK', NEW w \in Workers, pc[w] \in {"cas", "relink"},
           NEW q \in {"cas", "relink"}, pc' = [pc EXCEPT ![w] = q],
           node' = [node EXCEPT ![newNode[w]].next = heads[bucket(w)]],
           UNCHANGED <<heads, current, newNode, calls, mine>>,
           NEW rank \in [Nat -> Nat], NEW top \in Nat,
           NEW seg \in [Nat -> Nat], NEW ord \in [Nat -> Nat],
           Witnessed(rank, top, seg, ord)
    PROVE  Witnessed(rank, top, seg, ord)'
<1>1. Ranked(rank, top) /\ Held(rank)
  BY DEF Witnessed
<1>2. HeldBy(w, rank)
  BY <1>1 DEF Held
<1>3. /\ pc[w] # "idle"
      /\ call(w).k \in Keys /\ bucket(w) \in 0..(TableSize - 1)
      /\ heads[bucket(w)] \in 0..Len(node) /\ newNode[w] \in Nodes
  BY <1>2, Typed DEF HeldBy
<1>4. PICK u \in Nodes : u = newNode[w]
  BY <1>3
<1>5. PICK h \in 0..Len(node) : h = heads[bucket(w)]
  BY <1>3
<1>6. u \in Nat /\ h \in Nat /\ (h # NULL => h \in Nodes) /\ rank[u] = 0 /\ rank[NULL] = 0
  <2>1. NULL \in Nat \ Nodes
    BY Typed
  <2>2. rank[NULL] = 0
    BY <2>1, <1>1 DEF Ranked
  <2> QED BY <2>2, <1>2, <1>4, Typed DEF HeldBy
<1>7. /\ Nodes' = Nodes /\ Len(node') = Len(node)
      /\ \A n \in Nodes : n # u => node'[n] = node[n]
      /\ node'[u].key = node[u].key /\ node'[u].value = node[u].value /\ node'[u].next = h
  <2>1. /\ node \in Seq([key : Keys, value : Values, next : Nat]) /\ DOMAIN node = Nodes
        /\ node[u] \in [key : Keys, value : Values, next : 0..Len(node)]
    BY Typed DEF HTypeOK
  <2>2. node' = [node EXCEPT ![u] = [node[u] EXCEPT !.next = h]]
    BY <1>4, <1>5, <2>1
  <2>3. PICK e : e = [node[u] EXCEPT !.next = h]
    OBVIOUS
  <2>4. e.key = node[u].key /\ e.value = node[u].value /\ e.next = h
    BY <2>1, <2>3
  <2>5. node' = [node EXCEPT ![u] = e]
    BY <2>2, <2>3
  <2>6. /\ DOMAIN node' = DOMAIN node /\ node'[u] = e
        /\ \A n \in Nodes : n # u => node'[n] = node[n]
    BY <2>1, <2>5
  <2>7. Len(node') = Len(node)
    BY <2>1, <2>5
  <2> QED BY <2>4, <2>6, <2>7 DEF Nodes
<1>8. KeepsNodes
  <2>1. Len(node') >= Len(node)
    BY <1>7, Typed
  <2> QED BY <2>1, <1>7 DEF KeepsNodes
<1>9. \A n \in Nodes : BucketOf(n)' = BucketOf(n)
  BY <1>8 DEF KeepsNodes, BucketOf
<1>10. BucketOf(u) = bucket(w)
  BY <1>2, <1>4 DEF HeldBy, BucketOf, bucket
<1>11. \A n \in Nodes : /\ n \in Nat /\ rank[n] \in Nat
                        /\ node[n].next # NULL => node[n].next \in Nodes
                        /\ rank[n] > 0 => n # u /\ node'[n] = node[n]
  <2> SUFFICES ASSUME NEW n \in Nodes
               PROVE  /\ n \in Nat /\ rank[n] \in Nat
                      /\ node[n].next # NULL => node[n].next \in Nodes
                      /\ rank[n] > 0 => n # u /\ node'[n] = node[n]
    OBVIOUS
  <2>1. n \in Nat /\ node[n].next \in 0..Len(node)
    BY Typed
  <2>2. node[n].next # NULL => node[n].next \in Nodes
    BY <2>1, Typed
  <2>3. rank[n] > 0 => n # u
    BY <1>6
  <2> QED BY <2>1, <2>2, <2>3, <1>7
<1>12. Ranked(rank, top)'
  <2>1. \A n \in Nat \ Nodes' : rank[n] = 0
    BY <1>1, <1>7 DEF Ranked
  <2>2. \A n \in Nodes' : rank[n] <= top
    BY <1>1, <1>7 DEF Ranked
  <2>3. \A m, n \in Nodes' : rank[m] > 0 /\ rank[m] = rank[n] => m = n
    BY <1>1, <1>7 DEF Ranked
  <2>4. ASSUME NEW n \in Nodes', node'[n].next # NULL
        PROVE  rank[node'[n].next] > 0 /\ BucketOf(node[n].next)' = BucketOf(n)'
    <3>0. n \in Nodes
      BY <1>7
    <3>1. CASE n = u
      <4>1. node'[n].next = h /\ h \in Nodes
        BY <3>1, <2>4, <1>6, <1>7
      <4>2. rank[h] > 0 /\ BucketOf(h) = bucket(w)
        BY <4>1, <2>4, <1>1, <1>3, <1>5 DEF Ranked
      <4>3. BucketOf(h)' = BucketOf(n)'
        BY <4>1, <4>2, <3>0, <3>1, <1>9, <1>10
      <4> QED BY <4>1, <4>2, <4>3 DEF BucketOf
    <3>2. CASE n # u
      <4>1. node'[n].next = node[n].next
        BY <3>0, <3>2, <1>7
      <4>2. PICK g \in Nodes : g = node[n].next
        BY <4>1, <2>4, <3>0, <1>11
      <4>3. rank[g] > 0 /\ BucketOf(g) = BucketOf(n)
        BY <4>1, <4>2, <2>4, <3>0, <1>1 DEF Ranked
      <4>4. BucketOf(g)' = BucketOf(n)'
        BY <4>3, <3>0, <1>9
      <4> QED BY <4>1, <4>2, <4>3, <4>4 DEF BucketOf
    <3> QED BY <3>1, <3>2
  <2>5. ASSUME NEW n \in Nodes', rank[n] > 0 PROVE rank[node'[n].next] < rank[n]
    <3>1. n \in Nodes /\ node'[n].next = node[n].next
      BY <2>5, <1>7, <1>11
    <3> QED BY <2>5, <3>1, <1>1 DEF Ranked
  <2>6. ASSUME NEW m \in Nodes', NEW n \in Nodes', rank[m] > 0,
               BucketOf(m)' = BucketOf(n)', rank[m] < rank[n]
        PROVE  rank[m] <= rank[node'[n].next]
    <3>1. m \in Nodes /\ n \in Nodes
      BY <1>7
    <3>2. BucketOf(m) = BucketOf(n)
      BY <3>1, <2>6, <1>9
    <3>3. rank[n] > 0
      <4>1. m \in Nat /\ n \in Nat /\ rank[m] \in Nat /\ rank[n] \in Nat
        BY <3>1, <1>11
      <4>2. rank[m] > 0 /\ rank[m] < rank[n]
        BY <2>6, Zenon
      <4> QED BY <4>1, <4>2
    <3>4. node'[n].next = node[n].next
      BY <3>1, <3>3, <1>11
    <3> QED BY <3>1, <3>2, <3>4, <2>6, <1>1 DEF Ranked
  <2>7. ASSUME NEW b \in 0..(TableSize - 1), heads'[b] # NULL
        PROVE  rank[heads'[b]] > 0 /\ BucketOf(heads[b])' = b
    <3>1. heads'[b] = heads[b] /\ heads[b] \in Nodes
      <4>1. heads[b] \in 0..Len(node)
        BY Typed
      <4> QED BY <4>1, <2>7, Typed
    <3>2. rank[heads[b]] > 0 /\ BucketOf(heads[b]) = b
      BY <3>1, <2>7, <1>1 DEF Ranked
    <3>3. PICK g \in Nodes : g = heads[b]
      BY <3>1
    <3>4. BucketOf(g)' = b
      BY <3>2, <3>3, <1>9
    <3> QED BY <3>1, <3>2, <3>3, <3>4 DEF BucketOf
  <2>8. ASSUME NEW n \in Nodes' PROVE rank[n] <= rank[heads'[BucketOf(n)']]
    <3>1. n \in Nodes /\ BucketOf(n)' = BucketOf(n) /\ heads' = heads
      BY <1>7, <1>9
    <3> QED BY <3>1, <1>1 DEF Ranked
  <2> QED BY <2>1, <2>2, <2>3, <2>4, <2>5, <2>6, <2>7, <2>8 DEF Ranked
<1>13. Moves(w) /\ pc'[w] = q
  <2>1. current' = [current EXCEPT ![w] = current[w]] /\ newNode' = [newNode EXCEPT ![w] = newNode[w]]
    BY DEF HTypeOK, TypeOK
  <2>2. UNCHANGED <<calls, mine>>
    OBVIOUS
  <2>3. PICK c, u1 : c = current[w] /\ u1 = newNode[w]
    OBVIOUS
  <2>4. current' = [current EXCEPT ![w] = c] /\ newNode' = [newNode EXCEPT ![w] = u1]
    BY <2>1, <2>3
  <2> QED BY <2>2, <2>4, MovesOne
<1>14. SameHistory
  BY SameCalls
<1>15. HeldBy(w, rank)'
  <2>1. call(w)' = call(w) /\ newNode'[w] = u
    BY <1>4 DEF call
  <2> QED BY <2>1, <1>2, <1>4, <1>6, <1>7 DEF HeldBy
<1>16. ASSUME NEW z \in Workers, z # w, pc[z] \in {"cas", "relink"}
       PROVE  /\ newNode[z] # newNode'[w]
              /\ node'[newNode[z]].value = node[newNode[z]].value
  <2>1. newNode[z] # newNode[w] /\ newNode' = newNode
    BY <1>16, <1>1 DEF Held
  <2>2. HeldBy(z, rank)
    BY <1>1, <1>16 DEF Held
  <2>3. newNode[z] \in Nodes
    BY <2>2, Typed DEF HeldBy
  <2> QED BY <2>1, <2>3, <1>4, <1>7
<1>17. \A n \in Nodes : rank[n] > 0 => node'[n] = node[n]
  BY <1>11
<1>18. pc'[w] # "walk"
  BY <1>13
<1> QED BY <1>8, <1>12, <1>13, <1>14, <1>15, <1>16, <1>17, <1>18, QuietStep

\* The end of a call moves one worker.
LEMMA RespondMoves ==
    ASSUME HTypeOK, NEW w \in Workers, pc[w] # "idle", NEW v \in Nat, Respond(w, v)
    PROVE  /\ Moves(w) /\ pc'[w] = "idle"
           /\ \A j \in DOMAIN calls : calls'[j].k = calls[j].k
<1>1. /\ mine[w] \in 1..Len(calls)
      /\ DOMAIN calls = 1..Len(calls)
      /\ \A i \in 1..Len(calls) : i # mine[w] => calls'[i] = calls[i]
      /\ \A i \in 1..Len(calls) : calls'[i].k = calls[i].k
  BY RespondCalls
<1>2. pc'[w] = "idle"
  BY DEF Respond, HTypeOK, TypeOK
<1>3. ASSUME NEW z \in Workers, z # w
      PROVE  /\ pc'[z] = pc[z] /\ current'[z] = current[z] /\ newNode'[z] = newNode[z]
             /\ pc[z] # "idle" => call(z)' = call(z)
  <2>1. /\ pc'[z] = pc[z] /\ current'[z] = current[z] /\ newNode'[z] = newNode[z]
        /\ mine'[z] = mine[z]
    BY <1>3 DEF Respond, HTypeOK, TypeOK
  <2>2. ASSUME pc[z] # "idle" PROVE call(z)' = call(z)
    <3>1. mine[z] \in 1..Len(calls)
      BY <2>2, Typed
    <3>2. mine[z] # mine[w]
      BY <1>3, <2>2 DEF HTypeOK
    <3> QED BY <2>1, <3>1, <3>2, <1>1 DEF call
  <2> QED BY <2>1, <2>2
<1> QED BY <1>1, <1>2, <1>3 DEF Moves

\* What a step that ends a call does to the nodes: nodes of rank s, where the
\* call acted, get its value if it is a put; the others keep theirs.
Writes(w, v, K, s, rank, rank2) ==
    \A n \in Nodes' : rank2[n] > 0 =>
        \/ /\ n \in Nodes /\ rank2[n] = rank[n] /\ node'[n].value = node[n].value
           /\ call(w).type # "PUT" \/ rank[n] # s
        \/ /\ call(w).type = "PUT" /\ rank2[n] = s
           /\ node'[n].value = v /\ node'[n].key = K

\* the node of rank s is one of K
ActsOn(K, s, rank2) == s > 0 => \E n \in Nodes' : rank2[n] = s /\ node'[n].key = K

\* the new nodes of the other workers are left alone
Spares(w, rank2) ==
    \A z \in Workers : z # w /\ pc[z] \in {"cas", "relink"} =>
        node'[newNode[z]].value = node[newNode[z]].value /\ rank2[newNode[z]] = 0

\* Smaller is not larger.
LEMMA LessLeq == ASSUME NEW a \in Nat, NEW b \in Nat, a < b PROVE a <= b
OBVIOUS

\* Nodes are only added.
LEMMA NodesGrow ==
    ASSUME HTypeOK, HTypeOK', KeepsNodes
    PROVE  Nodes \subseteq Nodes' /\ Nodes' \subseteq Nat /\ Nodes \subseteq Nat
<1>1. Len(node) \in Nat /\ Len(node') \in Nat
  BY DEF HTypeOK
<1>2. Len(node') >= Len(node)
  BY DEF KeepsNodes
<1> QED BY <1>1, <1>2 DEF Nodes

\* The end of a call on the nodes of rank s keeps the invariant.
LEMMA CompleteStep ==
    ASSUME HTypeOK, HTypeOK', NEW w \in Workers, pc[w] # "idle", NEW v \in Nat, Respond(w, v),
           NEW x, x = mine[w], NEW K, K = call(w).k,
           NEW rank \in [Nat -> Nat], NEW top \in Nat,
           NEW seg \in [Nat -> Nat], NEW ord \in [Nat -> Nat],
           Witnessed(rank, top, seg, ord),
           NEW rank2 \in [Nat -> Nat], NEW top2 \in Nat, Ranked(rank2, top2)',
           KeepsNodes, \A n \in Nodes : rank[n] > 0 => rank2[n] = rank[n],
           NEW s \in Nat, MayAct(w, v, K, s, seg, ord),
           ActsOn(K, s, rank2), Spares(w, rank2),
           Writes(w, v, K, s, rank, rank2)
    PROVE  \E seg2, ord2 \in [Nat -> Nat] : Witnessed(rank2, top2, seg2, ord2)'
<1>1. /\ Ranked(rank, top) /\ Held(rank) /\ Walking(rank, seg)
      /\ Acted(rank, seg) /\ Linearized(seg, ord) /\ Valued(rank, seg, ord)
  BY DEF Witnessed
<1>2. Finishes(w, v, x, K)
  BY DoneAfter
<1>3. PICK seg2 \in [Nat -> Nat], ord2 \in [Nat -> Nat] :
        /\ seg2 = [seg EXCEPT ![x] = s]
        /\ Linearized(seg2, ord2)'
        /\ Inserted(K, seg, ord, ord2, x, s)
  BY <1>1, <1>2, Completed
<1>4. /\ x \in Nat /\ K \in Keys
      /\ Done(K)' = Done(K) \cup {x}
      /\ \A k \in Keys : k # K => Done(k)' = Done(k)
      /\ \A k \in Keys : x \notin Done(k)
      /\ \A k \in Keys : \A i \in Done(k) : calls'[i] = calls[i] /\ i # x
      /\ call(w).type = "PUT" => DonePuts(K)' = DonePuts(K) \cup {x}
      /\ call(w).type # "PUT" => DonePuts(K)' = DonePuts(K)
      /\ \A k \in Keys : k # K => DonePuts(k)' = DonePuts(k)
      /\ calls'[x].v = v
  BY <1>2, Zenon DEF Finishes
<1>5. seg2[x] = s /\ \A i \in Nat : i # x => seg2[i] = seg[i]
  BY <1>3, <1>4
<1>6. /\ \A k \in Keys : Done(k) \subseteq Nat /\ DonePuts(k) \subseteq Done(k)
      /\ \A k \in Keys : \A i \in Done(k) : seg2[i] = seg[i]
  BY <1>4, <1>5, DoneFinite
<1>7. /\ Moves(w) /\ pc'[w] = "idle"
      /\ \A j \in DOMAIN calls : calls'[j].k = calls[j].k
  BY RespondMoves
<1>8. Nodes \subseteq Nodes' /\ Nodes' \subseteq Nat /\ Nodes \subseteq Nat
  BY NodesGrow
<1>9. Held(rank2)'
  <2>1. ASSUME NEW z \in Workers, pc'[z] \in {"cas", "relink"}
        PROVE  z # w /\ pc[z] \in {"cas", "relink"} /\ newNode'[z] = newNode[z] /\ HeldBy(z, rank2)'
    <3>1. z # w
      BY <2>1, <1>7
    <3>2. pc[z] \in {"cas", "relink"} /\ newNode'[z] = newNode[z]
      BY <2>1, <3>1, <1>7 DEF Moves
    <3>3. HeldBy(z, rank)
      BY <3>2, <1>1 DEF Held
    <3>4. node'[newNode[z]].value = node[newNode[z]].value /\ rank2[newNode[z]] = 0
      BY <3>1, <3>2 DEF Spares
    <3>5. HeldBy(z, rank2)'
      BY <3>1, <3>2, <3>3, <3>4, <1>7, HeldKept
    <3> QED BY <3>1, <3>2, <3>5
  <2>2. ASSUME NEW y \in Workers, NEW z \in Workers,
               pc'[y] \in {"cas", "relink"}, pc'[z] \in {"cas", "relink"},
               newNode'[y] = newNode'[z]
        PROVE  y = z
    <3>1. /\ pc[y] \in {"cas", "relink"} /\ pc[z] \in {"cas", "relink"}
          /\ newNode[y] = newNode[z]
      BY <2>1, <2>2
    <3> QED BY <3>1, <1>1 DEF Held
  <2> QED BY <2>1, <2>2 DEF Held
<1>10. rank[NULL] = 0 /\ rank2[NULL] = 0
  <2>1. NULL \in Nat \ Nodes /\ NULL \in Nat \ Nodes'
    BY <1>8, Typed DEF Nodes, NULL
  <2> QED BY <2>1, <1>1 DEF Ranked
<1>11. Walking(rank2, seg2)'
  <2> SUFFICES ASSUME NEW z \in Workers, pc'[z] = "walk" PROVE WalkingBy(z, rank2, seg2)'
    BY DEF Walking
  <2>1. z # w /\ pc[z] = "walk"
    BY <1>7 DEF Moves
  <2>2. WalkingBy(z, rank, seg)
    BY <2>1, <1>1 DEF Walking
  <2>3. \A j \in call(z).after : seg2[j] = seg[j]
    <3>1. mine[z] \in DOMAIN calls
      BY <2>1, Typed
    <3>2. \A j \in call(z).after : calls[j].k \in Keys /\ j \in Done(calls[j].k)
      BY <3>1, AfterDone DEF call
    <3> QED BY <3>2, <1>6
  <2> QED BY <2>1, <2>2, <2>3, <1>7, <1>10, WalkKept
<1>12. Acted(rank2, seg2)'
  <2> SUFFICES ASSUME NEW k \in Keys, NEW i \in Done(k)', seg2[i] > 0
               PROVE  \E n \in Nodes' : rank2[n] = seg2[i] /\ node'[n].key = k
    BY DEF Acted
  <2>1. CASE i \in Done(k)
    <3>1. seg2[i] = seg[i] /\ seg[i] > 0
      BY <2>1, <1>6
    <3>2. PICK n \in Nodes : rank[n] = seg[i] /\ node[n].key = k
      BY <2>1, <3>1, <1>1 DEF Acted
    <3>3. rank2[n] = rank[n] /\ n \in Nodes' /\ node'[n].key = k
      BY <3>1, <3>2, <1>8 DEF KeepsNodes
    <3> QED BY <3>1, <3>2, <3>3
  <2>2. CASE i \notin Done(k)
    <3>1. i = x /\ k = K
      BY <2>2, <1>4
    <3> QED BY <3>1, <1>5 DEF ActsOn
  <2> QED BY <2>1, <2>2
<1>13. ASSUME NEW n \in Nodes', rank2[n] > 0
       PROVE  ValuedAt(n, node[n].key, node[n].value, rank2, seg2, ord2)'
  <2>0. n \in Nat /\ rank2[n] \in Nat
    BY <1>8
  <2>1. CASE /\ n \in Nodes /\ rank2[n] = rank[n] /\ node'[n].value = node[n].value
             /\ call(w).type # "PUT" \/ rank[n] # s
    <3>1. PICK k \in Keys, r \in Nat, e \in Values : k = node[n].key /\ r = rank[n] /\ e = node[n].value
      BY <2>0, <2>1, Typed
    <3>2. node'[n].key = k /\ rank2[n] = r /\ node'[n].value = e /\ r > 0
      BY <1>13, <2>1, <3>1 DEF KeepsNodes
    <3>3. ValuedAt(n, k, e, rank, seg, ord)
      BY <2>1, <3>1, <3>2, <1>1 DEF Valued
    <3>4. PICK p \in DonePuts(k) : LastOf(k, seg, ord, p, r) /\ calls[p].v = e
      BY <3>1, <3>3 DEF ValuedAt
    <3>5. /\ seg[p] = r /\ p \in Done(k)
          /\ \A q \in DonePuts(k) : seg[q] <= r => ord[q] <= ord[p]
      BY <3>4, <1>6 DEF LastOf
    <3>6. p \in DonePuts(k)' /\ calls'[p].v = e /\ seg2[p] = r
      <4>1. DonePuts(k) \subseteq DonePuts(k)'
        BY <1>4
      <4> QED BY <4>1, <3>4, <3>5, <1>4, <1>6
    <3>7. ASSUME NEW q \in DonePuts(k)', seg2[q] <= r PROVE ord2[q] <= ord2[p]
      <4>1. CASE q \in DonePuts(k)
        <5>1. q \in Done(k) /\ seg2[q] = seg[q]
          BY <4>1, <1>6
        <5>2. ord[q] <= ord[p]
          BY <5>1, <4>1, <3>5, <3>7
        <5> QED BY <5>1, <5>2, <3>5, <1>3 DEF Inserted
      <4>2. CASE q \notin DonePuts(k)
        <5>1. q = x /\ k = K /\ call(w).type = "PUT"
          BY <4>2, <1>4
        <5>2. s <= r /\ r # s
          BY <5>1, <3>1, <3>7, <2>1, <1>5
        <5>3. seg[p] > s
          BY <5>2, <3>5
        <5>4. ord2[x] < ord2[p]
          BY <5>1, <5>3, <3>5, <1>3 DEF Inserted
        <5>5. p \in Nat /\ x \in Nat /\ ord2[p] \in Nat /\ ord2[x] \in Nat
          BY <3>5, <1>4, <1>6
        <5>6. ord2[x] <= ord2[p]
          BY <5>4, <5>5, LessLeq, Zenon
        <5> QED BY <5>1, <5>6, Zenon
      <4> QED BY <4>1, <4>2
    <3>8. LastOf(k, seg2, ord2, p, r)'
      BY <3>6, <3>7 DEF LastOf
    <3> QED BY <3>2, <3>6, <3>8 DEF ValuedAt
  <2>2. CASE /\ call(w).type = "PUT" /\ rank2[n] = s
             /\ node'[n].value = v /\ node'[n].key = K
    <3>1. x \in DonePuts(K)' /\ calls'[x].v = v /\ seg2[x] = s
      BY <2>2, <1>4, <1>5
    <3>2. ASSUME NEW q \in DonePuts(K)', seg2[q] <= s PROVE ord2[q] <= ord2[x]
      <4>1. CASE q \in DonePuts(K)
        <5>1. q \in Done(K) /\ seg2[q] = seg[q] /\ q \in Nat
          BY <4>1, <1>4, <1>6
        <5>2. ord2[q] < ord2[x]
          BY <5>1, <3>2, <1>3 DEF Inserted
        <5>3. q \in Nat /\ x \in Nat /\ ord2[q] \in Nat /\ ord2[x] \in Nat
          BY <5>1, <1>4
        <5> QED BY <5>2, <5>3, LessLeq, Zenon
      <4>2. CASE q \notin DonePuts(K)
        <5>1. q = x
          BY <4>2, <2>2, <1>4
        <5>2. x \in Nat /\ ord2[x] \in Nat
          BY <1>4
        <5> QED BY <5>1, <5>2
      <4> QED BY <4>1, <4>2
    <3>3. LastOf(K, seg2, ord2, x, s)'
      BY <3>1, <3>2 DEF LastOf
    <3> QED BY <2>2, <3>1, <3>3 DEF ValuedAt
  <2> QED BY <1>13, <2>1, <2>2 DEF Writes
<1>14. Valued(rank2, seg2, ord2)'
  BY <1>13 DEF Valued
<1>15. Witnessed(rank2, top2, seg2, ord2)'
  BY <1>3, <1>9, <1>11, <1>12, <1>14 DEF Witnessed
<1> QED BY <1>15

\* A step that changes at most values keeps the chains.
LEMMA SameShape ==
    ASSUME NEW rank, NEW top, Ranked(rank, top), heads' = heads, Nodes' = Nodes,
           \A n \in Nodes : node'[n].key = node[n].key /\ node'[n].next = node[n].next,
           \A n \in Nodes : node[n].next # NULL => node[n].next \in Nodes,
           \A b \in 0..(TableSize - 1) : heads[b] # NULL => heads[b] \in Nodes
    PROVE  Ranked(rank, top)'
<1>1. \A n \in Nodes : BucketOf(n)' = BucketOf(n)
  BY DEF BucketOf
<1>2. ASSUME NEW n \in Nodes', node'[n].next # NULL
      PROVE  rank[node'[n].next] > 0 /\ BucketOf(node[n].next)' = BucketOf(n)'
  <2>1. n \in Nodes /\ node'[n].next = node[n].next
    OBVIOUS
  <2>2. PICK g \in Nodes : g = node[n].next
    BY <1>2, <2>1
  <2>3. rank[g] > 0 /\ BucketOf(g) = BucketOf(n)
    BY <1>2, <2>1, <2>2 DEF Ranked
  <2>4. BucketOf(g)' = BucketOf(n)'
    BY <1>1, <2>1, <2>3
  <2> QED BY <2>1, <2>2, <2>3, <2>4 DEF BucketOf
<1>3. ASSUME NEW b \in 0..(TableSize - 1), heads'[b] # NULL
      PROVE  rank[heads'[b]] > 0 /\ BucketOf(heads[b])' = b
  <2>1. PICK g \in Nodes : g = heads[b]
    BY <1>3
  <2>2. rank[g] > 0 /\ BucketOf(g) = b
    BY <1>3, <2>1 DEF Ranked
  <2>3. BucketOf(g)' = b
    BY <1>1, <2>2
  <2> QED BY <2>1, <2>2, <2>3 DEF BucketOf
<1>4. \A m, n \in Nodes' : rank[m] > 0 /\ BucketOf(m)' = BucketOf(n)' /\ rank[m] < rank[n]
                           => rank[m] <= rank[node'[n].next]
  BY <1>1 DEF Ranked
<1>5. \A n \in Nodes' : rank[n] <= rank[heads'[BucketOf(n)']]
  BY <1>1 DEF Ranked
<1>6. /\ \A n \in Nat \ Nodes' : rank[n] = 0
      /\ \A n \in Nodes' : rank[n] <= top
      /\ \A m, n \in Nodes' : rank[m] > 0 /\ rank[m] = rank[n] => m = n
      /\ \A n \in Nodes' : rank[n] > 0 => rank[node'[n].next] < rank[n]
  BY DEF Ranked
<1> QED BY <1>2, <1>3, <1>4, <1>5, <1>6 DEF Ranked

\* References are null or name a node.
LEMMA Refs ==
    ASSUME HTypeOK
    PROVE  /\ \A n \in Nodes : node[n].next # NULL => node[n].next \in Nodes
           /\ \A b \in 0..(TableSize - 1) : heads[b] # NULL => heads[b] \in Nodes
           /\ \A w \in Workers : current[w] # NULL => current[w] \in Nodes
           /\ \A w \in Workers : newNode[w] # NULL => newNode[w] \in Nodes
           /\ NULL \in Nat \ Nodes /\ Nodes \subseteq Nat
<1>1. \A n \in Nodes : node[n].next # NULL => node[n].next \in Nodes
  BY Typed
<1>2. \A b \in 0..(TableSize - 1) : heads[b] # NULL => heads[b] \in Nodes
  BY Typed
<1>3. \A w \in Workers : current[w] # NULL => current[w] \in Nodes
  BY Typed
<1>4. \A w \in Workers : newNode[w] # NULL => newNode[w] \in Nodes
  BY Typed
<1> QED BY <1>1, <1>2, <1>3, <1>4, Typed

\* UpdateValue: a put that found its key writes the node it found.
LEMMA UpdateKeeps ==
    ASSUME HTypeOK, HTypeOK', NEW w \in Workers, UpdateValue(w),
           NEW rank \in [Nat -> Nat], NEW top \in Nat,
           NEW seg \in [Nat -> Nat], NEW ord \in [Nat -> Nat],
           Witnessed(rank, top, seg, ord)
    PROVE  \E seg2, ord2 \in [Nat -> Nat] : Witnessed(rank, top, seg2, ord2)'
<1>1. Ranked(rank, top) /\ Held(rank) /\ Walking(rank, seg)
  BY DEF Witnessed
<1>2. /\ pc[w] = "walk" /\ pc[w] # "idle" /\ call(w).type = "PUT" /\ current[w] # NULL
      /\ node[current[w]].key = call(w).k /\ heads' = heads
      /\ Respond(w, call(w).v)
  BY DEF UpdateValue, Matches
<1>3. PICK x, K, v : x = mine[w] /\ K = call(w).k /\ v = call(w).v
  OBVIOUS
<1>4. v \in Nat /\ Respond(w, v)
  <2>1. call(w) \in Call
    BY <1>2, Typed
  <2> QED BY <2>1, <1>2, <1>3 DEF Call
<1>5. PICK c \in Nodes : c = current[w]
  BY <1>2, Refs
<1>6. WalkingBy(w, rank, seg)
  BY <1>1, <1>2 DEF Walking
<1>7. rank[c] > 0 /\ c \in Nat /\ node[c].key = K
  BY <1>2, <1>3, <1>5, <1>6, Refs DEF WalkingBy
<1>8. PICK s \in Nat : s = rank[c]
  BY <1>7
<1>9. /\ Nodes' = Nodes /\ Len(node') = Len(node)
      /\ \A n \in Nodes : n # c => node'[n] = node[n]
      /\ node'[c].key = node[c].key /\ node'[c].value = v /\ node'[c].next = node[c].next
  <2>1. /\ node \in Seq([key : Keys, value : Values, next : Nat]) /\ DOMAIN node = Nodes
        /\ node[c] \in [key : Keys, value : Values, next : 0..Len(node)]
    BY Typed DEF HTypeOK
  <2>2. node' = [node EXCEPT ![c] = [node[c] EXCEPT !.value = v]]
    BY <1>3, <1>5, <2>1 DEF UpdateValue
  <2>3. PICK e : e = [node[c] EXCEPT !.value = v]
    OBVIOUS
  <2>4. e.key = node[c].key /\ e.value = v /\ e.next = node[c].next
    BY <2>1, <2>3
  <2>5. node' = [node EXCEPT ![c] = e]
    BY <2>2, <2>3
  <2>6. /\ DOMAIN node' = DOMAIN node /\ node'[c] = e
        /\ \A n \in Nodes : n # c => node'[n] = node[n]
    BY <2>1, <2>5
  <2>7. Len(node') = Len(node)
    BY <2>1, <2>5
  <2> QED BY <2>4, <2>6, <2>7 DEF Nodes
<1>10. \A n \in Nodes : node'[n].key = node[n].key /\ node'[n].next = node[n].next
  BY <1>9
<1>11. KeepsNodes
  <2>1. Len(node') >= Len(node)
    BY <1>9, Typed
  <2> QED BY <2>1, <1>10 DEF KeepsNodes
<1>12. Ranked(rank, top)'
  BY <1>1, <1>2, <1>9, <1>10, Refs, SameShape
<1>13. MayAct(w, v, K, s, seg, ord)
  <2>1. \A j \in call(w).after : calls[j].k = K => seg[j] <= s
    BY <1>3, <1>5, <1>6, <1>8 DEF WalkingBy
  <2> QED BY <2>1, <1>2, <1>7, <1>8 DEF MayAct
<1>14. ActsOn(K, s, rank)
  BY <1>7, <1>8, <1>9 DEF ActsOn
<1>15. Spares(w, rank)
  <2> SUFFICES ASSUME NEW z \in Workers, z # w, pc[z] \in {"cas", "relink"}
               PROVE  node'[newNode[z]].value = node[newNode[z]].value /\ rank[newNode[z]] = 0
    BY DEF Spares
  <2>1. HeldBy(z, rank)
    BY <1>1 DEF Held
  <2>2. newNode[z] \in Nodes /\ rank[newNode[z]] = 0
    BY <2>1, Refs DEF HeldBy
  <2>3. newNode[z] # c
    BY <2>2, <1>7
  <2> QED BY <2>2, <2>3, <1>9
<1>16. Writes(w, v, K, s, rank, rank)
  <2> SUFFICES ASSUME NEW n \in Nodes', rank[n] > 0
               PROVE  \/ /\ n \in Nodes /\ rank[n] = rank[n] /\ node'[n].value = node[n].value
                         /\ call(w).type # "PUT" \/ rank[n] # s
                      \/ /\ call(w).type = "PUT" /\ rank[n] = s
                         /\ node'[n].value = v /\ node'[n].key = K
    BY DEF Writes
  <2>1. n \in Nodes
    BY <1>9
  <2>2. CASE n = c
    BY <2>2, <1>2, <1>7, <1>8, <1>9
  <2>3. CASE n # c
    <3>1. rank[n] # s
      BY <2>1, <2>3, <1>1, <1>5, <1>8 DEF Ranked
    <3> QED BY <2>1, <2>3, <3>1, <1>9
  <2> QED BY <2>2, <2>3
<1>17. \A n \in Nodes : rank[n] > 0 => rank[n] = rank[n]
  OBVIOUS
<1> QED BY <1>2, <1>3, <1>4, <1>11, <1>12, <1>13, <1>14, <1>15, <1>16, <1>17, CompleteStep

\* ReadValue and NotFound: a get that ends leaves the nodes alone.
LEMMA GetKeeps ==
    ASSUME HTypeOK, HTypeOK', NEW w \in Workers, NEW v \in Nat, Respond(w, v),
           pc[w] = "walk", call(w).type = "GET", UNCHANGED <<heads, node>>,
           NEW rank \in [Nat -> Nat], NEW top \in Nat,
           NEW seg \in [Nat -> Nat], NEW ord \in [Nat -> Nat],
           Witnessed(rank, top, seg, ord),
           \/ current[w] = NULL /\ v = 0
           \/ /\ current[w] # NULL /\ node[current[w]].key = call(w).k
              /\ v = node[current[w]].value
    PROVE  \E seg2, ord2 \in [Nat -> Nat] : Witnessed(rank, top, seg2, ord2)'
<1>1. Ranked(rank, top) /\ Held(rank) /\ Walking(rank, seg) /\ Valued(rank, seg, ord)
  BY DEF Witnessed
<1>2. PICK x, K : x = mine[w] /\ K = call(w).k
  OBVIOUS
<1>3. WalkingBy(w, rank, seg)
  BY <1>1 DEF Walking
<1>4. PICK c \in Nat : c = current[w] /\ (c # NULL => c \in Nodes)
  BY Refs, Typed
<1>5. PICK s \in Nat : s = rank[c]
  BY <1>4
<1>6. Ranked(rank, top)' /\ KeepsNodes /\ Nodes' = Nodes
  BY <1>1, SameRanked
<1>7. c = NULL => s = 0 /\ v = 0
  BY <1>1, <1>4, <1>5, Refs DEF Ranked
<1>8. c # NULL => c \in Nodes /\ s > 0 /\ node[c].key = K /\ v = node[c].value
  BY <1>2, <1>3, <1>4, <1>5 DEF WalkingBy
<1>9. c # NULL => \E p \in DonePuts(K) : LastOf(K, seg, ord, p, s) /\ calls[p].v = v
  <2> SUFFICES ASSUME c # NULL PROVE ValuedAt(c, K, v, rank, seg, ord)
    BY <1>5 DEF ValuedAt
  <2> QED BY <1>1, <1>5, <1>8 DEF Valued
<1>10. MayAct(w, v, K, s, seg, ord)
  <2>1. \A j \in call(w).after : calls[j].k = K => seg[j] <= s
    BY <1>2, <1>3, <1>4, <1>5 DEF WalkingBy
  <2> QED BY <2>1, <1>7, <1>9 DEF MayAct
<1>11. ActsOn(K, s, rank)
  <2> SUFFICES ASSUME s > 0 PROVE \E n \in Nodes' : rank[n] = s /\ node'[n].key = K
    BY DEF ActsOn
  <2>1. c # NULL
    BY <1>7
  <2> QED BY <2>1, <1>5, <1>6, <1>8
<1>12. Spares(w, rank)
  <2> SUFFICES ASSUME NEW z \in Workers, z # w, pc[z] \in {"cas", "relink"}
               PROVE  rank[newNode[z]] = 0
    BY DEF Spares
  <2> QED BY <1>1 DEF Held, HeldBy
<1>13. Writes(w, v, K, s, rank, rank)
  BY <1>6 DEF Writes
<1>14. \A n \in Nodes : rank[n] > 0 => rank[n] = rank[n]
  OBVIOUS
<1> QED BY <1>2, <1>6, <1>10, <1>11, <1>12, <1>13, <1>14, CompleteStep


\* Publish puts a node of the bucket in front of the chain: it gets the next
\* rank, and the chains stay in order of publication.
LEMMA PublishRanked ==
    ASSUME HTypeOK, NEW rank \in [Nat -> Nat], NEW top \in Nat, Ranked(rank, top),
           NEW u \in Nodes, rank[u] = 0, NEW b \in 0..(TableSize - 1),
           BucketOf(u) = b, heads[b] = node[u].next,
           heads' = [heads EXCEPT ![b] = u], node' = node,
           NEW t \in Nat, t = top + 1,
           NEW rank2 \in [Nat -> Nat], rank2 = [rank EXCEPT ![u] = t]
    PROVE  Ranked(rank2, t)'
<1>1. /\ Nodes' = Nodes /\ Nodes \subseteq Nat /\ NULL \in Nat \ Nodes /\ u \in Nat
      /\ \A n \in Nodes : BucketOf(n)' = BucketOf(n)
      /\ \A n \in Nodes : BucketOf(n) \in 0..(TableSize - 1)
      /\ \A n \in Nodes : node[n].next # NULL => node[n].next \in Nodes
      /\ \A c \in 0..(TableSize - 1) : heads[c] # NULL => heads[c] \in Nodes
  BY Typed, Refs DEF Nodes, BucketOf
<1>2. rank2[u] = t /\ \A n \in Nat : n # u => rank2[n] = rank[n]
  BY <1>1
<1>3. heads'[b] = u /\ \A c \in 0..(TableSize - 1) : c # b => heads'[c] = heads[c]
  BY DEF HTypeOK, TypeOK
<1>4. /\ \A n \in Nat \ Nodes : rank[n] = 0
      /\ \A n \in Nodes : rank[n] <= top
      /\ rank[NULL] = 0 /\ u # NULL
  BY <1>1 DEF Ranked
<1>5. \A n \in Nodes : /\ node[n].next \in Nat /\ node[n].next # u
                       /\ rank2[node[n].next] = rank[node[n].next]
  <2> SUFFICES ASSUME NEW n \in Nodes PROVE node[n].next \in Nat /\ node[n].next # u
    BY <1>2
  <2>1. CASE node[n].next = NULL
    BY <2>1, <1>1, <1>4
  <2>2. CASE node[n].next # NULL
    <3>1. PICK g \in Nodes : g = node[n].next
      BY <2>2, <1>1
    <3>2. rank[g] > 0
      BY <2>2, <3>1 DEF Ranked
    <3>3. g # u
      BY <3>2
    <3> QED BY <3>1, <3>3, <1>1
  <2> QED BY <2>1, <2>2
<1>6. \A c \in 0..(TableSize - 1) : /\ heads[c] \in Nat /\ heads[c] # u
                                    /\ rank2[heads[c]] = rank[heads[c]]
  <2> SUFFICES ASSUME NEW c \in 0..(TableSize - 1) PROVE heads[c] \in Nat /\ heads[c] # u
    BY <1>2
  <2>1. CASE heads[c] = NULL
    BY <2>1, <1>1, <1>4
  <2>2. CASE heads[c] # NULL
    <3>1. PICK g \in Nodes : g = heads[c]
      BY <2>2, <1>1
    <3>2. rank[g] > 0
      BY <2>2, <3>1 DEF Ranked
    <3>3. g # u
      BY <3>2
    <3> QED BY <3>1, <3>3, <1>1
  <2> QED BY <2>1, <2>2
<1>7. \A n \in Nat \ Nodes' : rank2[n] = 0
  BY <1>1, <1>2, <1>4
<1>8. \A n \in Nodes : n \in Nat /\ rank[n] \in Nat /\ (n # u => rank2[n] = rank[n] /\ rank2[n] < t)
  BY <1>1, <1>2, <1>4
<1>9. \A n \in Nodes' : rank2[n] <= t
  BY <1>1, <1>2, <1>8
<1>10. ASSUME NEW m \in Nodes', NEW n \in Nodes', rank2[m] > 0, rank2[m] = rank2[n]
       PROVE  m = n
  <2>1. m \in Nodes /\ n \in Nodes
    BY <1>1
  <2>2. CASE m = u
    BY <2>1, <2>2, <1>2, <1>8, <1>10
  <2>3. CASE m # u /\ n = u
    BY <2>1, <2>3, <1>2, <1>8, <1>10
  <2>4. CASE m # u /\ n # u
    BY <2>1, <2>4, <1>8, <1>10 DEF Ranked
  <2> QED BY <2>2, <2>3, <2>4
<1>11. ASSUME NEW n \in Nodes', node'[n].next # NULL
       PROVE  rank2[node'[n].next] > 0 /\ BucketOf(node[n].next)' = BucketOf(n)'
  <2>1. n \in Nodes /\ node[n].next # NULL
    BY <1>1, <1>11
  <2>2. PICK g \in Nodes : g = node[n].next
    BY <2>1, <1>1
  <2>3. rank[g] > 0 /\ BucketOf(g) = BucketOf(n)
    BY <2>1, <2>2 DEF Ranked
  <2>4. BucketOf(g)' = BucketOf(n)'
    BY <2>1, <2>3, <1>1
  <2>5. rank2[g] > 0
    BY <2>1, <2>2, <2>3, <1>5
  <2> QED BY <2>2, <2>4, <2>5 DEF BucketOf
<1>12. ASSUME NEW n \in Nodes', rank2[n] > 0 PROVE rank2[node'[n].next] < rank2[n]
  <2>1. n \in Nodes
    BY <1>1
  <2>2. CASE n = u
    <3>1. rank2[heads[b]] < t
      <4>1. CASE heads[b] = NULL
        BY <4>1, <1>4, <1>6
      <4>2. CASE heads[b] # NULL
        BY <4>2, <1>1, <1>6, <1>8
      <4> QED BY <4>1, <4>2
    <3> QED BY <3>1, <2>2, <1>2
  <2>3. CASE n # u
    BY <2>1, <2>3, <1>5, <1>8, <1>12 DEF Ranked
  <2> QED BY <2>2, <2>3
<1>13. ASSUME NEW m \in Nodes', NEW n \in Nodes', rank2[m] > 0,
              BucketOf(m)' = BucketOf(n)', rank2[m] < rank2[n]
       PROVE  rank2[m] <= rank2[node'[n].next]
  <2>1. m \in Nodes /\ n \in Nodes /\ BucketOf(m) = BucketOf(n)
    BY <1>1, <1>13
  <2>2. rank2[m] > 0 /\ rank2[m] < rank2[n] /\ rank2[m] \in Nat /\ rank2[n] \in Nat
    BY <2>1, <1>1, <1>13, Zenon
  <2>3. m # u
    BY <2>1, <2>2, <1>1, <1>2, <1>9
  <2>4. rank2[m] = rank[m]
    BY <2>1, <2>3, <1>8
  <2>5. CASE n = u
    <3>1. BucketOf(m) = b
      BY <2>1, <2>5
    <3>2. rank[m] <= rank[heads[b]]
      BY <2>1, <3>1 DEF Ranked
    <3> QED BY <2>4, <2>5, <3>2, <1>6
  <2>6. CASE n # u
    <3>1. rank[m] > 0 /\ rank[m] < rank[n]
      BY <2>1, <2>2, <2>4, <2>6, <1>8
    <3>2. rank[m] <= rank[node[n].next]
      BY <2>1, <3>1 DEF Ranked
    <3> QED BY <2>1, <2>4, <3>2, <1>5
  <2> QED BY <2>5, <2>6
<1>14. ASSUME NEW c \in 0..(TableSize - 1), heads'[c] # NULL
       PROVE  rank2[heads'[c]] > 0 /\ BucketOf(heads[c])' = c
  <2>1. CASE c = b
    <3>1. heads'[c] = u /\ rank2[u] > 0
      BY <2>1, <1>2, <1>3
    <3>2. BucketOf(u)' = c
      BY <2>1, <1>1
    <3> QED BY <3>1, <3>2 DEF BucketOf
  <2>2. CASE c # b
    <3>1. heads'[c] = heads[c] /\ heads[c] # NULL
      BY <2>2, <1>3, <1>14
    <3>2. PICK g \in Nodes : g = heads[c]
      BY <3>1, <1>1
    <3>3. rank[g] > 0 /\ BucketOf(g) = c
      BY <3>1, <3>2 DEF Ranked
    <3>4. BucketOf(g)' = c /\ rank2[g] > 0
      BY <3>2, <3>3, <1>1, <1>6
    <3> QED BY <3>1, <3>2, <3>4 DEF BucketOf
  <2> QED BY <2>1, <2>2
<1>15. ASSUME NEW n \in Nodes' PROVE rank2[n] <= rank2[heads'[BucketOf(n)']]
  <2>1. n \in Nodes /\ BucketOf(n)' = BucketOf(n)
    BY <1>1
  <2>2. PICK c \in 0..(TableSize - 1) : c = BucketOf(n)
    BY <2>1, <1>1
  <2>3. CASE c = b
    BY <2>1, <2>2, <2>3, <1>2, <1>3, <1>9
  <2>4. CASE c # b
    <3>1. n # u
      BY <2>2, <2>4
    <3>2. rank[n] <= rank[heads[c]]
      BY <2>1, <2>2 DEF Ranked
    <3>3. rank2[n] <= rank2[heads[c]]
      BY <2>1, <3>1, <3>2, <1>6, <1>8
    <3> QED BY <2>1, <2>2, <2>4, <3>3, <1>3
  <2> QED BY <2>3, <2>4
<1> QED BY <1>7, <1>9, <1>10, <1>11, <1>12, <1>13, <1>14, <1>15 DEF Ranked

\* Publish: a put that missed its key acts on the node it publishes.
LEMMA PublishKeeps ==
    ASSUME HTypeOK, HTypeOK', NEW w \in Workers, Publish(w),
           NEW rank \in [Nat -> Nat], NEW top \in Nat,
           NEW seg \in [Nat -> Nat], NEW ord \in [Nat -> Nat],
           Witnessed(rank, top, seg, ord)
    PROVE  \E rank2 \in [Nat -> Nat], top2 \in Nat, seg2, ord2 \in [Nat -> Nat] :
              Witnessed(rank2, top2, seg2, ord2)'
<1>1. Ranked(rank, top) /\ Held(rank) /\ Acted(rank, seg)
  BY DEF Witnessed
<1>2. /\ pc[w] = "cas" /\ pc[w] # "idle" /\ node' = node /\ Respond(w, call(w).v)
      /\ heads[bucket(w)] = node[newNode[w]].next
      /\ heads' = [heads EXCEPT ![bucket(w)] = newNode[w]]
  BY DEF Publish, CasWins
<1>3. call(w).type = "PUT"
  BY <1>2 DEF HTypeOK, call
<1>4. HeldBy(w, rank)
  BY <1>1, <1>2 DEF Held
<1>5. PICK x, K, v : x = mine[w] /\ K = call(w).k /\ v = call(w).v
  OBVIOUS
<1>6. v \in Nat /\ Respond(w, v) /\ K \in Keys
  <2>1. call(w) \in Call
    BY <1>2, Typed
  <2> QED BY <2>1, <1>2, <1>5 DEF Call
<1>7. PICK u \in Nodes : u = newNode[w]
  BY <1>4, Refs DEF HeldBy
<1>8. PICK b \in 0..(TableSize - 1) : b = bucket(w)
  BY <1>2, Typed
<1>9. u \in Nat /\ rank[u] = 0 /\ node[u].key = K /\ node[u].value = v /\ BucketOf(u) = b
  BY <1>4, <1>5, <1>7, <1>8, Refs DEF HeldBy, BucketOf, bucket
<1>10. PICK t \in Nat : t = top + 1
  OBVIOUS
<1>11. PICK rank2 \in [Nat -> Nat] : rank2 = [rank EXCEPT ![u] = t]
  BY <1>9
<1>12. rank2[u] = t /\ \A n \in Nat : n # u => rank2[n] = rank[n]
  BY <1>9, <1>11
<1>13. Ranked(rank2, t)'
  <2>1. heads[b] = node[u].next /\ heads' = [heads EXCEPT ![b] = u]
    BY <1>2, <1>7, <1>8
  <2> QED BY <2>1, <1>1, <1>2, <1>9, <1>10, <1>11, PublishRanked
<1>14. KeepsNodes /\ Nodes' = Nodes
  BY <1>2, Typed DEF KeepsNodes, Nodes
<1>16. \A n \in Nodes : n \in Nat /\ rank[n] \in Nat /\ rank[n] < t
  BY <1>1, <1>10, Refs DEF Ranked
<1>15. ASSUME NEW n \in Nodes, rank[n] > 0 PROVE rank2[n] = rank[n]
  <2>1. n # u
    BY <1>9, <1>15
  <2> QED BY <2>1, <1>12, <1>16
<1>17. MayAct(w, v, K, t, seg, ord)
  <2>1. ASSUME NEW j \in call(w).after, calls[j].k = K PROVE seg[j] <= t
    <3>1. mine[w] \in DOMAIN calls
      BY <1>2, Typed
    <3>2. j \in Done(K) /\ j \in Nat
      BY <3>1, <2>1, AfterDone DEF call
    <3>3. CASE seg[j] = 0
      BY <3>3
    <3>4. CASE seg[j] > 0
      <4>1. PICK n \in Nodes : rank[n] = seg[j]
        BY <3>2, <3>4, <1>1, <1>6 DEF Acted
      <4> QED BY <4>1, <1>16
    <3>5. seg[j] \in Nat
      BY <3>2
    <3> QED BY <3>3, <3>4, <3>5
  <2> QED BY <2>1, <1>3, <1>10 DEF MayAct
<1>18. ActsOn(K, t, rank2)
  BY <1>2, <1>9, <1>12, <1>14 DEF ActsOn
<1>19. Spares(w, rank2)
  <2> SUFFICES ASSUME NEW z \in Workers, z # w, pc[z] \in {"cas", "relink"}
               PROVE  rank2[newNode[z]] = 0
    BY <1>2 DEF Spares
  <2>1. HeldBy(z, rank)
    BY <1>1 DEF Held
  <2>2. newNode[z] \in Nodes /\ rank[newNode[z]] = 0
    BY <2>1, Refs DEF HeldBy
  <2>3. newNode[z] # u
    BY <1>1, <1>2, <1>7 DEF Held
  <2> QED BY <2>2, <2>3, <1>12, <1>16
<1>20. Writes(w, v, K, t, rank, rank2)
  <2> SUFFICES ASSUME NEW n \in Nodes', rank2[n] > 0
               PROVE  \/ /\ n \in Nodes /\ rank2[n] = rank[n] /\ node'[n].value = node[n].value
                         /\ call(w).type # "PUT" \/ rank[n] # t
                      \/ /\ call(w).type = "PUT" /\ rank2[n] = t
                         /\ node'[n].value = v /\ node'[n].key = K
    BY DEF Writes
  <2>1. n \in Nodes
    BY <1>14
  <2>2. CASE n = u
    BY <2>2, <1>2, <1>3, <1>9, <1>12
  <2>3. CASE n # u
    BY <2>1, <2>3, <1>2, <1>12, <1>16
  <2> QED BY <2>2, <2>3
<1>21. \E seg2, ord2 \in [Nat -> Nat] : Witnessed(rank2, t, seg2, ord2)'
  BY <1>2, <1>5, <1>6, <1>13, <1>14, <1>15, <1>17, <1>18, <1>19, <1>20, CompleteStep
<1> QED BY <1>21

-----------------------------------------------------------------------------
(* Linearizability *)

\* Nothing has happened in the empty table.
LEMMA HInit == Init => HInv
<1> SUFFICES ASSUME Init PROVE HInv
  OBVIOUS
<1>1. HTypeOK
  BY HTypeInit
<1>2. /\ heads = [b \in 0..(TableSize - 1) |-> NULL] /\ Nodes = {} /\ calls = <<>>
      /\ \A w \in Workers : pc[w] = "idle"
  BY DEF Init, Nodes
<1>3. PICK z \in [Nat -> Nat] : \A n \in Nat : z[n] = 0
  <2>1. [n \in Nat |-> 0] \in [Nat -> Nat] /\ \A n \in Nat : [m \in Nat |-> 0][n] = 0
    OBVIOUS
  <2> QED BY <2>1
<1>4. ASSUME NEW k \in Keys PROVE LinearizedOn(k, z, z)
  <2>1. Done(k) = {} /\ DonePuts(k) = {}
    BY <1>2 DEF Done, DonePuts
  <2>2. Cardinality(Done(k)) = 0
    BY <2>1, FS_EmptySet
  <2>3. Numbered(k, z)
    BY <2>1, <2>2 DEF Numbered
  <2>4. Segmented(k, z, z)
    BY <2>1, <2>2 DEF Segmented
  <2> QED BY <2>1, <2>3, <2>4 DEF LinearizedOn, Legal, InTime
<1>5. Ranked(z, 0)
  BY <1>2, <1>3 DEF Ranked
<1>6. Held(z) /\ Walking(z, z)
  BY <1>2 DEF Held, Walking
<1>7. Acted(z, z)
  BY <1>2 DEF Acted, Done
<1>8. Linearized(z, z) /\ Valued(z, z, z)
  BY <1>2, <1>4 DEF Linearized, Valued
<1>9. Witnessed(z, 0, z, z)
  BY <1>5, <1>6, <1>7, <1>8 DEF Witnessed
<1> QED BY <1>1, <1>9 DEF HInv

\* A step that changes nothing.
LEMMA WitnessStutter ==
    ASSUME UNCHANGED vars, NEW rank, NEW top, NEW seg, NEW ord,
           Witnessed(rank, top, seg, ord)
    PROVE  Witnessed(rank, top, seg, ord)'
<1>1. /\ Nodes' = Nodes /\ UNCHANGED <<heads, node, pc, current, newNode, calls, mine>>
      /\ \A k \in Keys : Done(k)' = Done(k) /\ DonePuts(k)' = DonePuts(k)
  BY DEF vars, Nodes, Done, DonePuts
<1>2. /\ Ranked(rank, top) /\ Held(rank) /\ Walking(rank, seg)
      /\ Acted(rank, seg) /\ Linearized(seg, ord) /\ Valued(rank, seg, ord)
  BY DEF Witnessed
<1>3. Ranked(rank, top)'
  BY <1>1, <1>2, SameRanked
<1>4. Held(rank)'
  BY <1>1, <1>2 DEF Held, HeldBy, call
<1>5. Walking(rank, seg)'
  BY <1>1, <1>2 DEF Walking, WalkingBy, call, bucket, BucketOf
<1>6. Acted(rank, seg)'
  BY <1>1, <1>2 DEF Acted, Done
<1>7. Linearized(seg, ord)'
  BY <1>1, <1>2 DEF Linearized, LinearizedOn, Numbered, Segmented, Legal, InTime, DonePuts, Done
<1>8. Valued(rank, seg, ord)'
  BY <1>1, <1>2 DEF Valued, ValuedAt, LastOf, DonePuts, Done
<1> QED BY <1>3, <1>4, <1>5, <1>6, <1>7, <1>8 DEF Witnessed

\* Every step of the threads keeps the invariant.
LEMMA HNext == HInv /\ [Next]_vars => HInv'
<1> SUFFICES ASSUME HInv, [Next]_vars PROVE HInv'
  OBVIOUS
<1>1. HTypeOK /\ HTypeOK'
  BY HTypeStep DEF HInv
<1>2. PICK rank \in [Nat -> Nat], top \in Nat, seg \in [Nat -> Nat], ord \in [Nat -> Nat] :
        Witnessed(rank, top, seg, ord)
  BY DEF HInv
<1> DEFINE Goal == \E rank2 \in [Nat -> Nat], top2 \in Nat, seg2, ord2 \in [Nat -> Nat] :
                      Witnessed(rank2, top2, seg2, ord2)'
<1>3. SUFFICES Goal
  BY <1>1 DEF HInv
<1>4. ASSUME Witnessed(rank, top, seg, ord)' PROVE Goal
  BY <1>4
<1>5. ASSUME \E seg2, ord2 \in [Nat -> Nat] : Witnessed(rank, top, seg2, ord2)' PROVE Goal
  BY <1>5
<1> HIDE DEF Goal
<1>6. CASE UNCHANGED vars
  BY <1>2, <1>4, <1>6, WitnessStutter
<1>7. ASSUME NEW w \in Workers, put(w) PROVE Goal
  <2> PICK k \in Keys, v \in Values : Invoke(w, "PUT", k, v)
    BY <1>7 DEF put
  <2> QED BY <1>1, <1>2, <1>4, InvokeKeeps
<1>8. ASSUME NEW w \in Workers, get(w) PROVE Goal
  <2> PICK k \in Keys : Invoke(w, "GET", k, 0)
    BY <1>8 DEF get
  <2> QED BY <1>1, <1>2, <1>4, InvokeKeeps
<1>9. ASSUME NEW w \in Workers, LoadHead(w) PROVE Goal
  BY <1>1, <1>2, <1>4, <1>9, LoadHeadKeeps
<1>10. ASSUME NEW w \in Workers, WalkNext(w) PROVE Goal
  BY <1>1, <1>2, <1>4, <1>10, WalkNextKeeps
<1>11. ASSUME NEW w \in Workers, UpdateValue(w) PROVE Goal
  BY <1>1, <1>2, <1>5, <1>11, UpdateKeeps
<1>12. ASSUME NEW w \in Workers, ReadValue(w) PROVE Goal
  <2>1. /\ pc[w] = "walk" /\ call(w).type = "GET" /\ UNCHANGED <<heads, node>>
        /\ current[w] # NULL /\ node[current[w]].key = call(w).k
        /\ Respond(w, node[current[w]].value)
    BY <1>12 DEF ReadValue, Matches
  <2>2. PICK v \in Nat : v = node[current[w]].value
    <3>1. current[w] \in Nodes
      BY <2>1, <1>1, Refs
    <3>2. node[current[w]] \in [key : Keys, value : Values, next : 0..Len(node)]
      BY <3>1, <1>1, Typed
    <3> QED BY <3>2, HashAssumption
  <2>3. Respond(w, v)
    BY <2>1, <2>2
  <2> QED BY <2>1, <2>2, <2>3, <1>1, <1>2, <1>5, GetKeeps
<1>13. ASSUME NEW w \in Workers, NotFound(w) PROVE Goal
  <2>1. /\ pc[w] = "walk" /\ call(w).type = "GET" /\ UNCHANGED <<heads, node>>
        /\ current[w] = NULL /\ Respond(w, 0)
    BY <1>13 DEF NotFound
  <2> QED BY <2>1, <1>1, <1>2, <1>5, GetKeeps
<1>14. ASSUME NEW w \in Workers, NewNode(w) PROVE Goal
  BY <1>1, <1>2, <1>4, <1>14, NewNodeKeeps
<1>15. ASSUME NEW w \in Workers, Publish(w) PROVE Goal
  BY <1>1, <1>2, <1>15, PublishKeeps DEF Goal
<1>16. ASSUME NEW w \in Workers, Relink(w) PROVE Goal
  BY <1>1, <1>2, <1>4, <1>16, RelinkKeeps DEF Relink
<1>17. ASSUME NEW w \in Workers, Reload(w) PROVE Goal
  BY <1>1, <1>2, <1>4, <1>17, RelinkKeeps DEF Reload
<1> QED BY <1>6, <1>7, <1>8, <1>9, <1>10, <1>11, <1>12, <1>13, <1>14, <1>15, <1>16, <1>17
        DEF Next, Step

\* The numbering ord of the finished calls on a key linearizes them.
LEMMA OrdLinearizes ==
    ASSUME HTypeOK, NEW k \in Keys, NEW seg \in [Nat -> Nat], NEW ord \in [Nat -> Nat],
           LinearizedOn(k, seg, ord)
    PROVE  \E order \in Bijection(Done(k), 1..Cardinality(Done(k))) :
              LinearizesAs(Done(k), order)
<1>1. /\ Numbered(k, ord) /\ Segmented(k, seg, ord) /\ Legal(k, seg, ord) /\ InTime(k, ord)
      /\ \A p \in DonePuts(k) : seg[p] > 0
  BY DEF LinearizedOn
<1>2. PICK D : D = Done(k)
  OBVIOUS
<1>3. PICK P : P = DonePuts(k)
  OBVIOUS
<1>4. PICK c \in Nat : c = Cardinality(D)
  BY <1>2, DoneFinite
<1>5. /\ D \subseteq Nat /\ P \subseteq D /\ \A i \in D : ord[i] \in Nat /\ seg[i] \in Nat
      /\ P = {i \in D : calls[i].type = "PUT"}
  BY <1>2, <1>3, DoneFinite DEF DonePuts
<1>6. PICK order \in [D -> Nat] : \A i \in D : order[i] = ord[i]
  <2>1. [i \in D |-> ord[i]] \in [D -> Nat]
    BY <1>5
  <2>2. \A i \in D : [j \in D |-> ord[j]][i] = ord[i]
    OBVIOUS
  <2> QED BY <2>1, <2>2
<1>7. order \in Bijection(D, 1..c)
  <2>1. /\ \A i \in D : order[i] \in 1..c
        /\ \A i, j \in D : order[i] = order[j] => i = j
        /\ \A p \in 1..c : \E i \in D : order[i] = p
    BY <1>1, <1>2, <1>4, <1>6 DEF Numbered
  <2>2. order \in [D -> 1..c]
    BY <2>1
  <2>3. order \in Injection(D, 1..c)
    BY <2>1, <2>2 DEF Injection, IsInjective
  <2>4. order \in Surjection(D, 1..c)
    BY <2>1, <2>2 DEF Surjection
  <2> QED BY <2>3, <2>4 DEF Bijection
<1>8. \A i, j \in D : i \in calls[j].after => order[i] < order[j]
  BY <1>1, <1>2, <1>6 DEF InTime
<1>9. ASSUME NEW g \in D \ P, NEW last, last = LastPut(P, order, order[g])
      PROVE  IF last = {} THEN calls[g].v = 0 ELSE \A p \in last : calls[g].v = calls[p].v
  <2>0. \A p \in last : p \in P /\ order[p] < order[g]
                        /\ \A q \in P : order[q] < order[g] => order[q] <= order[p]
    BY <1>9 DEF LastPut
  <2>1. CASE seg[g] = 0 /\ calls[g].v = 0
    <3>1. PICK r \in 0..c : \A i \in D : seg[i] <= 0 <=> ord[i] <= r
      BY <1>1, <1>2, <1>4 DEF Segmented
    <3>2. ASSUME NEW p \in P PROVE ~(order[p] < order[g])
      <4>1. seg[p] > 0 /\ p \in D /\ g \in D
        BY <1>1, <1>3, <1>5, <1>9
      <4>2. ord[g] <= r /\ ~(ord[p] <= r)
        BY <4>1, <3>1, <2>1, <1>5
      <4>3. ord[g] \in Nat /\ ord[p] \in Nat /\ r \in Nat
        BY <4>1, <1>5
      <4>4. ~(ord[p] < ord[g])
        BY <4>2, <4>3
      <4> QED BY <4>1, <4>4, <1>6
    <3>3. last = {}
      BY <2>0, <3>2
    <3> QED BY <2>1, <3>3
  <2>2. CASE \E p \in P :
              /\ seg[p] = seg[g] /\ ord[p] < ord[g] /\ calls[p].v = calls[g].v
              /\ \A q \in P : ord[q] < ord[g] => ord[q] <= ord[p]
    <3>1. PICK p \in P :
              /\ seg[p] = seg[g] /\ ord[p] < ord[g] /\ calls[p].v = calls[g].v
              /\ \A q \in P : ord[q] < ord[g] => ord[q] <= ord[p]
      BY <2>2
    <3>2. /\ \A q \in P : order[q] = ord[q] /\ q \in D
          /\ order[g] = ord[g]
      BY <1>5, <1>6, <1>9
    <3>3. p \in LastPut(P, order, order[g])
      BY <3>1, <3>2 DEF LastPut
    <3>4. ASSUME NEW q \in last PROVE q = p
      <4>1. q \in P /\ ord[q] < ord[g] /\ ord[p] <= ord[q]
        BY <2>0, <3>1, <3>2, <3>4
      <4>2. ord[q] <= ord[p] /\ q \in D /\ p \in D
        BY <4>1, <3>1, <3>2
      <4>3. ord[q] \in Nat /\ ord[p] \in Nat
        BY <4>2, <1>5
      <4>4. ord[q] = ord[p]
        BY <4>1, <4>2, <4>3
      <4> QED BY <4>2, <4>4, <1>1, <1>2 DEF Numbered
    <3>5. last # {} /\ \A q \in last : calls[g].v = calls[q].v
      BY <3>1, <3>3, <3>4, <1>9
    <3> QED BY <3>5
  <2> QED BY <2>1, <2>2, <1>1, <1>2, <1>3, <1>9 DEF Legal
<1>10. LinearizesAs(D, order)
  BY <1>5, <1>8, <1>9, Zenon DEF LinearizesAs
<1> QED BY <1>2, <1>4, <1>7, <1>10

\* The invariant implies that the finished calls linearize: no call that is
\* still running has to take effect early.
LEMMA HInvCorrect == HInv => HashCorrect
<1> SUFFICES ASSUME HInv PROVE HashCorrect
  OBVIOUS
<1>1. HTypeOK
  BY DEF HInv
<1>2. PICK rank \in [Nat -> Nat], top \in Nat, seg \in [Nat -> Nat], ord \in [Nat -> Nat] :
        Witnessed(rank, top, seg, ord)
  BY DEF HInv
<1>3. ASSUME NEW k \in Keys
      PROVE  LET onKey == {i \in DOMAIN calls : calls[i].k = k}
                 complete == {i \in onKey : calls[i].returned}
                 pendingPuts == {i \in onKey \ complete : calls[i].type = "PUT"}
             IN  \E extra \in SUBSET pendingPuts :
                   LET ops == complete \cup extra IN
                   \E order \in Bijection(ops, 1..Cardinality(ops)) :
                       LinearizesAs(ops, order)
  <2> DEFINE onKey == {i \in DOMAIN calls : calls[i].k = k}
             complete == {i \in onKey : calls[i].returned}
             pendingPuts == {i \in onKey \ complete : calls[i].type = "PUT"}
  <2>1. complete = Done(k)
    BY DEF Done
  <2>2. \E order \in Bijection(Done(k), 1..Cardinality(Done(k))) : LinearizesAs(Done(k), order)
    BY <1>1, <1>2, OrdLinearizes DEF Witnessed, Linearized
  <2>3. complete \cup {} = complete /\ {} \in SUBSET pendingPuts
    OBVIOUS
  <2> HIDE DEF complete, pendingPuts
  <2>4. \E extra \in SUBSET pendingPuts :
          \E order \in Bijection(complete \cup extra, 1..Cardinality(complete \cup extra)) :
              LinearizesAs(complete \cup extra, order)
    <3> WITNESS {} \in SUBSET pendingPuts
    <3> QED BY <2>1, <2>2, <2>3
  <2> QED BY <2>4 DEF complete, pendingPuts
<1>4. Linearizable
  BY <1>3, Zenon DEF Linearizable
<1> QED BY <1>1, <1>4 DEF HashCorrect, HTypeOK

\* Whatever the number of threads, keys, buckets and calls, the chains are
\* well formed and the put and get calls of kv_store.c are linearizable.
THEOREM HashIsCorrect == Spec => []HashCorrect
<1>1. Spec => []HInv
  BY HInit, HNext, PTL DEF Spec
<1> QED BY <1>1, HInvCorrect, PTL

-----------------------------------------------------------------------------
(* Chains only grow *)

\* Every set closed after the step holds one closed before it.
Covers(b) ==
    \A S \in SUBSET (DOMAIN node)' : Closed(b, S)' =>
        \E T \in SUBSET DOMAIN node : T \subseteq S /\ Closed(b, T)

\* A chain is the least closed set, so it only grows.
LEMMA CoversGrows ==
    ASSUME HTypeOK, HTypeOK', NEW b \in DOMAIN heads, Covers(b), Nodes \subseteq Nodes'
    PROVE  Chain[b] \subseteq Chain'[b]
<1>1. DOMAIN heads = 0..(TableSize - 1) /\ DOMAIN heads' = 0..(TableSize - 1)
  BY DEF HTypeOK, TypeOK
<1>2. DOMAIN node = Nodes /\ DOMAIN node' = Nodes'
  BY DEF HTypeOK, Nodes
<1>3. Chain[b] = {n \in DOMAIN node : \A S \in SUBSET DOMAIN node : Closed(b, S) => n \in S}
  BY DEF Chain
<1>4. Chain'[b] = {n \in DOMAIN node' : \A S \in SUBSET DOMAIN node' : Closed(b, S)' => n \in S}
  BY <1>1 DEF Chain
<1> SUFFICES ASSUME NEW n \in Chain[b] PROVE n \in Chain'[b]
  OBVIOUS
<1>5. n \in DOMAIN node /\ \A S \in SUBSET DOMAIN node : Closed(b, S) => n \in S
  BY <1>3
<1>6. ASSUME NEW S \in SUBSET DOMAIN node', Closed(b, S)' PROVE n \in S
  <2>1. PICK T \in SUBSET DOMAIN node : T \subseteq S /\ Closed(b, T)
    BY <1>6 DEF Covers
  <2> QED BY <2>1, <1>5
<1> QED BY <1>2, <1>4, <1>5, <1>6

\* The next fields of the old nodes and the head do not change.
LEMMA SameLinks ==
    ASSUME HTypeOK, HTypeOK', NEW b \in 0..(TableSize - 1), heads' = heads, Nodes \subseteq Nodes',
           \A n \in Nodes : node'[n].next = node[n].next
    PROVE  Covers(b)
<1>1. DOMAIN node = Nodes /\ DOMAIN node' = Nodes'
  BY DEF HTypeOK, Nodes
<1>2. ASSUME NEW S \in SUBSET DOMAIN node', Closed(b, S)'
      PROVE  \E T \in SUBSET DOMAIN node : T \subseteq S /\ Closed(b, T)
  <2>1. PICK T : T = S \cap Nodes
    OBVIOUS
  <2>2. Holds(T, heads[b])
    BY <2>1, <1>2, Refs DEF Closed, Holds
  <2>3. ASSUME NEW m \in T PROVE Holds(T, node[m].next)
    <3>1. m \in Nodes /\ m \in S
      BY <2>1
    <3>2. Holds(S, node'[m].next)
      BY <3>1, <1>2 DEF Closed, Holds
    <3> QED BY <3>1, <3>2, <2>1, Refs DEF Holds
  <2>4. Closed(b, T)
    BY <2>2, <2>3 DEF Closed
  <2> QED BY <2>1, <2>4, <1>1
<1> QED BY <1>2 DEF Covers

\* Publish puts a node in front of the head.
LEMMA PublishCovers ==
    ASSUME HTypeOK, HTypeOK', NEW b \in 0..(TableSize - 1), NEW c \in 0..(TableSize - 1),
           NEW u \in Nodes, heads[c] = node[u].next,
           heads' = [heads EXCEPT ![c] = u], node' = node
    PROVE  Covers(b)
<1>1. DOMAIN node = Nodes /\ DOMAIN node' = Nodes /\ u # NULL
  BY Typed
<1>2. heads'[b] = IF b = c THEN u ELSE heads[b]
  BY DEF HTypeOK, TypeOK
<1>3. ASSUME NEW S \in SUBSET DOMAIN node', Closed(b, S)'
      PROVE  \E T \in SUBSET DOMAIN node : T \subseteq S /\ Closed(b, T)
  <2>1. Holds(S, heads'[b]) /\ \A m \in S : Holds(S, node[m].next)
    BY <1>3 DEF Closed, Holds
  <2>2. Holds(S, heads[b])
    <3>1. CASE b = c
      <4>1. u \in S
        BY <3>1, <2>1, <1>1, <1>2 DEF Holds
      <4> QED BY <4>1, <3>1, <2>1
    <3>2. CASE b # c
      BY <3>2, <2>1, <1>2
    <3> QED BY <3>1, <3>2
  <2>3. Closed(b, S)
    BY <2>1, <2>2 DEF Closed
  <2> QED BY <2>3, <1>1
<1> QED BY <1>3 DEF Covers

\* Relinking a node that is not published.
LEMMA RelinkCovers ==
    ASSUME HTypeOK, HTypeOK', NEW b \in 0..(TableSize - 1),
           NEW rank \in [Nat -> Nat], NEW top, Ranked(rank, top),
           NEW u \in Nodes, rank[u] = 0, heads' = heads, Nodes' = Nodes,
           \A n \in Nodes : n # u => node'[n] = node[n]
    PROVE  Covers(b)
<1>0. DOMAIN node = Nodes /\ DOMAIN node' = Nodes'
  BY DEF HTypeOK, Nodes
<1>1. DOMAIN node = Nodes /\ DOMAIN node' = Nodes /\ u # NULL
  BY <1>0, Typed
<1>2. heads[b] # u
  <2>1. heads[b] # NULL => rank[heads[b]] > 0
    BY DEF Ranked
  <2>2. ASSUME heads[b] = u PROVE FALSE
    <3>1. rank[u] > 0
      BY <2>1, <2>2, <1>1
    <3> QED BY <3>1
  <2> QED BY <2>2
<1>3. ASSUME NEW n \in Nodes PROVE node[n].next # u
  <2>1. node[n].next # NULL => rank[node[n].next] > 0
    BY DEF Ranked
  <2>2. ASSUME node[n].next = u PROVE FALSE
    <3>1. rank[u] > 0
      BY <2>1, <2>2, <1>1
    <3> QED BY <3>1
  <2> QED BY <2>2
<1>4. ASSUME NEW S \in SUBSET DOMAIN node', Closed(b, S)'
      PROVE  \E T \in SUBSET DOMAIN node : T \subseteq S /\ Closed(b, T)
  <2>1. PICK T : T = S \ {u}
    OBVIOUS
  <2>2. Holds(T, heads[b])
    BY <2>1, <1>2, <1>4 DEF Closed, Holds
  <2>3. ASSUME NEW m \in T PROVE Holds(T, node[m].next)
    <3>1. m \in Nodes /\ m \in S /\ m # u
      BY <2>1, <1>1
    <3>2. Holds(S, node[m].next)
      BY <3>1, <1>4 DEF Closed, Holds
    <3> QED BY <3>1, <3>2, <2>1, <1>3 DEF Holds
  <2>4. Closed(b, T)
    BY <2>2, <2>3 DEF Closed
  <2> QED BY <2>1, <2>4, <1>1
<1> QED BY <1>4 DEF Covers

\* Relink and Reload change the next field of the worker's own node only.
LEMMA RelinkLinks ==
    ASSUME HTypeOK, NEW w \in Workers, NEW u \in Nodes, u = newNode[w], NEW h,
           node' = [node EXCEPT ![u].next = h]
    PROVE  Nodes' = Nodes /\ \A n \in Nodes : n # u => node'[n] = node[n]
<1>1. DOMAIN node = Nodes /\ node \in Seq([key : Keys, value : Values, next : Nat])
  BY Typed DEF HTypeOK
<1>2. PICK e : e = [node[u] EXCEPT !.next = h]
  OBVIOUS
<1>3. node' = [node EXCEPT ![u] = e]
  BY <1>1, <1>2
<1>4. \A n \in Nodes : n # u => node'[n] = node[n]
  BY <1>1, <1>3
<1>5. Len(node') = Len(node)
  BY <1>1, <1>3
<1> QED BY <1>4, <1>5 DEF Nodes

\* Every step that changes something keeps the nodes of every chain.
LEMMA StepCovers ==
    ASSUME HInv, HTypeOK, HTypeOK', Next, NEW b \in DOMAIN heads
    PROVE  Covers(b) /\ Nodes \subseteq Nodes'
<1>0. b \in 0..(TableSize - 1)
  BY DEF HTypeOK, TypeOK
<1>1. PICK rank \in [Nat -> Nat], top \in Nat, seg \in [Nat -> Nat], ord \in [Nat -> Nat] :
        Witnessed(rank, top, seg, ord)
  BY DEF HInv
<1>2. Ranked(rank, top) /\ Held(rank)
  BY <1>1 DEF Witnessed
<1>3. ASSUME UNCHANGED <<heads, node>> PROVE Covers(b) /\ Nodes \subseteq Nodes'
  <2>1. heads' = heads /\ Nodes' = Nodes /\ \A n \in Nodes : node'[n].next = node[n].next
    BY <1>3 DEF Nodes
  <2> QED BY <2>1, <1>0, SameLinks
<1>4. ASSUME NEW w \in Workers, put(w) \/ get(w) PROVE UNCHANGED <<heads, node>>
  BY <1>4 DEF put, get, Invoke
<1>5. ASSUME NEW w \in Workers, LoadHead(w) \/ WalkNext(w) \/ ReadValue(w) \/ NotFound(w)
      PROVE  UNCHANGED <<heads, node>>
  BY <1>5 DEF LoadHead, WalkNext, ReadValue, NotFound
<1>6. ASSUME NEW w \in Workers, UpdateValue(w) PROVE Covers(b) /\ Nodes \subseteq Nodes'
  <2>1. current[w] \in Nodes /\ heads' = heads
    BY <1>6, Refs DEF UpdateValue, Matches
  <2>2. PICK c \in Nodes : c = current[w]
    BY <2>1
  <2>8. PICK e : e = [node[c] EXCEPT !.value = call(w).v]
    OBVIOUS
  <2>3. /\ DOMAIN node = Nodes /\ node \in Seq([key : Keys, value : Values, next : Nat])
        /\ node[c] \in [key : Keys, value : Values, next : 0..Len(node)]
    BY Typed DEF HTypeOK
  <2>4. node' = [node EXCEPT ![c] = e]
    BY <1>6, <2>2, <2>3, <2>8 DEF UpdateValue
  <2>5. e.next = node[c].next
    BY <2>3, <2>8
  <2>6. \A n \in Nodes : node'[n].next = node[n].next
    BY <2>3, <2>4, <2>5
  <2>7. Nodes' = Nodes
    BY <2>3, <2>4 DEF Nodes
  <2> QED BY <2>1, <2>6, <2>7, <1>0, SameLinks
<1>7. ASSUME NEW w \in Workers, NewNode(w) PROVE Covers(b) /\ Nodes \subseteq Nodes'
  <2>1. PICK e : node' = Append(node, e) /\ heads' = heads
    BY <1>7 DEF NewNode
  <2>2. node \in Seq([key : Keys, value : Values, next : Nat]) /\ Len(node) \in Nat
    BY DEF HTypeOK
  <2>3. Len(node') = Len(node) + 1 /\ \A n \in 1..Len(node) : node'[n] = node[n]
    BY <2>1, <2>2
  <2>4. Nodes \subseteq Nodes' /\ \A n \in Nodes : node'[n].next = node[n].next
    <3>1. PICK L \in Nat : L = Len(node)
      BY <2>2
    <3>2. 1..L \subseteq 1..(L + 1)
      OBVIOUS
    <3> QED BY <2>3, <3>1, <3>2 DEF Nodes
  <2> QED BY <2>1, <2>4, <1>0, SameLinks
<1>8. ASSUME NEW w \in Workers, Publish(w) PROVE Covers(b) /\ Nodes \subseteq Nodes'
  <2>1. /\ pc[w] = "cas" /\ pc[w] # "idle" /\ node' = node
        /\ heads[bucket(w)] = node[newNode[w]].next
        /\ heads' = [heads EXCEPT ![bucket(w)] = newNode[w]]
    BY <1>8 DEF Publish, CasWins
  <2>2. PICK u \in Nodes : u = newNode[w]
    BY <2>1, <1>2, Refs DEF Held, HeldBy
  <2>3. PICK c \in 0..(TableSize - 1) : c = bucket(w)
    BY <2>1, Typed
  <2>4. heads[c] = node[u].next /\ heads' = [heads EXCEPT ![c] = u] /\ Nodes' = Nodes
    BY <2>1, <2>2, <2>3 DEF Nodes
  <2> QED BY <2>1, <2>4, <1>0, PublishCovers
<1>9. ASSUME NEW w \in Workers, Relink(w) \/ Reload(w) PROVE Covers(b) /\ Nodes \subseteq Nodes'
  <2>1. /\ pc[w] \in {"cas", "relink"} /\ heads' = heads
        /\ node' = [node EXCEPT ![newNode[w]].next = heads[bucket(w)]]
    BY <1>9 DEF Relink, Reload
  <2>2. HeldBy(w, rank)
    BY <2>1, <1>2 DEF Held
  <2>3. PICK u \in Nodes : u = newNode[w]
    BY <2>2, Refs DEF HeldBy
  <2>6. PICK h : h = heads[bucket(w)]
    OBVIOUS
  <2>4. rank[u] = 0 /\ node' = [node EXCEPT ![u].next = h]
    BY <2>1, <2>2, <2>3, <2>6 DEF HeldBy
  <2>5. Nodes' = Nodes /\ \A n \in Nodes : n # u => node'[n] = node[n]
    BY <2>3, <2>4, RelinkLinks
  <2> QED BY <2>1, <2>4, <2>5, <1>0, <1>2, RelinkCovers
<1> QED BY <1>3, <1>4, <1>5, <1>6, <1>7, <1>8, <1>9 DEF Next, Step

\* No interleaving of inserts loses a node of a bucket's chain.
THEOREM HashNodesStay == Spec => NodesStay
<1>1. Spec => []HInv
  BY HInit, HNext, PTL DEF Spec
<1>2. HInv /\ [Next]_vars => [\A b \in DOMAIN heads : Chain[b] \subseteq Chain'[b]]_vars
  <2> SUFFICES ASSUME HInv, Next, NEW b \in DOMAIN heads PROVE Chain[b] \subseteq Chain'[b]
    OBVIOUS
  <2>1. HTypeOK /\ HTypeOK'
    BY HTypeStep DEF HInv
  <2> QED BY <2>1, StepCovers, CoversGrows
<1> QED BY <1>1, <1>2, PTL DEF Spec, NodesStay
=============================================================================
