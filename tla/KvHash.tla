------------------------------- MODULE KvHash -------------------------------
(***************************************************************************)
(* The server's hash table (cs537/P6/kv_store.c): an array of buckets,     *)
(* each the head of a chain of nodes.  insert and search are called by     *)
(* any number of server threads without a lock.  Every access to a shared  *)
(* word (a bucket's head, a node's next, a node's value) is one step.      *)
(*                                                                         *)
(* A node's key and next are fixed before the compare-and-swap publishes   *)
(* it, so comparing the key belongs to the step that reached the node.     *)
(* Nodes are numbered by malloc; NULL is 0.  calls is the history the      *)
(* linearizability property reads: the calls in the order they started.    *)
(***************************************************************************)
EXTENDS Naturals, Sequences, FiniteSets, Functions

CONSTANTS Workers,   \* the server threads
          Keys, Values, TableSize,
          MaxCalls   \* bound on the number of put and get calls

ASSUME HashAssumption ==
    /\ Keys \subseteq Nat /\ Values \subseteq Nat
    /\ TableSize \in Nat \ {0} /\ MaxCalls \in Nat

NULL == 0
None == "none"

VARIABLES heads,    \* bucket -> first node of its chain
          node,     \* the nodes allocated so far
          pc,       \* the next access of each worker
          current,  \* the node it is looking at (current)
          newNode,  \* the node it allocated (newNode)
          calls,    \* the put and get calls so far
          mine      \* the call each worker is executing

vars == <<heads, node, pc, current, newNode, calls, mine>>

hash_function(k) == k % TableSize

Init ==
    /\ heads = [b \in 0..(TableSize - 1) |-> NULL]
    /\ node = <<>>
    /\ pc = [w \in Workers |-> "idle"]
    /\ current = [w \in Workers |-> NULL]
    /\ newNode = [w \in Workers |-> NULL]
    /\ calls = <<>>
    /\ mine = [w \in Workers |-> 0]

call(w) == calls[mine[w]]
bucket(w) == hash_function(call(w).k)

\* The calls that had returned when a new one starts
Returned == {i \in DOMAIN calls : calls[i].returned}

Invoke(w, type, k, v) ==
    /\ pc[w] = "idle"
    /\ Len(calls) < MaxCalls
    /\ pc' = [pc EXCEPT ![w] = "load"]
    /\ calls' = Append(calls, [type |-> type, k |-> k, v |-> v,
                               returned |-> FALSE, after |-> Returned])
    /\ mine' = [mine EXCEPT ![w] = Len(calls) + 1]
    /\ UNCHANGED <<heads, node, current, newNode>>

\* the call ends; a get returns v
Respond(w, v) ==
    /\ calls' = [calls EXCEPT ![mine[w]].returned = TRUE, ![mine[w]].v = v]
    /\ pc' = [pc EXCEPT ![w] = "idle"]
    /\ mine' = [mine EXCEPT ![w] = 0]
    /\ current' = [current EXCEPT ![w] = NULL]
    /\ newNode' = [newNode EXCEPT ![w] = NULL]

LoadHead(w) ==
    /\ pc[w] = "load"
    /\ current' = [current EXCEPT ![w] = heads[bucket(w)]]
    /\ pc' = [pc EXCEPT ![w] = "walk"]
    /\ UNCHANGED <<heads, node, newNode, calls, mine>>

Matches(w) == current[w] # NULL /\ node[current[w]].key = call(w).k

\* the loop moves on to current->next
WalkNext(w) ==
    /\ pc[w] = "walk"
    /\ current[w] # NULL /\ ~Matches(w)
    /\ current' = [current EXCEPT ![w] = node[current[w]].next]
    /\ UNCHANGED <<heads, node, pc, newNode, calls, mine>>

\* Variant: the value is not written.
UpdateNothing(w) ==
    /\ pc[w] = "walk" /\ call(w).type = "PUT" /\ Matches(w)
    /\ Respond(w, call(w).v)
    /\ UNCHANGED <<heads, node>>

\* insert finds the key and overwrites the value
UpdateValue(w) ==
    /\ pc[w] = "walk" /\ call(w).type = "PUT" /\ Matches(w)
    /\ node' = [node EXCEPT ![current[w]].value = call(w).v]
    /\ Respond(w, call(w).v)
    /\ UNCHANGED heads

\* search finds the key and returns the value
ReadValue(w) ==
    /\ pc[w] = "walk" /\ call(w).type = "GET" /\ Matches(w)
    /\ Respond(w, node[current[w]].value)
    /\ UNCHANGED <<heads, node>>

\* search reaches the end of the chain and returns 0
NotFound(w) ==
    /\ pc[w] = "walk" /\ call(w).type = "GET" /\ current[w] = NULL
    /\ Respond(w, 0)
    /\ UNCHANGED <<heads, node>>

\* insert reaches the end: allocate a node, fill it, and load the head it
\* will be linked in front of
NewNode(w) ==
    /\ pc[w] = "walk" /\ call(w).type = "PUT" /\ current[w] = NULL
    /\ node' = Append(node, [key |-> call(w).k, value |-> call(w).v,
                             next |-> heads[bucket(w)]])
    /\ newNode' = [newNode EXCEPT ![w] = Len(node) + 1]
    /\ pc' = [pc EXCEPT ![w] = "cas"]
    /\ UNCHANGED <<heads, current, calls, mine>>

\* Variant: a plain store.
StoreHead(w) == TRUE

CasWins(w) == heads[bucket(w)] = node[newNode[w]].next

Publish(w) ==
    /\ pc[w] = "cas" /\ CasWins(w)
    /\ heads' = [heads EXCEPT ![bucket(w)] = newNode[w]]
    /\ Respond(w, call(w).v)
    /\ UNCHANGED node

\* the failed compare-and-swap stored the head it saw in newNode->next; the
\* body of the loop loads the head again
Relink(w) ==
    /\ pc[w] = "cas" /\ ~CasWins(w)
    /\ pc' = [pc EXCEPT ![w] = "relink"]
    /\ node' = [node EXCEPT ![newNode[w]].next = heads[bucket(w)]]
    /\ UNCHANGED <<heads, current, newNode, calls, mine>>

Reload(w) ==
    /\ pc[w] = "relink"
    /\ pc' = [pc EXCEPT ![w] = "cas"]
    /\ node' = [node EXCEPT ![newNode[w]].next = heads[bucket(w)]]
    /\ UNCHANGED <<heads, current, newNode, calls, mine>>

Step(w) ==
    \/ LoadHead(w) \/ WalkNext(w) \/ UpdateValue(w) \/ ReadValue(w)
    \/ NotFound(w) \/ NewNode(w) \/ Publish(w) \/ Relink(w) \/ Reload(w)

put(w) == \E k \in Keys, v \in Values : Invoke(w, "PUT", k, v)
get(w) == \E k \in Keys : Invoke(w, "GET", k, 0)

Next == \E w \in Workers : put(w) \/ get(w) \/ Step(w)

Spec == Init /\ [][Next]_vars

-----------------------------------------------------------------------------
(* Properties *)

TypeOK ==
    /\ heads \in [0..(TableSize - 1) -> 0..Len(node)]
    /\ \A n \in DOMAIN node :
          node[n] \in [key : Keys, value : Values, next : 0..Len(node)]
    /\ pc \in [Workers -> {"idle", "load", "walk", "cas", "relink"}]
    /\ current \in [Workers -> 0..Len(node)]
    /\ newNode \in [Workers -> 0..Len(node)]
    /\ mine \in [Workers -> 0..Len(calls)]

\* The nodes of a bucket's chain: the least set that holds the bucket's head
\* and, with every node, the node after it.
Holds(S, n) == n = NULL \/ n \in S

Closed(b, S) == Holds(S, heads[b]) /\ \A m \in S : Holds(S, node[m].next)

Chain ==
    [b \in DOMAIN heads |->
        {n \in DOMAIN node :
            \A S \in SUBSET DOMAIN node : Closed(b, S) => n \in S}]

\* kv_store.c adds nodes to a bucket and never loses one, whatever inserts run
\* at the same time.
NodesStay == [][\A b \in DOMAIN heads : Chain[b] \subseteq Chain'[b]]_vars

\* put and get of concurrent threads behave as if each took effect at one
\* moment between its call and its return: the calls on a key can be put in an
\* order that respects the returns seen by later calls, and in which every get
\* returns the value of the last put before it, or 0 (kv_store.c, comments on
\* put and get).
LastPut(puts, order, n) ==
    {p \in puts : order[p] < n /\ \A q \in puts : order[q] < n => order[q] <= order[p]}

LinearizesAs(ops, order) ==
    LET puts == {i \in ops : calls[i].type = "PUT"} IN
    /\ \A i, j \in ops : i \in calls[j].after => order[i] < order[j]
    /\ \A g \in ops \ puts :
          LET last == LastPut(puts, order, order[g]) IN
          IF last = {} THEN calls[g].v = 0
                       ELSE \A p \in last : calls[g].v = calls[p].v

Linearizable ==
    \A k \in Keys :
        LET onKey == {i \in DOMAIN calls : calls[i].k = k}
            complete == {i \in onKey : calls[i].returned}
            pendingPuts == {i \in onKey \ complete : calls[i].type = "PUT"}
        IN  \E extra \in SUBSET pendingPuts :
              LET ops == complete \cup extra IN
              \E order \in Bijection(ops, 1..Cardinality(ops)) :
                  LinearizesAs(ops, order)

\* The chains stay well formed, and the threads' put and get are linearizable.
HashCorrect == TypeOK /\ Linearizable
=============================================================================
