----------------------------- MODULE MCKvSystem -----------------------------
(* Workloads of KvSystem for TLC.                                            *)
EXTENDS KvSystem

CONSTANTS p1, p2

Put(k, v) == [t |-> "PUT", k |-> k, v |-> v]
Get(k) == [t |-> "GET", k |-> k, v |-> 0]
Load(w, first, second) ==
    [win_size |-> w, reqs |-> [t \in {p1, p2} |-> IF t = p1 THEN first ELSE second]]

\* One client thread with a window of two: a first get on a key nobody wrote,
\* window slots reused by a put.  Two threads with a window of one: a key of
\* their own each, read after the put.
MCWorkloads ==
    { Load(2, <<Get(2), Put(1, 1), Get(1), Put(2, 2)>>, <<>>),
      Load(1, <<Put(1, 1), Get(1)>>, <<Put(2, 1), Get(2)>>) }

MCItems ==
    UNION {{[req_type |-> w.reqs[t][i].t, k |-> w.reqs[t][i].k, v |-> w.reqs[t][i].v, id |-> i,
             res_off |-> <<t, s>>] : i \in 1..Len(w.reqs[t]), s \in 0..1}
           : w \in MCWorkloads, t \in Producers}

\* These workloads are within what the proofs of KvSystem ask.
ASSUME WorkloadsFit == RingFits
=============================================================================
