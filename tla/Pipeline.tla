------------------------------ MODULE Pipeline ------------------------------
(* What the modules of the sessions and of the client say of a channel of   *)
(* messages <<stream, number>>.                                             *)
EXTENDS Integers, Sequences

\* The places of the messages of c in queue q.
Places(q, c) == {k \in DOMAIN q : q[k][1] = c}

\* The messages of c in queue q are those from number lo to number hi, each
\* of them once and in the order of the numbers.
InOrder(q, c, lo, hi) ==
  /\ {q[k][2] : k \in Places(q, c)} = lo .. hi
  /\ \A j, k \in Places(q, c) : j < k <=> q[j][2] < q[k][2]

\* The messages in queue q are of streams up to m, those of a stream behind
\* those of the streams before it.
Sorted(q, m) ==
  /\ \A k \in DOMAIN q : q[k][1] <= m
  /\ \A i, k \in DOMAIN q : i < k => q[i][1] <= q[k][1]
=============================================================================
