------------------------------ MODULE LatencyHash ------------------------------
(***************************************************************************)
(* The two-level hash map of latencies (latency_hash.c): for each first    *)
(* node that has any, the latencies to its second nodes.                   *)
(***************************************************************************)
EXTENDS Integers

EmptyHash == [k \in {} |-> 0]

\* The first value stays; a different one is refused with LH_DUP_INSERT, which the
\* caller only prints.
latency_hash_insert(hash, k1, k2, value) ==
  LET inner == IF k1 \in DOMAIN hash THEN hash[k1] ELSE EmptyHash
      grown == IF k2 \in DOMAIN inner THEN inner
               ELSE [k \in DOMAIN inner \cup {k2} |->
                       IF k = k2 THEN value ELSE inner[k]]
  IN  [k \in DOMAIN hash \cup {k1} |-> IF k = k1 THEN grown ELSE hash[k]]

\* latency_hash_get() says LH_OK, else LH_MISSING ...
LH_OK(hash, k1, k2) == k1 \in DOMAIN hash /\ k2 \in DOMAIN hash[k1]

\* ... and in the first case gives the value.
latency_hash_get(hash, k1, k2) == hash[k1][k2]
=============================================================================
