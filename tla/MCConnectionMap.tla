-------------------------- MODULE MCConnectionMap --------------------------
(* How a few descriptors may fall into buckets. *)
EXTENDS ConnectionMap

CONSTANTS k1, k2, k3, k4, b1, b2

\* k1 and k2 share a bucket.
OnePair == [k \in Keys |-> IF k \in {k1, k2} THEN b1 ELSE b2]

\* k1 and k3 share one, k2 and k4 the other: 29 and 33, 30 and 34.
TwoPairs == [k \in Keys |-> IF k \in {k1, k3} THEN b1 ELSE b2]
=============================================================================
