---------------------------- MODULE AbstractMap ----------------------------
(***************************************************************************)
(* What the server gets from its connection map: one connection for each   *)
(* descriptor, found again until it is removed.  This is promised to the   *)
(* buckets nobody has left; in the others a call may find nothing, and a   *)
(* connection that is then not removed stays.                              *)
(***************************************************************************)

CONSTANTS Keys, Conns, NoConn, Bucket

VARIABLES
  map,   \* set of [key, conn]
  left,  \* the buckets a connection was to be removed from
  last   \* the last call that returned: [op, key, conn]

vars == <<map, left, last>>

Init ==
  /\ map = {}
  /\ left = {}
  /\ last = [op |-> "none"]

Returns(op, k, c) == last' = [op |-> op, key |-> k, conn |-> c]

Insert(k, c) ==
  /\ \A d \in map : d.key # k
  /\ map' = map \cup {[key |-> k, conn |-> c]}
  /\ Returns("insert", k, c)
  /\ UNCHANGED left

Find(k, c) ==
  /\ [key |-> k, conn |-> c] \in map
  /\ Returns("find", k, c)
  /\ UNCHANGED <<map, left>>

Remove(k, c) ==
  /\ [key |-> k, conn |-> c] \in map
  /\ map' = map \ {[key |-> k, conn |-> c]}
  /\ left' = left \cup {Bucket[k]}
  /\ Returns("remove", k, c)

Miss(op, k) ==
  /\ Bucket[k] \in left
  /\ Returns(op, k, NoConn)
  /\ UNCHANGED <<map, left>>

Next ==
  \E k \in Keys :
    \/ \E c \in Conns : Insert(k, c) \/ Find(k, c) \/ Remove(k, c)
    \/ \E op \in {"find", "remove"} : Miss(op, k)

Spec == Init /\ [][Next]_vars
=============================================================================
